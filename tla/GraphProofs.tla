---------------------------- MODULE GraphProofs ----------------------------
(***************************************************************************)
(* Proofs about KnowledgeGraph, for any finite set of ids and any sets of  *)
(* relationships, paths and labels, and, after them, about                 *)
(* IncrementalGraph, for any tree of directories and any files, contents   *)
(* and references.                                                         *)
(***************************************************************************)
EXTENDS IncrementalGraph, FiniteSetTheorems, WellFoundedInduction, TLAPS

(* Removing the nodes of S from a path's nodes is removing S from them.    *)
LEMMA InFileWithout ==
  ASSUME NEW ns \in [Ids -> Nodes \union {NoNode}], NEW S, NEW f \in Paths
  PROVE  InFile(WithoutNodes(ns, S), f) = InFile(ns, f) \ S
BY GraphAssumption DEF InFile, NodeIds, WithoutNodes

(* An inserted node is found under its path, and under no other.           *)
LEMMA InFileWith ==
  ASSUME NEW ns \in [Ids -> Nodes \union {NoNode}],
         NEW id \in Ids, NEW node \in Nodes, NEW f \in Paths
  PROVE  InFile(WithNode(ns, id, node), f) =
           IF f = node.file_path THEN InFile(ns, f) \union {id}
           ELSE InFile(ns, f) \ {id}
<1>1. node # NoNode
  BY GraphAssumption
<1> QED
  BY <1>1 DEF InFile, NodeIds, WithNode

-----------------------------------------------------------------------------
(* The three maps stay maps of nodes, relationships and ids.               *)
THEOREM TypeCorrect == Spec => []TypeOK
<1>1. Init => TypeOK
  BY DEF Init, TypeOK
<1>2. TypeOK /\ [Next]_graph => TypeOK'
  <2> SUFFICES ASSUME TypeOK, [Next]_graph
               PROVE  TypeOK'
    OBVIOUS
  <2> USE DEF TypeOK
  <2>1. ASSUME NEW S
        PROVE  /\ WithoutNodes(nodes, S) \in [Ids -> Nodes \union {NoNode}]
               /\ Retained(relationships, S) \in [RelIds -> Rels \union {NoRel}]
               /\ IndexWithoutNodes(file_index, nodes, S) \in [Paths -> SUBSET Ids]
    BY DEF WithoutNodes, Retained, IndexWithoutNodes
  <2>2. ASSUME NEW id \in Ids, NEW node \in Nodes, add_node(id, node)
        PROVE  TypeOK'
    BY <2>2 DEF add_node, WithNode, IndexWithNode
  <2>3. ASSUME NEW id \in Ids, remove_node(id)
        PROVE  TypeOK'
    BY <2>1, <2>3 DEF remove_node
  <2>4. ASSUME NEW f \in Paths, remove_nodes_by_file(f)
        PROVE  TypeOK'
    BY <2>1, <2>4 DEF remove_nodes_by_file
  <2>5. ASSUME NEW label \in Labels, remove_nodes_by_label(label)
        PROVE  TypeOK'
    BY <2>1, <2>5 DEF remove_nodes_by_label
  <2>6. CASE remove_empty_folders
    BY <2>1, <2>6 DEF remove_empty_folders
  <2>7. ASSUME NEW r \in RelIds, NEW rel \in Rels, add_relationship(r, rel)
        PROVE  TypeOK'
    BY <2>7 DEF add_relationship
  <2>8. ASSUME NEW r \in RelIds, remove_relationship(r)
        PROVE  TypeOK'
    BY <2>8 DEF remove_relationship
  <2>9. CASE UNCHANGED graph
    BY <2>9 DEF graph
  <2> QED
    BY <2>2, <2>3, <2>4, <2>5, <2>6, <2>7, <2>8, <2>9 DEF Next
<1> QED
  BY <1>1, <1>2, PTL DEF Spec

-----------------------------------------------------------------------------
(* A removal that goes through the nodes keeps the index exact.            *)
LEMMA RemovalKeepsIndex ==
  ASSUME TypeOK, IndexExact, NEW S, NEW f \in Paths
  PROVE  IndexWithoutNodes(file_index, nodes, S)[f] = InFile(WithoutNodes(nodes, S), f)
<1>1. InFile(WithoutNodes(nodes, S), f) = InFile(nodes, f) \ S
  BY InFileWithout DEF TypeOK
<1> QED
  BY <1>1 DEF IndexWithoutNodes, IndexExact

(* Every method keeps file_index exact.                                    *)
LEMMA IndexStep == TypeOK /\ IndexExact /\ [Next]_graph => IndexExact'
<1> SUFFICES ASSUME TypeOK, IndexExact, [Next]_graph, NEW f \in Paths
             PROVE  file_index'[f] = InFile(nodes', f)
  BY DEF IndexExact
<1>1. ASSUME NEW id \in Ids, NEW node \in Nodes, add_node(id, node)
      PROVE  file_index'[f] = InFile(nodes', f)
  <2>1. InFile(nodes', f) = IF f = node.file_path THEN InFile(nodes, f) \union {id}
                            ELSE InFile(nodes, f) \ {id}
    BY <1>1, InFileWith DEF add_node, TypeOK
  <2>2. f # node.file_path /\ id \in InFile(nodes, f)
          => nodes[id] # NoNode /\ f = nodes[id].file_path
    BY DEF InFile, NodeIds
  <2> QED
    BY <1>1, <2>1, <2>2 DEF add_node, IndexWithNode, IndexExact
<1>2. ASSUME NEW id \in Ids, remove_node(id)
      PROVE  file_index'[f] = InFile(nodes', f)
  BY <1>2, RemovalKeepsIndex DEF remove_node
<1>3. ASSUME NEW g \in Paths, remove_nodes_by_file(g)
      PROVE  file_index'[f] = InFile(nodes', f)
  <2>1. InFile(nodes', f) = InFile(nodes, f) \ file_index[g]
    BY <1>3, InFileWithout DEF remove_nodes_by_file, TypeOK
  <2>2. f # g => InFile(nodes, f) \intersect InFile(nodes, g) = {}
    BY DEF InFile
  <2> QED
    BY <1>3, <2>1, <2>2 DEF remove_nodes_by_file, TypeOK, IndexExact
<1>4. ASSUME NEW label \in Labels, remove_nodes_by_label(label)
      PROVE  file_index'[f] = InFile(nodes', f)
  BY <1>4, RemovalKeepsIndex DEF remove_nodes_by_label
<1>5. CASE remove_empty_folders
  BY <1>5, RemovalKeepsIndex DEF remove_empty_folders
<1>6. ASSUME NEW r \in RelIds, NEW rel \in Rels, add_relationship(r, rel)
      PROVE  file_index'[f] = InFile(nodes', f)
  BY <1>6 DEF add_relationship, IndexExact
<1>7. ASSUME NEW r \in RelIds, remove_relationship(r)
      PROVE  file_index'[f] = InFile(nodes', f)
  BY <1>7 DEF remove_relationship, IndexExact
<1>8. CASE UNCHANGED graph
  BY <1>8 DEF graph, IndexExact
<1> QED
  BY <1>1, <1>2, <1>3, <1>4, <1>5, <1>6, <1>7, <1>8 DEF Next

(* Whatever calls are made, file_index lists under every path exactly the  *)
(* nodes that name it.                                                     *)
THEOREM IndexIsExact == Spec => []IndexExact
<1>1. Init => IndexExact
  BY DEF Init, IndexExact, InFile, NodeIds
<1> QED
  BY <1>1, TypeCorrect, IndexStep, PTL DEF Spec

-----------------------------------------------------------------------------
(* A relationship that survives the removal of S touches nothing of S.     *)
LEMMA RetainedKeeps ==
  ASSUME TypeOK, NEW S, NEW r \in RelIds, Retained(relationships, S)[r] # NoRel
  PROVE  /\ Retained(relationships, S)[r] = relationships[r]
         /\ Dangling(WithoutNodes(nodes, S), relationships[r])
              => Dangling(nodes, relationships[r])
<1>1. /\ Retained(relationships, S)[r] = relationships[r]
      /\ relationships[r] # NoRel
      /\ ~Touches(relationships[r], S)
  BY DEF Retained
<1>2. relationships[r].source_id \in Ids /\ relationships[r].target_id \in Ids
  BY <1>1 DEF TypeOK, Rels
<1> QED
  BY <1>1, <1>2 DEF Touches, Dangling, WithoutNodes

(* No method that removes nodes leaves a relationship to them behind.      *)
THEOREM NoneDangle == Spec => NoneLeftDangling
<1> DEFINE Keeps ==
      \A r \in RelIds :
        (relationships'[r] # NoRel /\ Dangling(nodes', relationships'[r]))
          => \/ relationships'[r] # relationships[r]
             \/ Dangling(nodes, relationships[r])
<1>1. TypeOK /\ [Next]_graph => [Keeps]_graph
  <2> SUFFICES ASSUME TypeOK, Next, NEW r \in RelIds,
                      relationships'[r] # NoRel,
                      Dangling(nodes', relationships'[r]),
                      relationships'[r] = relationships[r]
               PROVE  Dangling(nodes, relationships[r])
    OBVIOUS
  <2>1. ASSUME NEW id \in Ids, NEW node \in Nodes, add_node(id, node)
        PROVE  Dangling(nodes, relationships[r])
    <3>1. relationships[r].source_id \in Ids /\ relationships[r].target_id \in Ids
      BY DEF TypeOK, Rels
    <3>2. node # NoNode
      BY GraphAssumption
    <3> QED
      BY <2>1, <3>1, <3>2 DEF add_node, WithNode, Dangling, TypeOK
  <2>2. ASSUME NEW S, nodes' = WithoutNodes(nodes, S),
               relationships' = Retained(relationships, S)
        PROVE  Dangling(nodes, relationships[r])
    BY <2>2, RetainedKeeps
  <2>3. ASSUME NEW id \in Ids, remove_node(id)
        PROVE  Dangling(nodes, relationships[r])
    BY <2>2, <2>3 DEF remove_node
  <2>4. ASSUME NEW f \in Paths, remove_nodes_by_file(f)
        PROVE  Dangling(nodes, relationships[r])
    BY <2>2, <2>4 DEF remove_nodes_by_file
  <2>5. ASSUME NEW label \in Labels, remove_nodes_by_label(label)
        PROVE  Dangling(nodes, relationships[r])
    BY <2>2, <2>5 DEF remove_nodes_by_label
  <2>6. CASE remove_empty_folders
    BY <2>2, <2>6 DEF remove_empty_folders
  <2>7. CASE \/ \E q \in RelIds, rel \in Rels : add_relationship(q, rel)
             \/ \E q \in RelIds : remove_relationship(q)
    BY <2>7 DEF add_relationship, remove_relationship
  <2> QED
    BY <2>1, <2>3, <2>4, <2>5, <2>6, <2>7 DEF Next
<1> QED
  BY <1>1, TypeCorrect, PTL DEF Spec, NoneLeftDangling

-----------------------------------------------------------------------------
(* remove_empty_folders.  The rounds of its loop are a recursive function: *)
(* that there is one is shown by least counterexamples.                    *)

(* A set of numbers that is not empty has a least one.                     *)
LEMMA Least ==
  ASSUME NEW S \in SUBSET Nat, S # {}
  PROVE  \E n \in S : \A m \in S : n <= m
<1>1. PICK n \in S : \A m \in S : <<m, n>> \notin OpToRel(<, Nat)
  BY NatLessThanWellFounded, WFMin
<1>2. \A m \in S : ~(m < n)
  BY <1>1 DEF OpToRel
<1>3. n \in Nat /\ \A m \in S : m \in Nat
  OBVIOUS
<1> QED
  BY <1>2, <1>3

(* What has been removed after one more round.                             *)
Round(ns, rs, before) ==
  before \union EmptyFolders(WithoutNodes(ns, before), Retained(rs, before))

(* p follows the rounds up to m.                                           *)
Rounds(p, m, ns, rs) ==
  \A n \in 0 .. m : p[n] = IF n = 0 THEN {} ELSE Round(ns, rs, p[n - 1])

LEMMA RoundsAgree ==
  ASSUME NEW ns, NEW rs, NEW p, NEW q, NEW m \in Nat, NEW k \in Nat,
         Rounds(p, m, ns, rs), Rounds(q, k, ns, rs)
  PROVE  \A n \in Nat : n <= m /\ n <= k => p[n] = q[n]
<1> DEFINE Bad == {n \in Nat : n <= m /\ n <= k /\ p[n] # q[n]}
<1> SUFFICES ASSUME Bad # {} PROVE FALSE
  OBVIOUS
<1>1. PICK n \in Bad : \A i \in Bad : n <= i
  BY Least
<1>2. n # 0 => n - 1 \in Nat /\ p[n - 1] = q[n - 1]
  BY <1>1
<1>3. n \in 0 .. m /\ n \in 0 .. k
  OBVIOUS
<1>4. /\ p[n] = IF n = 0 THEN {} ELSE Round(ns, rs, p[n - 1])
      /\ q[n] = IF n = 0 THEN {} ELSE Round(ns, rs, q[n - 1])
  BY <1>3 DEF Rounds
<1> QED
  BY <1>2, <1>4

LEMMA RoundsExist ==
  ASSUME NEW ns, NEW rs
  PROVE  \A m \in Nat : \E p : Rounds(p, m, ns, rs)
<1> DEFINE Bad == {m \in Nat : ~\E p : Rounds(p, m, ns, rs)}
<1> SUFFICES ASSUME Bad # {} PROVE FALSE
  OBVIOUS
<1>1. PICK m \in Bad : \A i \in Bad : m <= i
  BY Least
<1>2. m # 0
  <2>1. Rounds([n \in 0 .. 0 |-> {}], 0, ns, rs)
    BY DEF Rounds
  <2> QED
    BY <1>1, <2>1
<1>3. PICK p : Rounds(p, m - 1, ns, rs)
  BY <1>1, <1>2
<1> DEFINE q == [n \in 0 .. m |-> IF n = m THEN Round(ns, rs, p[m - 1]) ELSE p[n]]
<1>4. ASSUME NEW n \in 0 .. m
      PROVE  q[n] = IF n = 0 THEN {} ELSE Round(ns, rs, q[n - 1])
  <2>1. CASE n = m
    <3>1. q[m] = Round(ns, rs, p[m - 1]) /\ q[m - 1] = p[m - 1]
      BY <1>2
    <3> QED
      BY <1>2, <2>1, <3>1
  <2>2. CASE n # m
    <3>1. n \in 0 .. (m - 1) /\ q[n] = p[n]
      BY <2>2
    <3>2. n # 0 => q[n - 1] = p[n - 1]
      BY <3>1
    <3> QED
      BY <1>3, <3>1, <3>2 DEF Rounds
  <2> QED
    BY <2>1, <2>2
<1>5. Rounds(q, m, ns, rs)
  BY <1>4 DEF Rounds
<1> QED
  BY <1>1, <1>5

LEMMA PrunedEquation ==
  ASSUME NEW ns, NEW rs
  PROVE  PrunedAfter(ns, rs) =
           [n \in Nat |-> IF n = 0 THEN {} ELSE Round(ns, rs, PrunedAfter(ns, rs)[n - 1])]
<1> DEFINE Equation(p) == p = [n \in Nat |-> IF n = 0 THEN {} ELSE Round(ns, rs, p[n - 1])]
           A(m) == CHOOSE p : Rounds(p, m, ns, rs)
           g == [n \in Nat |-> A(n)[n]]
<1>1. \A m \in Nat : Rounds(A(m), m, ns, rs)
  BY RoundsExist
<1>2. ASSUME NEW n \in Nat, n # 0
      PROVE  A(n)[n - 1] = g[n - 1]
  <2>1. n - 1 \in Nat /\ Rounds(A(n), n, ns, rs) /\ Rounds(A(n - 1), n - 1, ns, rs)
    BY <1>1, <1>2
  <2>2. \A i \in Nat : i <= n /\ i <= n - 1 => A(n)[i] = A(n - 1)[i]
    BY <2>1, RoundsAgree
  <2> QED
    BY <2>1, <2>2
<1> HIDE DEF A
<1>3. ASSUME NEW n \in Nat
      PROVE  g[n] = IF n = 0 THEN {} ELSE Round(ns, rs, g[n - 1])
  <2>1. A(n)[n] = IF n = 0 THEN {} ELSE Round(ns, rs, A(n)[n - 1])
    BY <1>1 DEF Rounds
  <2> QED
    BY <1>2, <2>1
<1>4. Equation(g)
  BY <1>3
<1>5. PrunedAfter(ns, rs) = CHOOSE p : Equation(p)
  BY DEF PrunedAfter, Round
<1>6. Equation(CHOOSE p : Equation(p))
  BY <1>4
<1> QED
  BY <1>5, <1>6

LEMMA PrunedValues ==
  ASSUME NEW ns, NEW rs
  PROVE  /\ PrunedAfter(ns, rs)[0] = {}
         /\ \A n \in Nat : PrunedAfter(ns, rs)[n + 1] = Round(ns, rs, PrunedAfter(ns, rs)[n])
<1> DEFINE P == PrunedAfter(ns, rs)
<1> HIDE DEF P
<1>1. P = [n \in Nat |-> IF n = 0 THEN {} ELSE Round(ns, rs, P[n - 1])]
  BY PrunedEquation DEF P
<1>2. P[0] = {}
  BY <1>1
<1>3. ASSUME NEW n \in Nat PROVE P[n + 1] = Round(ns, rs, P[n])
  <2>1. n + 1 \in Nat /\ n + 1 # 0 /\ (n + 1) - 1 = n
    OBVIOUS
  <2> QED
    BY <1>1, <2>1
<1> QED
  BY <1>2, <1>3 DEF P

NodeMaps == [Ids -> Nodes \union {NoNode}]
RelMaps  == [RelIds -> Rels \union {NoRel}]

(* HoldsUp, of any graph.                                                  *)
HoldsUpIn(ns, rs, S) ==
  \A id \in S : \E r \in RelIds :
    /\ rs[r] # NoRel
    /\ rs[r].contains
    /\ rs[r].source_id = id
    /\ rs[r].target_id \notin Folders(ns) \ S

(* A round takes the folders that have no relationship left to what is not *)
(* removed yet.                                                            *)
LEMMA RoundTakes ==
  ASSUME NEW ns \in NodeMaps, NEW rs \in RelMaps, NEW B \in SUBSET Folders(ns)
  PROVE  Round(ns, rs, B) =
           B \union {id \in Folders(ns) : ~\E r \in RelIds :
                       /\ rs[r] # NoRel
                       /\ rs[r].contains
                       /\ rs[r].source_id = id
                       /\ rs[r].target_id \notin B}
<1> DEFINE Free == {id \in Folders(ns) : ~\E r \in RelIds :
                      /\ rs[r] # NoRel
                      /\ rs[r].contains
                      /\ rs[r].source_id = id
                      /\ rs[r].target_id \notin B}
           left == WithoutNodes(ns, B)
           kept == Retained(rs, B)
<1>1. Folders(left) = Folders(ns) \ B
  BY DEF Folders, NodeIds, WithoutNodes
<1>2. ASSUME NEW id \in Ids, id \notin B
      PROVE  id \in HasChild(kept) <=>
               \E r \in RelIds : /\ rs[r] # NoRel
                                 /\ rs[r].contains
                                 /\ rs[r].source_id = id
                                 /\ rs[r].target_id \notin B
  <2>1. \A r \in RelIds :
          kept[r] = IF rs[r] # NoRel /\ Touches(rs[r], B)
                  THEN NoRel ELSE rs[r]
    BY DEF Retained
  <2>2. id \in HasChild(kept) <=>
          \E r \in RelIds : kept[r] # NoRel /\ kept[r].contains /\ kept[r].source_id = id
    BY DEF HasChild
  <2> HIDE DEF kept
  <2> QED
    BY <1>2, <2>1, <2>2 DEF Touches
<1>3. Folders(ns) \subseteq Ids
  BY DEF Folders, NodeIds
<1>4. \A id \in Folders(ns) \ B : id \in EmptyFolders(left, kept) <=> id \in Free
  BY <1>1, <1>2, <1>3 DEF EmptyFolders
<1>5. EmptyFolders(left, kept) \subseteq Folders(ns) \ B
  BY <1>1 DEF EmptyFolders
<1>6. B \union EmptyFolders(left, kept) = B \union Free
  BY <1>4, <1>5
<1> QED
  BY <1>6 DEF Round

(* The rounds stay among the folders.                                      *)
LEMMA PrunedAreFolders ==
  ASSUME NEW ns \in NodeMaps, NEW rs \in RelMaps
  PROVE  \A n \in Nat : PrunedAfter(ns, rs)[n] \in SUBSET Folders(ns)
<1> DEFINE P == PrunedAfter(ns, rs)
           Bad == {n \in Nat : P[n] \notin SUBSET Folders(ns)}
<1> SUFFICES ASSUME Bad # {} PROVE FALSE
  OBVIOUS
<1>1. PICK n \in Bad : \A i \in Bad : n <= i
  BY Least
<1>2. n # 0
  BY <1>1, PrunedValues
<1>3. n - 1 \in Nat /\ P[n - 1] \in SUBSET Folders(ns) /\ (n - 1) + 1 = n
  BY <1>1, <1>2
<1>4. P[n] = Round(ns, rs, P[n - 1])
  <2> HIDE DEF P
  <2>1. \A i \in Nat : P[i + 1] = Round(ns, rs, P[i])
    BY PrunedValues DEF P
  <2> QED
    BY <1>3, <2>1
<1> HIDE DEF P
<1>5. P[n] \subseteq Folders(ns)
  BY <1>3, <1>4, RoundTakes
<1> QED
  BY <1>5

(* What holds itself up is never taken.                                    *)
LEMMA HeldStays ==
  ASSUME NEW ns \in NodeMaps, NEW rs \in RelMaps, NEW S \in SUBSET Folders(ns), HoldsUpIn(ns, rs, S)
  PROVE  \A n \in Nat : PrunedAfter(ns, rs)[n] \intersect S = {}
<1> DEFINE P == PrunedAfter(ns, rs)
           Bad == {n \in Nat : P[n] \intersect S # {}}
<1> HIDE DEF P
<1>1. P[0] = {} /\ \A i \in Nat : P[i + 1] = Round(ns, rs, P[i])
  BY PrunedValues DEF P
<1>2. \A i \in Nat : P[i] \in SUBSET Folders(ns)
  BY PrunedAreFolders DEF P
<1> SUFFICES ASSUME Bad # {} PROVE FALSE
  BY DEF P
<1>3. PICK n \in Bad : \A i \in Bad : n <= i
  BY Least
<1>4. n # 0
  BY <1>1, <1>3
<1>5. n - 1 \in Nat /\ (n - 1) + 1 = n /\ P[n - 1] \intersect S = {}
  BY <1>3, <1>4
<1>6. P[n] = Round(ns, rs, P[n - 1]) /\ P[n - 1] \in SUBSET Folders(ns)
  BY <1>1, <1>2, <1>5
<1>7. PICK id \in S : id \in P[n] /\ id \notin P[n - 1]
  BY <1>3, <1>5
<1>8. ~\E r \in RelIds : /\ rs[r] # NoRel
                         /\ rs[r].contains
                         /\ rs[r].source_id = id
                         /\ rs[r].target_id \notin P[n - 1]
  BY <1>6, <1>7, RoundTakes
<1>9. P[n - 1] \subseteq Folders(ns) \ S
  BY <1>5, <1>6
<1> QED
  BY <1>7, <1>8, <1>9 DEF HoldsUpIn

(* A round takes a folder, or the loop has ended: after as many rounds as  *)
(* there are folders it has.                                               *)
LEMMA RoundsEnd ==
  ASSUME NEW ns \in NodeMaps, NEW rs \in RelMaps
  PROVE  LET B == Prunable(ns, rs)
         IN  B \in SUBSET Folders(ns) /\ Round(ns, rs, B) = B
<1> DEFINE P == PrunedAfter(ns, rs)
           F == Cardinality(Folders(ns))
           Ended(n) == Round(ns, rs, P[n]) = P[n]
           Bad == {n \in Nat : ~Ended(n) /\ ~(Cardinality(P[n]) >= n)}
<1> HIDE DEF P
<1>1. P[0] = {} /\ \A i \in Nat : P[i + 1] = Round(ns, rs, P[i])
  BY PrunedValues DEF P
<1>2. \A i \in Nat : P[i] \in SUBSET Folders(ns)
  BY PrunedAreFolders DEF P
<1>3. IsFiniteSet(Folders(ns))
  BY GraphAssumption, FS_Subset DEF Folders, NodeIds
<1>4. \A i \in Nat : IsFiniteSet(P[i]) /\ Cardinality(P[i]) \in Nat
  BY <1>2, <1>3, FS_Subset, FS_CardinalityType
<1>5. F \in Nat
  BY <1>3, FS_CardinalityType
<1>6. Bad = {}
  <2> SUFFICES ASSUME Bad # {} PROVE FALSE
    OBVIOUS
  <2> HIDE DEF Ended
  <2>1. PICK n \in Bad : \A i \in Bad : n <= i
    BY Least
  <2>2. n # 0
    BY <1>1, <1>4, <2>1, FS_EmptySet
  <2>3. n - 1 \in Nat /\ (n - 1) + 1 = n /\ n - 1 \notin Bad
    BY <2>1, <2>2
  <2>4. P[n] = Round(ns, rs, P[n - 1])
    BY <1>1, <2>3
  <2>5. ~Ended(n - 1)
    BY <2>1, <2>4 DEF Ended
  <2>6. Cardinality(P[n - 1]) >= n - 1
    BY <2>3, <2>5
  <2>7. P[n - 1] \subseteq P[n] /\ P[n - 1] # P[n]
    BY <2>4, <2>5 DEF Ended, Round
  <2>8. Cardinality(P[n - 1]) < Cardinality(P[n])
    BY <1>4, <2>3, <2>7, FS_Subset
  <2> QED
    BY <1>4, <2>1, <2>3, <2>6, <2>8
<1>7. P[F] \in SUBSET Folders(ns)
  BY <1>2, <1>5
<1>8. Ended(F)
  <2>1. CASE Cardinality(P[F]) >= F
    <3>1. P[F] = Folders(ns)
      BY <1>3, <1>4, <1>5, <1>7, <2>1, FS_Subset
    <3> QED
      BY <1>7, <3>1, RoundTakes
  <2> QED
    BY <1>5, <1>6, <2>1
<1>9. Prunable(ns, rs) = P[F]
  BY DEF Prunable, P
<1> QED
  BY <1>7, <1>8, <1>9

(* The rounds take what holds nothing up, and no more.                     *)
LEMMA PrunableExact ==
  ASSUME TypeOK
  PROVE  Prunable(nodes, relationships) = Folders(nodes) \ Held
<1> DEFINE B == Prunable(nodes, relationships)
<1> HIDE DEF B
<1>1. B \in SUBSET Folders(nodes) /\ Round(nodes, relationships, B) = B
  BY RoundsEnd DEF B, TypeOK, NodeMaps, RelMaps
<1>2. B \intersect Held = {}
  <2>1. IsFiniteSet(Folders(nodes))
    BY GraphAssumption, FS_Subset DEF Folders, NodeIds
  <2>2. Cardinality(Folders(nodes)) \in Nat
    BY <2>1, FS_CardinalityType
  <2>3. \A S \in SUBSET Folders(nodes) : HoldsUp(S) => B \intersect S = {}
    BY <2>2, HeldStays DEF B, Prunable, HoldsUp, HoldsUpIn, TypeOK, NodeMaps, RelMaps
  <2> QED
    BY <2>3 DEF Held
<1>3. HoldsUp(Folders(nodes) \ B)
  <2> SUFFICES ASSUME NEW id \in Folders(nodes) \ B
               PROVE  \E r \in RelIds :
                        /\ relationships[r] # NoRel
                        /\ relationships[r].contains
                        /\ relationships[r].source_id = id
                        /\ relationships[r].target_id \notin B
    BY <1>1 DEF HoldsUp
  <2> QED
    BY <1>1, RoundTakes DEF TypeOK, NodeMaps, RelMaps
<1>4. Folders(nodes) \ B \subseteq Held
  BY <1>3 DEF Held
<1> QED
  BY <1>1, <1>2, <1>4 DEF B

(* remove_empty_folders removes, whatever the graph, every folder that     *)
(* contains nothing but folders that are removed with it, and no other     *)
(* node.                                                                   *)
THEOREM PruningIsExact == Spec => PruneExact
<1> DEFINE Exact ==
      remove_empty_folders =>
        \A id \in Ids :
          nodes'[id] = IF id \in Folders(nodes) \ Held THEN NoNode ELSE nodes[id]
<1>1. TypeOK /\ [Next]_graph => [Exact]_graph
  <2> SUFFICES ASSUME TypeOK, remove_empty_folders, NEW id \in Ids
               PROVE  nodes'[id] = IF id \in Folders(nodes) \ Held THEN NoNode ELSE nodes[id]
    OBVIOUS
  <2>1. nodes' = WithoutNodes(nodes, Folders(nodes) \ Held)
    BY PrunableExact DEF remove_empty_folders
  <2> QED
    BY <2>1 DEF WithoutNodes
<1> QED
  BY <1>1, TypeCorrect, PTL DEF Spec, PruneExact

-----------------------------------------------------------------------------
(* IncrementalGraph: what its ids name, and which ids a set of files has.  *)

LEMMA IdsNamed ==
  /\ \A f \in Files : FileId(f) \in Ids
  /\ \A d \in Dirs : FolderId(d) \in Ids
  /\ \A f \in Files, s \in PartNames : PartId(f, s) \in Ids
  /\ \A f \in Code, m \in MarkNames : MarkId(f, m) \in Ids
  /\ CommunityId \in Ids
  /\ \A id \in Ids : \/ \E f \in Files : id = FileId(f)
                     \/ \E d \in Dirs : id = FolderId(d)
                     \/ \E f \in Files, s \in PartNames : id = PartId(f, s)
                     \/ \E f \in Code, m \in MarkNames : id = MarkId(f, m)
                     \/ id = CommunityId
BY IncrementalAssumption DEF AllIds

LEMMA IdParts ==
  /\ \A f : FileId(f)[1] = "File" /\ FileId(f)[2] = f
  /\ \A d : FolderId(d)[1] = "Folder" /\ FolderId(d)[2] = d
  /\ \A f, s : PartId(f, s)[1] = "Part" /\ PartId(f, s)[2] = f /\ PartId(f, s)[3] = s
  /\ \A f, m : MarkId(f, m)[1] = "Mark" /\ MarkId(f, m)[2] = f /\ MarkId(f, m)[3] = m
  /\ CommunityId[1] = "Community" /\ CommunityId[2] = Root
BY DEF FileId, FolderId, PartId, MarkId, CommunityId

LEMMA LabelsDiffer ==
  /\ "File" # "Folder" /\ "File" # "Part" /\ "File" # "Mark" /\ "File" # "Community"
  /\ "Folder" # "Part" /\ "Folder" # "Mark" /\ "Folder" # "Community"
  /\ "Part" # "Mark" /\ "Part" # "Community" /\ "Mark" # "Community"
OBVIOUS

LEMMA IdsTyped ==
  ASSUME NEW id \in Ids
  PROVE  /\ NodeOf(id) \in Nodes /\ NodeOf(id) # NoNode /\ NodeOf(id).file_path = id[2]
         /\ id[2] \in Paths
<1>1. id[1] \in {"File", "Folder", "Part", "Mark", "Community"} /\ id[2] \in Files \union Dirs \union {Root}
  BY IdsNamed, IdParts DEF Files
<1> QED
  BY <1>1, IncrementalAssumption, GraphAssumption DEF Nodes, NodeOf

LEMMA RelsNamed ==
  /\ \A x \in Files \union Dirs : Parent[x] # Root => ContainsRel(x) \in RelIds
  /\ \A f \in Files, s \in PartNames : DefinesRel(f, s) \in RelIds
  /\ \A f, g \in Files : RefersRel(f, g) \in RelIds
  /\ \A src \in Callers, g \in Code, s \in PartNames : CallsRel(src, g, s) \in RelIds
  /\ \A f \in Code, m \in MarkNames : BelongsRel(f, m) \in RelIds
  /\ \A f \in Code, s \in PartNames : MemberRel(f, s) \in RelIds
  /\ \A r \in RelIds : \/ \E x \in Files \union Dirs : Parent[x] # Root /\ r = ContainsRel(x)
                       \/ \E f \in Files, s \in PartNames : r = DefinesRel(f, s)
                       \/ \E f, g \in Files : r = RefersRel(f, g)
                       \/ \E src \in Callers, g \in Code, s \in PartNames : r = CallsRel(src, g, s)
                       \/ \E f \in Code, m \in MarkNames : r = BelongsRel(f, m)
                       \/ \E f \in Code, s \in PartNames : r = MemberRel(f, s)
BY IncrementalAssumption DEF AllRels

LEMMA RelParts ==
  /\ \A x : /\ ContainsRel(x)[1] = "contains"
            /\ ContainsRel(x)[2] = FolderId(Parent[x]) /\ ContainsRel(x)[3] = IdOf(x)
  /\ \A f, s : /\ DefinesRel(f, s)[1] = "defines"
               /\ DefinesRel(f, s)[2] = FileId(f) /\ DefinesRel(f, s)[3] = PartId(f, s)
  /\ \A f, g : /\ RefersRel(f, g)[1] = "refers"
               /\ RefersRel(f, g)[2] = FileId(f) /\ RefersRel(f, g)[3] = FileId(g)
  /\ \A src, g, s : /\ CallsRel(src, g, s)[1] = "calls"
                    /\ CallsRel(src, g, s)[2] = src /\ CallsRel(src, g, s)[3] = PartId(g, s)
  /\ \A f, m : /\ BelongsRel(f, m)[1] = "belongs"
               /\ BelongsRel(f, m)[2] = MarkId(f, m) /\ BelongsRel(f, m)[3] = FileId(f)
  /\ \A f, s : /\ MemberRel(f, s)[1] = "member"
               /\ MemberRel(f, s)[2] = PartId(f, s) /\ MemberRel(f, s)[3] = CommunityId
BY DEF ContainsRel, DefinesRel, RefersRel, CallsRel, BelongsRel, MemberRel

LEMMA KindsDiffer ==
  /\ "contains" # "defines" /\ "contains" # "refers" /\ "contains" # "calls"
  /\ "contains" # "belongs" /\ "contains" # "member"
  /\ "defines" # "refers" /\ "defines" # "calls" /\ "defines" # "belongs" /\ "defines" # "member"
  /\ "refers" # "calls" /\ "refers" # "belongs" /\ "refers" # "member"
  /\ "calls" # "belongs" /\ "calls" # "member" /\ "belongs" # "member"
OBVIOUS

(* A call is made by a file, or by a symbol, of the code.                  *)
LEMMA CallersAre ==
  /\ \A src \in Callers : src \in Ids /\ src[2] \in Code /\ src[2] \in Files
  /\ \A src \in Callers : \/ src = FileId(src[2])
                          \/ \E s \in PartNames : src = PartId(src[2], s)
BY IdsNamed, IdParts DEF Callers, Files

LEMMA IdOfNames ==
  /\ \A x \in Files \union Dirs : IdOf(x) \in Ids /\ IdOf(x)[2] = x
  /\ \A d \in Dirs : IdOf(d) = FolderId(d)
  /\ \A f \in Files : IdOf(f) = FileId(f)
BY IdsNamed, IdParts, IncrementalAssumption DEF IdOf

LEMMA ParentIsDir ==
  ASSUME NEW x \in Files \union Dirs
  PROVE  Parent[x] \in Dirs \union {Root} /\ (Parent[x] # Root => Parent[x] \in Dirs)
BY IncrementalAssumption

LEMMA RelsTyped ==
  ASSUME NEW r \in RelIds
  PROVE  /\ RelOf(r) \in Rels /\ RelOf(r) # NoRel
         /\ RelOf(r).source_id = r[2] /\ RelOf(r).target_id = r[3]
         /\ RelOf(r).contains <=> r[1] = "contains"
         /\ r[2] \in Ids /\ r[3] \in Ids
<1>1. r[2] \in Ids /\ r[3] \in Ids
  BY RelsNamed, RelParts, IdsNamed, IdOfNames, ParentIsDir, CallersAre DEF Files
<1>2. (r[1] = "contains") \in BOOLEAN
  OBVIOUS
<1>3. RelOf(r) \in Rels
  BY <1>1, <1>2 DEF Rels, RelOf
<1>4. RelOf(r) # NoRel
  BY <1>3, GraphAssumption
<1> QED
  BY <1>1, <1>3, <1>4 DEF RelOf

(* The folders above a path: Above is a recursive function, and there is   *)
(* one, since the least sets that are closed under Parent are its values.  *)
LEMMA AboveEquation ==
  \A x \in Files \union Dirs :
    Above[x] = IF Parent[x] = Root THEN {} ELSE {Parent[x]} \union Above[Parent[x]]
<1> DEFINE Equation(h) == h = [x \in Files \union Dirs |->
                                 IF Parent[x] = Root THEN {} ELSE {Parent[x]} \union h[Parent[x]]]
           Closed(x, A) == /\ Parent[x] # Root => Parent[x] \in A
                           /\ \A d \in A : Parent[d] # Root => Parent[d] \in A
           Least0(x) == {d \in Dirs : \A A \in SUBSET Dirs : Closed(x, A) => d \in A}
           g == [x \in Files \union Dirs |-> Least0(x)]
<1>1. ASSUME NEW x \in Files \union Dirs
      PROVE  Least0(x) = IF Parent[x] = Root THEN {} ELSE {Parent[x]} \union Least0(Parent[x])
  <2>1. CASE Parent[x] = Root
    <3>1. Closed(x, {})
      BY <2>1
    <3> QED
      BY <2>1, <3>1
  <2>2. CASE Parent[x] # Root
    <3> DEFINE p == Parent[x]
    <3>1. p \in Dirs
      BY <2>2, ParentIsDir
    <3>2. ASSUME NEW A \in SUBSET Dirs, Closed(x, A)
          PROVE  p \in A /\ Closed(p, A)
      BY <2>2, <3>2
    <3>3. {p} \union Least0(p) \subseteq Least0(x)
      <4> HIDE DEF Closed, p
      <4> QED
        BY <3>1, <3>2
    <3>4. ASSUME NEW A \in SUBSET Dirs, Closed(p, A)
          PROVE  {p} \union A \in SUBSET Dirs /\ Closed(x, {p} \union A)
      BY <2>2, <3>1, <3>4
    <3>5. Least0(x) \subseteq {p} \union Least0(p)
      <4> HIDE DEF Closed, p
      <4> SUFFICES ASSUME NEW d \in Least0(x), d # p, NEW A \in SUBSET Dirs, Closed(p, A)
                   PROVE  d \in A
        OBVIOUS
      <4>1. {p} \union A \in SUBSET Dirs /\ Closed(x, {p} \union A)
        BY <3>4
      <4> QED
        BY <4>1
    <3> HIDE DEF Least0
    <3> QED
      BY <2>2, <3>3, <3>5
  <2> QED
    BY <2>1, <2>2
<1> HIDE DEF Least0
<1>2. Equation(g)
  BY <1>1, ParentIsDir
<1>3. Above = CHOOSE h : Equation(h)
  BY DEF Above
<1>4. Equation(CHOOSE h : Equation(h))
  BY <1>2
<1> QED
  BY <1>3, <1>4

(* They are directories; with a directory there is its parent, and the     *)
(* path itself or one of them is in it.                                    *)
LEMMA AboveClosed ==
  \A x \in Files \union Dirs :
    /\ Above[x] \subseteq Dirs
    /\ Parent[x] # Root => Parent[x] \in Above[x]
    /\ \A d \in Above[x] : Parent[d] # Root => Parent[d] \in Above[x]
    /\ \A d \in Above[x] : d = Parent[x] \/ \E y \in Above[x] : d = Parent[y]
<1>1. PICK depth \in [Files \union Dirs -> 0 .. Cardinality(Dirs)] :
        \A x \in Files \union Dirs : Parent[x] # Root => depth[Parent[x]] < depth[x]
  BY IncrementalAssumption
<1>2. Cardinality(Dirs) \in Nat
  BY IncrementalAssumption, FS_CardinalityType
<1>3. \A x \in Files \union Dirs : depth[x] \in Nat
  BY <1>1, <1>2
<1> DEFINE Good(x) == /\ Above[x] \subseteq Dirs
                      /\ Parent[x] # Root => Parent[x] \in Above[x]
                      /\ \A d \in Above[x] : Parent[d] # Root => Parent[d] \in Above[x]
                      /\ \A d \in Above[x] : d = Parent[x] \/ \E y \in Above[x] : d = Parent[y]
           Bad == {n \in Nat : \E x \in Files \union Dirs : depth[x] = n /\ ~Good(x)}
<1>4. Bad = {}
  <2> SUFFICES ASSUME Bad # {} PROVE FALSE
    OBVIOUS
  <2>1. PICK n \in Bad : \A i \in Bad : n <= i
    BY Least
  <2>2. PICK x \in Files \union Dirs : depth[x] = n /\ ~Good(x)
    BY <2>1
  <2>3. Parent[x] # Root /\ Parent[x] \in Dirs
    <3>1. Parent[x] = Root => Above[x] = {}
      BY AboveEquation
    <3> QED
      BY <2>2, <3>1, ParentIsDir
  <2>4. Above[x] = {Parent[x]} \union Above[Parent[x]]
    BY <2>3, AboveEquation
  <2>5. Good(Parent[x])
    <3>1. depth[Parent[x]] < depth[x] /\ depth[Parent[x]] \in Nat
      BY <1>1, <1>3, <2>3
    <3>2. depth[Parent[x]] \notin Bad
      BY <2>1, <2>2, <3>1
    <3> HIDE DEF Good
    <3> QED
      BY <2>3, <3>1, <3>2
  <2> QED
    BY <2>2, <2>3, <2>4, <2>5
<1> HIDE DEF Good
<1>5. \A x \in Files \union Dirs : Good(x)
  BY <1>3, <1>4
<1> QED
  BY <1>5 DEF Good

(* The ids of a set of files: the files, their parts, the folders above.   *)
LEMMA NewIdsAre ==
  ASSUME NEW t, NEW S \in SUBSET Files
  PROVE  /\ \A f \in Files : FileId(f) \in NewIds(t, S) <=> f \in S
         /\ \A d \in Dirs : FolderId(d) \in NewIds(t, S) <=> \E f \in S : d \in Above[f]
         /\ \A f \in Files : \A s : PartId(f, s) \in NewIds(t, S) <=> f \in S /\ s \in t[f].parts
         /\ \A f, m : MarkId(f, m) \notin NewIds(t, S)
         /\ CommunityId \notin NewIds(t, S)
<1>1. ASSUME NEW id
      PROVE  id \in NewIds(t, S) <=>
               \E f \in S : \/ id = FileId(f)
                            \/ \E d \in Above[f] : id = FolderId(d)
                            \/ \E s \in t[f].parts : id = PartId(f, s)
  <2>1. \A f \in S : \A x \in Chain(f) : x = f \/ x \in Above[f]
    BY DEF Chain
  <2>2. \A f \in S : f \in Chain(f) /\ Above[f] \subseteq Chain(f)
    BY DEF Chain
  <2>3. \A f \in S : IdOf(f) = FileId(f) /\ \A d \in Above[f] : IdOf(d) = FolderId(d)
    BY IdOfNames, AboveClosed
  <2> QED
    BY <2>1, <2>2, <2>3 DEF NewIds
<1>2. ASSUME NEW f \in Files
      PROVE  FileId(f) \in NewIds(t, S) <=> f \in S
  BY <1>1, LabelsDiffer, IdParts
<1>3. ASSUME NEW d \in Dirs
      PROVE  FolderId(d) \in NewIds(t, S) <=> \E f \in S : d \in Above[f]
  BY <1>1, LabelsDiffer, IdParts
<1>4. ASSUME NEW f \in Files, NEW s
      PROVE  PartId(f, s) \in NewIds(t, S) <=> f \in S /\ s \in t[f].parts
  BY <1>1, LabelsDiffer, IdParts
<1>5. ASSUME NEW f, NEW m
      PROVE  MarkId(f, m) \notin NewIds(t, S) /\ CommunityId \notin NewIds(t, S)
  BY <1>1, LabelsDiffer, IdParts
<1> QED
  BY <1>2, <1>3, <1>4, <1>5

LEMMA FilesSplit ==
  /\ \A f \in Files : f \in Docs <=> f \notin Code
  /\ \A f \in Code : f \in Files /\ f \notin Docs
  /\ \A f \in Docs : f \in Files /\ f \notin Code
BY IncrementalAssumption DEF Files

LEMMA PresentTyped ==
  ASSUME NEW t \in Trees, NEW f \in Present(t)
  PROVE  /\ f \in Files /\ t[f] # NoFile
         /\ t[f].parts \subseteq PartNames /\ t[f].refers \subseteq RefNames
         /\ f \in Code => t[f].calls \subseteq Calls /\ t[f].marks \subseteq MarkNames
<1>1. f \in Files /\ t[f] \in Contents[f] /\ t[f] # NoFile
  BY DEF Present, Trees
<1>2. CASE f \in Code
  BY <1>1, <1>2, IncrementalAssumption
<1>3. CASE f \in Docs
  <2>1. t[f] \in [parts : SUBSET PartNames, refers : SUBSET RefNames]
    BY <1>1, <1>3, IncrementalAssumption
  <2> QED
    BY <1>1, <1>3, <2>1, FilesSplit
<1> QED
  BY <1>1, <1>2, <1>3 DEF Files

LEMMA NewIdsTyped ==
  ASSUME NEW t \in Trees, NEW S \in SUBSET Present(t)
  PROVE  NewIds(t, S) \subseteq Ids
<1>1. \A f \in S : /\ f \in Files /\ Above[f] \subseteq Dirs /\ t[f].parts \subseteq PartNames
                   /\ Chain(f) \subseteq Files \union Dirs
  BY PresentTyped, AboveClosed DEF Chain
<1> QED
  BY <1>1, IdOfNames, IdsNamed DEF NewIds

(* The relationships of the structure: one into every member of a chain    *)
(* that has a parent, one to every part.                                   *)
LEMMA StructureRelsAre ==
  ASSUME NEW t, NEW S \in SUBSET Files
  PROVE  /\ \A f \in Files : Parent[f] # Root => (ContainsRel(f) \in StructureRels(t, S) <=> f \in S)
         /\ \A d \in Dirs : Parent[d] # Root =>
              (ContainsRel(d) \in StructureRels(t, S) <=> \E f \in S : d \in Above[f])
         /\ \A f \in Files : \A s : DefinesRel(f, s) \in StructureRels(t, S) <=> f \in S /\ s \in t[f].parts
         /\ \A r \in StructureRels(t, S) : r[1] \in {"contains", "defines"}
<1>1. ASSUME NEW r
      PROVE  r \in StructureRels(t, S) <=>
               \E f \in S : \/ Parent[f] # Root /\ r = ContainsRel(f)
                            \/ \E d \in Above[f] : Parent[d] # Root /\ r = ContainsRel(d)
                            \/ \E s \in t[f].parts : r = DefinesRel(f, s)
  <2>1. \A f \in S : \A x : x \in Chain(f) <=> x = f \/ x \in Above[f]
    BY DEF Chain
  <2> QED
    BY <2>1 DEF StructureRels
<1>2. \A x, y \in Files \union Dirs : ContainsRel(x) = ContainsRel(y) => x = y
  <2> SUFFICES ASSUME NEW x \in Files \union Dirs, NEW y \in Files \union Dirs,
                      ContainsRel(x) = ContainsRel(y)
               PROVE  x = y
    OBVIOUS
  <2>1. IdOf(x) = IdOf(y)
    BY RelParts
  <2> QED
    BY <2>1, IdOfNames
<1>3. \A f, s, g, u : DefinesRel(f, s) = DefinesRel(g, u) => f = g /\ s = u
  <2> SUFFICES ASSUME NEW f, NEW s, NEW g, NEW u, DefinesRel(f, s) = DefinesRel(g, u)
               PROVE  f = g /\ s = u
    OBVIOUS
  <2>1. PartId(f, s) = PartId(g, u)
    BY RelParts
  <2> QED
    BY <2>1, IdParts
<1>4. \A f \in S : Above[f] \subseteq Dirs
  BY AboveClosed
<1>5. ASSUME NEW f \in Files, Parent[f] # Root
      PROVE  ContainsRel(f) \in StructureRels(t, S) <=> f \in S
  BY <1>1, <1>2, <1>4, <1>5, KindsDiffer, RelParts, IncrementalAssumption
<1>6. ASSUME NEW d \in Dirs, Parent[d] # Root
      PROVE  ContainsRel(d) \in StructureRels(t, S) <=> \E f \in S : d \in Above[f]
  BY <1>1, <1>2, <1>4, <1>6, KindsDiffer, RelParts, IncrementalAssumption
<1>7. ASSUME NEW f \in Files, NEW s
      PROVE  DefinesRel(f, s) \in StructureRels(t, S) <=> f \in S /\ s \in t[f].parts
  BY <1>1, <1>3, KindsDiffer, RelParts
<1>8. ASSUME NEW r \in StructureRels(t, S)
      PROVE  r[1] \in {"contains", "defines"}
  BY <1>1, RelParts
<1> QED
  BY <1>5, <1>6, <1>7, <1>8

-----------------------------------------------------------------------------
(* What resolution finds.                                                  *)

(* It finds a candidate that is there; among fewer files it finds the same *)
(* one if that is among them; and only the candidates decide.              *)
LEMMA FirstOfFound ==
  ASSUME NEW order, NEW S, NEW g \in FirstOf(order, S)
  PROVE  g \in S /\ \E i \in DOMAIN order : order[i] = g
BY DEF FirstOf

LEMMA FirstOfFewer ==
  ASSUME NEW order, NEW S, NEW T \in SUBSET S, NEW g \in T, g \in FirstOf(order, S)
  PROVE  g \in FirstOf(order, T)
BY DEF FirstOf

LEMMA FirstOfSame ==
  ASSUME NEW n \in RefNames, NEW S, NEW T,
         \A i \in DOMAIN Candidates[n] : Candidates[n][i] \in S <=> Candidates[n][i] \in T
  PROVE  FirstOf(Candidates[n], S) = FirstOf(Candidates[n], T)
<1> DEFINE order == Candidates[n]
<1>1. order \in Seq(Files)
  BY OrderAssumption
<1>2. DOMAIN order = 1 .. Len(order) /\ Len(order) \in Nat
  BY <1>1
<1>3. \A i \in DOMAIN order : \A j \in 1 .. i - 1 : j \in DOMAIN order
  BY <1>2
<1> QED
  BY <1>3 DEF FirstOf

(* The files that some name in f may mean.                                 *)
Named(t, f, g) == \E n \in t[f].refers : \E i \in DOMAIN Candidates[n] : Candidates[n][i] = g

LEMMA LinkedToIs ==
  ASSUME NEW t, NEW f, NEW known, NEW g
  PROVE  /\ g \in LinkedTo(t, f, known) <=>
              /\ f \in Docs => g # f
              /\ \E n \in t[f].refers : g \in FirstOf(Candidates[n], known)
         /\ g \in LinkedTo(t, f, known) => g \in known /\ Named(t, f, g)
<1>1. g \in LinkedTo(t, f, known) <=>
              /\ f \in Docs => g # f
              /\ \E n \in t[f].refers : g \in FirstOf(Candidates[n], known)
  <2>1. g \in UNION {FirstOf(Candidates[n], known) : n \in t[f].refers} <=>
          \E n \in t[f].refers : g \in FirstOf(Candidates[n], known)
    OBVIOUS
  <2>2. g \in (IF f \in Docs THEN {f} ELSE {}) <=> f \in Docs /\ g = f
    OBVIOUS
  <2> QED
    BY <2>1, <2>2 DEF LinkedTo
<1> QED
  BY <1>1, FirstOfFound DEF Named

LEMMA LinkedToFewer ==
  ASSUME NEW t, NEW f, NEW S, NEW T \in SUBSET S, NEW g \in T, g \in LinkedTo(t, f, S)
  PROVE  g \in LinkedTo(t, f, T)
BY LinkedToIs, FirstOfFewer

LEMMA LinkedToSame ==
  ASSUME NEW t, NEW f, t[f].refers \subseteq RefNames, NEW S, NEW T,
         \A g : Named(t, f, g) => (g \in S <=> g \in T)
  PROVE  LinkedTo(t, f, S) = LinkedTo(t, f, T)
<1>1. \A n \in t[f].refers : FirstOf(Candidates[n], S) = FirstOf(Candidates[n], T)
  BY FirstOfSame DEF Named
<1> QED
  BY <1>1 DEF LinkedTo

LEMMA ReferenceRelsAre ==
  ASSUME NEW t, NEW S, NEW known
  PROVE  /\ \A r \in ReferenceRels(t, S, known) : r[1] = "refers"
         /\ \A f, g : RefersRel(f, g) \in ReferenceRels(t, S, known) <=>
                        f \in S /\ g \in LinkedTo(t, f, known)
<1>1. \A r : r \in ReferenceRels(t, S, known) <=>
               \E f \in S : \E g \in LinkedTo(t, f, known) : r = RefersRel(f, g)
  BY DEF ReferenceRels
<1>2. \A f, g, h, k : RefersRel(f, g) = RefersRel(h, k) => f = h /\ g = k
  <2> SUFFICES ASSUME NEW f, NEW g, NEW h, NEW k, RefersRel(f, g) = RefersRel(h, k)
               PROVE  f = h /\ g = k
    OBVIOUS
  <2>1. FileId(f) = FileId(h) /\ FileId(g) = FileId(k)
    BY RelParts
  <2> QED
    BY <2>1, IdParts
<1> QED
  BY <1>1, <1>2, RelParts

LEMMA CallTargetsFound ==
  ASSUME NEW f, NEW s, NEW imported, NEW symbols, NEW g \in CallTargets(f, s, imported, symbols)
  PROVE  g \in Code /\ <<g, s>> \in symbols
<1> DEFINE having == {h \in Code : <<h, s>> \in symbols}
           near   == having \intersect imported
<1>1. CASE f \in having
  BY <1>1 DEF CallTargets
<1>2. CASE f \notin having
  <2>1. g \in FirstOf(PathOrder, IF near # {} THEN near ELSE having)
    BY <1>2 DEF CallTargets
  <2>2. g \in IF near # {} THEN near ELSE having
    BY <2>1, FirstOfFound
  <2> QED
    BY <2>2
<1> QED
  BY <1>1, <1>2

(* A call relationship comes of a call in a file, and leads to a symbol.   *)
LEMMA CallRelsAre ==
  ASSUME NEW t, NEW S, NEW symbols, NEW r \in CallRels(t, S, symbols)
  PROVE  \E f \in S : \E c \in t[f].calls : \E g \in Code :
           r = CallsRel(CallSource(f, c), g, c.of) /\ <<g, c.of>> \in symbols
<1>1. PICK f \in S : \E c \in t[f].calls :
             \E g \in CallTargets(f, c.of, LinkedTo(t, f, S), symbols) :
               r = CallsRel(CallSource(f, c), g, c.of)
  BY DEF CallRels
<1> QED
  BY <1>1, CallTargetsFound

LEMMA CallRelsCall ==
  ASSUME NEW t, NEW S, NEW symbols
  PROVE  \A r \in CallRels(t, S, symbols) : r[1] = "calls"
BY RelParts DEF CallRels

LEMMA CallSourceIs ==
  ASSUME NEW f \in Code, NEW c \in Calls
  PROVE  /\ CallSource(f, c) \in Callers /\ CallSource(f, c)[2] = f /\ c.of \in PartNames
         /\ c.by = NoPart => CallSource(f, c) = FileId(f)
         /\ c.by # NoPart => c.by \in PartNames /\ CallSource(f, c) = PartId(f, c.by)
BY IdParts DEF CallSource, Calls, Callers

-----------------------------------------------------------------------------
(* Pruning, where every file hangs in its folders: what is left are the    *)
(* folders above files.                                                    *)

(* A map holds at an id what that id stands for.                           *)
Honest(ns, rs) ==
  /\ ns \in NodeMaps /\ \A id \in Ids : ns[id] \in {NoNode, NodeOf(id)}
  /\ rs \in RelMaps /\ \A r \in RelIds : rs[r] \in {NoRel, RelOf(r)}

Hanging(ns, rs) ==
  /\ \A f \in Files : ns[FileId(f)] # NoNode => \A d \in Above[f] : ns[FolderId(d)] # NoNode
  /\ \A x \in Files \union Dirs : Parent[x] # Root =>
       (rs[ContainsRel(x)] # NoRel <=> ns[IdOf(x)] # NoNode)

LEMMA FoldersAre ==
  ASSUME NEW ns, NEW rs, Honest(ns, rs)
  PROVE  /\ \A d \in Dirs : FolderId(d) \in Folders(ns) <=> ns[FolderId(d)] # NoNode
         /\ \A id \in Folders(ns) : \E d \in Dirs : id = FolderId(d)
         /\ \A f \in Files : FileId(f) \notin Folders(ns)
         /\ \A f \in Files, s \in PartNames : PartId(f, s) \notin Folders(ns)
         /\ \A f \in Code, m \in MarkNames : MarkId(f, m) \notin Folders(ns)
         /\ CommunityId \notin Folders(ns)
<1>1. ASSUME NEW id \in Ids, ns[id] # NoNode
      PROVE  ns[id].label = id[1]
  BY <1>1 DEF Honest, NodeOf
<1>2. \A id \in Ids : id \in Folders(ns) <=> ns[id] # NoNode /\ id[1] = "Folder"
  BY <1>1 DEF Folders, NodeIds
<1>3. Folders(ns) \subseteq Ids
  BY DEF Folders, NodeIds
<1> QED
  BY <1>2, <1>3, LabelsDiffer, IdsNamed, IdParts

LEMMA PruningLeaves ==
  ASSUME NEW ns, NEW rs, Honest(ns, rs), Hanging(ns, rs)
  PROVE  /\ Prunable(ns, rs) \subseteq Folders(ns)
         /\ \A d \in Dirs :
              ns[FolderId(d)] # NoNode /\ FolderId(d) \notin Prunable(ns, rs) <=>
                \E f \in Files : ns[FileId(f)] # NoNode /\ d \in Above[f]
<1> DEFINE B == Prunable(ns, rs)
           Holding(d) == \E f \in Files : ns[FileId(f)] # NoNode /\ d \in Above[f]
<1> HIDE DEF B
<1>1. ns \in NodeMaps /\ rs \in RelMaps
  BY DEF Honest
<1>2. B \in SUBSET Folders(ns) /\ Round(ns, rs, B) = B
  BY <1>1, RoundsEnd DEF B
<1>3. ASSUME NEW d \in Dirs, Holding(d)
      PROVE  ns[FolderId(d)] # NoNode /\ FolderId(d) \notin B
  <2> DEFINE S == {FolderId(e) : e \in {g \in Dirs : Holding(g)}}
  <2>1. S \in SUBSET Folders(ns)
    BY FoldersAre DEF Hanging
  <2>2. HoldsUpIn(ns, rs, S)
    <3> SUFFICES ASSUME NEW e \in Dirs, Holding(e)
                 PROVE  \E r \in RelIds :
                          /\ rs[r] # NoRel
                          /\ rs[r].contains
                          /\ rs[r].source_id = FolderId(e)
                          /\ rs[r].target_id \notin Folders(ns) \ S
      BY DEF HoldsUpIn
    <3>1. PICK f \in Files : ns[FileId(f)] # NoNode /\ e \in Above[f]
      OBVIOUS
    <3>2. PICK x \in Files \union Dirs : /\ e = Parent[x]
                                         /\ x = f \/ x \in Above[f]
      BY <3>1, AboveClosed
    <3>3. Parent[x] # Root
      BY <3>2, IncrementalAssumption
    <3>4. ns[IdOf(x)] # NoNode
      BY <3>1, <3>2, IdOfNames, AboveClosed DEF Hanging
    <3>5. ContainsRel(x) \in RelIds /\ rs[ContainsRel(x)] # NoRel
      BY <3>3, <3>4, RelsNamed DEF Hanging
    <3>6. rs[ContainsRel(x)] = RelOf(ContainsRel(x))
      BY <3>5 DEF Honest
    <3>7. /\ rs[ContainsRel(x)].contains
          /\ rs[ContainsRel(x)].source_id = FolderId(e)
          /\ rs[ContainsRel(x)].target_id = IdOf(x)
      BY <3>2, <3>5, <3>6, RelsTyped, RelParts
    <3>8. IdOf(x) \notin Folders(ns) \ S
      <4>1. CASE x = f
        BY <4>1, IdOfNames, FoldersAre
      <4>2. CASE x \in Above[f]
        <5>1. x \in Dirs /\ Holding(x)
          BY <3>1, <4>2, AboveClosed
        <5> QED
          BY <5>1, IdOfNames
      <4> QED
        BY <3>2, <4>1, <4>2
    <3> QED
      BY <3>5, <3>7, <3>8
  <2>3. Cardinality(Folders(ns)) \in Nat
    <3>1. IsFiniteSet(Folders(ns))
      BY GraphAssumption, FS_Subset DEF Folders, NodeIds
    <3> QED
      BY <3>1, FS_CardinalityType
  <2>4. B \intersect S = {}
    BY <1>1, <2>1, <2>2, <2>3, HeldStays DEF B, Prunable
  <2> QED
    BY <1>3, <2>1, <2>4, FoldersAre
<1>4. ASSUME NEW d \in Dirs, ns[FolderId(d)] # NoNode, FolderId(d) \notin B
      PROVE  Holding(d)
  <2>1. PICK depth \in [Files \union Dirs -> 0 .. Cardinality(Dirs)] :
          \A x \in Files \union Dirs : Parent[x] # Root => depth[Parent[x]] < depth[x]
    BY IncrementalAssumption
  <2>2. Cardinality(Dirs) \in Nat
    BY IncrementalAssumption, FS_CardinalityType
  <2> DEFINE height(e) == Cardinality(Dirs) - depth[e]
             Left(e) == ns[FolderId(e)] # NoNode /\ FolderId(e) \notin B
             Bad == {n \in Nat : \E e \in Dirs : height(e) = n /\ Left(e) /\ ~Holding(e)}
  <2>3. \A e \in Dirs : height(e) \in Nat
    BY <2>1, <2>2
  <2>4. Bad = {}
    <3> SUFFICES ASSUME Bad # {} PROVE FALSE
      OBVIOUS
    <3>1. PICK n \in Bad : \A i \in Bad : n <= i
      BY Least
    <3>2. PICK e \in Dirs : height(e) = n /\ Left(e) /\ ~Holding(e)
      BY <3>1
    <3>3. FolderId(e) \in Folders(ns) \ B
      BY <3>2, FoldersAre
    <3>4. PICK r \in RelIds : /\ rs[r] # NoRel
                              /\ rs[r].contains
                              /\ rs[r].source_id = FolderId(e)
                              /\ rs[r].target_id \notin B
      BY <1>1, <1>2, <3>3, RoundTakes
    <3>5. rs[r] = RelOf(r)
      BY <3>4 DEF Honest
    <3>6. PICK x \in Files \union Dirs : Parent[x] # Root /\ r = ContainsRel(x)
      <4>1. r[1] = "contains"
        BY <3>4, <3>5, RelsTyped
      <4> QED
        BY <4>1, KindsDiffer, RelsNamed, RelParts
    <3>7. Parent[x] = e /\ IdOf(x) \notin B
      <4>1. FolderId(Parent[x]) = FolderId(e) /\ rs[r].target_id = IdOf(x)
        BY <3>4, <3>5, <3>6, RelsTyped, RelParts
      <4> QED
        BY <3>4, <4>1, IdParts
    <3>8. ns[IdOf(x)] # NoNode
      BY <3>4, <3>6 DEF Hanging
    <3>9. CASE x \in Files
      <4>1. e \in Above[x] /\ ns[FileId(x)] # NoNode
        BY <3>6, <3>7, <3>8, <3>9, AboveClosed, IdOfNames
      <4> QED
        BY <3>2, <3>9, <4>1
    <3>10. CASE x \in Dirs
      <4>1. Left(x)
        BY <3>7, <3>8, <3>10, IdOfNames
      <4>2. height(x) \in Nat /\ height(x) < n
        <5>1. depth[e] < depth[x] /\ depth[e] \in Int /\ depth[x] \in Int
          BY <2>1, <3>6, <3>7
        <5> QED
          BY <2>2, <2>3, <3>2, <3>10, <5>1
      <4>3. height(x) \notin Bad
        BY <3>1, <4>2
      <4>4. Holding(x)
        <5> HIDE DEF Holding, Left
        <5> QED
          BY <3>10, <4>1, <4>2, <4>3
      <4>5. PICK f \in Files : ns[FileId(f)] # NoNode /\ x \in Above[f]
        BY <4>4
      <4>6. e \in Above[f]
        BY <3>6, <3>7, <4>5, AboveClosed
      <4> QED
        BY <3>2, <4>5, <4>6
    <3> QED
      BY <3>9, <3>10
  <2> HIDE DEF Holding, Left
  <2>5. Left(d)
    BY <1>4 DEF Left
  <2> QED
    BY <2>3, <2>4, <2>5
<1> QED
  BY <1>2, <1>3, <1>4 DEF B

-----------------------------------------------------------------------------
(* The inductive invariant of IncrementalGraph.                            *)

HasFile(f)    == nodes[FileId(f)] # NoNode
HasPart(f, s) == nodes[PartId(f, s)] # NoNode
HasMark(f, m) == nodes[MarkId(f, m)] # NoNode
HasRel(r)     == relationships[r] # NoRel

(* The contents the graph was made of: what the manifest lists or, before  *)
(* it lists documents, what was analyzed.                                  *)
Base == [f \in Files |-> IF analyzed[f] # NoFile THEN analyzed[f] ELSE manifest[f]]

MapsInv ==
  /\ Honest(nodes, relationships)
  /\ file_index \in [Paths -> SUBSET Ids]
  /\ IndexExact

(* The folders are those above files.                                      *)
FoldersInv ==
  \A d \in Dirs :
    nodes[FolderId(d)] # NoNode <=> \E f \in Files : HasFile(f) /\ d \in Above[f]

(* Of a file that was not missed the graph has what it was made of and     *)
(* nothing else; of a missed one it may have more.                         *)
FilesInv ==
  /\ \A f \in Files, s \in PartNames : HasPart(f, s) => HasFile(f)
  /\ \A f \in Files : Base[f] # NoFile => HasFile(f) /\ \A s \in Base[f].parts : HasPart(f, s)
  /\ \A f \in Files \ missed :
       /\ HasFile(f) => Base[f] # NoFile
       /\ \A s \in PartNames : HasPart(f, s) => s \in Base[f].parts

(* What the later phases made is there of the files that no update touched. *)
MarksInv ==
  /\ \A f \in Code, m \in MarkNames :
       /\ HasMark(f, m) <=> f \notin touched /\ Base[f] # NoFile /\ m \in Base[f].marks
       /\ HasRel(BelongsRel(f, m)) <=> HasMark(f, m)
  /\ \A f \in Code, s \in PartNames : HasRel(MemberRel(f, s)) =>
       f \notin touched /\ HasPart(f, s) /\ nodes[CommunityId] # NoNode

RelsInv ==
  /\ \A x \in Files \union Dirs : Parent[x] # Root =>
       (HasRel(ContainsRel(x)) <=> nodes[IdOf(x)] # NoNode)
  /\ \A f \in Files, s \in PartNames : HasRel(DefinesRel(f, s)) <=> HasPart(f, s)
  /\ \A f, g \in Files : HasRel(RefersRel(f, g)) =>
       /\ HasFile(f) /\ HasFile(g)
       /\ f \notin missed => Named(Base, f, g)

(* A call that is no orphan is written in its file, and attributed as it   *)
(* should be.                                                              *)
WrittenCall(t, src, s) ==
  \E c \in t[src[2]].calls : src = AttributedTo(t, src[2], c) /\ c.of = s

CallsInv ==
  \A src \in Callers, g \in Code, s \in PartNames :
    LET r == CallsRel(src, g, s)
    IN  HasRel(r) =>
          /\ HasPart(g, s)
          /\ r \in orphans => src[2] \in touched
          /\ r \notin orphans => nodes[src] # NoNode /\ WrittenCall(Base, src, s)

(* Where a full analysis looks for what f refers to.                       *)
Known(t, f) == IF f \in Code THEN Present(t) \intersect Code ELSE Present(t)

(* The imports whose files no update touched are a full analysis's.        *)
ImportsInv ==
  \A f \in Code :
    manifest[f] # NoFile /\ Concerned(manifest, f) \intersect touched = {} =>
      \A g \in Files :
        HasRel(RefersRel(f, g)) <=> g \in LinkedTo(manifest, f, Known(manifest, f))

AnalyzedInv == \A f \in Files : analyzed[f] # NoFile => f \in Docs /\ manifest[f] = NoFile

SyncedInv ==
  synced => \A f \in Files \ missed :
    Base[f] = IF f \in Code \/ graph_has_documents THEN tree[f] ELSE NoFile

ChangedInv ==
  synced =>
    /\ \A f, g \in changed :
         g \in LinkedTo(tree, f, Known(tree, f)) /\ (f \in Code <=> g \in Code)
           => HasRel(RefersRel(f, g))
    /\ \A f \in Present(tree) \intersect Code :
         Concerned(tree, f) \intersect Present(tree) \subseteq changed =>
           \A g \in Files :
             HasRel(RefersRel(f, g)) <=> g \in LinkedTo(tree, f, Known(tree, f))

ContentsTyped ==
  /\ tree \in Trees
  /\ manifest \in Trees
  /\ analyzed \in Trees
  /\ synced \in BOOLEAN
  /\ missed \subseteq Docs
  /\ changed \subseteq Files
  /\ touched \subseteq Files

UpdateInv ==
  /\ ContentsTyped /\ MapsInv /\ FoldersInv /\ FilesInv /\ MarksInv /\ RelsInv
  /\ CallsInv /\ ImportsInv /\ AnalyzedInv /\ SyncedInv /\ ChangedInv

(* Documents are seen by their own nodes.                                  *)
LEMMA DocumentsSeen ==
  ASSUME NEW ns,
         \A f \in Files, s \in PartNames : ns[PartId(f, s)] # NoNode => ns[FileId(f)] # NoNode
  PROVE  (\E id \in NodeIds(ns) : id[1] \in {"File", "Part"} /\ id[2] \in Docs) <=>
           \E f \in Docs : ns[FileId(f)] # NoNode
<1> DEFINE Seen == \E id \in NodeIds(ns) : id[1] \in {"File", "Part"} /\ id[2] \in Docs
<1>1. ASSUME NEW f \in Docs, ns[FileId(f)] # NoNode
      PROVE  Seen
  BY <1>1, IdsNamed, IdParts DEF NodeIds, Files
<1>2. ASSUME Seen
      PROVE  \E f \in Docs : ns[FileId(f)] # NoNode
  <2>1. PICK id \in Ids : ns[id] # NoNode /\ id[1] \in {"File", "Part"} /\ id[2] \in Docs
    BY <1>2 DEF NodeIds
  <2>2. CASE \E f \in Files : id = FileId(f)
    BY <2>1, <2>2, IdParts
  <2>3. CASE \E f \in Files, s \in PartNames : id = PartId(f, s)
    BY <2>1, <2>3, IdParts
  <2> QED
    BY <2>1, <2>2, <2>3, LabelsDiffer, IdsNamed, IdParts
<1> QED
  BY <1>1, <1>2

(* The files that decide what f refers to.                                 *)
LEMMA ConcernedAre ==
  ASSUME NEW t, NEW f \in Files
  PROVE  /\ f \in Concerned(t, f)
         /\ \A g \in Code : Named(t, f, g) => g \in Concerned(t, f)
BY DEF Concerned, Named

-----------------------------------------------------------------------------
(* Full analysis.                                                          *)

LEMMA SetGraphMaps ==
  ASSUME NEW ids \in SUBSET Ids, NEW rels \in SUBSET RelIds, SetGraph(ids, rels)
  PROVE  /\ MapsInv'
         /\ \A id \in Ids : nodes'[id] # NoNode <=> id \in ids
         /\ \A r \in RelIds : relationships'[r] # NoRel <=> r \in rels
<1>1. /\ nodes' = [id \in Ids |-> IF id \in ids THEN NodeOf(id) ELSE NoNode]
      /\ relationships' = [r \in RelIds |-> IF r \in rels THEN RelOf(r) ELSE NoRel]
      /\ file_index' = [p \in Paths |-> {id \in ids : id[2] = p}]
  BY IncrementalAssumption DEF SetGraph
<1>2. Honest(nodes, relationships)'
  BY <1>1, IdsTyped, RelsTyped DEF Honest, NodeMaps, RelMaps
<1>3. \A id \in Ids : nodes'[id] # NoNode <=> id \in ids
  BY <1>1, IdsTyped
<1>4. \A r \in RelIds : relationships'[r] # NoRel <=> r \in rels
  BY <1>1, RelsTyped
<1>5. \A id \in ids : nodes'[id].file_path = id[2]
  BY <1>1, IdsTyped
<1>6. IndexExact'
  BY <1>1, <1>3, <1>5 DEF IndexExact, InFile, NodeIds
<1>7. file_index' \in [Paths -> SUBSET Ids]
  BY <1>1
<1> QED
  BY <1>2, <1>3, <1>4, <1>6, <1>7 DEF MapsInv

LEMMA IndexedFiles ==
  ASSUME NEW t \in Trees, NEW docs \in BOOLEAN
  PROVE  /\ Indexed(t, docs) \subseteq Present(t) /\ Present(t) \subseteq Files
         /\ \A f \in Files : f \in Present(t) <=> t[f] # NoFile
         /\ \A f \in Files : f \in Indexed(t, docs) <=> t[f] # NoFile /\ (f \in Code \/ docs)
BY IncrementalAssumption DEF Indexed, Present, Files

LEMMA RelsKnown ==
  ASSUME NEW t \in Trees, NEW S \in SUBSET Present(t), NEW known \in SUBSET Files
  PROVE  /\ StructureRels(t, S) \subseteq RelIds
         /\ ReferenceRels(t, S, known) \subseteq RelIds
<1>1. \A f \in S : /\ f \in Files /\ Above[f] \subseteq Dirs /\ t[f].parts \subseteq PartNames
                   /\ Chain(f) \subseteq Files \union Dirs
  BY PresentTyped, AboveClosed DEF Chain
<1>2. StructureRels(t, S) \subseteq RelIds
  BY <1>1, RelsNamed DEF StructureRels
<1>3. ReferenceRels(t, S, known) \subseteq RelIds
  BY <1>1, LinkedToIs, RelsNamed DEF ReferenceRels
<1> QED
  BY <1>2, <1>3

LEMMA CallRelsKnown ==
  ASSUME NEW t \in Trees, NEW S, S \subseteq Present(t) \intersect Code, NEW symbols
  PROVE  CallRels(t, S, symbols) \subseteq RelIds
<1> SUFFICES ASSUME NEW r \in CallRels(t, S, symbols)
             PROVE  r \in RelIds
  OBVIOUS
<1>1. PICK f \in S : \E c \in t[f].calls : \E g \in Code :
             r = CallsRel(CallSource(f, c), g, c.of) /\ <<g, c.of>> \in symbols
  BY CallRelsAre
<1>2. PICK c \in t[f].calls, g \in Code : r = CallsRel(CallSource(f, c), g, c.of)
  BY <1>1
<1>3. f \in Code /\ c \in Calls
  BY PresentTyped
<1>4. CallSource(f, c) \in Callers /\ c.of \in PartNames
  BY <1>3, CallSourceIs
<1> QED
  BY <1>2, <1>4, RelsNamed

(* The calls of a full analysis, before they are repointed and after.      *)
LEMMA FullCallsAre ==
  ASSUME NEW t \in Trees, NEW S \in SUBSET Files, Present(t) \intersect Code \subseteq S,
         NEW rels,
         \A q \in rels : q[1] = "calls" =>
           q \in CallRels(t, Present(t) \intersect Code, Symbols(NewIds(t, S))),
         NEW r \in Repointed(rels, NewIds(t, S)), r[1] = "calls"
  PROVE  \E src \in Callers, g \in Code, s \in PartNames :
           /\ r = CallsRel(src, g, s)
           /\ t[src[2]] # NoFile /\ WrittenCall(t, src, s)
           /\ src \in NewIds(t, S) /\ PartId(g, s) \in NewIds(t, S)
<1> DEFINE ids == NewIds(t, S)
<1>1. PICK q \in rels :
        /\ q[1] = "calls"
        /\ \/ r = q /\ q[2] \in ids
           \/ r = <<"calls", FileId(q[2][2]), q[3]>> /\ q[2] \notin ids
  BY DEF Repointed, Lost
<1>2. PICK f \in Present(t) \intersect Code : \E c \in t[f].calls : \E g \in Code :
        q = CallsRel(CallSource(f, c), g, c.of) /\ <<g, c.of>> \in Symbols(ids)
  BY <1>1, CallRelsAre
<1>3. PICK c \in t[f].calls, g \in Code :
        q = CallsRel(CallSource(f, c), g, c.of) /\ <<g, c.of>> \in Symbols(ids)
  BY <1>2
<1>4. f \in S /\ f \in Files /\ c \in Calls /\ t[f] # NoFile /\ t[f].parts \subseteq PartNames
  BY PresentTyped
<1>5. /\ CallSource(f, c) \in Callers /\ CallSource(f, c)[2] = f /\ c.of \in PartNames
      /\ q[2] = CallSource(f, c) /\ q[3] = PartId(g, c.of)
  BY <1>3, <1>4, CallSourceIs, RelParts
<1>6. PartId(g, c.of) \in ids
  BY <1>3 DEF Symbols
<1>7. /\ FileId(f) \in ids /\ FileId(f) \in Callers /\ FileId(f)[2] = f
      /\ \A s : PartId(f, s) \in ids <=> s \in t[f].parts
  BY <1>4, NewIdsAre, IdParts DEF Callers
<1>8. NoPart \notin t[f].parts
  BY <1>4, IncrementalAssumption
<1> HIDE DEF ids
<1>9. CASE r = q /\ q[2] \in ids
  <2>1. CallSource(f, c) = AttributedTo(t, f, c)
    <3>1. CASE c.by = NoPart
      BY <1>4, <1>8, <3>1, CallSourceIs DEF AttributedTo
    <3>2. CASE c.by # NoPart
      BY <1>4, <1>5, <1>7, <1>9, <3>2, CallSourceIs DEF AttributedTo
    <3> QED
      BY <3>1, <3>2
  <2>2. WrittenCall(t, CallSource(f, c), c.of)
    BY <1>5, <2>1 DEF WrittenCall
  <2> QED
    BY <1>3, <1>4, <1>5, <1>6, <1>9, <2>2 DEF ids
<1>10. CASE r = <<"calls", FileId(q[2][2]), q[3]>> /\ q[2] \notin ids
  <2>1. r = CallsRel(FileId(f), g, c.of)
    BY <1>5, <1>10 DEF CallsRel
  <2>2. FileId(f) = AttributedTo(t, f, c)
    BY <1>4, <1>5, <1>7, <1>10, CallSourceIs DEF AttributedTo
  <2>3. WrittenCall(t, FileId(f), c.of)
    BY <1>7, <2>2 DEF WrittenCall
  <2> QED
    BY <1>4, <1>5, <1>6, <1>7, <2>1, <2>3 DEF ids
<1> QED
  BY <1>1, <1>9, <1>10

LEMMA RepointedOthers ==
  ASSUME NEW rels, NEW ids, NEW r, r[1] # "calls"
  PROVE  r \in Repointed(rels, ids) <=> r \in rels
<1>1. \A q : <<"calls", FileId(q[2][2]), q[3]>>[1] = "calls"
  OBVIOUS
<1> QED
  BY <1>1 DEF Repointed, Lost

LEMMA MarksOfAre ==
  ASSUME NEW t
  PROVE  /\ \A p \in MarksOf(t) : /\ p[1] \in Code /\ p[2] \in MarkNames
                                 /\ t[p[1]] # NoFile /\ p[2] \in t[p[1]].marks
         /\ \A f \in Code, m \in MarkNames : t[f] # NoFile /\ m \in t[f].marks =>
              \E p \in MarksOf(t) : p[1] = f /\ p[2] = m
<1>1. ASSUME NEW f \in Code, NEW m \in MarkNames, t[f] # NoFile, m \in t[f].marks
      PROVE  \E p \in MarksOf(t) : p[1] = f /\ p[2] = m
  <2>1. <<f, m>> \in MarksOf(t)
    BY <1>1 DEF MarksOf
  <2> QED
    BY <2>1
<1> QED
  BY <1>1 DEF MarksOf

(* The ids and relationships of the graph a full analysis makes, before    *)
(* the communities.                                                        *)
LEMMA FullIdsAre ==
  ASSUME NEW t \in Trees, NEW docs \in BOOLEAN
  PROVE  /\ FullIds(t, docs) \subseteq Ids
         /\ \A f \in Files : FileId(f) \in FullIds(t, docs) <=> f \in Indexed(t, docs)
         /\ \A d \in Dirs : FolderId(d) \in FullIds(t, docs) <=>
              \E f \in Indexed(t, docs) : d \in Above[f]
         /\ \A f \in Files : \A s : PartId(f, s) \in FullIds(t, docs) <=>
              f \in Indexed(t, docs) /\ s \in t[f].parts
         /\ \A f \in Code, m \in MarkNames : MarkId(f, m) \in FullIds(t, docs) <=>
              t[f] # NoFile /\ m \in t[f].marks
         /\ CommunityId \notin FullIds(t, docs)
         /\ \A f, s : PartId(f, s) \in FullIds(t, docs) <=>
              PartId(f, s) \in NewIds(t, Indexed(t, docs))
<1> DEFINE S == Indexed(t, docs)
           marks == {MarkId(p[1], p[2]) : p \in MarksOf(t)}
<1>1. S \in SUBSET Files /\ S \in SUBSET Present(t)
  BY IndexedFiles
<1>2. \A id : id \in marks <=>
        \E f \in Code, m \in MarkNames : id = MarkId(f, m) /\ t[f] # NoFile /\ m \in t[f].marks
  BY MarksOfAre
<1>3. FullIds(t, docs) = NewIds(t, S) \union marks
  BY DEF FullIds
<1> HIDE DEF S, marks
<1>4. FullIds(t, docs) \subseteq Ids
  BY <1>1, <1>2, <1>3, NewIdsTyped, IdsNamed
<1>5. /\ \A f : FileId(f) \notin marks /\ FolderId(f) \notin marks
      /\ \A f, s : PartId(f, s) \notin marks
      /\ CommunityId \notin marks
  BY <1>2, IdParts, LabelsDiffer
<1>6. /\ \A f \in Files : FileId(f) \in FullIds(t, docs) <=> f \in S
      /\ \A d \in Dirs : FolderId(d) \in FullIds(t, docs) <=> \E f \in S : d \in Above[f]
      /\ \A f \in Files : \A s : PartId(f, s) \in FullIds(t, docs) <=> f \in S /\ s \in t[f].parts
      /\ CommunityId \notin FullIds(t, docs)
  BY <1>1, <1>3, <1>5, NewIdsAre
<1>7. ASSUME NEW f \in Code, NEW m \in MarkNames
      PROVE  MarkId(f, m) \in FullIds(t, docs) <=> t[f] # NoFile /\ m \in t[f].marks
  <2>1. MarkId(f, m) \notin NewIds(t, S)
    BY <1>1, NewIdsAre
  <2>2. \A g, k : MarkId(f, m) = MarkId(g, k) => f = g /\ m = k
    BY IdParts
  <2> QED
    BY <1>2, <1>3, <2>1, <2>2
<1> QED
  BY <1>3, <1>4, <1>5, <1>6, <1>7 DEF S

LEMMA FullRelsAre ==
  ASSUME NEW t \in Trees, NEW docs \in BOOLEAN
  PROVE  /\ FullRels(t, docs) \subseteq RelIds
         /\ \A x \in Files \union Dirs : Parent[x] # Root =>
              (ContainsRel(x) \in FullRels(t, docs) <=> IdOf(x) \in FullIds(t, docs))
         /\ \A f \in Files : \A s : DefinesRel(f, s) \in FullRels(t, docs) <=>
              PartId(f, s) \in FullIds(t, docs)
         /\ \A f, g \in Files : RefersRel(f, g) \in FullRels(t, docs) <=>
              f \in Indexed(t, docs) /\ g \in LinkedTo(t, f, Known(t, f))
         /\ \A f \in Code, m \in MarkNames :
              BelongsRel(f, m) \in FullRels(t, docs) <=> MarkId(f, m) \in FullIds(t, docs)
         /\ \A f, s : MemberRel(f, s) \notin FullRels(t, docs)
         /\ \A r \in FullRels(t, docs) : r[1] = "calls" =>
              \E src \in Callers, g \in Code, s \in PartNames :
                /\ r = CallsRel(src, g, s)
                /\ t[src[2]] # NoFile /\ WrittenCall(t, src, s)
                /\ src \in FullIds(t, docs) /\ PartId(g, s) \in FullIds(t, docs)
<1> DEFINE S       == Indexed(t, docs)
           code    == Present(t) \intersect Code
           ids     == NewIds(t, S)
           struct  == StructureRels(t, S)
           imports == ReferenceRels(t, code, code)
           links   == ReferenceRels(t, S \intersect Docs, Present(t))
           calls   == CallRels(t, code, Symbols(ids))
           made    == struct \union imports \union links \union calls
           marked  == {BelongsRel(p[1], p[2]) : p \in MarksOf(t)}
<1>1. /\ S \in SUBSET Files /\ S \in SUBSET Present(t) /\ Present(t) \in SUBSET Files
      /\ code \in SUBSET Present(t) /\ code \in SUBSET Files /\ code \subseteq S
      /\ S \intersect Docs \in SUBSET Present(t)
  BY IndexedFiles
<1>2. FullRels(t, docs) = Repointed(made, ids) \union marked
  BY DEF FullRels
<1>3. \A r : r \in marked <=>
        \E f \in Code, m \in MarkNames : r = BelongsRel(f, m) /\ t[f] # NoFile /\ m \in t[f].marks
  BY MarksOfAre
<1>4. /\ \A r \in struct : r[1] \in {"contains", "defines"}
      /\ \A r \in imports \union links : r[1] = "refers"
      /\ \A r \in calls : r[1] = "calls"
      /\ \A r \in marked : r[1] = "belongs"
  <2>1. \A r \in struct : r[1] \in {"contains", "defines"}
    BY <1>1, StructureRelsAre
  <2>2. \A r \in imports \union links : r[1] = "refers"
    BY ReferenceRelsAre
  <2>3. \A r \in calls : r[1] = "calls"
    BY CallRelsCall
  <2>4. \A r \in marked : r[1] = "belongs"
    BY <1>3, RelParts
  <2> HIDE DEF struct, imports, links, calls, marked
  <2> QED
    BY <2>1, <2>2, <2>3, <2>4
<1>5. made \subseteq RelIds
  <2>1. struct \subseteq RelIds /\ imports \subseteq RelIds /\ links \subseteq RelIds
    BY <1>1, RelsKnown
  <2>2. calls \subseteq RelIds
    BY CallRelsKnown
  <2> QED
    BY <2>1, <2>2
<1>6. \A f, g : RefersRel(f, g) \in imports \union links <=>
        \/ f \in code /\ g \in LinkedTo(t, f, code)
        \/ f \in S \intersect Docs /\ g \in LinkedTo(t, f, Present(t))
  BY ReferenceRelsAre
<1> HIDE DEF struct, imports, links, calls, marked
<1>7. ASSUME NEW r, r[1] # "calls"
      PROVE  r \in FullRels(t, docs) <=> r \in struct \/ r \in imports \union links \/ r \in marked
  BY <1>2, <1>4, <1>7, RepointedOthers
<1>8. ASSUME NEW r \in FullRels(t, docs), r[1] = "calls"
      PROVE  \E src \in Callers, g \in Code, s \in PartNames :
               /\ r = CallsRel(src, g, s)
               /\ t[src[2]] # NoFile /\ WrittenCall(t, src, s)
               /\ src \in FullIds(t, docs) /\ PartId(g, s) \in FullIds(t, docs)
  <2>1. r \in Repointed(made, ids)
    BY <1>2, <1>4, <1>8, KindsDiffer
  <2>2. \A q \in made : q[1] = "calls" => q \in CallRels(t, Present(t) \intersect Code, Symbols(NewIds(t, S)))
    BY <1>4, KindsDiffer DEF calls
  <2>3. PICK src \in Callers, g \in Code, s \in PartNames :
           /\ r = CallsRel(src, g, s)
           /\ t[src[2]] # NoFile /\ WrittenCall(t, src, s)
           /\ src \in NewIds(t, S) /\ PartId(g, s) \in NewIds(t, S)
    <3> HIDE DEF made, S
    <3> QED
      BY <1>1, <1>8, <2>1, <2>2, FullCallsAre
  <2> QED
    BY <2>3 DEF FullIds
<1> HIDE DEF made, S
<1>9. FullRels(t, docs) \subseteq RelIds
  <2>1. ASSUME NEW r \in FullRels(t, docs)
        PROVE  r \in RelIds
    <3>1. CASE r[1] = "calls"
      BY <1>8, <3>1, RelsNamed
    <3>2. CASE r[1] # "calls"
      BY <1>3, <1>5, <1>7, <3>2, RelsNamed DEF made
    <3> QED
      BY <3>1, <3>2
  <2> QED
    BY <2>1
<1>10. ASSUME NEW x \in Files \union Dirs, Parent[x] # Root
       PROVE  ContainsRel(x) \in FullRels(t, docs) <=> IdOf(x) \in FullIds(t, docs)
   <2>1. ContainsRel(x) \in FullRels(t, docs) <=> ContainsRel(x) \in StructureRels(t, S)
     BY <1>4, <1>7, RelParts, KindsDiffer DEF struct
   <2> QED
     BY <1>1, <1>10, <2>1, StructureRelsAre, FullIdsAre, IdOfNames DEF S
<1>11. ASSUME NEW f \in Files, NEW s
       PROVE  DefinesRel(f, s) \in FullRels(t, docs) <=> PartId(f, s) \in FullIds(t, docs)
   <2>1. DefinesRel(f, s) \in FullRels(t, docs) <=> DefinesRel(f, s) \in StructureRels(t, S)
     BY <1>4, <1>7, RelParts, KindsDiffer DEF struct
   <2> QED
     BY <1>1, <2>1, StructureRelsAre, FullIdsAre DEF S
<1>12. ASSUME NEW f \in Files, NEW g \in Files
       PROVE  RefersRel(f, g) \in FullRels(t, docs) <=>
                f \in S /\ g \in LinkedTo(t, f, Known(t, f))
   <2>1. RefersRel(f, g) \in FullRels(t, docs) <=> RefersRel(f, g) \in imports \union links
     BY <1>4, <1>7, RelParts, KindsDiffer
   <2>2. CASE f \in Code
     BY <1>1, <1>6, <2>1, <2>2, FilesSplit DEF Known
   <2>3. CASE f \notin Code
     BY <1>6, <2>1, <2>3, FilesSplit DEF Known
   <2> QED
     BY <2>2, <2>3
<1>13. ASSUME NEW f \in Code, NEW m \in MarkNames
       PROVE  BelongsRel(f, m) \in FullRels(t, docs) <=> MarkId(f, m) \in FullIds(t, docs)
  <2>1. BelongsRel(f, m) \in FullRels(t, docs) <=> BelongsRel(f, m) \in marked
    BY <1>4, <1>7, RelParts, KindsDiffer
  <2>2. \A g, k : BelongsRel(f, m) = BelongsRel(g, k) => f = g /\ m = k
    <3> SUFFICES ASSUME NEW g, NEW k, BelongsRel(f, m) = BelongsRel(g, k)
                 PROVE  f = g /\ m = k
      OBVIOUS
    <3>1. MarkId(f, m) = MarkId(g, k)
      BY RelParts
    <3> QED
      BY <3>1, IdParts
  <2>3. BelongsRel(f, m) \in marked <=> t[f] # NoFile /\ m \in t[f].marks
    BY <1>3, <2>2
  <2> QED
    BY <2>1, <2>3, FullIdsAre
<1>14. ASSUME NEW f, NEW s
       PROVE  MemberRel(f, s) \notin FullRels(t, docs)
  BY <1>4, <1>7, RelParts, KindsDiffer
<1> QED
  BY <1>8, <1>9, <1>10, <1>11, <1>12, <1>13, <1>14 DEF S

(* What the graph has after an analysis: that, and the communities.        *)
LEMMA AnalyzeMaps ==
  ASSUME ContentsTyped, NEW docs \in BOOLEAN, Analyze(docs)
  PROVE  /\ MapsInv'
         /\ \A id \in Ids \ {CommunityId} : nodes'[id] # NoNode <=> id \in FullIds(tree, docs)
         /\ \A r \in RelIds : r[1] # "member" =>
              (relationships'[r] # NoRel <=> r \in FullRels(tree, docs))
         /\ \A f \in Code, s \in PartNames : relationships'[MemberRel(f, s)] # NoRel =>
              PartId(f, s) \in FullIds(tree, docs) /\ nodes'[CommunityId] # NoNode
<1> DEFINE ids  == FullIds(tree, docs)
           rels == FullRels(tree, docs)
<1>1. PICK grouped \in SUBSET Symbols(ids) :
        SetGraph(ids \union (IF grouped = {} THEN {} ELSE {CommunityId}),
                 rels \union {MemberRel(p[1], p[2]) : p \in grouped})
  BY DEF Analyze
<1> DEFINE members == {MemberRel(p[1], p[2]) : p \in grouped}
           group   == IF grouped = {} THEN {} ELSE {CommunityId}
<1>2. tree \in Trees
  BY DEF ContentsTyped
<1>3. \A p \in grouped : p[1] \in Code /\ p[2] \in PartNames /\ PartId(p[1], p[2]) \in ids
  BY DEF Symbols
<1>4. ids \subseteq Ids /\ rels \subseteq RelIds
  BY <1>2, FullIdsAre, FullRelsAre
<1>5. members \subseteq RelIds /\ group \subseteq Ids /\ \A r \in members : r[1] = "member"
  BY <1>3, IdsNamed, RelsNamed, RelParts
<1>6. \A f, s : MemberRel(f, s) \in members => PartId(f, s) \in ids /\ CommunityId \in group
  <2> SUFFICES ASSUME NEW f, NEW s, MemberRel(f, s) \in members
               PROVE  PartId(f, s) \in ids /\ CommunityId \in group
    OBVIOUS
  <2>1. PICK p \in grouped : MemberRel(f, s) = MemberRel(p[1], p[2])
    OBVIOUS
  <2>2. PartId(f, s) = PartId(p[1], p[2])
    BY <2>1, RelParts
  <2> QED
    BY <1>3, <2>2
<1>7. SetGraph(ids \union group, rels \union members)
  BY <1>1
<1>8. group \subseteq {CommunityId}
  OBVIOUS
<1>9. \A f, s : MemberRel(f, s) \notin rels
  BY <1>2, FullRelsAre
<1> HIDE DEF ids, rels, members, group
<1>10. /\ MapsInv'
       /\ \A id \in Ids : nodes'[id] # NoNode <=> id \in ids \union group
       /\ \A r \in RelIds : relationships'[r] # NoRel <=> r \in rels \union members
  <2>1. ids \union group \in SUBSET Ids /\ rels \union members \in SUBSET RelIds
    BY <1>4, <1>5
  <2> QED
    BY <1>7, <2>1, SetGraphMaps
<1>11. \A f \in Code, s \in PartNames : relationships'[MemberRel(f, s)] # NoRel =>
         PartId(f, s) \in ids /\ nodes'[CommunityId] # NoNode
  BY <1>6, <1>9, <1>10, RelsNamed, IdsNamed
<1> QED
  BY <1>5, <1>8, <1>10, <1>11 DEF ids, rels

LEMMA AnalyzeStep ==
  ASSUME UpdateInv, NEW docs \in BOOLEAN, Analyze(docs)
  PROVE  UpdateInv'
<1> DEFINE S == Indexed(tree, docs)
<1>1. /\ tree' = tree /\ manifest' = CodeOnly(tree) /\ missed' = {} /\ changed' = {}
      /\ synced' = TRUE /\ analyzed' = IF docs THEN DocsOnly(tree) ELSE NothingListed
      /\ touched' = {} /\ orphans' = {}
  BY DEF Analyze
<1>2. tree \in Trees /\ ContentsTyped
  BY DEF UpdateInv, ContentsTyped
<1>3. /\ MapsInv'
      /\ \A id \in Ids \ {CommunityId} : nodes'[id] # NoNode <=> id \in FullIds(tree, docs)
      /\ \A r \in RelIds : r[1] # "member" =>
           (relationships'[r] # NoRel <=> r \in FullRels(tree, docs))
      /\ \A f \in Code, s \in PartNames : relationships'[MemberRel(f, s)] # NoRel =>
           PartId(f, s) \in FullIds(tree, docs) /\ nodes'[CommunityId] # NoNode
  BY <1>2, AnalyzeMaps
<1>4. \A f \in Files : f \in S <=> tree[f] # NoFile /\ (f \in Code \/ docs)
  BY <1>2, IndexedFiles
<1>5. \A f \in Files : /\ manifest'[f] = IF f \in Code THEN tree[f] ELSE NoFile
                       /\ analyzed'[f] = IF docs /\ f \in Docs THEN tree[f] ELSE NoFile
  BY <1>1 DEF CodeOnly, DocsOnly, NothingListed
<1>6. \A f \in Files : Base'[f] = IF f \in S THEN tree[f] ELSE NoFile
  BY <1>4, <1>5, FilesSplit DEF Base
<1>7. /\ \A f \in Files : FileId(f) # CommunityId
      /\ \A f, s : PartId(f, s) # CommunityId /\ MarkId(f, s) # CommunityId
      /\ \A d : FolderId(d) # CommunityId
      /\ \A x \in Files \union Dirs : IdOf(x) # CommunityId
  BY IdParts, LabelsDiffer, IdOfNames, IncrementalAssumption DEF IdOf
<1>8. /\ \A f \in Files : HasFile(f)' <=> f \in S
      /\ \A f \in Files, s \in PartNames : HasPart(f, s)' <=> f \in S /\ s \in tree[f].parts
      /\ \A d \in Dirs : nodes'[FolderId(d)] # NoNode <=> \E f \in S : d \in Above[f]
      /\ \A f \in Code, m \in MarkNames :
           HasMark(f, m)' <=> tree[f] # NoFile /\ m \in tree[f].marks
  BY <1>2, <1>3, <1>7, FullIdsAre, IdsNamed DEF HasFile, HasPart, HasMark
<1>9. S \subseteq Files /\ \A f \in S : tree[f] # NoFile /\ tree[f].parts \subseteq PartNames
  BY <1>2, IndexedFiles, PresentTyped
<1>10. FoldersInv'
  BY <1>8, <1>9 DEF FoldersInv
<1>11. FilesInv'
  BY <1>6, <1>8, <1>9 DEF FilesInv
<1>12. MarksInv'
  <2>1. ASSUME NEW f \in Code, NEW m \in MarkNames
        PROVE  /\ HasMark(f, m)' <=> f \notin touched' /\ Base'[f] # NoFile /\ m \in Base'[f].marks
               /\ HasRel(BelongsRel(f, m))' <=> HasMark(f, m)'
    <3>1. HasMark(f, m)' <=> f \notin touched' /\ Base'[f] # NoFile /\ m \in Base'[f].marks
      BY <1>1, <1>4, <1>6, <1>8, FilesSplit
    <3>2. HasRel(BelongsRel(f, m))' <=> MarkId(f, m) \in FullIds(tree, docs)
      BY <1>2, <1>3, FullRelsAre, RelsNamed, RelParts, KindsDiffer DEF HasRel
    <3> QED
      BY <1>3, <1>7, <3>1, <3>2, IdsNamed DEF HasMark
  <2>2. ASSUME NEW f \in Code, NEW s \in PartNames, HasRel(MemberRel(f, s))'
        PROVE  f \notin touched' /\ HasPart(f, s)' /\ nodes'[CommunityId] # NoNode
    BY <1>1, <1>3, <1>7, <2>2, IdsNamed, FilesSplit DEF HasRel, HasPart
  <2> QED
    BY <2>1, <2>2 DEF MarksInv
<1>13. \A f \in Files, g \in Files :
         HasRel(RefersRel(f, g))' <=> f \in S /\ g \in LinkedTo(tree, f, Known(tree, f))
  BY <1>2, <1>3, FullRelsAre, RelsNamed, RelParts, KindsDiffer DEF HasRel
<1>14. RelsInv'
  <2>1. ASSUME NEW x \in Files \union Dirs, Parent[x] # Root
        PROVE  HasRel(ContainsRel(x))' <=> nodes'[IdOf(x)] # NoNode
    BY <1>2, <1>3, <1>7, <2>1, FullRelsAre, RelsNamed, RelParts, KindsDiffer, IdOfNames DEF HasRel
  <2>2. ASSUME NEW f \in Files, NEW s \in PartNames
        PROVE  HasRel(DefinesRel(f, s))' <=> HasPart(f, s)'
    BY <1>2, <1>3, <1>7, FullRelsAre, RelsNamed, RelParts, KindsDiffer, IdsNamed DEF HasRel, HasPart
  <2>3. ASSUME NEW f \in Files, NEW g \in Files, HasRel(RefersRel(f, g))'
        PROVE  HasFile(f)' /\ HasFile(g)' /\ Named(Base, f, g)'
    <3>1. f \in S /\ g \in Known(tree, f) /\ Named(tree, f, g)
      BY <1>13, <2>3, LinkedToIs
    <3>2. g \in S
      BY <1>2, <1>4, <3>1, IndexedFiles, FilesSplit DEF Known
    <3>3. Named(Base, f, g)' <=> Named(tree, f, g)
      BY <1>6, <3>1 DEF Named
    <3> QED
      BY <1>8, <3>1, <3>2, <3>3
  <2> QED
    BY <2>1, <2>2, <2>3 DEF RelsInv
<1>15. CallsInv'
  <2> SUFFICES ASSUME NEW src \in Callers, NEW g \in Code, NEW s \in PartNames,
                      HasRel(CallsRel(src, g, s))'
               PROVE  HasPart(g, s)' /\ nodes'[src] # NoNode /\ WrittenCall(Base, src, s)'
    BY <1>1 DEF CallsInv
  <2>1. CallsRel(src, g, s) \in FullRels(tree, docs) /\ CallsRel(src, g, s)[1] = "calls"
    BY <1>3, RelsNamed, RelParts, KindsDiffer DEF HasRel
  <2>2. PICK src0 \in Callers, g0 \in Code, s0 \in PartNames :
          /\ CallsRel(src, g, s) = CallsRel(src0, g0, s0)
          /\ tree[src0[2]] # NoFile /\ WrittenCall(tree, src0, s0)
          /\ src0 \in FullIds(tree, docs) /\ PartId(g0, s0) \in FullIds(tree, docs)
    BY <1>2, <2>1, FullRelsAre
  <2>3. src = src0 /\ s = s0 /\ PartId(g, s) = PartId(g0, s0)
    <3>1. src = src0 /\ PartId(g, s) = PartId(g0, s0)
      BY <2>2, RelParts
    <3> QED
      BY <3>1, IdParts
  <2>4. src \in Ids /\ src # CommunityId /\ src[2] \in Code /\ src[2] \in Files
    BY <1>7, CallersAre
  <2>5. Base'[src[2]] = tree[src[2]]
    BY <1>4, <1>6, <2>2, <2>3, <2>4
  <2>6. WrittenCall(Base, src, s)'
    BY <2>2, <2>3, <2>5 DEF WrittenCall, AttributedTo
  <2> QED
    BY <1>3, <1>7, <2>2, <2>3, <2>4, <2>6, IdsNamed, FilesSplit DEF HasPart
<1>16. ImportsInv'
  <2> SUFFICES ASSUME NEW f \in Code, manifest'[f] # NoFile, NEW g \in Files
               PROVE  HasRel(RefersRel(f, g))' <=> g \in LinkedTo(manifest', f, Known(manifest', f))
    BY DEF ImportsInv
  <2>1. f \in Files /\ manifest'[f] = tree[f] /\ f \in S
    BY <1>4, <1>5, FilesSplit
  <2>2. Known(manifest', f) = Known(tree, f)
    BY <1>5, FilesSplit DEF Known, Present
  <2>3. LinkedTo(manifest', f, Known(manifest', f)) = LinkedTo(tree, f, Known(tree, f))
    BY <2>1, <2>2 DEF LinkedTo
  <2> QED
    BY <1>13, <2>1, <2>3
<1>17. AnalyzedInv'
  BY <1>5, FilesSplit DEF AnalyzedInv
<1>18. SyncedInv'
  <2>1. graph_has_documents' <=> \E f \in Docs : HasFile(f)'
    BY <1>11, DocumentsSeen DEF graph_has_documents, FilesInv, HasFile, HasPart
  <2> QED
    BY <1>1, <1>4, <1>6, <1>8, <2>1, FilesSplit DEF SyncedInv
<1>19. ChangedInv'
  <2>1. \A f \in Present(tree) : f \in Concerned(tree, f)
    BY ConcernedAre, <1>2, IndexedFiles
  <2> QED
    BY <1>1, <2>1 DEF ChangedInv
<1>20. ContentsTyped'
  BY <1>1, <1>2 DEF ContentsTyped, Trees, CodeOnly, DocsOnly, NothingListed
<1> QED
  BY <1>3, <1>10, <1>11, <1>12, <1>14, <1>15, <1>16, <1>17, <1>18, <1>19, <1>20 DEF UpdateInv

-----------------------------------------------------------------------------
(* incremental_update.                                                     *)

LEMMA NewManifestTyped ==
  ASSUME ContentsTyped
  PROVE  /\ NewManifest \in Trees
         /\ \A f \in Files : NewManifest[f] =
              IF f \in Code \/ graph_has_documents THEN tree[f] ELSE NoFile
BY IncrementalAssumption DEF ContentsTyped, NewManifest, CodeOnly, Trees, Files

LEMMA FoundAgainAre ==
  ASSUME NEW t, NEW S
  PROVE  /\ \A r \in FoundAgain(t, S) : r[1] = "refers"
         /\ \A f, g : RefersRel(f, g) \in FoundAgain(t, S) <=>
              \/ f \in S \intersect Code /\ g \in LinkedTo(t, f, S \intersect Code)
              \/ f \in S \intersect Docs /\ g \in LinkedTo(t, f, Present(t))
BY ReferenceRelsAre DEF FoundAgain

(* The graph between the insertion of what changed and the pruning, and    *)
(* what the pruning leaves of it.                                          *)
LEMMA UpdateMaps ==
  ASSUME UpdateInv, Update
  PROVE  LET dropped == RemovedOrModified(NewManifest)
             parsed  == AddedOrModified(NewManifest)
         IN  /\ MapsInv' /\ FoldersInv'
             /\ \A f \in Files : HasFile(f)' <=> f \in parsed \/ (HasFile(f) /\ f \notin dropped)
             /\ \A f \in Files, s \in PartNames :
                  HasPart(f, s)' <=> \/ f \in parsed /\ s \in NewManifest[f].parts
                                     \/ HasPart(f, s) /\ f \notin dropped
             /\ \A x \in Files \union Dirs : Parent[x] # Root =>
                  (HasRel(ContainsRel(x))' <=> nodes'[IdOf(x)] # NoNode)
             /\ \A f \in Files, s \in PartNames : HasRel(DefinesRel(f, s))' <=> HasPart(f, s)'
             /\ \A f, g \in Files : HasRel(RefersRel(f, g))' <=>
                  \/ RefersRel(f, g) \in FoundAgain(NewManifest, parsed)
                  \/ HasRel(RefersRel(f, g)) /\ f \notin dropped /\ g \notin dropped
             /\ \A f \in Code, m \in MarkNames :
                  /\ HasMark(f, m)' <=> HasMark(f, m) /\ f \notin dropped
                  /\ HasRel(BelongsRel(f, m))' <=> HasMark(f, m)'
             /\ \A f \in Code, s \in PartNames :
                  HasRel(MemberRel(f, s))' => HasRel(MemberRel(f, s)) /\ f \notin dropped
             /\ nodes'[CommunityId] # NoNode <=> nodes[CommunityId] # NoNode
             /\ \A src \in Callers, g \in Code, s \in PartNames : HasRel(CallsRel(src, g, s))' =>
                  \/ /\ HasPart(g, s)'
                     /\ \E f \in parsed \intersect Code : \E c \in NewManifest[f].calls :
                          src = CallSource(f, c) /\ s = c.of
                  \/ /\ HasRel(CallsRel(src, g, s)) /\ g \notin dropped
                     /\ nodes[src] # NoNode => src[2] \notin dropped
<1> DEFINE new     == NewManifest
           dropped == RemovedOrModified(new)
           parsed  == AddedOrModified(new)
           gone    == UNION {file_index[f] : f \in dropped}
           kept    == [p \in Paths |-> IF p \in dropped THEN {} ELSE file_index[p]]
           ns      == NodesWith(WithoutNodes(nodes, gone), new, parsed)
           rs      == RelsWith(Retained(relationships, gone), ns, new, parsed)
           fx      == IndexWith(kept, new, parsed)
           empty   == Prunable(ns, rs)
           newIds  == NewIds(new, parsed)
           calls   == CallRels(new, parsed \intersect Code, Symbols(NodeIds(ns)))
           newRels == StructureRels(new, parsed) \union FoundAgain(new, parsed) \union calls
<1>1. /\ nodes' = WithoutNodes(ns, empty)
      /\ relationships' = Retained(rs, empty)
      /\ file_index' = IndexWithoutNodes(fx, ns, empty)
  BY DEF Update
<1>2. /\ new \in Trees /\ dropped \in SUBSET Files
      /\ parsed \in SUBSET Present(new) /\ parsed \in SUBSET Files
  BY NewManifestTyped DEF UpdateInv, RemovedOrModified, AddedOrModified, Present
<1>3. newIds \subseteq Ids
  BY <1>2, NewIdsTyped
<1>4. Honest(nodes, relationships) /\ IndexExact /\ file_index \in [Paths -> SUBSET Ids]
  BY DEF UpdateInv, MapsInv
<1>5. \A id \in Ids : nodes[id] # NoNode => nodes[id].file_path = id[2]
  BY <1>4, IdsTyped DEF Honest
<1>6. \A id \in Ids : id \in gone <=> nodes[id] # NoNode /\ id[2] \in dropped
  <2>1. \A f \in dropped : file_index[f] = InFile(nodes, f)
    BY <1>2, <1>4, IncrementalAssumption DEF IndexExact
  <2> QED
    BY <1>5, <2>1 DEF InFile, NodeIds
<1> HIDE DEF new, dropped, parsed, gone
<1>7. \A id \in Ids : ns[id] = IF id \in newIds THEN NodeOf(id)
                               ELSE IF id \in gone THEN NoNode ELSE nodes[id]
  BY IncrementalAssumption DEF NodesWith, WithoutNodes
<1>8. \A r \in RelIds :
        rs[r] = IF r \in newRels THEN RelOf(r)
                ELSE IF relationships[r] # NoRel /\ Touches(relationships[r], gone) THEN NoRel
                ELSE relationships[r]
  BY IncrementalAssumption DEF RelsWith, Retained
<1> HIDE DEF calls
<1>9. Honest(ns, rs)
  <2>1. ns \in NodeMaps
    <3>1. ns = [id \in Ids |-> ns[id]]
      BY IncrementalAssumption DEF NodesWith
    <3>2. \A id \in Ids : ns[id] \in Nodes \union {NoNode}
      BY <1>4, <1>7, IdsTyped DEF Honest, NodeMaps
    <3> QED
      BY <3>1, <3>2 DEF NodeMaps
  <2>2. rs \in RelMaps
    <3>1. rs = [r \in RelIds |-> rs[r]]
      BY IncrementalAssumption DEF RelsWith
    <3>2. \A r \in RelIds : rs[r] \in Rels \union {NoRel}
      BY <1>4, <1>8, RelsTyped DEF Honest, RelMaps
    <3> QED
      BY <3>1, <3>2 DEF RelMaps
  <2> HIDE DEF ns, rs
  <2> QED
    BY <1>4, <1>7, <1>8, <2>1, <2>2 DEF Honest
<1> HIDE DEF ns, rs
<1>10. \A id \in Ids : ns[id] # NoNode <=> id \in newIds \/ (nodes[id] # NoNode /\ id[2] \notin dropped)
  BY <1>6, <1>7, IdsTyped
<1>11. \A r \in RelIds : rs[r] # NoRel <=>
         r \in newRels \/ (HasRel(r) /\ r[2] \notin gone /\ r[3] \notin gone)
  <2>1. \A r \in RelIds : HasRel(r) => (Touches(relationships[r], gone) <=> r[2] \in gone \/ r[3] \in gone)
    BY <1>4, RelsTyped DEF Honest, HasRel, Touches
  <2> QED
    BY <1>8, <2>1, RelsTyped DEF HasRel
<1>12. /\ \A f \in Files : FileId(f) \in newIds <=> f \in parsed
       /\ \A d \in Dirs : FolderId(d) \in newIds <=> \E f \in parsed : d \in Above[f]
       /\ \A f \in Files : \A s : PartId(f, s) \in newIds <=> f \in parsed /\ s \in new[f].parts
       /\ \A f, m : MarkId(f, m) \notin newIds
       /\ CommunityId \notin newIds
  BY <1>2, NewIdsAre
<1> HIDE DEF newIds
<1>13. /\ \A r : r[1] \in {"contains", "defines"} => (r \in newRels <=> r \in StructureRels(new, parsed))
       /\ \A r : r[1] = "refers" => (r \in newRels <=> r \in FoundAgain(new, parsed))
       /\ \A r : r[1] = "calls" => (r \in newRels <=> r \in calls)
       /\ \A r : r[1] \in {"belongs", "member"} => r \notin newRels
  <2>1. \A r \in StructureRels(new, parsed) : r[1] \in {"contains", "defines"}
    BY <1>2, StructureRelsAre
  <2>2. \A r \in FoundAgain(new, parsed) : r[1] = "refers"
    BY FoundAgainAre
  <2>3. \A r \in calls : r[1] = "calls"
    BY CallRelsCall DEF calls
  <2> QED
    BY <2>1, <2>2, <2>3
<1> HIDE DEF newRels
<1>14. \A f \in Files : ns[FileId(f)] # NoNode <=> f \in parsed \/ (HasFile(f) /\ f \notin dropped)
  BY <1>10, <1>12, IdsNamed, IdParts DEF HasFile
<1>15. \A d \in Dirs : d \notin dropped
  BY <1>2, IncrementalAssumption
<1>16. \A d \in Dirs : ns[FolderId(d)] # NoNode <=>
         (\E f \in parsed : d \in Above[f]) \/ nodes[FolderId(d)] # NoNode
  BY <1>10, <1>12, <1>15, IdsNamed, IdParts
<1>17. \A f \in Files, s \in PartNames :
         ns[PartId(f, s)] # NoNode <=> \/ f \in parsed /\ s \in new[f].parts
                                       \/ HasPart(f, s) /\ f \notin dropped
  BY <1>10, <1>12, IdsNamed, IdParts DEF HasPart
<1>18. ASSUME NEW x \in Files \union Dirs, Parent[x] # Root
       PROVE  rs[ContainsRel(x)] # NoRel <=> ns[IdOf(x)] # NoNode
  <2>1. ContainsRel(x) \in newRels <=> IdOf(x) \in newIds
    <3>1. ContainsRel(x) \in newRels <=> ContainsRel(x) \in StructureRels(new, parsed)
      BY <1>13, RelParts
    <3> QED
      BY <1>2, <1>12, <1>18, <3>1, StructureRelsAre, IdOfNames
  <2>2. ContainsRel(x) \in RelIds /\ ContainsRel(x)[2] = FolderId(Parent[x]) /\ ContainsRel(x)[3] = IdOf(x)
    BY <1>18, RelsNamed, RelParts
  <2>3. FolderId(Parent[x]) \notin gone
    BY <1>6, <1>15, <1>18, ParentIsDir, IdsNamed, IdParts
  <2>4. HasRel(ContainsRel(x)) <=> nodes[IdOf(x)] # NoNode
    BY <1>18 DEF UpdateInv, RelsInv
  <2>5. IdOf(x) \in Ids
    BY IdOfNames
  <2> QED
    BY <1>6, <1>10, <1>11, <2>1, <2>2, <2>3, <2>4, <2>5
<1>19. ASSUME NEW f \in Files, NEW s \in PartNames
       PROVE  rs[DefinesRel(f, s)] # NoRel <=> ns[PartId(f, s)] # NoNode
  <2>1. DefinesRel(f, s) \in newRels <=> f \in parsed /\ s \in new[f].parts
    <3>1. DefinesRel(f, s) \in newRels <=> DefinesRel(f, s) \in StructureRels(new, parsed)
      BY <1>13, RelParts
    <3> QED
      BY <1>2, <3>1, StructureRelsAre
  <2>2. DefinesRel(f, s) \in RelIds /\ DefinesRel(f, s)[2] = FileId(f) /\ DefinesRel(f, s)[3] = PartId(f, s)
    BY RelsNamed, RelParts
  <2>3. HasRel(DefinesRel(f, s)) <=> HasPart(f, s)
    BY DEF UpdateInv, RelsInv
  <2>4. HasPart(f, s) => (FileId(f) \in gone <=> f \in dropped) /\ (PartId(f, s) \in gone <=> f \in dropped)
    BY <1>6, IdsNamed, IdParts DEF UpdateInv, FilesInv, HasPart, HasFile
  <2> QED
    BY <1>11, <1>17, <2>1, <2>2, <2>3, <2>4
<1>20. ASSUME NEW f \in Files, NEW g \in Files
       PROVE  rs[RefersRel(f, g)] # NoRel <=>
                \/ RefersRel(f, g) \in FoundAgain(new, parsed)
                \/ HasRel(RefersRel(f, g)) /\ f \notin dropped /\ g \notin dropped
  <2>1. RefersRel(f, g) \in newRels <=> RefersRel(f, g) \in FoundAgain(new, parsed)
    BY <1>13, RelParts
  <2>2. RefersRel(f, g) \in RelIds /\ RefersRel(f, g)[2] = FileId(f) /\ RefersRel(f, g)[3] = FileId(g)
    BY RelsNamed, RelParts
  <2>3. HasRel(RefersRel(f, g)) => (FileId(f) \in gone <=> f \in dropped) /\ (FileId(g) \in gone <=> g \in dropped)
    BY <1>6, IdsNamed, IdParts DEF UpdateInv, RelsInv, HasFile
  <2> QED
    BY <1>11, <2>1, <2>2, <2>3
<1>21. ASSUME NEW f \in Code, NEW m \in MarkNames
       PROVE  /\ ns[MarkId(f, m)] # NoNode <=> HasMark(f, m) /\ f \notin dropped
              /\ rs[BelongsRel(f, m)] # NoRel <=> HasMark(f, m) /\ f \notin dropped
  <2>1. /\ ns[MarkId(f, m)] # NoNode <=> HasMark(f, m) /\ f \notin dropped
        /\ MarkId(f, m) \in gone <=> HasMark(f, m) /\ f \in dropped
        /\ FileId(f) \in gone => f \in dropped
    BY <1>6, <1>10, <1>12, IdsNamed, IdParts, FilesSplit DEF HasMark
  <2>2. /\ BelongsRel(f, m) \in RelIds /\ BelongsRel(f, m) \notin newRels
        /\ BelongsRel(f, m)[2] = MarkId(f, m) /\ BelongsRel(f, m)[3] = FileId(f)
    BY <1>13, RelsNamed, RelParts
  <2>3. HasRel(BelongsRel(f, m)) <=> HasMark(f, m)
    BY DEF UpdateInv, MarksInv
  <2> QED
    BY <1>11, <2>1, <2>2, <2>3
<1>22. ASSUME NEW f \in Code, NEW s \in PartNames, rs[MemberRel(f, s)] # NoRel
       PROVE  HasRel(MemberRel(f, s)) /\ f \notin dropped
  <2>1. /\ MemberRel(f, s) \in RelIds /\ MemberRel(f, s) \notin newRels
        /\ MemberRel(f, s)[2] = PartId(f, s)
    BY <1>13, RelsNamed, RelParts
  <2>2. HasRel(MemberRel(f, s)) /\ PartId(f, s) \notin gone
    BY <1>11, <1>22, <2>1
  <2>3. HasPart(f, s)
    BY <2>2 DEF UpdateInv, MarksInv
  <2> QED
    BY <1>6, <2>2, <2>3, IdsNamed, IdParts, FilesSplit DEF HasPart
<1>23. ns[CommunityId] # NoNode <=> nodes[CommunityId] # NoNode
  BY <1>2, <1>10, <1>12, IdsNamed, IdParts, IncrementalAssumption
<1>24. ASSUME NEW src \in Callers, NEW g \in Code, NEW s \in PartNames,
              rs[CallsRel(src, g, s)] # NoRel
       PROVE  \/ /\ ns[PartId(g, s)] # NoNode
                 /\ \E f \in parsed \intersect Code : \E c \in new[f].calls :
                      src = CallSource(f, c) /\ s = c.of
              \/ /\ HasRel(CallsRel(src, g, s)) /\ g \notin dropped
                 /\ nodes[src] # NoNode => src[2] \notin dropped
  <2>1. /\ CallsRel(src, g, s) \in RelIds /\ CallsRel(src, g, s)[1] = "calls"
        /\ CallsRel(src, g, s)[2] = src /\ CallsRel(src, g, s)[3] = PartId(g, s)
    BY RelsNamed, RelParts
  <2>2. \/ CallsRel(src, g, s) \in calls
        \/ HasRel(CallsRel(src, g, s)) /\ src \notin gone /\ PartId(g, s) \notin gone
    <3>1. CallsRel(src, g, s) \in newRels <=> CallsRel(src, g, s) \in calls
      BY <1>13, RelParts
    <3> QED
      BY <1>11, <1>24, <2>1, <3>1
  <2>3. CASE CallsRel(src, g, s) \in calls
    <3>1. \E f \in parsed \intersect Code : \E c \in new[f].calls : \E h \in Code :
            /\ CallsRel(src, g, s) = CallsRel(CallSource(f, c), h, c.of)
            /\ <<h, c.of>> \in Symbols(NodeIds(ns))
      BY <2>3, CallRelsAre, SMTT(30) DEF calls
    <3>2. PICK f \in parsed \intersect Code : \E c \in new[f].calls : \E h \in Code :
            /\ CallsRel(src, g, s) = CallsRel(CallSource(f, c), h, c.of)
            /\ <<h, c.of>> \in Symbols(NodeIds(ns))
      BY <3>1
    <3>3. PICK c \in new[f].calls, h \in Code :
            /\ CallsRel(src, g, s) = CallsRel(CallSource(f, c), h, c.of)
            /\ <<h, c.of>> \in Symbols(NodeIds(ns))
      BY <3>2
    <3>4. src = CallSource(f, c) /\ PartId(g, s) = PartId(h, c.of)
      BY <3>3, RelParts
    <3>5. g = h /\ s = c.of
      BY <3>4, IdParts
    <3>6. PartId(g, s) \in NodeIds(ns)
      BY <3>3, <3>5 DEF Symbols
    <3> QED
      BY <3>4, <3>5, <3>6 DEF NodeIds
  <2>4. CASE HasRel(CallsRel(src, g, s)) /\ src \notin gone /\ PartId(g, s) \notin gone
    <3>1. HasPart(g, s)
      BY <2>4 DEF UpdateInv, CallsInv
    <3> QED
      BY <1>6, <2>4, <3>1, IdsNamed, IdParts, CallersAre, FilesSplit DEF HasPart
  <2> QED
    BY <2>2, <2>3, <2>4
<1>25. Hanging(ns, rs)
  <2>1. ASSUME NEW f \in Files, ns[FileId(f)] # NoNode, NEW d \in Above[f]
        PROVE  ns[FolderId(d)] # NoNode
    <3>1. d \in Dirs
      BY AboveClosed
    <3>2. HasFile(f) => nodes[FolderId(d)] # NoNode
      BY <3>1 DEF UpdateInv, FoldersInv
    <3> QED
      BY <1>14, <1>16, <2>1, <3>1, <3>2
  <2> QED
    BY <1>18, <2>1 DEF Hanging
<1>26. /\ empty \subseteq Folders(ns)
       /\ \A d \in Dirs :
            ns[FolderId(d)] # NoNode /\ FolderId(d) \notin empty <=>
              \E f \in Files : ns[FileId(f)] # NoNode /\ d \in Above[f]
  BY <1>9, <1>25, PruningLeaves
<1> HIDE DEF empty
<1>27. \A id \in Ids : nodes'[id] # NoNode <=> ns[id] # NoNode /\ id \notin empty
  BY <1>1 DEF WithoutNodes
<1>28. \A r \in RelIds : relationships'[r] # NoRel <=>
         rs[r] # NoRel /\ r[2] \notin empty /\ r[3] \notin empty
  <2>1. \A r \in RelIds : rs[r] # NoRel => (Touches(rs[r], empty) <=> r[2] \in empty \/ r[3] \in empty)
    BY <1>9, RelsTyped DEF Honest, Touches
  <2> QED
    BY <1>1, <2>1 DEF Retained
<1>29. /\ \A f \in Files : FileId(f) \notin empty
       /\ \A f \in Files, s \in PartNames : PartId(f, s) \notin empty
       /\ \A f \in Code, m \in MarkNames : MarkId(f, m) \notin empty
       /\ CommunityId \notin empty
       /\ \A src \in Callers : src \notin empty
  <2>1. /\ \A f \in Files : FileId(f) \notin empty
        /\ \A f \in Files, s \in PartNames : PartId(f, s) \notin empty
        /\ \A f \in Code, m \in MarkNames : MarkId(f, m) \notin empty
        /\ CommunityId \notin empty
    BY <1>9, <1>26, FoldersAre
  <2> QED
    BY <2>1, CallersAre
<1>30. \A f \in Files : HasFile(f)' <=> ns[FileId(f)] # NoNode
  BY <1>27, <1>29, IdsNamed DEF HasFile
<1>31. \A f \in Files, s \in PartNames : HasPart(f, s)' <=> ns[PartId(f, s)] # NoNode
  BY <1>27, <1>29, IdsNamed DEF HasPart
<1>32. FoldersInv'
  BY <1>26, <1>27, <1>30, IdsNamed DEF FoldersInv
<1>33. ASSUME NEW x \in Files \union Dirs, Parent[x] # Root
       PROVE  HasRel(ContainsRel(x))' <=> nodes'[IdOf(x)] # NoNode
  <2>1. ContainsRel(x) \in RelIds /\ ContainsRel(x)[2] = FolderId(Parent[x]) /\ ContainsRel(x)[3] = IdOf(x)
    BY <1>33, RelsNamed, RelParts
  <2>2. nodes'[IdOf(x)] # NoNode => nodes'[FolderId(Parent[x])] # NoNode
    <3>1. Parent[x] \in Dirs
      BY <1>33, ParentIsDir
    <3>2. CASE x \in Files
      BY <1>32, <1>33, <3>1, <3>2, IdOfNames, AboveClosed DEF FoldersInv, HasFile
    <3>3. CASE x \in Dirs
      BY <1>32, <1>33, <3>1, <3>3, IdOfNames, AboveClosed DEF FoldersInv
    <3> QED
      BY <3>2, <3>3
  <2>3. FolderId(Parent[x]) \in Ids /\ IdOf(x) \in Ids
    BY <1>33, ParentIsDir, IdsNamed, IdOfNames
  <2> QED
    BY <1>18, <1>27, <1>28, <1>33, <2>1, <2>2, <2>3 DEF HasRel
<1>34. ASSUME NEW f \in Files, NEW s \in PartNames
       PROVE  HasRel(DefinesRel(f, s))' <=> HasPart(f, s)'
  BY <1>19, <1>28, <1>29, <1>31, RelsNamed, RelParts DEF HasRel
<1>35. ASSUME NEW f \in Files, NEW g \in Files
       PROVE  HasRel(RefersRel(f, g))' <=> rs[RefersRel(f, g)] # NoRel
  BY <1>28, <1>29, RelsNamed, RelParts DEF HasRel
<1>36. ASSUME NEW f \in Code, NEW m \in MarkNames
       PROVE  /\ HasMark(f, m)' <=> HasMark(f, m) /\ f \notin dropped
              /\ HasRel(BelongsRel(f, m))' <=> HasMark(f, m)'
  <2>1. HasMark(f, m)' <=> HasMark(f, m) /\ f \notin dropped
    BY <1>27, <1>29, <1>21, IdsNamed DEF HasMark
  <2>2. HasRel(BelongsRel(f, m))' <=> rs[BelongsRel(f, m)] # NoRel
    BY <1>28, <1>29, RelsNamed, RelParts, FilesSplit DEF HasRel
  <2> QED
    BY <1>21, <2>1, <2>2
<1>37. ASSUME NEW f \in Code, NEW s \in PartNames, HasRel(MemberRel(f, s))'
       PROVE  HasRel(MemberRel(f, s)) /\ f \notin dropped
  BY <1>28, <1>22, <1>37, RelsNamed DEF HasRel
<1>38. nodes'[CommunityId] # NoNode <=> nodes[CommunityId] # NoNode
  BY <1>27, <1>29, <1>23, IdsNamed
<1>39. ASSUME NEW src \in Callers, NEW g \in Code, NEW s \in PartNames,
              HasRel(CallsRel(src, g, s))'
       PROVE  \/ /\ HasPart(g, s)'
                 /\ \E f \in parsed \intersect Code : \E c \in new[f].calls :
                      src = CallSource(f, c) /\ s = c.of
              \/ /\ HasRel(CallsRel(src, g, s)) /\ g \notin dropped
                 /\ nodes[src] # NoNode => src[2] \notin dropped
  <2>1. rs[CallsRel(src, g, s)] # NoRel
    BY <1>28, <1>39, RelsNamed DEF HasRel
  <2>2. HasPart(g, s)' <=> ns[PartId(g, s)] # NoNode
    BY <1>31, FilesSplit
  <2> QED
    BY <1>24, <2>1, <2>2
<1>40. MapsInv'
  <2>1. Honest(nodes', relationships')
    <3>1. nodes' \in NodeMaps /\ relationships' \in RelMaps
      BY <1>1, <1>9 DEF Honest, NodeMaps, RelMaps, WithoutNodes, Retained
    <3>2. \A id \in Ids : nodes'[id] \in {NoNode, NodeOf(id)}
      BY <1>1, <1>9 DEF Honest, WithoutNodes
    <3>3. \A r \in RelIds : relationships'[r] \in {NoRel, RelOf(r)}
      BY <1>1, <1>9 DEF Honest, Retained
    <3> QED
      BY <3>1, <3>2, <3>3 DEF Honest
  <2>2. \A p \in Paths : fx[p] = InFile(ns, p)
    <3> SUFFICES ASSUME NEW p \in Paths
                 PROVE  fx[p] = InFile(ns, p)
      OBVIOUS
    <3>2. fx[p] = (IF p \in dropped THEN {} ELSE file_index[p]) \union {id \in newIds : id[2] = p}
      BY DEF IndexWith, newIds
    <3>3. file_index[p] = {id \in Ids : nodes[id] # NoNode /\ id[2] = p}
      BY <1>4, <1>5 DEF IndexExact, InFile, NodeIds
    <3>4. InFile(ns, p) = {id \in Ids : ns[id] # NoNode /\ id[2] = p}
      BY <1>9, IdsTyped DEF Honest, InFile, NodeIds
    <3> QED
      BY <1>3, <1>10, <3>2, <3>3, <3>4
  <2>3. \A p \in Paths : file_index'[p] = fx[p] \ (empty \intersect InFile(ns, p))
    BY <1>1 DEF IndexWithoutNodes
  <2>4. \A p \in Paths : InFile(nodes', p) = InFile(ns, p) \ empty
    BY <1>1, <1>9, InFileWithout DEF Honest, NodeMaps
  <2> HIDE DEF fx
  <2>5. IndexExact'
    <3> SUFFICES ASSUME NEW p \in Paths
                 PROVE  file_index'[p] = InFile(nodes', p)
      BY DEF IndexExact
    <3>1. file_index'[p] = InFile(ns, p) \ (empty \intersect InFile(ns, p))
      BY <2>2, <2>3
    <3>2. InFile(nodes', p) = InFile(ns, p) \ empty
      BY <2>4
    <3>3. \A S, E : S \ (E \intersect S) = S \ E
      OBVIOUS
    <3> QED
      BY <3>1, <3>2, <3>3
  <2>6. \A p \in Paths : file_index'[p] \subseteq Ids
    BY <2>2, <2>3 DEF InFile, NodeIds
  <2>7. file_index' \in [Paths -> SUBSET Ids]
    BY <1>1, <2>6 DEF IndexWithoutNodes
  <2> QED
    BY <2>1, <2>5, <2>7 DEF MapsInv
<1> QED
  BY <1>14, <1>17, <1>20, <1>30, <1>31, <1>32, <1>33, <1>34, <1>35, <1>36, <1>37,
     <1>38, <1>39, <1>40 DEF new, dropped, parsed

(* What stays of a file that an update neither drops nor misses is what    *)
(* the new manifest says of it.                                            *)
LEMMA KeptIsListed ==
  ASSUME UpdateInv, NEW f \in Files \ (missed \union MissedNow), HasFile(f),
         manifest[f] # NoFile => manifest[f] = NewManifest[f]
  PROVE  Base[f] = NewManifest[f] /\ Base[f] # NoFile
<1>1. Base[f] # NoFile /\ Base[f] = IF analyzed[f] # NoFile THEN analyzed[f] ELSE manifest[f]
  BY DEF UpdateInv, FilesInv, Base
<1>2. CASE analyzed[f] = NoFile
  BY <1>1, <1>2
<1>3. CASE analyzed[f] # NoFile
  <2>1. f \in Docs /\ analyzed[f] = tree[f]
    BY <1>3 DEF UpdateInv, AnalyzedInv, MissedNow
  <2>2. graph_has_documents
    BY <2>1, DocumentsSeen DEF graph_has_documents, UpdateInv, FilesInv, HasFile, HasPart
  <2>3. NewManifest[f] = tree[f]
    BY <2>2, NewManifestTyped DEF UpdateInv
  <2> QED
    BY <1>1, <1>3, <2>1, <2>3
<1> QED
  BY <1>2, <1>3

LEMMA UpdateStep ==
  ASSUME UpdateInv, Update
  PROVE  UpdateInv'
<1> DEFINE new     == NewManifest
           dropped == RemovedOrModified(new)
           parsed  == AddedOrModified(new)
<1>1. /\ tree' = tree /\ manifest' = new /\ changed' = parsed /\ synced' = TRUE
      /\ missed' = (missed \ dropped) \union MissedNow /\ analyzed' = NothingListed
      /\ touched' = touched \union dropped \union parsed
      /\ \A r \in RelIds : r \in orphans' <=>
           HasRel(r)' /\ (r \in orphans \/ nodes'[r[2]] = NoNode)
  BY IncrementalAssumption DEF Update, HasRel
<1>2. /\ new \in Trees
      /\ \A f \in Files : new[f] = IF f \in Code \/ graph_has_documents THEN tree[f] ELSE NoFile
  BY NewManifestTyped DEF UpdateInv
<1>3. \A f \in Files : /\ f \in dropped <=> manifest[f] # NoFile /\ manifest[f] # new[f]
                       /\ f \in parsed <=> new[f] # NoFile /\ manifest[f] # new[f]
  BY DEF RemovedOrModified, AddedOrModified
<1>4. dropped \subseteq Files /\ parsed \subseteq Files
  BY DEF RemovedOrModified, AddedOrModified
<1>5. /\ MapsInv' /\ FoldersInv'
      /\ \A f \in Files : HasFile(f)' <=> f \in parsed \/ (HasFile(f) /\ f \notin dropped)
      /\ \A f \in Files, s \in PartNames :
           HasPart(f, s)' <=> \/ f \in parsed /\ s \in new[f].parts
                              \/ HasPart(f, s) /\ f \notin dropped
      /\ \A x \in Files \union Dirs : Parent[x] # Root =>
           (HasRel(ContainsRel(x))' <=> nodes'[IdOf(x)] # NoNode)
      /\ \A f \in Files, s \in PartNames : HasRel(DefinesRel(f, s))' <=> HasPart(f, s)'
      /\ \A f, g \in Files : HasRel(RefersRel(f, g))' <=>
           \/ RefersRel(f, g) \in FoundAgain(new, parsed)
           \/ HasRel(RefersRel(f, g)) /\ f \notin dropped /\ g \notin dropped
      /\ \A f \in Code, m \in MarkNames :
           /\ HasMark(f, m)' <=> HasMark(f, m) /\ f \notin dropped
           /\ HasRel(BelongsRel(f, m))' <=> HasMark(f, m)'
      /\ \A f \in Code, s \in PartNames :
           HasRel(MemberRel(f, s))' => HasRel(MemberRel(f, s)) /\ f \notin dropped
      /\ nodes'[CommunityId] # NoNode <=> nodes[CommunityId] # NoNode
      /\ \A src \in Callers, g \in Code, s \in PartNames : HasRel(CallsRel(src, g, s))' =>
           \/ /\ HasPart(g, s)'
              /\ \E f \in parsed \intersect Code : \E c \in new[f].calls :
                   src = CallSource(f, c) /\ s = c.of
           \/ /\ HasRel(CallsRel(src, g, s)) /\ g \notin dropped
              /\ nodes[src] # NoNode => src[2] \notin dropped
  BY UpdateMaps
<1>6. \A f \in Files : Base'[f] = new[f]
  BY <1>1 DEF Base, NothingListed
<1>7. ASSUME NEW f \in Files, f \notin missed', f \notin dropped, HasFile(f)
      PROVE  f \notin missed /\ Base[f] = new[f] /\ new[f] # NoFile
  BY <1>1, <1>3, <1>7, KeptIsListed
<1> HIDE DEF new, dropped, parsed
<1>8. ASSUME NEW f \in Files, new[f] # NoFile
      PROVE  HasFile(f)' /\ \A s \in new[f].parts : HasPart(f, s)'
  <2>1. new[f].parts \subseteq PartNames
    BY <1>2, <1>8, PresentTyped DEF Present
  <2>2. CASE f \in parsed
    BY <1>5, <2>1, <2>2
  <2>3. CASE f \notin parsed
    <3>1. manifest[f] = new[f] /\ f \notin dropped
      BY <1>3, <1>8, <2>3
    <3>2. Base[f] = new[f]
      BY <1>8, <3>1 DEF UpdateInv, AnalyzedInv, Base
    <3>3. HasFile(f) /\ \A s \in new[f].parts : HasPart(f, s)
      BY <1>8, <3>2 DEF UpdateInv, FilesInv
    <3> QED
      BY <1>5, <2>1, <3>1, <3>3
  <2> QED
    BY <2>2, <2>3
<1>9. FilesInv'
  <2>1. ASSUME NEW f \in Files, NEW s \in PartNames, HasPart(f, s)'
        PROVE  HasFile(f)'
    BY <1>5, <2>1 DEF UpdateInv, FilesInv
  <2>2. ASSUME NEW f \in Files, f \notin missed', HasFile(f)'
        PROVE  new[f] # NoFile
    BY <1>3, <1>5, <1>7, <2>2
  <2>3. ASSUME NEW f \in Files, f \notin missed', NEW s \in PartNames, HasPart(f, s)'
        PROVE  s \in new[f].parts
    <3>1. CASE HasPart(f, s) /\ f \notin dropped
      <4>1. HasFile(f)
        BY <3>1 DEF UpdateInv, FilesInv
      <4>2. f \notin missed /\ Base[f] = new[f]
        BY <1>7, <2>3, <3>1, <4>1
      <4> QED
        BY <3>1, <4>2 DEF UpdateInv, FilesInv
    <3> QED
      BY <1>5, <2>3, <3>1
  <2> QED
    BY <1>6, <1>8, <2>1, <2>2, <2>3 DEF FilesInv
<1>10. RelsInv'
  <2> SUFFICES ASSUME NEW f \in Files, NEW g \in Files, HasRel(RefersRel(f, g))'
               PROVE  /\ HasFile(f)' /\ HasFile(g)'
                      /\ f \notin missed' => Named(Base, f, g)'
    BY <1>5 DEF RelsInv
  <2>1. Named(Base, f, g)' <=> Named(new, f, g)
    BY <1>6 DEF Named
  <2>2. CASE RefersRel(f, g) \in FoundAgain(new, parsed)
    <3>1. /\ f \in parsed
          /\ \/ g \in LinkedTo(new, f, parsed \intersect Code)
             \/ g \in LinkedTo(new, f, Present(new))
      BY <2>2, FoundAgainAre
    <3>2. Named(new, f, g) /\ (g \in parsed \/ g \in Present(new))
      BY <3>1, LinkedToIs
    <3> QED
      BY <1>5, <1>8, <2>1, <3>1, <3>2 DEF Present
  <2>3. CASE HasRel(RefersRel(f, g)) /\ f \notin dropped /\ g \notin dropped
    <3>1. HasFile(f) /\ HasFile(g) /\ (f \notin missed => Named(Base, f, g))
      BY <2>3 DEF UpdateInv, RelsInv
    <3>2. f \notin missed' => f \notin missed /\ (Named(Base, f, g) <=> Named(new, f, g))
      BY <1>7, <2>3, <3>1 DEF Named
    <3> QED
      BY <1>5, <2>1, <2>3, <3>1, <3>2
  <2> QED
    BY <1>5, <2>2, <2>3
<1>11. ASSUME NEW f \in Code
       PROVE  /\ f \in Files /\ f \notin missed /\ f \notin missed'
              /\ Base[f] = manifest[f] /\ Base'[f] = new[f] /\ new[f] = tree[f]
              /\ manifest[f] # new[f] => f \in touched'
              /\ f \in dropped => f \in touched'
              /\ HasFile(f) /\ f \notin dropped => manifest[f] # NoFile /\ manifest[f] = new[f]
   <2>1. f \in Files /\ f \notin Docs
     BY FilesSplit
   <2>2. f \notin missed /\ f \notin missed'
     BY <1>1, <2>1 DEF UpdateInv, ContentsTyped, MissedNow
   <2>3. Base[f] = manifest[f]
     BY <2>1 DEF UpdateInv, AnalyzedInv, Base
   <2>4. manifest[f] # new[f] => f \in dropped \/ f \in parsed
     BY <1>3, <2>1
   <2>5. HasFile(f) => manifest[f] # NoFile
     BY <2>1, <2>2, <2>3 DEF UpdateInv, FilesInv
   <2> QED
     BY <1>1, <1>2, <1>3, <1>6, <2>1, <2>2, <2>3, <2>4, <2>5
<1>12. MarksInv'
  <2>1. ASSUME NEW f \in Code, NEW m \in MarkNames
        PROVE  HasMark(f, m)' <=> f \notin touched' /\ Base'[f] # NoFile /\ m \in Base'[f].marks
    <3>1. HasMark(f, m)' <=>
            f \notin touched /\ manifest[f] # NoFile /\ m \in manifest[f].marks /\ f \notin dropped
      BY <1>5, <1>11 DEF UpdateInv, MarksInv
    <3>2. f \in touched' <=> f \in touched \/ f \in dropped \/ f \in parsed
      BY <1>1
    <3> QED
      BY <1>3, <1>11, <3>1, <3>2
  <2>2. ASSUME NEW f \in Code, NEW s \in PartNames, HasRel(MemberRel(f, s))'
        PROVE  f \notin touched' /\ HasPart(f, s)' /\ nodes'[CommunityId] # NoNode
    <3>1. HasRel(MemberRel(f, s)) /\ f \notin dropped
      BY <1>5, <2>2
    <3>2. f \notin touched /\ HasPart(f, s) /\ nodes[CommunityId] # NoNode
      BY <3>1 DEF UpdateInv, MarksInv
    <3>3. HasFile(f)
      BY <1>11, <3>2 DEF UpdateInv, FilesInv
    <3>4. f \notin parsed
      BY <1>3, <1>11, <3>1, <3>3
    <3> QED
      BY <1>1, <1>5, <1>11, <3>1, <3>2, <3>4
  <2> QED
    BY <1>5, <2>1, <2>2 DEF MarksInv
<1>13. CallsInv'
  <2> SUFFICES ASSUME NEW src \in Callers, NEW g \in Code, NEW s \in PartNames,
                      HasRel(CallsRel(src, g, s))'
               PROVE  LET r == CallsRel(src, g, s)
                      IN  /\ HasPart(g, s)'
                          /\ r \in orphans' => src[2] \in touched'
                          /\ r \notin orphans' => nodes'[src] # NoNode /\ WrittenCall(Base, src, s)'
    BY DEF CallsInv
  <2> DEFINE r == CallsRel(src, g, s)
  <2>1. /\ r \in orphans' <=> r \in orphans \/ nodes'[src] = NoNode
        /\ src[2] \in Code /\ src[2] \in Files
    <3>1. r \in RelIds /\ r[2] = src
      BY RelsNamed, RelParts
    <3> QED
      BY <1>1, <3>1, CallersAre
  <2>2. ASSUME HasPart(g, s)',
               \E f \in parsed \intersect Code : \E c \in new[f].calls :
                 src = CallSource(f, c) /\ s = c.of
        PROVE  /\ HasPart(g, s)' /\ src[2] \in touched'
               /\ nodes'[src] # NoNode => WrittenCall(Base, src, s)'
    <3>1. PICK f \in parsed \intersect Code : \E c \in new[f].calls :
                 src = CallSource(f, c) /\ s = c.of
      BY <2>2
    <3>2. PICK c \in new[f].calls : src = CallSource(f, c) /\ s = c.of
      BY <3>1
    <3>3. f \in Present(new) /\ f \in Code
      BY <1>3, <1>4, <3>1 DEF Present
    <3>4. c \in Calls /\ new[f].parts \subseteq PartNames
      BY <1>2, <3>2, <3>3, PresentTyped
    <3>5. src[2] = f /\ Base'[f] = new[f]
      BY <1>11, <3>2, <3>3, <3>4, CallSourceIs
    <3>6. nodes'[src] # NoNode => src = AttributedTo(new, f, c)
      <4>1. CASE c.by = NoPart
        BY <3>2, <3>3, <3>4, <4>1, CallSourceIs, IncrementalAssumption DEF AttributedTo
      <4>2. CASE c.by # NoPart
        <5>1. c.by \in PartNames /\ src = PartId(f, c.by)
          BY <3>2, <3>3, <3>4, <4>2, CallSourceIs
        <5>2. HasPart(f, c.by)' => c.by \in Base'[f].parts
          BY <1>9, <1>11, <3>3, <5>1 DEF FilesInv
        <5> QED
          BY <3>5, <5>1, <5>2 DEF AttributedTo, HasPart
      <4> QED
        BY <4>1, <4>2
    <3>7. nodes'[src] # NoNode => WrittenCall(Base, src, s)'
      BY <3>2, <3>5, <3>6 DEF WrittenCall, AttributedTo
    <3> QED
      BY <1>1, <2>2, <3>1, <3>5, <3>7
  <2>3. ASSUME HasRel(r), g \notin dropped, nodes[src] # NoNode => src[2] \notin dropped
        PROVE  /\ HasPart(g, s)'
               /\ r \in orphans => src[2] \in touched'
               /\ r \notin orphans => nodes'[src] # NoNode /\ WrittenCall(Base, src, s)'
    <3>1. /\ HasPart(g, s)
          /\ r \in orphans => src[2] \in touched
          /\ r \notin orphans => nodes[src] # NoNode /\ WrittenCall(Base, src, s)
      BY <2>3 DEF UpdateInv, CallsInv
    <3>2. HasPart(g, s)'
      BY <1>5, <2>3, <3>1, FilesSplit
    <3>3. ASSUME r \notin orphans
          PROVE  nodes'[src] # NoNode /\ WrittenCall(Base, src, s)'
      <4>1. src[2] \notin dropped /\ nodes[src] # NoNode /\ WrittenCall(Base, src, s)
        BY <2>3, <3>1, <3>3
      <4>2. nodes'[src] # NoNode /\ HasFile(src[2])
        <5>1. CASE src = FileId(src[2])
          BY <1>5, <2>1, <4>1, <5>1 DEF HasFile
        <5>2. CASE \E p \in PartNames : src = PartId(src[2], p)
          BY <1>5, <2>1, <4>1, <5>2 DEF UpdateInv, FilesInv, HasPart
        <5> QED
          BY <5>1, <5>2, CallersAre
      <4>3. Base'[src[2]] = Base[src[2]]
        BY <1>11, <2>1, <4>1, <4>2
      <4>4. WrittenCall(Base, src, s)'
        BY <4>1, <4>3 DEF WrittenCall, AttributedTo
      <4> QED
        BY <4>2, <4>4
    <3> QED
      BY <1>1, <3>1, <3>2, <3>3
  <2> HIDE DEF r
  <2>4. /\ HasPart(g, s)'
        /\ r \in orphans' => src[2] \in touched'
        /\ r \notin orphans' => nodes'[src] # NoNode /\ WrittenCall(Base, src, s)'
    <3>1. CASE /\ HasPart(g, s)'
               /\ \E f \in parsed \intersect Code : \E c \in new[f].calls :
                    src = CallSource(f, c) /\ s = c.of
      BY <2>1, <2>2, <3>1
    <3>2. CASE HasRel(r) /\ g \notin dropped /\ (nodes[src] # NoNode => src[2] \notin dropped)
      BY <2>1, <2>3, <3>2
    <3> QED
      BY <1>5, <3>1, <3>2 DEF r
  <2> QED
    BY <2>4 DEF r
<1>14. ImportsInv'
  <2> SUFFICES ASSUME NEW f \in Code, new[f] # NoFile,
                      Concerned(new, f) \intersect touched' = {}, NEW g \in Files
               PROVE  HasRel(RefersRel(f, g))' <=> g \in LinkedTo(new, f, Known(new, f))
    BY <1>1 DEF ImportsInv
  <2>1. f \in Files /\ f \notin touched' /\ \A h \in Code : Named(new, f, h) => h \notin touched'
    BY <1>11, ConcernedAre
  <2>2. manifest[f] = new[f] /\ f \notin dropped /\ f \notin parsed
    BY <1>1, <1>11, <2>1
  <2>3. \A h \in Code : Named(new, f, h) => manifest[h] = new[h] /\ h \notin dropped
    BY <1>11, <2>1
  <2>4. \A h : Named(new, f, h) => (h \in Known(manifest, f) <=> h \in Known(new, f))
    BY <2>3, FilesSplit DEF Known, Present
  <2>5. LinkedTo(manifest, f, Known(manifest, f)) = LinkedTo(new, f, Known(new, f))
    <3>1. new[f].refers \subseteq RefNames
      BY <1>2, <2>1, PresentTyped DEF Present
    <3>2. LinkedTo(new, f, Known(manifest, f)) = LinkedTo(new, f, Known(new, f))
      BY <2>4, <3>1, LinkedToSame
    <3> QED
      BY <2>2, <3>2 DEF LinkedTo
  <2>6. Concerned(manifest, f) \intersect touched = {}
    <3>1. Concerned(manifest, f) = Concerned(new, f)
      BY <2>2 DEF Concerned
    <3> QED
      BY <1>1, <3>1
  <2>7. HasRel(RefersRel(f, g)) <=> g \in LinkedTo(new, f, Known(new, f))
    BY <2>2, <2>5, <2>6 DEF UpdateInv, ImportsInv
  <2>8. RefersRel(f, g) \notin FoundAgain(new, parsed)
    BY <2>2, FoundAgainAre
  <2>9. g \in LinkedTo(new, f, Known(new, f)) => g \notin dropped
    <3>1. g \in LinkedTo(new, f, Known(new, f)) => g \in Known(new, f) /\ Named(new, f, g)
      BY LinkedToIs
    <3> QED
      BY <2>3, <3>1 DEF Known
  <2> QED
    BY <1>5, <2>1, <2>2, <2>7, <2>8, <2>9
<1>15. AnalyzedInv'
  BY <1>1 DEF AnalyzedInv, NothingListed
<1>16. graph_has_documents <=> \E d \in Docs : HasFile(d)
  BY DocumentsSeen DEF graph_has_documents, UpdateInv, FilesInv, HasFile, HasPart
<1>17. SyncedInv'
  <2>1. graph_has_documents' <=> \E d \in Docs : HasFile(d)'
    BY <1>9, DocumentsSeen DEF graph_has_documents, FilesInv, HasFile, HasPart
  <2>2. \A d \in Docs : d \in Files /\ d \notin Code
    BY IncrementalAssumption DEF Files
  <2>3. ASSUME NEW f \in Files, f \notin Code
        PROVE  new[f] = IF graph_has_documents' THEN tree[f] ELSE NoFile
    <3>1. f \in Docs
      BY <2>3 DEF Files
    <3>2. CASE graph_has_documents
      BY <1>2, <1>8, <2>1, <2>3, <3>1, <3>2
    <3>3. CASE ~graph_has_documents
      <4>1. \A d \in Docs : new[d] = NoFile /\ d \notin parsed /\ ~HasFile(d)
        BY <1>2, <1>3, <1>16, <2>2, <3>3
      <4>2. ~graph_has_documents'
        BY <1>5, <2>1, <2>2, <4>1
      <4> QED
        BY <3>1, <4>1, <4>2
    <3> QED
      BY <3>2, <3>3
  <2> QED
    BY <1>1, <1>2, <1>6, <2>3 DEF SyncedInv
<1>18. ChangedInv'
  <2>1. ASSUME NEW f \in parsed, NEW g \in parsed, f \in Code <=> g \in Code,
               g \in LinkedTo(tree, f, Known(tree, f))
        PROVE  HasRel(RefersRel(f, g))'
    <3>1. f \in Files /\ g \in Files /\ new[f] # NoFile /\ new[g] # NoFile
      BY <1>3, <1>4
    <3>2. new[f] = tree[f]
      BY <1>2, <3>1
    <3>3. g \in LinkedTo(new, f, Known(tree, f))
      BY <2>1, <3>2 DEF LinkedTo
    <3>4. CASE f \in Code
      <4>1. parsed \intersect Code \subseteq Known(tree, f)
        BY <1>3, <1>4, <1>11, <3>4 DEF Known, Present
      <4>2. g \in LinkedTo(new, f, parsed \intersect Code)
        BY <2>1, <3>3, <3>4, <4>1, LinkedToFewer
      <4> QED
        BY <1>5, <3>1, <3>4, <4>2, FoundAgainAre
    <3>5. CASE f \notin Code
      <4>1. graph_has_documents
        BY <1>2, <3>1, <3>5
      <4>2. Present(new) = Present(tree) /\ Known(tree, f) = Present(tree)
        BY <1>2, <3>5, <4>1 DEF Known, Present
      <4> QED
        BY <1>5, <3>1, <3>3, <3>5, <4>2, FoundAgainAre, FilesSplit
    <3> QED
      BY <3>4, <3>5
  <2>2. ASSUME NEW f \in Present(tree) \intersect Code,
               Concerned(tree, f) \intersect Present(tree) \subseteq parsed, NEW g \in Files
        PROVE  HasRel(RefersRel(f, g))' <=> g \in LinkedTo(tree, f, Known(tree, f))
    <3>1. f \in Files /\ f \in parsed /\ new[f] = tree[f] /\ f \in Present(tree)
      BY <1>11, <2>2, ConcernedAre
    <3>2. ~HasFile(f) \/ f \in dropped
      BY <1>3, <1>11, <2>2, <3>1
    <3>3. HasRel(RefersRel(f, g))' <=> RefersRel(f, g) \in FoundAgain(new, parsed)
      <4>1. HasRel(RefersRel(f, g)) => HasFile(f)
        BY <3>1 DEF UpdateInv, RelsInv
      <4> QED
        BY <1>5, <3>1, <3>2, <4>1
    <3>4. HasRel(RefersRel(f, g))' <=> g \in LinkedTo(new, f, parsed \intersect Code)
      BY <3>1, <3>3, FoundAgainAre, FilesSplit
    <3>5. \A h : Named(tree, f, h) => (h \in parsed \intersect Code <=> h \in Known(tree, f))
      <4>1. ASSUME NEW h, Named(tree, f, h), h \in parsed \intersect Code
            PROVE  h \in Known(tree, f)
        BY <1>3, <1>11, <4>1 DEF Known, Present
      <4>2. ASSUME NEW h, Named(tree, f, h), h \in Known(tree, f)
            PROVE  h \in parsed \intersect Code
        BY <2>2, <3>1, <4>2, ConcernedAre DEF Known
      <4> QED
        BY <4>1, <4>2
    <3>6. LinkedTo(tree, f, parsed \intersect Code) = LinkedTo(tree, f, Known(tree, f))
      <4>1. tree[f].refers \subseteq RefNames
        BY <3>1, PresentTyped DEF UpdateInv, ContentsTyped
      <4> QED
        BY <3>5, <4>1, LinkedToSame
    <3>7. LinkedTo(new, f, parsed \intersect Code) = LinkedTo(tree, f, parsed \intersect Code)
      BY <3>1 DEF LinkedTo
    <3> QED
      BY <3>4, <3>6, <3>7
  <2> QED
    BY <1>1, <2>1, <2>2 DEF ChangedInv
<1>19. ContentsTyped'
  BY <1>1, <1>2, <1>4 DEF UpdateInv, ContentsTyped, MissedNow, NothingListed, Trees
<1> QED
  BY <1>5, <1>9, <1>10, <1>12, <1>13, <1>14, <1>15, <1>17, <1>18, <1>19 DEF UpdateInv

LEMMA UpdateNothingStep ==
  ASSUME UpdateInv, UpdateNothing
  PROVE  UpdateInv'
<1>1. /\ UNCHANGED <<nodes, relationships, file_index, tree, manifest, touched, orphans>>
      /\ manifest = NewManifest /\ synced' = TRUE /\ changed' = {}
      /\ missed' = missed \union MissedNow /\ analyzed' = NothingListed
  BY DEF UpdateNothing
<1>2. /\ \A f : HasFile(f)' <=> HasFile(f)
      /\ \A f, s : HasPart(f, s)' <=> HasPart(f, s)
      /\ \A f, m : HasMark(f, m)' <=> HasMark(f, m)
      /\ \A r : HasRel(r)' <=> HasRel(r)
      /\ graph_has_documents' <=> graph_has_documents
  BY <1>1 DEF HasFile, HasPart, HasMark, HasRel, graph_has_documents
<1>3. MapsInv' /\ FoldersInv'
  BY <1>1 DEF UpdateInv, MapsInv, IndexExact, FoldersInv, HasFile
<1>4. \A f \in Files : Base'[f] = manifest[f]
  BY <1>1 DEF Base, NothingListed
<1>5. ASSUME NEW f \in Files, f \notin missed', HasFile(f)
      PROVE  f \notin missed /\ Base[f] = manifest[f] /\ manifest[f] # NoFile
  BY <1>1, <1>5, KeptIsListed
<1>6. ASSUME NEW f \in Files, manifest[f] # NoFile
      PROVE  Base[f] = manifest[f]
  BY <1>6 DEF UpdateInv, AnalyzedInv, Base
<1>7. FilesInv'
  <2>1. \A f \in Files, s \in PartNames : HasPart(f, s) => HasFile(f)
    BY DEF UpdateInv, FilesInv
  <2>2. \A f \in Files : manifest[f] # NoFile => HasFile(f) /\ \A s \in manifest[f].parts : HasPart(f, s)
    BY <1>6 DEF UpdateInv, FilesInv
  <2>3. \A f \in Files : f \notin missed' =>
          /\ HasFile(f) => manifest[f] # NoFile
          /\ \A s \in PartNames : HasPart(f, s) => s \in manifest[f].parts
    BY <1>5, <2>1 DEF UpdateInv, FilesInv
  <2> QED
    BY <1>2, <1>4, <2>1, <2>2, <2>3 DEF FilesInv
<1>8. RelsInv'
  <2>1. ASSUME NEW f \in Files, NEW g \in Files, HasRel(RefersRel(f, g)), f \notin missed'
        PROVE  Named(Base, f, g)'
    <3>1. f \notin missed /\ Base[f] = Base'[f]
      BY <1>4, <1>5, <2>1 DEF UpdateInv, RelsInv
    <3> QED
      BY <2>1, <3>1 DEF UpdateInv, RelsInv, Named
  <2> QED
    BY <1>1, <1>2, <2>1 DEF UpdateInv, RelsInv
<1>9. \A f \in Code : f \in Files /\ Base'[f] = Base[f]
  BY <1>4, FilesSplit DEF UpdateInv, AnalyzedInv, Base
<1>10. MarksInv'
  BY <1>1, <1>2, <1>9 DEF UpdateInv, MarksInv
<1>11. CallsInv'
  <2>1. \A src \in Callers, s \in PartNames : WrittenCall(Base, src, s)' <=> WrittenCall(Base, src, s)
    BY <1>9, CallersAre DEF WrittenCall, AttributedTo
  <2> QED
    BY <1>1, <1>2, <2>1 DEF UpdateInv, CallsInv
<1>12. ImportsInv'
  BY <1>1, <1>2 DEF UpdateInv, ImportsInv
<1>13. SyncedInv'
  BY <1>1, <1>2, <1>4, NewManifestTyped DEF UpdateInv, SyncedInv
<1>14. AnalyzedInv' /\ ContentsTyped'
  BY <1>1 DEF UpdateInv, AnalyzedInv, ContentsTyped, NothingListed, MissedNow, Trees
<1>15. ChangedInv'
  <2>1. \A f \in Present(tree) : f \in Concerned(tree, f)
    BY ConcernedAre DEF Present
  <2> QED
    BY <1>1, <2>1 DEF ChangedInv
<1> QED
  BY <1>3, <1>7, <1>8, <1>10, <1>11, <1>12, <1>13, <1>14, <1>15 DEF UpdateInv

LEMMA EditStep ==
  ASSUME UpdateInv, NEW f \in Files, NEW c \in Contents[f] \union {NoFile}, Edit(f, c)
  PROVE  UpdateInv'
<1>1. /\ UNCHANGED <<nodes, relationships, file_index, manifest, analyzed, missed, touched, orphans>>
      /\ tree' = [tree EXCEPT ![f] = c] /\ synced' = FALSE /\ changed' = {}
  BY DEF Edit
<1>2. ContentsTyped' /\ AnalyzedInv' /\ SyncedInv' /\ ChangedInv'
  BY <1>1 DEF UpdateInv, ContentsTyped, AnalyzedInv, SyncedInv, ChangedInv, Trees
<1>3. MapsInv' /\ FoldersInv'
  BY <1>1 DEF UpdateInv, MapsInv, IndexExact, FoldersInv, HasFile
<1>4. Base' = Base
  BY <1>1 DEF Base
<1>5. FilesInv' /\ MarksInv'
  BY <1>1, <1>4 DEF UpdateInv, FilesInv, MarksInv, HasFile, HasPart, HasMark, HasRel
<1>6. RelsInv'
  BY <1>1, <1>4 DEF UpdateInv, RelsInv, Named, HasFile, HasPart, HasRel
<1>7. CallsInv' /\ ImportsInv'
  BY <1>1, <1>4 DEF UpdateInv, CallsInv, ImportsInv, WrittenCall, AttributedTo, HasPart, HasRel
<1> QED
  BY <1>2, <1>3, <1>5, <1>6, <1>7 DEF UpdateInv

LEMMA UpdateInvHolds == IncSpec => []UpdateInv
<1>1. IncInit => UpdateInv
  <2> SUFFICES ASSUME IncInit
               PROVE  UpdateInv
    OBVIOUS
  <2>1. /\ nodes = [id \in Ids |-> NoNode]
        /\ relationships = [r \in RelIds |-> NoRel]
        /\ file_index = [p \in Paths |-> {}]
    BY IncrementalAssumption DEF IncInit
  <2>2. /\ \A f \in Files : ~HasFile(f)
        /\ \A f \in Files, s \in PartNames : ~HasPart(f, s)
        /\ \A d \in Dirs : nodes[FolderId(d)] = NoNode
        /\ \A x \in Files \union Dirs : nodes[IdOf(x)] = NoNode
        /\ \A f \in Code, m \in MarkNames : ~HasMark(f, m)
        /\ \A r \in RelIds : ~HasRel(r)
    BY <2>1, IdsNamed, IdOfNames DEF HasFile, HasPart, HasMark, HasRel
  <2>3. MapsInv
    BY <2>1 DEF MapsInv, Honest, NodeMaps, RelMaps, IndexExact, InFile, NodeIds
  <2>4. \A f \in Files : Base[f] = NoFile /\ manifest[f] = NoFile
    BY DEF IncInit, Base, NothingListed
  <2>5. FoldersInv /\ FilesInv /\ RelsInv
    BY <2>2, <2>4, RelsNamed DEF FoldersInv, FilesInv, RelsInv
  <2>6. MarksInv /\ CallsInv /\ ImportsInv
    BY <2>2, <2>4, RelsNamed, FilesSplit DEF MarksInv, CallsInv, ImportsInv
  <2>7. ContentsTyped /\ AnalyzedInv /\ SyncedInv /\ ChangedInv
    BY DEF IncInit, ContentsTyped, AnalyzedInv, SyncedInv, ChangedInv, NothingListed, Trees
  <2> QED
    BY <2>3, <2>5, <2>6, <2>7 DEF UpdateInv
<1>2. ASSUME UpdateInv, UNCHANGED vars
      PROVE  UpdateInv'
  <2>1. /\ UNCHANGED <<nodes, relationships, file_index, tree, manifest, synced>>
        /\ UNCHANGED <<analyzed, missed, changed, touched, orphans>>
    BY <1>2 DEF vars
  <2>2. ContentsTyped' /\ AnalyzedInv' /\ SyncedInv' /\ ChangedInv'
    BY <1>2, <2>1 DEF UpdateInv, ContentsTyped, AnalyzedInv, SyncedInv, ChangedInv, Base, HasRel,
                      graph_has_documents
  <2>3. MapsInv' /\ FoldersInv'
    BY <1>2, <2>1 DEF UpdateInv, MapsInv, IndexExact, FoldersInv, HasFile
  <2>4. Base' = Base
    BY <2>1 DEF Base
  <2>5. FilesInv' /\ MarksInv'
    BY <1>2, <2>1, <2>4 DEF UpdateInv, FilesInv, MarksInv, HasFile, HasPart, HasMark, HasRel
  <2>6. RelsInv'
    BY <1>2, <2>1, <2>4 DEF UpdateInv, RelsInv, Named, HasFile, HasPart, HasRel
  <2>7. CallsInv' /\ ImportsInv'
    BY <1>2, <2>1, <2>4 DEF UpdateInv, CallsInv, ImportsInv, WrittenCall, AttributedTo, HasPart, HasRel
  <2> QED
    BY <2>2, <2>3, <2>5, <2>6, <2>7 DEF UpdateInv
<1>3. UpdateInv /\ [IncNext]_vars => UpdateInv'
  BY <1>2, EditStep, AnalyzeStep, UpdateStep, UpdateNothingStep DEF IncNext
<1> QED
  BY <1>1, <1>3, PTL DEF IncSpec

-----------------------------------------------------------------------------
(* What the invariant says.                                                *)

(* Whatever sequence of analyses and updates led here, file_index lists    *)
(* under every path exactly the nodes that name it.                        *)
THEOREM UpdatesKeepIndex == IncSpec => []IndexStaysExact
<1>1. UpdateInv => IndexStaysExact
  BY DEF UpdateInv, MapsInv, IndexStaysExact
<1> QED
  BY <1>1, UpdateInvHolds, PTL

(* No relationship lacks its target, and none but a call its source, and   *)
(* that only in a file some update parsed since the last analysis: what    *)
(* was removed or pruned took all else with it.                            *)
THEOREM UpdatesMissOnlyCallers == IncSpec => []OnlyCallersMissing
<1>1. ASSUME UpdateInv, NEW r \in RelIds, HasRel(r)
      PROVE  /\ nodes[r[3]] # NoNode
             /\ nodes[r[2]] = NoNode => r[1] = "calls" /\ r[2][2] \in touched
  <2>1. CASE \E x \in Files \union Dirs : Parent[x] # Root /\ r = ContainsRel(x)
    <3>1. PICK x \in Files \union Dirs : Parent[x] # Root /\ r = ContainsRel(x)
      BY <2>1
    <3>2. nodes[IdOf(x)] # NoNode
      BY <1>1, <3>1 DEF UpdateInv, RelsInv
    <3>3. Parent[x] \in Dirs
      BY <3>1, ParentIsDir
    <3>4. nodes[FolderId(Parent[x])] # NoNode
      <4>1. \E f \in Files : HasFile(f) /\ Parent[x] \in Above[f]
        BY <1>1, <3>1, <3>2, AboveClosed, IdOfNames DEF UpdateInv, FoldersInv, HasFile
      <4> QED
        BY <1>1, <3>3, <4>1 DEF UpdateInv, FoldersInv
    <3> QED
      BY <3>1, <3>2, <3>4, RelParts
  <2>2. CASE \E f \in Files, s \in PartNames : r = DefinesRel(f, s)
    BY <1>1, <2>2, RelParts DEF UpdateInv, RelsInv, FilesInv, HasPart, HasFile
  <2>3. CASE \E f, g \in Files : r = RefersRel(f, g)
    BY <1>1, <2>3, RelParts DEF UpdateInv, RelsInv, HasFile
  <2>4. CASE \E src \in Callers, g \in Code, s \in PartNames : r = CallsRel(src, g, s)
    BY <1>1, <2>4, RelParts DEF UpdateInv, CallsInv, HasPart
  <2>5. CASE \E f \in Code, m \in MarkNames : r = BelongsRel(f, m)
    <3>1. PICK f \in Code, m \in MarkNames : r = BelongsRel(f, m)
      BY <2>5
    <3>2. HasMark(f, m) /\ Base[f] # NoFile /\ f \in Files
      BY <1>1, <3>1, FilesSplit DEF UpdateInv, MarksInv
    <3>3. HasFile(f)
      BY <1>1, <3>2 DEF UpdateInv, FilesInv
    <3> QED
      BY <3>1, <3>2, <3>3, RelParts DEF HasMark, HasFile
  <2>6. CASE \E f \in Code, s \in PartNames : r = MemberRel(f, s)
    BY <1>1, <2>6, RelParts DEF UpdateInv, MarksInv, HasPart
  <2> QED
    BY <2>1, <2>2, <2>3, <2>4, <2>5, <2>6, RelsNamed
<1>2. UpdateInv => OnlyCallersMissing
  BY <1>1, IncrementalAssumption DEF OnlyCallersMissing, HasRel
<1> QED
  BY <1>2, UpdateInvHolds, PTL

(* Of a file that was not missed a graph in step with the tree has what a  *)
(* full analysis has.                                                      *)
LEMMA InStep ==
  ASSUME UpdateInv, synced, NEW f \in Files, f \notin missed
  PROVE  /\ HasFile(f) <=> f \in Indexed(tree, graph_has_documents)
         /\ \A s \in PartNames :
              HasPart(f, s) <=> f \in Indexed(tree, graph_has_documents) /\ s \in tree[f].parts
         /\ HasFile(f) => Base[f] = tree[f] /\ tree[f] # NoFile
<1>1. tree \in Trees /\ graph_has_documents \in BOOLEAN
  BY DEF UpdateInv, ContentsTyped, graph_has_documents
<1>2. f \in Indexed(tree, graph_has_documents) <=> tree[f] # NoFile /\ (f \in Code \/ graph_has_documents)
  BY <1>1, IndexedFiles
<1>3. Base[f] = IF f \in Code \/ graph_has_documents THEN tree[f] ELSE NoFile
  BY DEF UpdateInv, SyncedInv
<1>4. /\ HasFile(f) <=> Base[f] # NoFile
      /\ \A s \in PartNames : HasPart(f, s) <=> Base[f] # NoFile /\ s \in Base[f].parts
  BY DEF UpdateInv, FilesInv
<1> QED
  BY <1>2, <1>3, <1>4

LEMMA NotSpoiled ==
  ASSUME UpdateInv, NEW f \in Files
  PROVE  /\ f \notin Spoiled => f \notin missed
         /\ \A d \in Above[f] : d \notin Spoiled => f \notin missed
BY DEF Spoiled, Chain

(* Code is never missed, and is the manifest's and the tree's.             *)
LEMMA CodeInStep ==
  ASSUME UpdateInv, synced, NEW f \in Code
  PROVE  /\ f \in Files /\ f \notin missed
         /\ Base[f] = tree[f] /\ manifest[f] = tree[f]
<1>1. f \in Files /\ f \notin Docs /\ f \notin missed
  BY FilesSplit DEF UpdateInv, ContentsTyped
<1>2. Base[f] = tree[f]
  BY <1>1 DEF UpdateInv, SyncedInv
<1>3. Base[f] = manifest[f]
  BY <1>1 DEF UpdateInv, AnalyzedInv, Base
<1> QED
  BY <1>1, <1>2, <1>3

LEMMA NodesInStep == UpdateInv => NodesAsAnalyzed
<1> SUFFICES ASSUME UpdateInv, synced, NEW id \in Ids, id # CommunityId, id[2] \notin Spoiled
             PROVE  nodes[id] # NoNode <=>
                      id \in Expected /\ (id[1] = "Mark" => id[2] \notin touched)
  BY IncrementalAssumption DEF NodesAsAnalyzed
<1> DEFINE S == Indexed(tree, graph_has_documents)
<1>1. tree \in Trees /\ graph_has_documents \in BOOLEAN /\ S \subseteq Files
  BY IndexedFiles DEF UpdateInv, ContentsTyped, graph_has_documents
<1>2. /\ \A f \in Files : FileId(f) \in Expected <=> f \in S
      /\ \A d \in Dirs : FolderId(d) \in Expected <=> \E f \in S : d \in Above[f]
      /\ \A f \in Files : \A s : PartId(f, s) \in Expected <=> f \in S /\ s \in tree[f].parts
      /\ \A f \in Code, m \in MarkNames : MarkId(f, m) \in Expected <=>
           tree[f] # NoFile /\ m \in tree[f].marks
  BY <1>1, FullIdsAre DEF Expected
<1> HIDE DEF S
<1>3. CASE \E f \in Files : id = FileId(f)
  BY <1>2, <1>3, IdParts, LabelsDiffer, NotSpoiled, InStep DEF HasFile, S
<1>4. CASE \E f \in Files, s \in PartNames : id = PartId(f, s)
  BY <1>2, <1>4, IdParts, LabelsDiffer, NotSpoiled, InStep DEF HasPart, S
<1>5. CASE \E d \in Dirs : id = FolderId(d)
  <2>1. PICK d \in Dirs : id = FolderId(d)
    BY <1>5
  <2>2. d \notin Spoiled /\ id[1] # "Mark"
    BY <2>1, IdParts, LabelsDiffer
  <2>3. \A f \in Files : d \in Above[f] => (HasFile(f) <=> f \in S)
    BY <2>2, NotSpoiled, InStep DEF S
  <2>4. nodes[id] # NoNode <=> \E f \in Files : HasFile(f) /\ d \in Above[f]
    BY <2>1 DEF UpdateInv, FoldersInv
  <2> QED
    BY <1>1, <1>2, <2>1, <2>2, <2>3, <2>4
<1>6. CASE \E f \in Code, m \in MarkNames : id = MarkId(f, m)
  <2>1. PICK f \in Code, m \in MarkNames : id = MarkId(f, m)
    BY <1>6
  <2>2. nodes[id] # NoNode <=> f \notin touched /\ Base[f] # NoFile /\ m \in Base[f].marks
    BY <2>1 DEF UpdateInv, MarksInv, HasMark
  <2>3. Base[f] = tree[f]
    BY CodeInStep
  <2> QED
    BY <1>2, <2>1, <2>2, <2>3, IdParts
<1> QED
  BY <1>3, <1>4, <1>5, <1>6, IdsNamed

(* After an update the graph has the files, folders and parts of a full    *)
(* analysis, but for documents that changed before a manifest listed them, *)
(* and what the later phases made of the files no update touched.          *)
THEOREM UpdatesMakeFullNodes == IncSpec => []NodesAsAnalyzed
BY NodesInStep, UpdateInvHolds, PTL

LEMMA RelsInStep ==
  ASSUME UpdateInv, synced, NEW r \in RelIds, r[2][2] \notin Spoiled, r[3][2] \notin Spoiled
  PROVE  /\ r[1] \in {"contains", "defines"} => (HasRel(r) <=> r \in ExpectedRels)
         /\ r[1] = "belongs" => (HasRel(r) <=> r \in ExpectedRels /\ r[2][2] \notin touched)
         /\ HasRel(r) =>
              /\ r[1] = "member" => r[2] \in Expected /\ r[2][2] \notin touched
              /\ r[1] \in {"refers", "calls"} => r[3] \in Expected
              /\ r[1] \in {"refers", "calls"} /\ r \notin orphans => Written(tree, r)
<1>1. tree \in Trees /\ graph_has_documents \in BOOLEAN
  BY DEF UpdateInv, ContentsTyped, graph_has_documents
<1>2. \A id \in Ids : id # CommunityId /\ id[2] \notin Spoiled =>
        (nodes[id] # NoNode <=> id \in Expected /\ (id[1] = "Mark" => id[2] \notin touched))
  BY NodesInStep, IncrementalAssumption DEF NodesAsAnalyzed
<1>3. /\ \A x \in Files \union Dirs : Parent[x] # Root =>
           (ContainsRel(x) \in ExpectedRels <=> IdOf(x) \in Expected)
      /\ \A f \in Files : \A s : DefinesRel(f, s) \in ExpectedRels <=> PartId(f, s) \in Expected
      /\ \A f \in Code, m \in MarkNames : BelongsRel(f, m) \in ExpectedRels <=> MarkId(f, m) \in Expected
  BY <1>1, FullRelsAre DEF Expected, ExpectedRels
<1>4. CASE \E x \in Files \union Dirs : Parent[x] # Root /\ r = ContainsRel(x)
  <2>1. PICK x \in Files \union Dirs : Parent[x] # Root /\ r = ContainsRel(x)
    BY <1>4
  <2>2. r[1] = "contains" /\ r[3] = IdOf(x) /\ IdOf(x) \in Ids
    BY <2>1, RelParts, IdOfNames
  <2>3. IdOf(x)[1] # "Mark" /\ IdOf(x) # CommunityId
    BY IdParts, LabelsDiffer DEF IdOf
  <2>4. HasRel(r) <=> nodes[IdOf(x)] # NoNode
    BY <2>1 DEF UpdateInv, RelsInv
  <2> QED
    BY <1>2, <1>3, <2>1, <2>2, <2>3, <2>4, KindsDiffer
<1>5. CASE \E f \in Files, s \in PartNames : r = DefinesRel(f, s)
  <2>1. PICK f \in Files, s \in PartNames : r = DefinesRel(f, s)
    BY <1>5
  <2>2. r[1] = "defines" /\ r[3] = PartId(f, s) /\ PartId(f, s) \in Ids
    BY <2>1, RelParts, IdsNamed
  <2>3. PartId(f, s)[1] # "Mark" /\ PartId(f, s) # CommunityId
    BY IdParts, LabelsDiffer
  <2>4. HasRel(r) <=> nodes[PartId(f, s)] # NoNode
    BY <2>1 DEF UpdateInv, RelsInv, HasPart
  <2> QED
    BY <1>2, <1>3, <2>1, <2>2, <2>3, <2>4, KindsDiffer
<1>6. CASE \E f \in Code, m \in MarkNames : r = BelongsRel(f, m)
  <2>1. PICK f \in Code, m \in MarkNames : r = BelongsRel(f, m)
    BY <1>6
  <2>2. /\ r[1] = "belongs" /\ r[2] = MarkId(f, m) /\ r[2] \in Ids
        /\ r[2][1] = "Mark" /\ r[2] # CommunityId
    BY <2>1, RelParts, IdParts, IdsNamed, LabelsDiffer
  <2>3. HasRel(r) <=> nodes[MarkId(f, m)] # NoNode
    BY <2>1 DEF UpdateInv, MarksInv, HasMark
  <2> QED
    BY <1>2, <1>3, <2>1, <2>2, <2>3, KindsDiffer
<1>7. CASE \E f \in Code, s \in PartNames : r = MemberRel(f, s)
  <2>1. PICK f \in Code, s \in PartNames : r = MemberRel(f, s)
    BY <1>7
  <2>2. /\ r[1] = "member" /\ r[2] = PartId(f, s) /\ r[2] \in Ids
        /\ r[2][1] # "Mark" /\ r[2] # CommunityId /\ r[2][2] = f
    BY <2>1, RelParts, IdParts, IdsNamed, LabelsDiffer, FilesSplit
  <2>3. HasRel(r) => nodes[PartId(f, s)] # NoNode /\ f \notin touched
    BY <2>1 DEF UpdateInv, MarksInv, HasPart
  <2> QED
    BY <1>2, <2>1, <2>2, <2>3, KindsDiffer
<1>8. CASE \E f, g \in Files : r = RefersRel(f, g)
  <2>1. PICK f \in Files, g \in Files : r = RefersRel(f, g)
    BY <1>8
  <2>2. /\ r[1] = "refers" /\ r[3] = FileId(g) /\ r[3] \in Ids
        /\ r[3][1] # "Mark" /\ r[3] # CommunityId /\ r[2][2] = f /\ r[3][2] = g
    BY <2>1, RelParts, IdParts, IdsNamed, LabelsDiffer
  <2>3. f \notin missed
    BY <2>2, NotSpoiled
  <2>4. HasRel(r) => HasFile(f) /\ nodes[r[3]] # NoNode /\ Named(Base, f, g)
    BY <2>1, <2>2, <2>3 DEF UpdateInv, RelsInv, HasFile
  <2>5. HasFile(f) => Base[f] = tree[f] /\ tree[f] # NoFile
    BY <2>3, InStep
  <2>6. HasRel(r) => Written(tree, r)
    BY <2>2, <2>4, <2>5 DEF Written, Named
  <2> QED
    BY <1>2, <2>2, <2>4, <2>6, KindsDiffer
<1>9. CASE \E src \in Callers, g \in Code, s \in PartNames : r = CallsRel(src, g, s)
  <2>1. PICK src \in Callers, g \in Code, s \in PartNames : r = CallsRel(src, g, s)
    BY <1>9
  <2>2. /\ r[1] = "calls" /\ r[2] = src /\ r[3] = PartId(g, s) /\ r[3] \in Ids
        /\ r[3][1] # "Mark" /\ r[3] # CommunityId /\ r[3][3] = s
    BY <2>1, RelParts, IdParts, IdsNamed, LabelsDiffer, FilesSplit
  <2>3. HasRel(r) =>
          /\ nodes[r[3]] # NoNode
          /\ r \notin orphans => nodes[src] # NoNode /\ WrittenCall(Base, src, s)
    BY <2>1, <2>2 DEF UpdateInv, CallsInv, HasPart
  <2>4. src[2] \in Code
    BY CallersAre
  <2>5. Base[src[2]] = tree[src[2]] /\ src[2] \in Files /\ src[2] \notin missed
    BY <2>4, CodeInStep
  <2>6. ASSUME HasRel(r), r \notin orphans
        PROVE  Written(tree, r)
    <3>1. nodes[src] # NoNode /\ WrittenCall(Base, src, s)
      BY <2>3, <2>6
    <3>2. HasFile(src[2])
      <4>1. CASE src = FileId(src[2])
        BY <3>1, <4>1 DEF HasFile
      <4>2. CASE \E p \in PartNames : src = PartId(src[2], p)
        BY <2>5, <3>1, <4>2 DEF UpdateInv, FilesInv, HasPart
      <4> QED
        BY <4>1, <4>2, CallersAre
    <3>3. tree[src[2]] # NoFile
      BY <2>5, <3>2, InStep
    <3>4. WrittenCall(tree, src, s)
      BY <2>5, <3>1 DEF WrittenCall, AttributedTo
    <3> QED
      BY <2>2, <3>3, <3>4 DEF Written, WrittenCall
  <2> QED
    BY <1>2, <2>2, <2>3, <2>6, KindsDiffer
<1> QED
  BY <1>4, <1>5, <1>6, <1>7, <1>8, <1>9, RelsNamed

(* After an update no relationship is out of date but the calls that lost  *)
(* their caller, and only references, calls, and what the later phases     *)
(* made of files that were touched, are missing.                           *)
THEOREM UpdatesMakeSoundRelationships == IncSpec => []RelationshipsSound
<1>1. UpdateInv => RelationshipsSound
  BY RelsInStep, IncrementalAssumption DEF RelationshipsSound, HasRel
<1> QED
  BY <1>1, UpdateInvHolds, PTL

(* References between files of one update, code among code and documents   *)
(* among documents, are all found again.                                   *)
THEOREM UpdatesKeepParsedTogether == IncSpec => []ParsedTogetherKept
<1>1. ASSUME UpdateInv, synced, NEW f \in changed, NEW g \in changed,
             RefersRel(f, g) \in ExpectedRels, f \in Code <=> g \in Code
      PROVE  relationships[RefersRel(f, g)] # NoRel
  <2>1. tree \in Trees /\ graph_has_documents \in BOOLEAN /\ f \in Files /\ g \in Files
    BY <1>1 DEF UpdateInv, ContentsTyped, graph_has_documents
  <2>2. g \in LinkedTo(tree, f, Known(tree, f))
    BY <1>1, <2>1, FullRelsAre DEF ExpectedRels
  <2> QED
    BY <1>1, <2>2 DEF UpdateInv, ChangedInv, HasRel
<1>2. UpdateInv => ParsedTogetherKept
  BY <1>1 DEF ParsedTogetherKept
<1> QED
  BY <1>2, UpdateInvHolds, PTL

(* Imports are a full analysis's where all the files that decide were read *)
(* together.                                                               *)
THEOREM UpdatesReadTogether == IncSpec => []ReadTogetherExact
<1>1. ASSUME UpdateInv, synced, NEW f \in Present(tree) \intersect Code,
             \/ Concerned(tree, f) \intersect touched = {}
             \/ Concerned(tree, f) \intersect Present(tree) \subseteq changed,
             NEW g \in Files
      PROVE  HasRel(RefersRel(f, g)) <=> RefersRel(f, g) \in ExpectedRels
  <2>1. /\ tree \in Trees /\ graph_has_documents \in BOOLEAN
        /\ f \in Files /\ tree[f] # NoFile /\ manifest[f] = tree[f]
    BY <1>1, CodeInStep DEF UpdateInv, ContentsTyped, graph_has_documents, Present
  <2>2. RefersRel(f, g) \in ExpectedRels <=> g \in LinkedTo(tree, f, Known(tree, f))
    BY <2>1, FullRelsAre, IndexedFiles DEF ExpectedRels
  <2>3. CASE Concerned(tree, f) \intersect touched = {}
    <3>1. Concerned(manifest, f) = Concerned(tree, f)
      BY <2>1 DEF Concerned
    <3>2. Known(manifest, f) = Known(tree, f)
      <4>1. \A h \in Code : h \in Files /\ manifest[h] = tree[h]
        BY <1>1, CodeInStep
      <4> QED
        BY <4>1 DEF Known, Present
    <3>3. LinkedTo(manifest, f, Known(manifest, f)) = LinkedTo(tree, f, Known(tree, f))
      BY <2>1, <3>2 DEF LinkedTo
    <3> QED
      BY <1>1, <2>1, <2>2, <2>3, <3>1, <3>3 DEF UpdateInv, ImportsInv
  <2>4. CASE Concerned(tree, f) \intersect Present(tree) \subseteq changed
    BY <1>1, <2>2, <2>4 DEF UpdateInv, ChangedInv
  <2> QED
    BY <1>1, <2>3, <2>4
<1>2. UpdateInv => ReadTogetherExact
  BY <1>1 DEF ReadTogetherExact, HasRel
<1> QED
  BY <1>2, UpdateInvHolds, PTL

=============================================================================
