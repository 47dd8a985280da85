--------------------------- MODULE IndexSystemProofs ---------------------------
(***************************************************************************)
(* Proofs about WatchIndex and IndexSystem, for any set of files and any   *)
(* number of edits and faults.                                             *)
(*                                                                         *)
(* The watch process alone: neither of its two safety properties is        *)
(* inductive, for each speaks of what is on disk, and what is on disk next *)
(* was read, patched and claimed by the process long before.  FlowInv      *)
(* relates the process to the store, ExactInv and ClaimInv carry the two   *)
(* properties through the graph in memory and the contents the walk has    *)
(* read.                                                                   *)
(*                                                                         *)
(* Watch and analyze: the steps of the watch process are those of          *)
(* WatchIndex, so its invariants carry over as long as no analysis is      *)
(* between its two saves; the analysis adds what it has read and built to  *)
(* them.                                                                   *)
(***************************************************************************)
EXTENDS IndexSystem, TLAPS

Updating == {"walk", "saveSnapshot", "saveManifest"}
Saving   == {"saveSnapshot", "saveManifest"}
Loaded   == {"loaded", "idle"} \union Updating

(* How far the process is determines what exists and what it works from. *)
FlowInv ==
  /\ wpc \in {"first", "rewalk", "firstSnapshot"} => ~snapExists
  /\ wpc \in Loaded => snapExists
  /\ wpc \in Updating => old = manifest
  /\ wpc = "saveManifest" => snap = mem

(* Files whose entry the pending manifest will leave unexplained. *)
StillRaced == raced \ Dropped(old, walked)

(* While nothing has failed, the graph in memory is the one on disk or     *)
(* exactly what the pending manifest will record.                          *)
ExactInv ==
  faults = 0 =>
    /\ PublishedExactly
    /\ wpc = "firstSnapshot" =>
         \A f \in Files \ raced : mem[f] = Symbols(manifest[f])
    /\ wpc \in {"loaded", "idle", "walk"} => mem = snap
    /\ wpc \in Saving =>
         \A f \in Files \ StillRaced : mem[f] = Symbols(walked[f])

(* No content is newer than the last edit, so what is written next is new. *)
BoundInv ==
  \A f \in Files :
    tree[f] <= edits /\ manifest[f] <= edits /\ old[f] <= edits /\ walked[f] <= edits

(* A claim that matches the tree is backed on disk and in memory. *)
BackedInv ==
  \A f \in Files \ raced :
    (tree[f] # Absent /\ manifest[f] = tree[f]) =>
      /\ snapExists => tree[f] \in snap[f]
      /\ wpc \in Loaded \union {"firstSnapshot"} => tree[f] \in mem[f]

(* So is a claim about to be saved. *)
PendingInv ==
  wpc \in Saving =>
    \A f \in Files \ StillRaced :
      (tree[f] # Absent /\ walked[f] = tree[f]) => tree[f] \in mem[f]

(* A file that changed after the walk read it cannot be back at the        *)
(* content the old manifest has for it.                                    *)
ReadInv ==
  wpc = "walk" =>
    \A f \in Files \ todo :
      (tree[f] # Absent /\ tree[f] # walked[f]) => tree[f] # old[f]

ClaimInv ==
  /\ BoundInv
  /\ ~reverted => BackedInv /\ PendingInv /\ ReadInv

-----------------------------------------------------------------------------
(* What the operators on graphs return. *)

LEMMA SymbolsType == \A c \in Content : Symbols(c) \in SUBSET (Content \ {Absent})
BY DEF Symbols, Content, Absent

LEMMA GraphOfType == \A t \in Trees : GraphOf(t) \in Graphs
BY SymbolsType DEF GraphOf, Trees, Graphs

LEMMA EmptyTypes == NothingRead \in Trees /\ EmptyGraph \in Graphs
BY DEF NothingRead, EmptyGraph, Trees, Graphs, Content, Absent

LEMMA PatchType ==
  \A g \in Graphs, from, to \in Trees : Patch(g, from, to) \in Graphs
BY SymbolsType DEF Patch, Trees, Graphs

(* Every step leaves values of the right types.                            *)
LEMMA TypeStep == TypeOK /\ [Next]_vars => TypeOK'
<1> SUFFICES ASSUME TypeOK, [Next]_vars PROVE TypeOK'
  OBVIOUS
<1> USE DEF TypeOK, StoreTypeOK, storeVars
<1>1. CASE \E f \in Files : ReadFile(f)
  BY <1>1 DEF ReadFile, Trees, Content
<1>2. CASE LoadSnapshot
  BY <1>2 DEF LoadSnapshot, WatchStates
<1>3. CASE StartFirstAnalysis
  BY <1>3 DEF StartFirstAnalysis, WatchStates
<1>4. CASE FirstGraphBuilt
  BY <1>4, GraphOfType DEF FirstGraphBuilt, WatchStates
<1>5. CASE SaveFirstManifest
  BY <1>5 DEF SaveFirstManifest, StoreManifest, ClaimedUnparsed, WatchStates
<1>6. CASE SaveFirstSnapshot
  BY <1>6 DEF SaveFirstSnapshot, StoreSnapshot, WatchStates
<1>7. CASE RegisterWatcher
  BY <1>7 DEF RegisterWatcher, WatchStates
<1>8. CASE HandleEvent
  BY <1>8 DEF HandleEvent, WatchStates
<1>9. CASE NothingChanged
  BY <1>9 DEF NothingChanged, WatchStates
<1>10. CASE ApplyChanges
  BY <1>10, PatchType DEF ApplyChanges, WatchStates
<1>11. CASE SaveSnapshot
  BY <1>11 DEF SaveSnapshot, StoreSnapshot, WatchStates
<1>12. CASE SaveManifest
  BY <1>12 DEF SaveManifest, StoreManifest, WatchStates
<1>13. CASE UserEdit
  <2>1. PICK f \in Files : Write(f) \/ Delete(f) \/ Revert(f)
    BY <1>13 DEF UserEdit, Edit
  <2>2. CASE Write(f)
    BY <2>2, <1>13 DEF Write, SetContent, UserEdit, Trees, Content
  <2>3. CASE Delete(f)
    BY <2>3, <1>13 DEF Delete, SetContent, UserEdit, Trees, Content, Absent
  <2>4. CASE Revert(f)
    BY <2>4, <1>13 DEF Revert, SetContent, UserEdit, Trees, Content
  <2> QED
    BY <2>1, <2>2, <2>3, <2>4
<1>14. CASE UpdateStepFails
  BY <1>14 DEF UpdateStepFails, Fault, WatchStates
<1>15. CASE WatchCrash
  <2>1. /\ wpc' = "down" /\ event' = FALSE /\ old' = NothingRead
        /\ todo' = {} /\ walked' = NothingRead /\ mem' = EmptyGraph
        /\ faults' = faults + 1
        /\ UNCHANGED <<tree, edits, reverted, snapExists, snap, manifest, raced>>
    BY <1>15 DEF WatchCrash, Fault
  <2>2. StoreTypeOK'
    BY <2>1
  <2> QED
    BY <2>1, <2>2, EmptyTypes DEF WatchStates
<1>16. CASE UNCHANGED vars
  BY <1>16 DEF vars, watchVars
<1> QED
  BY <1>1, <1>2, <1>3, <1>4, <1>5, <1>6, <1>7, <1>8, <1>9, <1>10, <1>11,
     <1>12, <1>13, <1>14, <1>15, <1>16 DEF Next, WatchStep

LEMMA InitTyped == Init => TypeOK
<1> SUFFICES ASSUME Init PROVE TypeOK
  OBVIOUS
<1>1. tree \in Trees
  BY DEF Init, StoreInit, Trees, Content, Absent
<1>2. GraphOf(tree) \in Graphs
  BY <1>1, GraphOfType
<1> QED
  BY <1>1, <1>2, EmptyTypes DEF Init, StoreInit, TypeOK, StoreTypeOK, WatchStates

(* Type correctness: whatever is edited and whatever fails, contents are   *)
(* contents, graphs are graphs and the process is in one of its states.    *)
THEOREM TypeCorrect == Spec => []TypeOK
BY InitTyped, TypeStep, PTL DEF Spec

-----------------------------------------------------------------------------
(* The order of the process's steps, which no fault upsets. *)
LEMMA FlowStep == TypeOK /\ FlowInv /\ [Next]_vars => FlowInv'
<1> SUFFICES ASSUME TypeOK, FlowInv, [Next]_vars PROVE FlowInv'
  OBVIOUS
<1> USE DEF FlowInv, Loaded, Updating, storeVars
<1>1. CASE \E f \in Files : ReadFile(f)
  BY <1>1 DEF ReadFile
<1>2. CASE LoadSnapshot
  BY <1>2 DEF LoadSnapshot
<1>3. CASE StartFirstAnalysis
  BY <1>3 DEF StartFirstAnalysis
<1>4. CASE FirstGraphBuilt
  BY <1>4 DEF FirstGraphBuilt
<1>5. CASE SaveFirstManifest
  BY <1>5 DEF SaveFirstManifest
<1>6. CASE SaveFirstSnapshot
  BY <1>6 DEF SaveFirstSnapshot, StoreSnapshot
<1>7. CASE RegisterWatcher
  BY <1>7 DEF RegisterWatcher
<1>8. CASE HandleEvent
  BY <1>8 DEF HandleEvent
<1>9. CASE NothingChanged
  BY <1>9 DEF NothingChanged
<1>10. CASE ApplyChanges
  BY <1>10 DEF ApplyChanges
<1>11. CASE SaveSnapshot
  BY <1>11 DEF SaveSnapshot, StoreSnapshot
<1>12. CASE SaveManifest
  BY <1>12 DEF SaveManifest
<1>13. CASE UserEdit
  BY <1>13 DEF UserEdit, Edit, Write, Delete, Revert, SetContent
<1>14. CASE UpdateStepFails
  BY <1>14 DEF UpdateStepFails
<1>15. CASE WatchCrash
  BY <1>15 DEF WatchCrash
<1>16. CASE UNCHANGED vars
  BY <1>16 DEF vars, watchVars
<1> QED
  BY <1>1, <1>2, <1>3, <1>4, <1>5, <1>6, <1>7, <1>8, <1>9, <1>10, <1>11,
     <1>12, <1>13, <1>14, <1>15, <1>16 DEF Next, WatchStep

LEMMA FlowCorrect == Spec => []FlowInv
<1>1. Init => FlowInv
  BY DEF Init, FlowInv, Loaded, Updating
<1> QED
  BY <1>1, FlowStep, TypeCorrect, PTL DEF Spec

-----------------------------------------------------------------------------
(* What a patch does to one file. *)

(* An exact graph stays exact; a file whose nodes are dropped becomes so. *)
LEMMA PatchExact ==
  ASSUME NEW g \in Graphs, NEW from \in Trees, NEW to \in Trees, NEW f \in Files,
         g[f] = Symbols(from[f]) \/ f \in Dropped(from, to)
  PROVE  Patch(g, from, to)[f] = Symbols(to[f])
BY DEF Patch, Dropped, Changed, Symbols, Graphs, Trees

LEMMA PatchKeeps ==
  ASSUME NEW g \in Graphs, NEW from \in Trees, NEW to \in Trees, NEW f \in Files,
         from[f] = to[f]
  PROVE  Patch(g, from, to)[f] = g[f]
BY DEF Patch, Dropped, Changed, Graphs, Trees

LEMMA PatchParses ==
  ASSUME NEW g \in Graphs, NEW from \in Trees, NEW to \in Trees, NEW f \in Files,
         from[f] # to[f], to[f] # Absent
  PROVE  to[f] \in Patch(g, from, to)[f]
BY DEF Patch, Changed, Symbols, Graphs, Trees

-----------------------------------------------------------------------------
LEMMA ExactStep ==
  TypeOK /\ FlowInv /\ ExactInv /\ [Next]_vars => ExactInv'
<1> SUFFICES ASSUME TypeOK, FlowInv, ExactInv, [Next]_vars PROVE ExactInv'
  OBVIOUS
<1> USE DEF ExactInv, PublishedExactly, FlowInv, Loaded, Updating, Saving, storeVars
<1>1. CASE \E f \in Files : ReadFile(f)
  BY <1>1 DEF ReadFile, Walking
<1>2. CASE LoadSnapshot
  BY <1>2 DEF LoadSnapshot
<1>3. CASE StartFirstAnalysis
  BY <1>3 DEF StartFirstAnalysis
<1>4. CASE FirstGraphBuilt
  BY <1>4 DEF FirstGraphBuilt
<1>5. CASE SaveFirstManifest
  BY <1>5 DEF SaveFirstManifest, StoreManifest, ClaimedUnparsed
<1>6. CASE SaveFirstSnapshot
  BY <1>6 DEF SaveFirstSnapshot, StoreSnapshot
<1>7. CASE RegisterWatcher
  BY <1>7 DEF RegisterWatcher
<1>8. CASE HandleEvent
  BY <1>8 DEF HandleEvent
<1>9. CASE NothingChanged
  BY <1>9 DEF NothingChanged
<1>10. CASE ApplyChanges
  <2>1. ASSUME faults = 0, NEW f \in Files \ StillRaced
        PROVE  mem'[f] = Symbols(walked[f])
    <3>1. mem[f] = Symbols(old[f]) \/ f \in Dropped(old, walked)
      BY <1>10, <2>1 DEF ApplyChanges, StillRaced
    <3>2. mem' = Patch(mem, old, walked)
      BY <1>10 DEF ApplyChanges
    <3> QED
      BY <3>1, <3>2, PatchExact DEF TypeOK
  <2>2. StillRaced' = StillRaced
    BY <1>10 DEF ApplyChanges, StillRaced, Dropped
  <2> QED
    BY <1>10, <2>1, <2>2 DEF ApplyChanges
<1>11. CASE SaveSnapshot
  BY <1>11 DEF SaveSnapshot, StoreSnapshot, StillRaced, Dropped
<1>12. CASE SaveManifest
  BY <1>12 DEF SaveManifest, StoreManifest, StillRaced, Dropped
<1>13. CASE UserEdit
  <2>1. /\ UNCHANGED <<snapExists, snap, manifest, raced, faults>>
        /\ UNCHANGED <<wpc, old, todo, walked, mem>>
    BY <1>13 DEF UserEdit, Edit, Write, Delete, Revert, SetContent
  <2> QED
    BY <2>1 DEF StillRaced, Dropped
<1>14. CASE UpdateStepFails
  <2>1. faults' # 0
    BY <1>14 DEF UpdateStepFails, Fault, TypeOK, StoreTypeOK
  <2> QED
    BY <2>1
<1>15. CASE WatchCrash
  <2>1. faults' # 0
    BY <1>15 DEF WatchCrash, Fault, TypeOK, StoreTypeOK
  <2> QED
    BY <2>1
<1>16. CASE UNCHANGED vars
  BY <1>16 DEF vars, watchVars, StillRaced, Dropped
<1> QED
  BY <1>1, <1>2, <1>3, <1>4, <1>5, <1>6, <1>7, <1>8, <1>9, <1>10, <1>11,
     <1>12, <1>13, <1>14, <1>15, <1>16 DEF Next, WatchStep

LEMMA InitExact == Init => ExactInv
BY DEF Init, StoreInit, ExactInv, PublishedExactly, Loaded, Updating, Saving, GraphOf

(* As long as nothing fails, snapshot and manifest describe the same       *)
(* contents whenever neither is being written: no edit, however it falls   *)
(* between the walk's reads and the two saves, makes them disagree.        *)
THEOREM PublishesExactly == Spec => []PublishedExactly
<1>1. Init => ExactInv
  BY InitExact
<1>2. ExactInv => PublishedExactly
  BY DEF ExactInv, PublishedExactly
<1> QED
  BY <1>1, <1>2, ExactStep, TypeCorrect, FlowCorrect, PTL DEF Spec

-----------------------------------------------------------------------------
LEMMA BoundStep ==
  TypeOK /\ BoundInv /\ [Next]_vars => BoundInv'
<1> SUFFICES ASSUME TypeOK, BoundInv, [Next]_vars PROVE BoundInv'
  OBVIOUS
<1> USE DEF BoundInv, TypeOK, StoreTypeOK, Trees, Content, storeVars
<1>1. CASE UserEdit
  <2>1. PICK f \in Files : Write(f) \/ Delete(f) \/ Revert(f)
    BY <1>1 DEF UserEdit, Edit
  <2>2. \E c \in 0..(edits + 1) : SetContent(f, c)
    BY <2>1 DEF Write, Delete, Revert, Absent
  <2> QED
    BY <1>1, <2>2 DEF UserEdit, SetContent
<1>2. CASE WatchCrash
  BY <1>2 DEF WatchCrash, NothingRead, Absent
<1>3. CASE UpdateStepFails
  BY <1>3 DEF UpdateStepFails
<1>4. CASE \E f \in Files : ReadFile(f)
  BY <1>4 DEF ReadFile
<1>5. CASE LoadSnapshot \/ StartFirstAnalysis \/ FirstGraphBuilt \/ RegisterWatcher
  BY <1>5 DEF LoadSnapshot, StartFirstAnalysis, FirstGraphBuilt, RegisterWatcher
<1>6. CASE SaveFirstManifest \/ SaveManifest
  BY <1>6 DEF SaveFirstManifest, SaveManifest, StoreManifest
<1>7. CASE SaveFirstSnapshot \/ SaveSnapshot
  BY <1>7 DEF SaveFirstSnapshot, SaveSnapshot
<1>8. CASE HandleEvent \/ NothingChanged \/ ApplyChanges
  BY <1>8 DEF HandleEvent, NothingChanged, ApplyChanges
<1>9. CASE UNCHANGED vars
  BY <1>9 DEF vars, watchVars
<1> QED
  BY <1>1, <1>2, <1>3, <1>4, <1>5, <1>6, <1>7, <1>8, <1>9 DEF Next, WatchStep

(* An edit writes a content no manifest and no walk has seen, unless it    *)
(* brings an old one back.                                                 *)
LEMMA EditIsNew ==
  ASSUME TypeOK, BoundInv, UserEdit, ~reverted', NEW f \in Files, tree'[f] # Absent
  PROVE  \/ tree'[f] = tree[f]
         \/ tree'[f] # manifest[f] /\ tree'[f] # old[f] /\ tree'[f] # walked[f]
<1> USE DEF TypeOK, StoreTypeOK, Trees, Content
<1>1. PICK g \in Files : Write(g) \/ Delete(g) \/ Revert(g)
  BY DEF UserEdit, Edit
<1>2. CASE Write(g)
  BY <1>2 DEF Write, SetContent, BoundInv
<1>3. CASE Delete(g)
  BY <1>3 DEF Delete, SetContent
<1>4. CASE Revert(g)
  BY <1>4 DEF Revert
<1> QED
  BY <1>1, <1>2, <1>3, <1>4

LEMMA ClaimStep ==
  TypeOK /\ FlowInv /\ ClaimInv /\ [Next]_vars => ClaimInv'
<1> SUFFICES ASSUME TypeOK, FlowInv, ClaimInv, [Next]_vars, ~reverted'
             PROVE  BackedInv' /\ PendingInv' /\ ReadInv'
  BY BoundStep DEF ClaimInv
<1> ~reverted
  BY DEF Next, WatchStep, vars, watchVars, storeVars, UserEdit, Edit, Write, Delete,
         Revert, ReadFile, LoadSnapshot, StartFirstAnalysis, FirstGraphBuilt,
         RegisterWatcher, SaveFirstManifest, SaveManifest, SaveFirstSnapshot,
         SaveSnapshot, HandleEvent, NothingChanged, ApplyChanges, UpdateStepFails,
         WatchCrash
<1> BoundInv /\ BackedInv /\ PendingInv /\ ReadInv
  BY DEF ClaimInv
<1> HIDE DEF ClaimInv
<1> USE DEF BackedInv, PendingInv, ReadInv, FlowInv, Loaded, Updating, Saving,
            storeVars
<1>1. CASE \E f \in Files : ReadFile(f)
  BY <1>1 DEF ReadFile, Walking, TypeOK, Trees
<1>2. CASE LoadSnapshot
  BY <1>2 DEF LoadSnapshot
<1>3. CASE StartFirstAnalysis
  BY <1>3 DEF StartFirstAnalysis
<1>4. CASE FirstGraphBuilt
  BY <1>4 DEF FirstGraphBuilt
<1>5. CASE SaveFirstManifest
  BY <1>5 DEF SaveFirstManifest, StoreManifest, ClaimedUnparsed, Symbols
<1>6. CASE SaveFirstSnapshot
  BY <1>6 DEF SaveFirstSnapshot, StoreSnapshot
<1>7. CASE RegisterWatcher
  BY <1>7 DEF RegisterWatcher
<1>8. CASE HandleEvent
  BY <1>8 DEF HandleEvent
<1>9. CASE NothingChanged
  BY <1>9 DEF NothingChanged
<1>10. CASE ApplyChanges
  <2>1. /\ wpc = "walk" /\ todo = {} /\ wpc' = "saveSnapshot" /\ old = manifest
        /\ mem' = Patch(mem, old, walked)
        /\ UNCHANGED <<storeVars, old, walked>>
    BY <1>10 DEF ApplyChanges
  <2>2. BackedInv'
    <3> SUFFICES ASSUME NEW f \in Files \ raced, tree[f] # Absent, manifest[f] = tree[f]
                 PROVE  /\ snapExists => tree[f] \in snap[f]
                        /\ tree[f] \in mem'[f]
      BY <2>1
    <3>1. old[f] = walked[f]
      BY <2>1
    <3>2. mem'[f] = mem[f]
      BY <2>1, <3>1, PatchKeeps DEF TypeOK
    <3> QED
      BY <2>1, <3>2
  <2>3. PendingInv'
    <3> SUFFICES ASSUME NEW f \in Files \ StillRaced, tree[f] # Absent,
                        walked[f] = tree[f]
                 PROVE  tree[f] \in mem'[f]
      BY <2>1 DEF StillRaced, Dropped
    <3>1. CASE old[f] # walked[f]
      BY <2>1, <3>1, PatchParses DEF TypeOK
    <3>2. CASE old[f] = walked[f]
      <4>1. f \notin raced
        BY <3>2 DEF StillRaced, Dropped
      <4> QED
        BY <2>1, <3>2, <4>1, PatchKeeps DEF TypeOK
    <3> QED
      BY <3>1, <3>2
  <2> QED
    BY <2>1, <2>2, <2>3
<1>11. CASE SaveSnapshot
  BY <1>11 DEF SaveSnapshot, StoreSnapshot, StillRaced, Dropped
<1>12. CASE SaveManifest
  BY <1>12 DEF SaveManifest, StoreManifest, StillRaced, Dropped
<1>13. CASE UserEdit
  <2>1. /\ UNCHANGED <<snapExists, snap, manifest, raced, faults>>
        /\ UNCHANGED <<wpc, old, todo, walked, mem>>
    BY <1>13 DEF UserEdit, Edit, Write, Delete, Revert, SetContent
  <2>2. \A f \in Files : tree'[f] # Absent =>
          \/ tree'[f] = tree[f]
          \/ tree'[f] # manifest[f] /\ tree'[f] # old[f] /\ tree'[f] # walked[f]
    BY <1>13, EditIsNew
  <2> QED
    BY <2>1, <2>2 DEF StillRaced, Dropped
<1>14. CASE UpdateStepFails
  BY <1>14 DEF UpdateStepFails
<1>15. CASE WatchCrash
  BY <1>15 DEF WatchCrash
<1>16. CASE UNCHANGED vars
  BY <1>16 DEF vars, watchVars, StillRaced, Dropped
<1> QED
  BY <1>1, <1>2, <1>3, <1>4, <1>5, <1>6, <1>7, <1>8, <1>9, <1>10, <1>11,
     <1>12, <1>13, <1>14, <1>15, <1>16 DEF Next, WatchStep

LEMMA InitClaim == Init => ClaimInv
BY DEF Init, StoreInit, ClaimInv, BoundInv, BackedInv, PendingInv, ReadInv,
       Loaded, Updating, Saving, GraphOf, Symbols, NothingRead, Absent

(* Whatever crashes and whichever write fails, a file the manifest claims  *)
(* current has its current symbols in the snapshot: what the order of the  *)
(* two saves is for.                                                       *)
THEOREM ClaimsAreBacked == Spec => []ClaimedCurrentIsIndexed
<1>1. Init => ClaimInv
  BY InitClaim
<1>2. ClaimInv => ClaimedCurrentIsIndexed
  BY DEF ClaimInv, BackedInv, ClaimedCurrentIsIndexed
<1> QED
  BY <1>1, <1>2, ClaimStep, TypeCorrect, FlowCorrect, PTL DEF Spec

-----------------------------------------------------------------------------
(* Watch and analyze, one after the other, on one store.                   *)

AnalyzeTypeOK ==
  /\ apc \in {"off", "parse", "saveMeta", "saveSnapshot", "rewalk"}
  /\ meta \in BOOLEAN
  /\ atodo \in SUBSET Files
  /\ awalked \in Trees
  /\ graph \in Graphs
  /\ touched \in SUBSET Files

SystemTypeOK == TypeOK /\ AnalyzeTypeOK

Built == {"saveMeta", "saveSnapshot", "rewalk"}

(* One of the two programs runs at a time, and an analysis that is between *)
(* its two saves has published the graph it built.                         *)
TurnInv ==
  /\ apc = "off" \/ wpc = "down"
  /\ apc = "rewalk" => snapExists /\ snap = graph

(* The exactness of the published pair, but for the time between the two   *)
(* saves of an analysis.                                                   *)
SystemExactInv == apc # "rewalk" => ExactInv

(* What an analysis has read, or built, is current unless a later edit     *)
(* made it something the old manifest cannot claim.                        *)
AnalyzedInv ==
  /\ apc = "parse" =>
       \A f \in Files \ atodo :
         (tree[f] # Absent /\ tree[f] # awalked[f]) => tree[f] # manifest[f]
  /\ apc \in {"saveMeta", "saveSnapshot"} =>
       \A f \in Files : (tree[f] # Absent /\ manifest[f] = tree[f]) => tree[f] \in graph[f]

SystemBoundInv == BoundInv /\ \A f \in Files : awalked[f] <= edits

SystemClaimInv == SystemBoundInv /\ ClaimInv /\ (~reverted => AnalyzedInv)

(* Nothing in the code compares contents by age; that contents never grow  *)
(* older is a relation between all the places that hold one.               *)
NotNewer(c, d)   == d = Absent \/ c <= d
Replaces(T, S)   == \A c \in S : T = {} \/ \E d \in T : c <= d

Held(f) == snap[f] \union mem[f] \union graph[f]

(* No graph and no walk holds what is newer than the file or than the last *)
(* edit.                                                                   *)
HeldInv ==
  /\ \A f \in Files : \A c \in Held(f) : c <= edits
  /\ ~snapExists => snap = EmptyGraph
  /\ ~reverted =>
       \A f \in Files :
         /\ \A c \in Held(f) : NotNewer(c, tree[f])
         /\ NotNewer(walked[f], tree[f]) /\ NotNewer(awalked[f], tree[f])

(* A walk has read nothing older than the snapshot holds, and the graph    *)
(* that will replace the snapshot holds nothing older either.              *)
OrderInv ==
  ~reverted =>
    /\ wpc = "walk" => \A f \in Files \ todo : \A c \in snap[f] : NotNewer(c, walked[f])
    /\ wpc \in Loaded => \A f \in Files : Replaces(mem[f], snap[f])
    /\ apc = "parse" => \A f \in Files \ atodo : \A c \in snap[f] : NotNewer(c, awalked[f])
    /\ apc \in {"saveMeta", "saveSnapshot"} => \A f \in Files : Replaces(graph[f], snap[f])

AgeInv == HeldInv /\ OrderInv

(* A file nobody edited since the analysis began is in the tree as the     *)
(* walks read it.                                                          *)
RepairInv ==
  /\ apc \in {"parse", "rewalk"} =>
       \A f \in Files \ (atodo \union touched) : awalked[f] = tree[f]
  /\ apc \in Built => \A f \in Files \ touched : graph[f] = Symbols(tree[f])

-----------------------------------------------------------------------------
(* The three kinds of steps. *)

WatchTurn ==
  /\ apc = "off"
  /\ WatchStep \/ UpdateStepFails \/ WatchCrash
  /\ UNCHANGED analyzeVars

AnalyzeTurn == wpc = "down" /\ AnalyzeStep /\ UNCHANGED watchVars

EditTurn == UserEdit /\ NoteEdits /\ UNCHANGED <<apc, meta, atodo, awalked, graph>>

LEMMA Turns ==
  [SystemNext]_systemVars => WatchTurn \/ AnalyzeTurn \/ EditTurn \/ UNCHANGED systemVars
BY DEF SystemNext, WatchTurn, AnalyzeTurn, EditTurn

(* Whatever the analysis does not do is a step of WatchIndex. *)
LEMMA WatchTurnIsStep == WatchTurn => [Next]_vars
BY DEF WatchTurn, Next

LEMMA EditTurnIsStep == EditTurn => [Next]_vars
BY DEF EditTurn, Next

LEMMA StutterIsStep == UNCHANGED systemVars => UNCHANGED vars /\ UNCHANGED analyzeVars
BY DEF systemVars, vars

LEMMA OnlyEditsEdit ==
  WatchTurn \/ AnalyzeTurn \/ UNCHANGED systemVars => UNCHANGED <<tree, edits, reverted>>
BY DEF WatchTurn, WatchStep, ReadFile, LoadSnapshot, StartFirstAnalysis, FirstGraphBuilt,
       SaveFirstManifest, SaveFirstSnapshot, RegisterWatcher, HandleEvent, NothingChanged,
       ApplyChanges, SaveSnapshot, SaveManifest, UpdateStepFails, WatchCrash,
       AnalyzeTurn, AnalyzeStep, StartAnalysis, AnalyzeReadFile, RunPipeline, SaveMeta,
       SaveAnalyzedSnapshot, SaveAnalyzedManifest, AnalysisDies, systemVars, storeVars

LEMMA EditChanges ==
  UserEdit => /\ UNCHANGED <<snapExists, snap, manifest, raced, faults>>
              /\ UNCHANGED <<wpc, old, todo, walked, mem>>
BY DEF UserEdit, Edit, Write, Delete, Revert, SetContent

-----------------------------------------------------------------------------
LEMMA SystemTypeStep == SystemTypeOK /\ [SystemNext]_systemVars => SystemTypeOK'
<1> SUFFICES ASSUME SystemTypeOK, [SystemNext]_systemVars PROVE SystemTypeOK'
  OBVIOUS
<1> USE DEF SystemTypeOK, AnalyzeTypeOK
<1>1. CASE WatchTurn
  <2>1. TypeOK'
    BY <1>1, WatchTurnIsStep, TypeStep
  <2> QED
    BY <1>1, <2>1 DEF WatchTurn, analyzeVars
<1>2. CASE AnalyzeTurn
  <2> UNCHANGED watchVars
    BY <1>2 DEF AnalyzeTurn
  <2> USE DEF TypeOK, StoreTypeOK, storeVars, watchVars
  <2>1. CASE \E forced \in BOOLEAN : StartAnalysis(forced)
    BY <2>1 DEF StartAnalysis
  <2>2. CASE \E f \in Files : AnalyzeReadFile(f)
    BY <2>2 DEF AnalyzeReadFile, Trees, Content
  <2>3. CASE RunPipeline
    BY <2>3, GraphOfType DEF RunPipeline
  <2>4. CASE SaveMeta
    BY <2>4 DEF SaveMeta
  <2>5. CASE SaveAnalyzedSnapshot
    BY <2>5 DEF SaveAnalyzedSnapshot, StoreSnapshot
  <2>6. CASE SaveAnalyzedManifest
    BY <2>6 DEF SaveAnalyzedManifest, StoreManifest, ClaimedUnparsed
  <2>7. CASE AnalysisDies
    BY <2>7 DEF AnalysisDies, Fault
  <2> QED
    BY <1>2, <2>1, <2>2, <2>3, <2>4, <2>5, <2>6, <2>7 DEF AnalyzeTurn, AnalyzeStep
<1>3. CASE EditTurn
  <2>1. TypeOK'
    BY <1>3, EditTurnIsStep, TypeStep
  <2> QED
    BY <1>3, <2>1 DEF EditTurn, NoteEdits
<1>4. CASE UNCHANGED systemVars
  <2>1. TypeOK'
    BY <1>4, StutterIsStep, TypeStep
  <2> QED
    BY <1>4, <2>1, StutterIsStep DEF analyzeVars
<1> QED
  BY <1>1, <1>2, <1>3, <1>4, Turns

(* Every variable of the store and of the two programs keeps its type.     *)
THEOREM SystemTypeCorrect == SystemSpec => []SystemTypeOK
<1>1. SystemInit => SystemTypeOK
  <2> SUFFICES ASSUME SystemInit PROVE SystemTypeOK
    OBVIOUS
  <2>1. TypeOK
    BY InitTyped DEF SystemInit
  <2> QED
    BY <2>1, EmptyTypes DEF SystemInit, AnalyzeInit, SystemTypeOK, AnalyzeTypeOK,
                            TypeOK, StoreTypeOK
<1> QED
  BY <1>1, SystemTypeStep, PTL DEF SystemSpec

-----------------------------------------------------------------------------
(* The programs take turns, and the watch's control state keeps meaning    *)
(* what it meant, for the analysis runs only while there is no watch.      *)
LEMMA TurnStep ==
  SystemTypeOK /\ FlowInv /\ TurnInv /\ [SystemNext]_systemVars => FlowInv' /\ TurnInv'
<1> SUFFICES ASSUME SystemTypeOK, FlowInv, TurnInv, [SystemNext]_systemVars
             PROVE  FlowInv' /\ TurnInv'
  OBVIOUS
<1> TypeOK
  BY DEF SystemTypeOK
<1>1. CASE WatchTurn
  BY <1>1, WatchTurnIsStep, FlowStep DEF WatchTurn, TurnInv, analyzeVars
<1>2. CASE AnalyzeTurn
  <2>1. wpc = "down" /\ wpc' = "down"
    BY <1>2 DEF AnalyzeTurn, watchVars
  <2>2. FlowInv'
    BY <2>1 DEF FlowInv, Loaded, Updating
  <2>3. (apc = "rewalk")' => (snapExists /\ snap = graph)'
    BY <1>2 DEF AnalyzeTurn, AnalyzeStep, StartAnalysis, AnalyzeReadFile, RunPipeline,
                SaveMeta, SaveAnalyzedSnapshot, StoreSnapshot, SaveAnalyzedManifest,
                AnalysisDies, TurnInv, storeVars
  <2> QED
    BY <2>1, <2>2, <2>3 DEF TurnInv
<1>3. CASE EditTurn
  BY <1>3, EditTurnIsStep, FlowStep, EditChanges DEF EditTurn, TurnInv
<1>4. CASE UNCHANGED systemVars
  BY <1>4, StutterIsStep, FlowStep DEF TurnInv, vars, watchVars, storeVars, analyzeVars
<1> QED
  BY <1>1, <1>2, <1>3, <1>4, Turns

LEMMA TurnCorrect == SystemSpec => [](FlowInv /\ TurnInv)
<1>1. SystemInit => FlowInv /\ TurnInv
  BY DEF SystemInit, AnalyzeInit, Init, FlowInv, Loaded, Updating, TurnInv
<1> QED
  BY <1>1, TurnStep, SystemTypeCorrect, PTL DEF SystemSpec

-----------------------------------------------------------------------------
LEMMA SystemExactStep ==
  SystemTypeOK /\ FlowInv /\ TurnInv /\ SystemExactInv /\ [SystemNext]_systemVars
    => SystemExactInv'
<1> SUFFICES ASSUME SystemTypeOK, FlowInv, TurnInv, SystemExactInv,
                    [SystemNext]_systemVars, (apc # "rewalk")'
             PROVE  ExactInv'
  BY DEF SystemExactInv
<1> TypeOK
  BY DEF SystemTypeOK
<1>1. CASE WatchTurn
  BY <1>1, WatchTurnIsStep, ExactStep DEF WatchTurn, SystemExactInv
<1>2. CASE AnalyzeTurn
  <2>1. wpc = "down" /\ wpc' = "down"
    BY <1>2 DEF AnalyzeTurn, watchVars
  <2>2. SUFFICES PublishedExactly'
    BY <2>1 DEF ExactInv, Saving
  <2>3. CASE AnalysisDies
    BY <2>3 DEF AnalysisDies, Fault, TypeOK, StoreTypeOK, PublishedExactly
  <2>4. CASE SaveAnalyzedManifest
    BY <2>4 DEF SaveAnalyzedManifest, StoreManifest, ClaimedUnparsed, TurnInv,
                PublishedExactly
  <2>5. CASE UNCHANGED storeVars /\ apc # "rewalk"
    BY <2>1, <2>5 DEF storeVars, SystemExactInv, ExactInv, PublishedExactly
  <2> QED
    BY <1>2, <2>3, <2>4, <2>5 DEF AnalyzeTurn, AnalyzeStep, StartAnalysis, AnalyzeReadFile,
                RunPipeline, SaveMeta, SaveAnalyzedSnapshot
<1>3. CASE EditTurn
  BY <1>3, EditTurnIsStep, ExactStep DEF EditTurn, SystemExactInv
<1>4. CASE UNCHANGED systemVars
  BY <1>4, StutterIsStep, ExactStep DEF SystemExactInv, analyzeVars
<1> QED
  BY <1>1, <1>2, <1>3, <1>4, Turns

(* While nothing has failed, either program finds the snapshot to hold     *)
(* what the manifest records, whichever of the two wrote them, however     *)
(* often they took turns and whatever was edited meanwhile.                *)
THEOREM HandsOverExactly == SystemSpec => []HandedOverExactly
<1>1. SystemInit => SystemExactInv
  BY InitExact DEF SystemInit, SystemExactInv
<1>2. SystemExactInv => HandedOverExactly
  BY DEF SystemExactInv, ExactInv, PublishedExactly, HandedOverExactly
<1> QED
  BY <1>1, <1>2, SystemExactStep, SystemTypeCorrect, TurnCorrect, PTL DEF SystemSpec

-----------------------------------------------------------------------------
(* An edit leaves a file alone, removes it, or writes the newest content   *)
(* there is, unless it brings an old one back.                             *)
LEMMA EditWrites ==
  ASSUME SystemTypeOK, UserEdit, ~reverted'
  PROVE  /\ edits' = edits + 1
         /\ ~reverted
         /\ \A f \in Files : tree'[f] \in {tree[f], Absent, edits + 1}
<1> USE DEF SystemTypeOK, TypeOK, StoreTypeOK, Trees, Content
<1>1. PICK g \in Files : Write(g) \/ Delete(g) \/ Revert(g)
  BY DEF UserEdit, Edit
<1>2. CASE Write(g)
  BY <1>2 DEF Write, SetContent
<1>3. CASE Delete(g)
  BY <1>3 DEF Delete, SetContent
<1>4. CASE Revert(g)
  BY <1>4 DEF Revert
<1> QED
  BY <1>1, <1>2, <1>3, <1>4

LEMMA SystemBoundStep ==
  SystemTypeOK /\ SystemBoundInv /\ [SystemNext]_systemVars => SystemBoundInv'
<1> SUFFICES ASSUME SystemTypeOK, SystemBoundInv, [SystemNext]_systemVars
             PROVE  SystemBoundInv'
  OBVIOUS
<1> TypeOK
  BY DEF SystemTypeOK
<1>1. CASE WatchTurn
  BY <1>1, WatchTurnIsStep, BoundStep, OnlyEditsEdit DEF WatchTurn, SystemBoundInv, analyzeVars
<1>2. CASE AnalyzeTurn
  <2>1. UNCHANGED <<tree, edits>> /\ UNCHANGED watchVars
    BY <1>2, OnlyEditsEdit DEF AnalyzeTurn
  <2> USE <2>1 DEF SystemBoundInv, BoundInv, watchVars, storeVars
  <2>2. CASE \E f \in Files : AnalyzeReadFile(f)
    BY <2>2 DEF AnalyzeReadFile, SystemTypeOK, AnalyzeTypeOK, Trees
  <2>3. CASE SaveAnalyzedManifest
    BY <2>3 DEF SaveAnalyzedManifest, StoreManifest
  <2>4. CASE UNCHANGED <<manifest, awalked>>
    BY <2>4
  <2> QED
    BY <1>2, <2>2, <2>3, <2>4 DEF AnalyzeTurn, AnalyzeStep, StartAnalysis, RunPipeline,
                SaveMeta, SaveAnalyzedSnapshot, AnalysisDies
<1>3. CASE EditTurn
  <2>1. BoundInv'
    BY <1>3, EditTurnIsStep, BoundStep DEF SystemBoundInv
  <2>2. edits' = edits + 1 /\ UNCHANGED awalked
    BY <1>3 DEF EditTurn, UserEdit, Edit, Write, Delete, Revert, SetContent
  <2> QED
    BY <2>1, <2>2 DEF SystemBoundInv, SystemTypeOK, TypeOK, StoreTypeOK, AnalyzeTypeOK,
                      Trees, Content
<1>4. CASE UNCHANGED systemVars
  BY <1>4, StutterIsStep, BoundStep, OnlyEditsEdit DEF SystemBoundInv, analyzeVars
<1> QED
  BY <1>1, <1>2, <1>3, <1>4, Turns

(* The invariants of the watch do not mention the analysis, which runs     *)
(* while they say something about the files alone.                         *)
LEMMA BackedWhileDown ==
  wpc = "down" =>
    /\ PendingInv /\ ReadInv
    /\ BackedInv <=> \A f \in Files \ raced :
         (tree[f] # Absent /\ manifest[f] = tree[f] /\ snapExists) => tree[f] \in snap[f]
BY DEF PendingInv, ReadInv, BackedInv, Saving, Loaded, Updating

LEMMA SystemClaimStep ==
  SystemTypeOK /\ FlowInv /\ TurnInv /\ SystemClaimInv /\ [SystemNext]_systemVars
    => SystemClaimInv'
<1> SUFFICES ASSUME SystemTypeOK, FlowInv, TurnInv, SystemClaimInv,
                    [SystemNext]_systemVars, ~reverted'
             PROVE  BackedInv' /\ PendingInv' /\ ReadInv' /\ AnalyzedInv'
  BY SystemBoundStep DEF SystemClaimInv, ClaimInv, SystemBoundInv
<1> TypeOK
  BY DEF SystemTypeOK
<1>1. CASE WatchTurn
  <2>1. AnalyzedInv'
    BY <1>1 DEF WatchTurn, analyzeVars, AnalyzedInv
  <2> QED
    BY <1>1, <2>1, WatchTurnIsStep, ClaimStep DEF SystemClaimInv, ClaimInv
<1>2. CASE AnalyzeTurn
  <2>1. /\ wpc = "down" /\ UNCHANGED watchVars
        /\ UNCHANGED <<tree, edits, reverted>>
    BY <1>2, OnlyEditsEdit DEF AnalyzeTurn
  <2>2. wpc' = "down" /\ AnalyzedInv /\ BackedInv
    BY <2>1 DEF watchVars, SystemClaimInv, ClaimInv
  <2> SUFFICES BackedInv' /\ AnalyzedInv'
    BY <2>2, BackedWhileDown DEF PendingInv, ReadInv, Saving
  <2> USE <2>1, <2>2 DEF BackedInv, AnalyzedInv, Loaded, Updating, storeVars
  <2>3. CASE \E forced \in BOOLEAN : StartAnalysis(forced)
    BY <2>3 DEF StartAnalysis
  <2>4. CASE \E f \in Files : AnalyzeReadFile(f)
    BY <2>4 DEF AnalyzeReadFile, SystemTypeOK, AnalyzeTypeOK, Trees
  <2>5. CASE RunPipeline
    BY <2>5 DEF RunPipeline, GraphOf, Symbols
  <2>6. CASE SaveMeta
    BY <2>6 DEF SaveMeta
  <2>7. CASE SaveAnalyzedSnapshot
    BY <2>7 DEF SaveAnalyzedSnapshot, StoreSnapshot
  <2>8. CASE SaveAnalyzedManifest
    BY <2>8 DEF SaveAnalyzedManifest, StoreManifest, ClaimedUnparsed, Symbols, TurnInv
  <2>9. CASE AnalysisDies
    BY <2>9 DEF AnalysisDies
  <2> QED
    BY <1>2, <2>3, <2>4, <2>5, <2>6, <2>7, <2>8, <2>9 DEF AnalyzeTurn, AnalyzeStep
<1>3. CASE EditTurn
  <2>1. BackedInv' /\ PendingInv' /\ ReadInv'
    BY <1>3, EditTurnIsStep, ClaimStep DEF SystemClaimInv, ClaimInv
  <2>2. /\ UNCHANGED <<apc, atodo, awalked, graph, manifest>>
        /\ ~reverted
        /\ \A f \in Files : tree'[f] \in {tree[f], Absent, edits + 1}
    BY <1>3, EditChanges, EditWrites DEF EditTurn
  <2>3. \A f \in Files : manifest[f] # edits + 1
    BY DEF SystemClaimInv, SystemBoundInv, BoundInv, TypeOK, StoreTypeOK, Trees, Content
  <2> QED
    BY <2>1, <2>2, <2>3 DEF AnalyzedInv, SystemClaimInv
<1>4. CASE UNCHANGED systemVars
  <2>1. AnalyzedInv'
    BY <1>4 DEF systemVars, storeVars, analyzeVars, AnalyzedInv, SystemClaimInv
  <2> QED
    BY <1>4, <2>1, StutterIsStep, ClaimStep DEF SystemClaimInv, ClaimInv
<1> QED
  BY <1>1, <1>2, <1>3, <1>4, Turns

(* What the manifest claims current has its current symbols in the         *)
(* snapshot, also where an analysis replaced the snapshot and died, or     *)
(* edits fell between its two walks.                                       *)
THEOREM SystemClaimsAreBacked == SystemSpec => []ClaimedCurrentIsIndexed
<1>1. SystemInit => SystemClaimInv
  <2> SUFFICES ASSUME SystemInit PROVE SystemClaimInv
    OBVIOUS
  <2>1. ClaimInv
    BY InitClaim DEF SystemInit
  <2> QED
    BY <2>1 DEF SystemInit, Init, StoreInit, AnalyzeInit, SystemClaimInv, SystemBoundInv,
                ClaimInv, AnalyzedInv, NothingRead, Absent
<1>2. SystemClaimInv => ClaimedCurrentIsIndexed
  BY DEF SystemClaimInv, ClaimInv, BackedInv, ClaimedCurrentIsIndexed
<1> QED
  BY <1>1, <1>2, SystemClaimStep, SystemTypeCorrect, TurnCorrect, PTL DEF SystemSpec

-----------------------------------------------------------------------------
(* Replacing is a matter of the newest content held. *)
LEMMA ReplacesSelf == \A S \in SUBSET Nat : Replaces(S, S)
BY DEF Replaces

(* A patch with what a walk has read replaces the snapshot if the graph it *)
(* patches does.                                                           *)
LEMMA PatchReplaces ==
  ASSUME NEW g \in Graphs, NEW from \in Trees, NEW to \in Trees, NEW f \in Files,
         NEW S \in SUBSET Nat, Replaces(g[f], S), \A c \in S : NotNewer(c, to[f])
  PROVE  Replaces(Patch(g, from, to)[f], S)
<1>1. CASE from[f] = to[f]
  BY <1>1, PatchKeeps
<1>2. CASE from[f] # to[f] /\ to[f] # Absent
  BY <1>2, PatchParses DEF Replaces, NotNewer
<1>3. CASE from[f] # to[f] /\ to[f] = Absent
  BY <1>3 DEF Patch, Dropped, Changed, Symbols, Replaces, Graphs, Trees
<1> QED
  BY <1>1, <1>2, <1>3

LEMMA PatchHolds ==
  ASSUME NEW g \in Graphs, NEW from \in Trees, NEW to \in Trees, NEW f \in Files
  PROVE  Patch(g, from, to)[f] \subseteq g[f] \union Symbols(to[f])
BY DEF Patch, Graphs, Trees

LEMMA HeldStep ==
  SystemTypeOK /\ FlowInv /\ SystemBoundInv /\ HeldInv /\ [SystemNext]_systemVars => HeldInv'
<1> SUFFICES ASSUME SystemTypeOK, FlowInv, SystemBoundInv, HeldInv, [SystemNext]_systemVars
             PROVE  HeldInv'
  OBVIOUS
<1> TypeOK /\ AnalyzeTypeOK
  BY DEF SystemTypeOK
<1>1. ASSUME UNCHANGED <<tree, edits, reverted>>,
             ~snapExists' => snap' = EmptyGraph,
             \A f \in Files : Held(f)' \subseteq Held(f) \union Symbols(walked[f]) \union Symbols(awalked[f]),
             \A f \in Files : walked'[f] \in {walked[f], tree[f], Absent},
             \A f \in Files : awalked'[f] \in {awalked[f], tree[f]}
      PROVE  HeldInv'
  BY <1>1 DEF HeldInv, SystemBoundInv, BoundInv, NotNewer, Symbols, TypeOK, StoreTypeOK,
              AnalyzeTypeOK, Trees, Graphs, Content, Absent
<1> USE DEF TypeOK, StoreTypeOK, AnalyzeTypeOK
<1>2. CASE WatchTurn
  <2>1. UNCHANGED <<tree, edits, reverted, graph, awalked>>
    BY <1>2, OnlyEditsEdit DEF WatchTurn, analyzeVars
  <2> SUFFICES /\ ~snapExists' => snap' = EmptyGraph
               /\ \A f \in Files : snap'[f] \union mem'[f] \subseteq
                                      Held(f) \union Symbols(walked[f])
               /\ \A f \in Files : walked'[f] \in {walked[f], tree[f], Absent}
    BY <1>1, <2>1 DEF Held
  <2> USE <2>1 DEF Held, HeldInv, storeVars
  <2>2. CASE \E f \in Files : ReadFile(f)
    BY <2>2 DEF ReadFile, Trees
  <2>3. CASE LoadSnapshot \/ StartFirstAnalysis \/ RegisterWatcher
    BY <2>3 DEF LoadSnapshot, StartFirstAnalysis, RegisterWatcher
  <2>4. CASE FirstGraphBuilt
    BY <2>4 DEF FirstGraphBuilt, GraphOf
  <2>5. CASE SaveFirstManifest \/ SaveManifest
    BY <2>5 DEF SaveFirstManifest, SaveManifest
  <2>6. CASE SaveFirstSnapshot \/ SaveSnapshot
    BY <2>6 DEF SaveFirstSnapshot, SaveSnapshot, StoreSnapshot
  <2>7. CASE HandleEvent \/ NothingChanged
    BY <2>7 DEF HandleEvent, NothingChanged
  <2>8. CASE ApplyChanges
    BY <2>8, PatchHolds DEF ApplyChanges
  <2>9. CASE UpdateStepFails
    BY <2>9 DEF UpdateStepFails
  <2>10. CASE WatchCrash
    BY <2>10 DEF WatchCrash, EmptyGraph, NothingRead
  <2> QED
    BY <1>2, <2>2, <2>3, <2>4, <2>5, <2>6, <2>7, <2>8, <2>9, <2>10 DEF WatchTurn, WatchStep
<1>3. CASE AnalyzeTurn
  <2>1. UNCHANGED <<tree, edits, reverted, mem, walked>>
    BY <1>3, OnlyEditsEdit DEF AnalyzeTurn, watchVars
  <2> SUFFICES /\ ~snapExists' => snap' = EmptyGraph
               /\ \A f \in Files : snap'[f] \union graph'[f] \subseteq
                                      Held(f) \union Symbols(awalked[f])
               /\ \A f \in Files : awalked'[f] \in {awalked[f], tree[f]}
    BY <1>1, <2>1 DEF Held
  <2> USE <2>1 DEF Held, HeldInv, storeVars
  <2>2. CASE \E f \in Files : AnalyzeReadFile(f)
    BY <2>2 DEF AnalyzeReadFile, Trees
  <2>3. CASE RunPipeline
    BY <2>3 DEF RunPipeline, GraphOf
  <2>4. CASE SaveAnalyzedSnapshot
    BY <2>4 DEF SaveAnalyzedSnapshot, StoreSnapshot
  <2>5. CASE (\E forced \in BOOLEAN : StartAnalysis(forced)) \/ SaveMeta
             \/ SaveAnalyzedManifest \/ AnalysisDies
    BY <2>5 DEF StartAnalysis, SaveMeta, SaveAnalyzedManifest, AnalysisDies
  <2> QED
    BY <1>3, <2>2, <2>3, <2>4, <2>5 DEF AnalyzeTurn, AnalyzeStep
<1>4. CASE EditTurn
  <2>1. UNCHANGED <<snapExists, snap, mem, graph, walked, awalked>>
    BY <1>4, EditChanges DEF EditTurn
  <2>2. edits' = edits + 1
    BY <1>4 DEF EditTurn, UserEdit, Edit, Write, Delete, Revert, SetContent
  <2>3. ~reverted' => ~reverted /\ \A f \in Files : tree'[f] \in {tree[f], Absent, edits + 1}
    BY <1>4, EditWrites DEF EditTurn
  <2>4. \A f \in Files : Held(f)' = Held(f) /\ Held(f) \subseteq Nat
    BY <2>1 DEF Held, Graphs, Content
  <2> QED
    BY <2>1, <2>2, <2>3, <2>4 DEF HeldInv, NotNewer, SystemBoundInv, BoundInv, Trees, Content, Absent
<1>5. CASE UNCHANGED systemVars
  BY <1>5 DEF systemVars, storeVars, watchVars, analyzeVars, HeldInv, Held
<1> QED
  BY <1>2, <1>3, <1>4, <1>5, Turns

(* The part of OrderInv that concerns the watch, and the part of analyze.  *)
WatchOrder ==
  /\ wpc = "walk" => \A f \in Files \ todo : \A c \in snap[f] : NotNewer(c, walked[f])
  /\ wpc \in Loaded => \A f \in Files : Replaces(mem[f], snap[f])

AnalyzeOrder ==
  /\ apc = "parse" => \A f \in Files \ atodo : \A c \in snap[f] : NotNewer(c, awalked[f])
  /\ apc \in {"saveMeta", "saveSnapshot"} => \A f \in Files : Replaces(graph[f], snap[f])

LEMMA OrderStep ==
  SystemTypeOK /\ FlowInv /\ TurnInv /\ AgeInv /\ [SystemNext]_systemVars => OrderInv'
<1> SUFFICES ASSUME SystemTypeOK, FlowInv, TurnInv, AgeInv, [SystemNext]_systemVars,
                    ~reverted'
             PROVE  WatchOrder' /\ AnalyzeOrder'
  BY DEF OrderInv, WatchOrder, AnalyzeOrder
<1> TypeOK /\ AnalyzeTypeOK
  BY DEF SystemTypeOK
<1>1. ~reverted
  BY OnlyEditsEdit, EditWrites, Turns DEF EditTurn
<1>2. /\ WatchOrder /\ AnalyzeOrder
      /\ ~snapExists => snap = EmptyGraph
      /\ \A f \in Files : \A c \in snap[f] : NotNewer(c, tree[f])
  BY <1>1 DEF AgeInv, HeldInv, OrderInv, Held, WatchOrder, AnalyzeOrder
<1>3. \A f \in Files : snap[f] \in SUBSET Nat /\ mem[f] \in SUBSET Nat
  BY DEF TypeOK, StoreTypeOK, Graphs, Content
<1> HIDE DEF AgeInv, OrderInv
<1> USE DEF WatchOrder, Loaded, Updating, storeVars
<1>4. CASE WatchTurn
  <2>1. apc = "off" /\ apc' = "off"
    BY <1>4 DEF WatchTurn, analyzeVars
  <2> SUFFICES WatchOrder'
    BY <2>1 DEF AnalyzeOrder
  <2>2. CASE \E f \in Files : ReadFile(f)
    BY <2>2, <1>2 DEF ReadFile, TypeOK, Trees
  <2>3. CASE LoadSnapshot
    BY <2>3, <1>3, ReplacesSelf DEF LoadSnapshot
  <2>4. CASE StartFirstAnalysis \/ FirstGraphBuilt
    BY <2>4 DEF StartFirstAnalysis, FirstGraphBuilt
  <2>5. CASE SaveFirstManifest \/ SaveManifest
    BY <2>5, <1>2 DEF SaveFirstManifest, SaveManifest
  <2>6. CASE SaveFirstSnapshot \/ SaveSnapshot
    BY <2>6, <1>3, ReplacesSelf DEF SaveFirstSnapshot, SaveSnapshot, StoreSnapshot
  <2>7. CASE RegisterWatcher \/ HandleEvent \/ NothingChanged
    BY <2>7, <1>2 DEF RegisterWatcher, HandleEvent, NothingChanged
  <2>8. CASE ApplyChanges
    <3>1. /\ mem' = Patch(mem, old, walked) /\ snap' = snap
          /\ wpc' = "saveSnapshot" /\ wpc = "walk" /\ todo = {}
      BY <2>8 DEF ApplyChanges
    <3>2. \A f \in Files : Replaces(Patch(mem, old, walked)[f], snap[f])
      BY <3>1, <1>2, <1>3, PatchReplaces DEF TypeOK
    <3> QED
      BY <3>1, <3>2
  <2>9. CASE UpdateStepFails
    BY <2>9, <1>2 DEF UpdateStepFails
  <2>10. CASE WatchCrash
    BY <2>10 DEF WatchCrash
  <2> QED
    BY <1>4, <2>2, <2>3, <2>4, <2>5, <2>6, <2>7, <2>8, <2>9, <2>10 DEF WatchTurn, WatchStep
<1>5. CASE AnalyzeTurn
  <2>1. wpc' = "down"
    BY <1>5 DEF AnalyzeTurn, watchVars
  <2> SUFFICES AnalyzeOrder'
    BY <2>1
  <2> USE DEF AnalyzeOrder
  <2>2. CASE \E f \in Files : AnalyzeReadFile(f)
    BY <2>2, <1>2 DEF AnalyzeReadFile, AnalyzeTypeOK, Trees
  <2>3. CASE RunPipeline
    BY <2>3, <1>2 DEF RunPipeline, GraphOf, Symbols, Replaces, NotNewer
  <2>4. CASE SaveMeta
    BY <2>4, <1>2 DEF SaveMeta
  <2>5. CASE (\E forced \in BOOLEAN : StartAnalysis(forced)) \/ SaveAnalyzedSnapshot
             \/ SaveAnalyzedManifest \/ AnalysisDies
    BY <2>5 DEF StartAnalysis, SaveAnalyzedSnapshot, SaveAnalyzedManifest, AnalysisDies
  <2> QED
    BY <1>5, <2>2, <2>3, <2>4, <2>5 DEF AnalyzeTurn, AnalyzeStep
<1>6. CASE EditTurn
  BY <1>2, <1>6, EditChanges DEF EditTurn, AnalyzeOrder
<1>7. CASE UNCHANGED systemVars
  BY <1>2, <1>7 DEF systemVars, watchVars, analyzeVars, AnalyzeOrder
<1> QED
  BY <1>4, <1>5, <1>6, <1>7, Turns

(* Whoever replaces the snapshot, and after whatever crashes and failed    *)
(* saves: the newest symbols of a file that were published are succeeded   *)
(* by none, or by newer ones.                                              *)
THEOREM SnapshotNeverGoesBack == SystemSpec => NeverGoesBack
<1> DEFINE Forward ==
      ~reverted' =>
        \A f \in Files : \A c \in snap[f] : snap'[f] = {} \/ \E d \in snap'[f] : d >= c
<1>1. SystemInit => SystemBoundInv /\ AgeInv
  <2> SUFFICES ASSUME SystemInit PROVE SystemBoundInv /\ AgeInv
    OBVIOUS
  <2>1. ClaimInv
    BY InitClaim DEF SystemInit
  <2> USE DEF SystemInit, Init, StoreInit, AnalyzeInit, NothingRead, EmptyGraph, Absent
  <2>2. SystemBoundInv
    BY <2>1 DEF SystemBoundInv, ClaimInv
  <2>3. HeldInv
    BY DEF HeldInv, Held, NotNewer, GraphOf, Symbols
  <2>4. OrderInv
    BY DEF OrderInv, Loaded, Updating
  <2> QED
    BY <2>2, <2>3, <2>4 DEF AgeInv
<1>2. SystemTypeOK /\ FlowInv /\ TurnInv /\ SystemBoundInv /\ AgeInv /\ [SystemNext]_systemVars
        => SystemBoundInv' /\ AgeInv'
  BY SystemBoundStep, HeldStep, OrderStep DEF AgeInv
<1>3. SystemTypeOK /\ FlowInv /\ TurnInv /\ AgeInv /\ [SystemNext]_systemVars => [Forward]_vars
  <2> SUFFICES ASSUME SystemTypeOK, FlowInv, TurnInv, AgeInv, [SystemNext]_systemVars,
                      ~reverted', NEW f \in Files
               PROVE  Replaces(snap'[f], snap[f])
    BY DEF Replaces, SystemTypeOK, TypeOK, StoreTypeOK, Graphs, Content
  <2>1. ~reverted
    BY OnlyEditsEdit, EditWrites, Turns DEF EditTurn
  <2>2. OrderInv /\ (~snapExists => snap = EmptyGraph)
    BY DEF AgeInv, HeldInv
  <2>3. CASE snap' = snap
    BY <2>3, ReplacesSelf DEF SystemTypeOK, TypeOK, StoreTypeOK, Graphs, Content
  <2>4. CASE SaveFirstSnapshot
    BY <2>2, <2>4 DEF SaveFirstSnapshot, FlowInv, EmptyGraph, Replaces
  <2>5. CASE SaveSnapshot
    BY <2>1, <2>2, <2>5 DEF SaveSnapshot, StoreSnapshot, OrderInv, Loaded, Updating
  <2>6. CASE SaveAnalyzedSnapshot
    BY <2>1, <2>2, <2>6 DEF SaveAnalyzedSnapshot, StoreSnapshot, OrderInv
  <2>7. \/ snap' = snap
        \/ SaveFirstSnapshot \/ SaveSnapshot \/ SaveAnalyzedSnapshot
    BY EditChanges, Turns
       DEF WatchTurn, WatchStep, ReadFile, LoadSnapshot, StartFirstAnalysis, FirstGraphBuilt,
           SaveFirstManifest, RegisterWatcher, HandleEvent, NothingChanged, ApplyChanges,
           SaveManifest, UpdateStepFails, WatchCrash, AnalyzeTurn, AnalyzeStep,
           StartAnalysis, AnalyzeReadFile, RunPipeline, SaveMeta, SaveAnalyzedManifest,
           AnalysisDies, EditTurn, systemVars, storeVars
  <2> QED
    BY <2>3, <2>4, <2>5, <2>6, <2>7
<1> QED
  BY <1>1, <1>2, <1>3, SystemTypeCorrect, TurnCorrect, PTL DEF SystemSpec, NeverGoesBack

-----------------------------------------------------------------------------
LEMMA RepairStep ==
  SystemTypeOK /\ TurnInv /\ RepairInv /\ [SystemNext]_systemVars => RepairInv'
<1> SUFFICES ASSUME SystemTypeOK, TurnInv, RepairInv, [SystemNext]_systemVars
             PROVE  RepairInv'
  OBVIOUS
<1> USE DEF RepairInv, Built, storeVars
<1>1. CASE WatchTurn
  BY <1>1 DEF WatchTurn, analyzeVars
<1>2. CASE AnalyzeTurn
  <2>1. CASE \E forced \in BOOLEAN : StartAnalysis(forced)
    BY <2>1 DEF StartAnalysis
  <2>2. CASE \E f \in Files : AnalyzeReadFile(f)
    BY <2>2 DEF AnalyzeReadFile, SystemTypeOK, AnalyzeTypeOK, Trees
  <2>3. CASE RunPipeline
    BY <2>3 DEF RunPipeline, GraphOf
  <2>4. CASE SaveMeta \/ SaveAnalyzedSnapshot
    BY <2>4 DEF SaveMeta, SaveAnalyzedSnapshot
  <2>5. CASE SaveAnalyzedManifest \/ AnalysisDies
    BY <2>5 DEF SaveAnalyzedManifest, AnalysisDies
  <2> QED
    BY <1>2, <2>1, <2>2, <2>3, <2>4, <2>5 DEF AnalyzeTurn, AnalyzeStep
<1>3. CASE EditTurn
  BY <1>3 DEF EditTurn, NoteEdits
<1>4. CASE UNCHANGED systemVars
  BY <1>4 DEF systemVars, analyzeVars
<1> QED
  BY <1>1, <1>2, <1>3, <1>4, Turns

(* An analysis that comes to its end repairs what crashes and failed saves *)
(* of either program left of the files nobody edited while it ran.         *)
THEOREM AnalyzeRepairs == SystemSpec => AnalysisRepairs
<1> DEFINE Repaired ==
      (apc = "rewalk" /\ apc' = "off" /\ faults' = faults) =>
        \A f \in Files \ touched :
          snap'[f] = Symbols(tree[f]) /\ manifest'[f] = tree[f]
<1>1. SystemInit => RepairInv
  BY DEF SystemInit, AnalyzeInit, RepairInv, Built
<1>2. SystemTypeOK /\ TurnInv /\ RepairInv /\ [SystemNext]_systemVars => [Repaired]_systemVars
  <2> SUFFICES ASSUME SystemTypeOK, TurnInv, RepairInv, [SystemNext]_systemVars,
                      apc = "rewalk", apc' = "off", faults' = faults,
                      NEW f \in Files \ touched
               PROVE  snap'[f] = Symbols(tree[f]) /\ manifest'[f] = tree[f]
    OBVIOUS
  <2>1. AnalyzeTurn
    BY Turns DEF WatchTurn, EditTurn, systemVars, analyzeVars
  <2>2. ~AnalysisDies
    BY DEF AnalysisDies, Fault, SystemTypeOK, TypeOK, StoreTypeOK
  <2>3. SaveAnalyzedManifest
    BY <2>1, <2>2 DEF AnalyzeTurn, AnalyzeStep, StartAnalysis, AnalyzeReadFile,
                      RunPipeline, SaveMeta, SaveAnalyzedSnapshot
  <2> QED
    BY <2>3 DEF SaveAnalyzedManifest, StoreManifest, RepairInv, TurnInv, Built
<1> QED
  BY <1>1, <1>2, RepairStep, SystemTypeCorrect, TurnCorrect, PTL
     DEF SystemSpec, AnalysisRepairs

=============================================================================
