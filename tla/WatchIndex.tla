----------------------------- MODULE WatchIndex -----------------------------
(***************************************************************************)
(* The watch command with the incremental engine it drives: load the       *)
(* snapshot or run a first analysis, register with the file watcher, then  *)
(* for every batch of events walk the repository, patch the graph in       *)
(* memory, save the snapshot and only then the manifest.                   *)
(***************************************************************************)
EXTENDS IndexStore

VARIABLES
  wpc,     \* where the watch process is
  event,   \* a source event waits in the debouncer's channel
  old,     \* the manifest an update started from
  todo,    \* files the current walk has still to read
  walked,  \* contents the current walk has read
  mem      \* the graph in the watch process

watchVars == <<wpc, event, old, todo, walked, mem>>
vars == <<storeVars, watchVars>>

WatchStates ==
  {"down", "first", "rewalk", "firstSnapshot", "loaded",
   "idle", "walk", "saveSnapshot", "saveManifest"}

TypeOK ==
  /\ StoreTypeOK
  /\ wpc \in WatchStates
  /\ event \in BOOLEAN
  /\ old \in Trees
  /\ todo \in SUBSET Files
  /\ walked \in Trees
  /\ mem \in Graphs

Init ==
  /\ StoreInit
  /\ wpc = "down"
  /\ event = FALSE
  /\ old = NothingRead
  /\ todo = {}
  /\ walked = NothingRead
  /\ mem = EmptyGraph

-----------------------------------------------------------------------------
(* Only edits made while the watcher is registered produce an event. *)
Registered == wpc \in {"idle", "walk", "saveSnapshot", "saveManifest"}

UserEdit ==
  /\ Edit
  /\ event' = (event \/ Registered)
  /\ UNCHANGED <<wpc, old, todo, walked, mem>>

(* walk_repository reads the files one after the other. *)
Walking == wpc \in {"first", "rewalk", "walk"}

ReadFile(f) ==
  /\ Walking
  /\ f \in todo
  /\ walked' = [walked EXCEPT ![f] = tree[f]]
  /\ todo' = todo \ {f}
  /\ UNCHANGED <<storeVars, wpc, event, old, mem>>

-----------------------------------------------------------------------------
(* Start: the snapshot if there is one, a first analysis otherwise. *)

LoadSnapshot ==
  /\ wpc = "down"
  /\ snapExists
  /\ mem' = snap
  /\ wpc' = "loaded"
  /\ UNCHANGED <<storeVars, event, old, todo, walked>>

StartFirstAnalysis ==
  /\ wpc = "down"
  /\ ~snapExists
  /\ todo' = Files
  /\ wpc' = "first"
  /\ UNCHANGED <<storeVars, event, old, walked, mem>>

(* run_pipeline is done; its files are walked again for the manifest. *)
FirstGraphBuilt ==
  /\ wpc = "first"
  /\ todo = {}
  /\ mem' = GraphOf(walked)
  /\ todo' = Files
  /\ wpc' = "rewalk"
  /\ UNCHANGED <<storeVars, event, old, walked>>

(* The first analysis saves the manifest before the snapshot. *)
SaveFirstManifest ==
  /\ wpc = "rewalk"
  /\ todo = {}
  /\ StoreManifest(walked)
  /\ raced' = ClaimedUnparsed(mem, walked)
  /\ wpc' = "firstSnapshot"
  /\ UNCHANGED <<tree, edits, reverted, snapExists, snap, faults,
                 event, old, todo, walked, mem>>

SaveFirstSnapshot ==
  /\ wpc = "firstSnapshot"
  /\ StoreSnapshot(mem)
  /\ wpc' = "loaded"
  /\ UNCHANGED <<tree, edits, reverted, manifest, raced, faults,
                 event, old, todo, walked, mem>>

RegisterWatcher ==
  /\ wpc = "loaded"
  /\ wpc' = "idle"
  /\ UNCHANGED <<storeVars, event, old, todo, walked, mem>>

-----------------------------------------------------------------------------
(* The update: incremental_update and the two saves that follow it. *)

HandleEvent ==
  /\ wpc = "idle"
  /\ event
  /\ event' = FALSE
  /\ old' = manifest
  /\ todo' = Files
  /\ wpc' = "walk"
  /\ UNCHANGED <<storeVars, walked, mem>>

(* Mutant: only removed files are dropped, a modified one is parsed again. *)
DroppedRemoved(from, to) ==
  {f \in Files : from[f] # Absent /\ to[f] = Absent}

(* Step 5 drops the nodes of the files that were modified or removed, and  *)
(* of those alone: an added file is taken to have none.                    *)
Dropped(from, to) == {f \in Files : from[f] # Absent /\ from[f] # to[f]}

Changed(from, to) == {f \in Files : from[f] # to[f]}

(* Steps 5 and 6: drop, then parse what was added or modified. *)
Patch(g, from, to) ==
  [f \in Files |->
     (IF f \in Dropped(from, to) THEN {} ELSE g[f])
       \union (IF f \in Changed(from, to) THEN Symbols(to[f]) ELSE {})]

NothingChanged ==
  /\ wpc = "walk"
  /\ todo = {}
  /\ Changed(old, walked) = {}
  /\ wpc' = "idle"
  /\ UNCHANGED <<storeVars, event, old, todo, walked, mem>>

(* Mutant: the update also drains the events that came during its walk. *)
ApplyAndDrain ==
  /\ wpc = "walk"
  /\ todo = {}
  /\ Changed(old, walked) # {}
  /\ mem' = Patch(mem, old, walked)
  /\ event' = FALSE
  /\ wpc' = "saveSnapshot"
  /\ UNCHANGED <<storeVars, old, todo, walked>>

ApplyChanges ==
  /\ wpc = "walk"
  /\ todo = {}
  /\ Changed(old, walked) # {}
  /\ mem' = Patch(mem, old, walked)
  /\ wpc' = "saveSnapshot"
  /\ UNCHANGED <<storeVars, event, old, todo, walked>>

SaveSnapshot ==
  /\ wpc = "saveSnapshot"
  /\ StoreSnapshot(mem)
  /\ wpc' = "saveManifest"
  /\ UNCHANGED <<tree, edits, reverted, manifest, raced, faults,
                 event, old, todo, walked, mem>>

SaveManifest ==
  /\ wpc = "saveManifest"
  /\ StoreManifest(walked)
  /\ raced' = raced \ Dropped(old, walked)
  /\ wpc' = "idle"
  /\ UNCHANGED <<tree, edits, reverted, snapExists, snap, faults,
                 event, old, todo, walked, mem>>

-----------------------------------------------------------------------------
(* Mutants: the manifest is saved although the snapshot was not; a failed  *)
(* manifest save puts the previous snapshot back.                          *)

UpdateGoesOn ==
  /\ wpc \in {"walk", "saveSnapshot", "saveManifest"}
  /\ Fault
  /\ wpc' = IF wpc = "saveSnapshot" THEN "saveManifest" ELSE "idle"
  /\ UNCHANGED <<tree, edits, reverted, snapExists, snap, manifest, raced,
                 event, old, todo, walked, mem>>

UpdateRollsBack ==
  /\ wpc \in {"walk", "saveSnapshot", "saveManifest"}
  /\ Fault
  /\ snap' = IF wpc = "saveManifest" THEN GraphOf(old) ELSE snap
  /\ wpc' = "idle"
  /\ UNCHANGED <<tree, edits, reverted, snapExists, manifest, raced,
                 event, old, todo, walked, mem>>

(* Faults.  A failed walk or save of the update is logged and the loop     *)
(* goes on with the graph as it is; everywhere else the command exits.     *)

UpdateStepFails ==
  /\ wpc \in {"walk", "saveSnapshot", "saveManifest"}
  /\ Fault
  /\ wpc' = "idle"
  /\ UNCHANGED <<tree, edits, reverted, snapExists, snap, manifest, raced,
                 event, old, todo, walked, mem>>

WatchCrash ==
  /\ wpc # "down"
  /\ Fault
  /\ wpc' = "down"
  /\ event' = FALSE
  /\ old' = NothingRead
  /\ todo' = {}
  /\ walked' = NothingRead
  /\ mem' = EmptyGraph
  /\ UNCHANGED <<tree, edits, reverted, snapExists, snap, manifest, raced>>

WatchStep ==
  \/ \E f \in Files : ReadFile(f)
  \/ LoadSnapshot
  \/ StartFirstAnalysis
  \/ FirstGraphBuilt
  \/ SaveFirstManifest
  \/ SaveFirstSnapshot
  \/ RegisterWatcher
  \/ HandleEvent
  \/ NothingChanged
  \/ ApplyChanges
  \/ SaveSnapshot
  \/ SaveManifest

Next == WatchStep \/ UserEdit \/ UpdateStepFails \/ WatchCrash

Spec == Init /\ [][Next]_vars

-----------------------------------------------------------------------------
(* While nothing has failed, the published pair is exact: outside the gap  *)
(* between the two saves, the snapshot holds for every file the content    *)
(* the manifest records and nothing else, whatever was edited during the   *)
(* walks.  Files the first analysis claimed without parsing are excepted.  *)
PublishedExactly ==
  (faults = 0 /\ snapExists /\ wpc # "saveManifest")
    => \A f \in Files \ raced : snap[f] = Symbols(manifest[f])

(* What saving the snapshot before the manifest buys, crashes and failed   *)
(* writes included: if the manifest claims that a file is current, the     *)
(* snapshot has its current symbols (as long as no old content came back). *)
ClaimedCurrentIsIndexed ==
  (snapExists /\ ~reverted)
    => \A f \in Files \ raced :
         (tree[f] # Absent /\ manifest[f] = tree[f]) => tree[f] \in snap[f]

(* A snapshot never puts an older content in the place of a newer one:     *)
(* what a file's newest symbols are only moves forward, over crashes,      *)
(* restarts and failed saves, as long as no old content came back.         *)
NeverGoesBack ==
  [][ ~reverted' =>
        \A f \in Files : \A c \in snap[f] :
          snap'[f] = {} \/ \E d \in snap'[f] : d >= c ]_vars

(* An event that reached the watcher ends in an exact index of the tree    *)
(* once edits stop, unless something fails on the way.                     *)
Fresh == snapExists /\ \A f \in Files \ raced : snap[f] = Symbols(tree[f])

EventLeadsToFresh == (event /\ Registered) ~> (Fresh \/ faults > 0)

=============================================================================
