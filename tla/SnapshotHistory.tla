---------------------------- MODULE SnapshotHistory ----------------------------
(***************************************************************************)
(* Named copies of a repository's snapshot: a file each, and index.json,   *)
(* which lists them.  The index is read, changed and written in place by   *)
(* each command, without a lock.  At most MaxSnapshots copies are kept.    *)
(* A copy is named by the time at which it was made, and times are taken   *)
(* to be distinct.                                                         *)
(***************************************************************************)
EXTENDS DesktopChat, FiniteSets

CONSTANTS MaxSnapshots, MaxDeaths

ASSUME HistoryAssumption == MaxSnapshots \in Nat /\ MaxDeaths \in Nat

VARIABLES
  index,      \* per repository: the copies index.json lists
  copies,     \* per repository: the files
  own,        \* of each command: the copy it makes or deletes
  clock,      \* time
  history,    \* per repository: the copies made and not deleted, evicted or not
  disturbed,  \* repositories two commands worked on at once, or one that
              \* failed or died: a history
  deaths

historyVars == <<index, copies, own, clock, history, disturbed, deaths>>

HistoryInit ==
  /\ index = [r \in Repos |-> {}]
  /\ copies = [r \in Repos |-> {}]
  /\ own = [n \in Commands |-> None]
  /\ clock = 0
  /\ history = [r \in Repos |-> {}]
  /\ disturbed = {}
  /\ deaths = 0

HistoryKinds == {"snapshot_create", "snapshot_delete"}
HistoryPlaces == {"copy", "readIndex", "evict", "saveIndex", "removeCopy"}

(* Commands other than n that are at work on the history of r. *)
Beside(n, r) == {m \in Commands \ {n} : repo[m] = r /\ pc[m] \in HistoryPlaces}

Newest(ids) == {i \in ids : Cardinality({j \in ids : j > i}) < MaxSnapshots}

SnapshotCreate ==
  /\ Give("snapshot_create", None, "activeName")
  /\ UNCHANGED <<chatVars, historyVars>>

SnapshotDelete(id) ==
  /\ Give("snapshot_delete", None, "activeName")
  /\ own' = [own EXCEPT ![started + 1] = id]
  /\ UNCHANGED <<chatVars, index, copies, clock, history, disturbed, deaths>>

HistoryStep(n) ==
  UNCHANGED <<started, kind, repo, diskVars, registry, repos, active_repo, removed,
              chatVars, deaths>>

(* active_storage_path *)
StoragePath(n) ==
  /\ pc[n] = "getRepo" /\ kind[n] \in HistoryKinds
  /\ IF repos[repo[n]] = None
     THEN Return(n) /\ UNCHANGED disturbed
     ELSE /\ GoTo(n, IF kind[n] = "snapshot_create" THEN "copy" ELSE "readIndex")
          /\ disturbed' = IF Beside(n, repo[n]) = {} THEN disturbed
                          ELSE disturbed \union {repo[n]}
          /\ UNCHANGED <<localVars, load_lock>>
  /\ HistoryStep(n)
  /\ UNCHANGED <<index, copies, own, clock, history>>

(* The snapshot on disk is copied, or one made of an older commit; what    *)
(* fails halfway may leave a copy nobody lists.                            *)
CopyGraph(n) ==
  /\ pc[n] = "copy"
  /\ \/ /\ published[repo[n]] # 0
        /\ clock' = clock + 1
        /\ own' = [own EXCEPT ![n] = clock']
        /\ copies' = [copies EXCEPT ![repo[n]] = @ \union {clock'}]
        /\ GoTo(n, "readIndex")
        /\ UNCHANGED <<localVars, load_lock, disturbed>>
     \/ /\ disturbed' = disturbed \union {repo[n]}
        /\ Return(n)
        /\ UNCHANGED <<clock, own, copies>>
  /\ HistoryStep(n)
  /\ UNCHANGED <<index, history>>

ReadIndex(n) ==
  /\ pc[n] = "readIndex"
  /\ IF kind[n] = "snapshot_create"
     THEN entries' = [entries EXCEPT ![n] = index[repo[n]] \union {own[n]}] /\ GoTo(n, "evict")
     ELSE entries' = [entries EXCEPT ![n] = index[repo[n]] \ {own[n]}] /\ GoTo(n, "saveIndex")
  /\ HistoryStep(n)
  /\ UNCHANGED <<got, load_lock, index, copies, own, clock, history, disturbed>>

(* Mutant: the index is sorted for display before its head is drained. *)
EvictNewest(n) ==
  /\ pc[n] = "evict"
  /\ LET over == IF Cardinality(entries[n]) > MaxSnapshots
                 THEN {CHOOSE i \in entries[n] : \A j \in entries[n] : j <= i} ELSE {}
     IN  /\ copies' = [copies EXCEPT ![repo[n]] = @ \ over]
         /\ entries' = [entries EXCEPT ![n] = @ \ over]
  /\ GoTo(n, "saveIndex")
  /\ HistoryStep(n)
  /\ UNCHANGED <<got, load_lock, index, own, clock, history, disturbed>>

(* enforce_cap_and_save: the oldest ones are removed, then the index is    *)
(* written.                                                                *)
Evict(n) ==
  /\ pc[n] = "evict"
  /\ copies' = [copies EXCEPT ![repo[n]] = @ \ (entries[n] \ Newest(entries[n]))]
  /\ entries' = [entries EXCEPT ![n] = Newest(@)]
  /\ GoTo(n, "saveIndex")
  /\ HistoryStep(n)
  /\ UNCHANGED <<got, load_lock, index, own, clock, history, disturbed>>

SaveIndex(n) ==
  /\ pc[n] = "saveIndex"
  /\ \/ /\ index' = [index EXCEPT ![repo[n]] = entries[n]]
        /\ IF kind[n] = "snapshot_create"
           THEN /\ history' = [history EXCEPT ![repo[n]] = @ \union {own[n]}]
                /\ Return(n)
           ELSE /\ history' = [history EXCEPT ![repo[n]] = @ \ {own[n]}]
                /\ GoTo(n, "removeCopy")
                /\ UNCHANGED <<localVars, load_lock>>
        /\ UNCHANGED disturbed
     \/ /\ disturbed' = disturbed \union {repo[n]}
        /\ Return(n)
        /\ UNCHANGED <<index, history>>
  /\ HistoryStep(n)
  /\ UNCHANGED <<copies, own, clock>>

RemoveCopy(n) ==
  /\ pc[n] = "removeCopy"
  /\ copies' = [copies EXCEPT ![repo[n]] = @ \ {own[n]}]
  /\ Return(n)
  /\ HistoryStep(n)
  /\ UNCHANGED <<index, own, clock, history, disturbed>>

HistoryCommandStep(n) ==
  \/ StoragePath(n)
  \/ CopyGraph(n)
  \/ ReadIndex(n)
  \/ Evict(n)
  \/ SaveIndex(n)
  \/ RemoveCopy(n)

(* A copy to be deleted is chosen from the list that is shown.            *)
HistoryNext ==
  \/ SnapshotCreate
  \/ \E r \in Repos : \E id \in index[r] : SnapshotDelete(id)
  \/ \E n \in Commands : HistoryCommandStep(n)

-----------------------------------------------------------------------------
(* When nobody is at work on it, and if commands on it neither overlapped  *)
(* nor failed, the list shows the copies there are, MaxSnapshots at most,  *)
(* and what was evicted is older than all it shows.                        *)
HistoryIsNewest ==
  \A r \in Repos \ disturbed :
    (\A n \in Commands : repo[n] = r => pc[n] \notin HistoryPlaces) =>
      /\ index[r] = copies[r]
      /\ Cardinality(index[r]) <= MaxSnapshots
      /\ \A i \in history[r] \ index[r], j \in index[r] : i < j

=============================================================================
