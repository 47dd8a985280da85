---------------------------- MODULE SnapshotDisk ----------------------------
(***************************************************************************)
(* One repository's snapshot on disk.  Other processes publish, damage and *)
(* remove it; the servers of SnapshotService and SnapshotCache only read.  *)
(***************************************************************************)
EXTENDS Naturals, FiniteSets

CONSTANTS
  MaxVersions,  \* bound on the snapshots that are published
  Gone,         \* no snapshot on disk
  Nothing,      \* nothing answered, or nothing kept
  Refused       \* the answer is an error

ASSUME ServiceAssumption ==
  /\ MaxVersions \in Nat
  /\ {Gone, Nothing, Refused} \intersect Nat = {}
  /\ Gone # Nothing /\ Gone # Refused /\ Nothing # Refused

VARIABLES
  disk,       \* the published snapshot, by number
  published,  \* number of snapshots published so far
  damaged     \* snapshots that cannot be loaded

diskVars == <<disk, published, damaged>>

OnDisk == Nat \union {Gone}

DiskTypeOK ==
  /\ disk \in OnDisk
  /\ published \in Nat
  /\ damaged \in SUBSET Nat

DiskInit ==
  /\ disk = Gone
  /\ published = 0
  /\ damaged = {}

(* save_snapshot of another process: a rename over the old file. *)
Publish(readable) ==
  /\ published < MaxVersions
  /\ published' = published + 1
  /\ damaged' = IF readable THEN damaged ELSE damaged \union {published + 1}
  /\ disk' = published + 1

RemoveStorage ==
  /\ disk # Gone
  /\ disk' = Gone
  /\ UNCHANGED <<published, damaged>>

DiskStep == (\E readable \in BOOLEAN : Publish(readable)) \/ RemoveStorage

=============================================================================
