--------------------------- MODULE SnapshotCache ---------------------------
(***************************************************************************)
(* LocalBackend's cache of one snapshot and of the two indexes built from  *)
(* it.  A request looks at the file three times - fingerprint, contents,   *)
(* fingerprint again - and other processes may replace or remove it        *)
(* between any two looks.  Requests come one at a time (the transports     *)
(* hold the backend's mutex).                                              *)
(*                                                                         *)
(* Every published snapshot has a fingerprint of its own here; the sources *)
(* say that a replacement of equal length and modification time cannot be  *)
(* detected.  A snapshot's number stands for its contents and fingerprint. *)
(***************************************************************************)
EXTENDS SnapshotDisk, Sequences, SequencesExt

VARIABLES
  pc,            \* where the request is
  answer,        \* the answer to the last one
  since,         \* what was on disk since the request came, in order
  indexed,       \* the request needs the indexes too
  attempt,       \* 0, or 1 after the retry
  fingerprint,   \* of the file before it is loaded
  graph,         \* the graph the request has loaded or found
  snapshot_cache, snapshot_fingerprint, indexes_cache, fts_cache

caches == <<snapshot_cache, snapshot_fingerprint, indexes_cache, fts_cache>>
requestVars == <<pc, indexed, attempt, fingerprint, graph>>
observed == <<answer, since>>
vars == <<diskVars, requestVars, observed, caches>>

Kept == Nat \union {Nothing}

TypeOK ==
  /\ DiskTypeOK
  /\ answer \in Nat \union {Nothing, Refused}
  /\ since \in Seq(OnDisk)
  /\ pc \in {"idle", "stat", "load", "restat", "indexes"}
  /\ indexed \in BOOLEAN
  /\ attempt \in {0, 1}
  /\ fingerprint \in Kept
  /\ graph \in Kept
  /\ snapshot_cache \in Kept
  /\ snapshot_fingerprint \in Kept
  /\ indexes_cache \in Kept
  /\ fts_cache \in Kept

Init ==
  /\ DiskInit
  /\ answer = Nothing
  /\ since = <<>>
  /\ pc = "idle"
  /\ indexed = FALSE
  /\ attempt = 0
  /\ fingerprint = Nothing
  /\ graph = Nothing
  /\ snapshot_cache = Nothing
  /\ snapshot_fingerprint = Nothing
  /\ indexes_cache = Nothing
  /\ fts_cache = Nothing

invalidate_snapshot_caches ==
  /\ snapshot_cache' = Nothing
  /\ snapshot_fingerprint' = Nothing
  /\ indexes_cache' = Nothing
  /\ fts_cache' = Nothing

Readable == disk # Gone /\ disk \notin damaged

-----------------------------------------------------------------------------
Request(wants) ==
  /\ pc = "idle"
  /\ answer' = Nothing
  /\ since' = <<disk>>
  /\ indexed' = wants
  /\ attempt' = 0
  /\ pc' = "stat"
  /\ UNCHANGED <<diskVars, fingerprint, graph, caches>>

(* The request is over, and with it what it had in hand. *)
Return(a) ==
  /\ answer' = a
  /\ since' = <<>>
  /\ pc' = "idle"
  /\ indexed' = FALSE
  /\ attempt' = 0
  /\ fingerprint' = Nothing
  /\ graph' = Nothing
  /\ UNCHANGED diskVars

(* An error ends the request and leaves nothing in the caches. *)
Fail == invalidate_snapshot_caches /\ Return(Refused)

StatFails == pc = "stat" /\ disk = Gone /\ Fail

(* With a graph in hand: answer, or go on to the indexes. *)
Proceed(g) ==
  \/ /\ indexed
     /\ graph' = g
     /\ pc' = "indexes"
     /\ UNCHANGED <<diskVars, observed, indexed, attempt, fingerprint>>
  \/ /\ ~indexed
     /\ Return(g)

(* Mutant: a graph that is kept is used whatever the file is now. *)
CacheHitUnchecked ==
  /\ pc = "stat"
  /\ disk # Gone
  /\ snapshot_cache # Nothing
  /\ Proceed(snapshot_cache)
  /\ UNCHANGED caches

CacheHit ==
  /\ pc = "stat"
  /\ disk # Gone
  /\ snapshot_fingerprint = disk
  /\ snapshot_cache # Nothing
  /\ Proceed(snapshot_cache)
  /\ UNCHANGED caches

CacheMiss ==
  /\ pc = "stat"
  /\ disk # Gone
  /\ snapshot_fingerprint # disk \/ snapshot_cache = Nothing
  /\ IF snapshot_fingerprint # disk THEN invalidate_snapshot_caches ELSE UNCHANGED caches
  /\ fingerprint' = disk
  /\ pc' = "load"
  /\ UNCHANGED <<diskVars, observed, indexed, attempt, graph>>

LoadFails == pc = "load" /\ ~Readable /\ Fail

Load ==
  /\ pc = "load"
  /\ Readable
  /\ graph' = disk
  /\ pc' = "restat"
  /\ UNCHANGED <<diskVars, observed, indexed, attempt, fingerprint, caches>>

RestatFails == pc = "restat" /\ disk = Gone /\ Fail

(* Mutant: the second look at the file is not compared with the first. *)
KeepUnchecked ==
  /\ pc = "restat"
  /\ disk # Gone
  /\ snapshot_cache' = graph
  /\ snapshot_fingerprint' = fingerprint
  /\ Proceed(graph)
  /\ UNCHANGED <<indexes_cache, fts_cache>>

(* The file is the one whose fingerprint was read first. *)
Keep ==
  /\ pc = "restat"
  /\ disk = fingerprint
  /\ snapshot_cache' = graph
  /\ snapshot_fingerprint' = fingerprint
  /\ Proceed(graph)
  /\ UNCHANGED <<indexes_cache, fts_cache>>

RetryOnce ==
  /\ pc = "restat"
  /\ disk \notin {Gone, fingerprint}
  /\ attempt = 0
  /\ invalidate_snapshot_caches
  /\ attempt' = 1
  /\ pc' = "stat"
  /\ UNCHANGED <<diskVars, observed, indexed, fingerprint, graph>>

ChangedRepeatedly ==
  pc = "restat" /\ disk \notin {Gone, fingerprint} /\ attempt = 1 /\ Fail

(* load_cached_indexes: an index that is kept is reused. *)
UseIndexes ==
  /\ pc = "indexes"
  /\ indexes_cache' = IF indexes_cache = Nothing THEN graph ELSE indexes_cache
  /\ fts_cache' = IF fts_cache = Nothing THEN graph ELSE fts_cache
  /\ Return(graph)
  /\ UNCHANGED <<snapshot_cache, snapshot_fingerprint>>

(* Other processes.  Only what happens during a request is remembered. *)
Disk ==
  /\ DiskStep
  /\ since' = IF pc = "idle" THEN since ELSE Append(since, disk')
  /\ UNCHANGED <<answer, requestVars, caches>>

ServerStep ==
  \/ StatFails
  \/ CacheHit
  \/ CacheMiss
  \/ LoadFails
  \/ Load
  \/ RestatFails
  \/ Keep
  \/ RetryOnce
  \/ ChangedRepeatedly
  \/ UseIndexes

Next ==
  \/ \E wants \in BOOLEAN : Request(wants)
  \/ ServerStep
  \/ Disk

Spec == Init /\ [][Next]_vars

-----------------------------------------------------------------------------
(* The four maps change in different lines, but what they keep belongs     *)
(* together: the graph has the fingerprint it is kept under, and an index  *)
(* that is kept was built from that very graph.                            *)
CachesAgree ==
  /\ snapshot_fingerprint = snapshot_cache
  /\ indexes_cache \in {Nothing, snapshot_cache}
  /\ fts_cache \in {Nothing, snapshot_cache}

(* The service as the cache shows it: a request is answered while it is    *)
(* not idle, and has seen what was on disk, changing once per replacement. *)
Seen == ToSet(since)
Changes == IF since = <<>> THEN 0 ELSE Len(since) - 1

Service == INSTANCE SnapshotService
             WITH busy <- (pc # "idle"), seen <- Seen, changes <- Changes

(* The cache implements the service: no answer is older than its request,  *)
(* none comes from a snapshot that was gone all the time, and one single   *)
(* replacement never makes a request fail.                                 *)
ImplementsService == Service!ServiceSpec

=============================================================================
