---------------------------- MODULE BackendProofs ----------------------------
(***************************************************************************)
(* Proofs about the global registry and the server that reads it.          *)
(*                                                                         *)
(* RegistryLock, for any number of processes, repositories, attempts and   *)
(* faults: exclusion, and no lost update.  SnapshotCache, for any number   *)
(* of snapshots: it implements SnapshotService, and its four maps agree.   *)
(* LocalBackend in front of it, for any number of registries: a tool call  *)
(* sees the registry of its time.                                          *)
(*                                                                         *)
(* The refinement maps a cache that is not idle to a busy service, and the *)
(* order of what was on disk to the set of it and the number of changes.   *)
(* What has to be shown is that each answer lies in what the service has   *)
(* seen, and that each error has its excuse.                               *)
(***************************************************************************)
EXTENDS LocalBackend, RegistryLock, SequenceTheorems, TLAPS

(* A process in the critical section has a lock file behind it. *)
LockInv ==
  ~reclaimed =>
    /\ \A p, q \in Procs : (at[p] \in Critical /\ at[q] \in Critical) => p = q
    /\ \A p \in Procs : at[p] \in Critical => lockFile # "none"

(* What a process has read under the lock is still the registry. *)
ReadInv ==
  ~reclaimed =>
    /\ stored = serial
    /\ \A p \in Procs : at[p] = "write" => entries[p] = stored

-----------------------------------------------------------------------------
(* Apply is what an operation does to a registry: the result is one again. *)
LEMMA ApplyType ==
  ASSUME RegistryTypeOK, NEW p \in Procs, NEW reg \in Registries
  PROVE  Apply(p, reg) \in Registries
BY DEF RegistryTypeOK, Apply, Registries

(* Every variable of the registry protocol keeps its type. *)
THEOREM RegistryTypeCorrect == RegistrySpec => []RegistryTypeOK
<1>1. RegistryInit => RegistryTypeOK
  <2>1. EmptyRegistry \in Registries
    BY DEF EmptyRegistry, Registries
  <2>2. ASSUME RegistryInit
        PROVE  /\ at \in [Procs -> {"open", "stat", "reclaim"} \union Critical \union Ended]
               /\ attempts \in [Procs -> Nat]
    BY <2>2 DEF RegistryInit
  <2>3. ASSUME RegistryInit
        PROVE  entries \in [Procs -> Registries] /\ stored \in Registries /\ serial \in Registries
    BY <2>1, <2>3 DEF RegistryInit
  <2>4. ASSUME RegistryInit
        PROVE  /\ target \in [Procs -> Repos]
               /\ adds \in [Procs -> BOOLEAN]
               /\ lockFile \in {"none", "fresh", "old"}
               /\ reclaimed \in BOOLEAN
               /\ faults \in Nat
    BY <2>4 DEF RegistryInit
  <2> QED
    BY <2>2, <2>3, <2>4 DEF RegistryTypeOK
<1>2. RegistryTypeOK /\ [RegistryNext]_registryVars => RegistryTypeOK'
  <2> SUFFICES ASSUME RegistryTypeOK, [RegistryNext]_registryVars
               PROVE  RegistryTypeOK'
    OBVIOUS
  <2> USE DEF RegistryTypeOK, Goto, Critical, Ended
  <2>1. ASSUME NEW p \in Procs, Acquire(p) \/ AlreadyExists(p) \/ FindOld(p) \/ GiveUp(p)
        PROVE  RegistryTypeOK'
    BY <2>1 DEF Acquire, AlreadyExists, FindOld, GiveUp
  <2>2. ASSUME NEW p \in Procs, FindYoung(p) \/ Reclaim(p)
        PROVE  RegistryTypeOK'
    <3>1. attempts' \in [Procs -> Nat]
      BY <2>2 DEF FindYoung, Reclaim, Retry
    <3> QED
      BY <2>2, <3>1 DEF FindYoung, Reclaim
  <2>3. ASSUME NEW p \in Procs, read_registry(p)
        PROVE  RegistryTypeOK'
    BY <2>3 DEF read_registry
  <2>4. ASSUME NEW p \in Procs, write_registry(p)
        PROVE  RegistryTypeOK'
    <3>1. Apply(p, entries[p]) \in Registries /\ Apply(p, serial) \in Registries
      BY ApplyType
    <3>2. EmptyRegistry \in Registries
      BY DEF EmptyRegistry, Registries
    <3> QED
      BY <2>4, <3>1, <3>2 DEF write_registry, Forget
  <2>5. ASSUME NEW p \in Procs, Release(p)
        PROVE  RegistryTypeOK'
    BY <2>5 DEF Release
  <2>6. ASSUME NEW p \in Procs, ProcFails(p)
        PROVE  RegistryTypeOK'
    <3>1. EmptyRegistry \in Registries
      BY DEF EmptyRegistry, Registries
    <3> QED
      BY <2>6, <3>1 DEF ProcFails, OperationFails, OpenFails, ReleaseFails, Die, Fault, Forget
  <2>7. CASE GrowOld
    BY <2>7 DEF GrowOld, Fault
  <2>8. CASE UNCHANGED registryVars
    BY <2>8 DEF registryVars
  <2> QED
    BY <2>1, <2>2, <2>3, <2>4, <2>5, <2>6, <2>7, <2>8 DEF RegistryNext, ProcStep
<1> QED
  BY <1>1, <1>2, PTL DEF RegistrySpec

-----------------------------------------------------------------------------
(* The lock file stands for its owner as long as nobody removed one for    *)
(* its age: create_new fails while somebody is in the critical section.    *)
LEMMA LockStep == RegistryTypeOK /\ LockInv /\ [RegistryNext]_registryVars => LockInv'
<1> SUFFICES ASSUME RegistryTypeOK, LockInv, [RegistryNext]_registryVars, ~reclaimed'
             PROVE  /\ \A p, q \in Procs :
                         (at'[p] \in Critical /\ at'[q] \in Critical) => p = q
                    /\ \A p \in Procs : at'[p] \in Critical => lockFile' # "none"
  BY DEF LockInv
<1> USE DEF RegistryTypeOK, LockInv, Goto, Critical
<1>1. ASSUME NEW p \in Procs, Acquire(p)
      PROVE  /\ \A q, r \in Procs :
                  (at'[q] \in Critical /\ at'[r] \in Critical) => q = r
             /\ \A q \in Procs : at'[q] \in Critical => lockFile' # "none"
  <2>1. \A q \in Procs : at[q] \notin Critical
    BY <1>1 DEF Acquire
  <2> QED
    BY <1>1, <2>1 DEF Acquire
<1>2. ASSUME NEW p \in Procs, AlreadyExists(p) \/ FindOld(p) \/ FindYoung(p) \/ GiveUp(p)
      PROVE  /\ \A q \in Procs : at'[q] \in Critical => at[q] \in Critical
             /\ UNCHANGED <<lockFile, reclaimed>>
  BY <1>2 DEF AlreadyExists, FindOld, FindYoung, GiveUp
<1>3. ASSUME NEW p \in Procs, Reclaim(p)
      PROVE  FALSE
  BY <1>3 DEF Reclaim
<1>4. ASSUME NEW p \in Procs, read_registry(p) \/ write_registry(p) \/ ProcFails(p)
      PROVE  /\ \A q \in Procs : at'[q] \in Critical => at[q] \in Critical
             /\ UNCHANGED <<lockFile, reclaimed>>
  BY <1>4 DEF read_registry, write_registry, ProcFails, OperationFails, OpenFails,
              ReleaseFails, Die
<1>5. ASSUME NEW p \in Procs, Release(p)
      PROVE  \A q \in Procs : at'[q] \notin Critical
  BY <1>5 DEF Release
<1>6. CASE GrowOld
  BY <1>6 DEF GrowOld, Fault
<1>7. CASE UNCHANGED registryVars
  BY <1>7 DEF registryVars
<1> QED
  BY <1>1, <1>2, <1>3, <1>4, <1>5, <1>6, <1>7 DEF RegistryNext, ProcStep

(* Until a lock file is reclaimed, one process at most is between the      *)
(* creation of the lock file and its removal.                              *)
THEOREM Exclusion == RegistrySpec => []MutualExclusion
<1>1. RegistryInit => LockInv
  BY DEF RegistryInit, LockInv, Critical
<1>2. LockInv => MutualExclusion
  BY DEF LockInv, MutualExclusion
<1> QED
  BY <1>1, <1>2, RegistryTypeCorrect, LockStep, PTL DEF RegistrySpec

-----------------------------------------------------------------------------
(* The registry a writer starts from is the registry it replaces.          *)
LEMMA ReadStep == RegistryTypeOK /\ LockInv /\ ReadInv /\ [RegistryNext]_registryVars => ReadInv'
<1> SUFFICES ASSUME RegistryTypeOK, LockInv, ReadInv, [RegistryNext]_registryVars, ~reclaimed'
             PROVE  /\ stored' = serial'
                    /\ \A p \in Procs : at'[p] = "write" => entries'[p] = stored'
  BY DEF ReadInv
<1> USE DEF RegistryTypeOK, ReadInv, Goto
<1>1. ASSUME NEW p \in Procs,
             Acquire(p) \/ AlreadyExists(p) \/ FindOld(p) \/ FindYoung(p)
               \/ GiveUp(p) \/ Release(p)
      PROVE  /\ \A q \in Procs : at'[q] = "write" => at[q] = "write"
             /\ UNCHANGED <<stored, serial, entries, reclaimed>>
  BY <1>1 DEF Acquire, AlreadyExists, FindOld, FindYoung, GiveUp, Release
<1>2. ASSUME NEW p \in Procs, Reclaim(p)
      PROVE  FALSE
  BY <1>2 DEF Reclaim
<1>3. ASSUME NEW p \in Procs, read_registry(p)
      PROVE  /\ stored' = serial'
             /\ \A q \in Procs : at'[q] = "write" => entries'[q] = stored'
  BY <1>3 DEF read_registry
<1>4. ASSUME NEW p \in Procs, write_registry(p)
      PROVE  /\ stored' = serial'
             /\ \A q \in Procs : at'[q] = "write" => entries'[q] = stored'
  <2>1. ~reclaimed /\ entries[p] = stored /\ stored = serial
    BY <1>4 DEF write_registry
  <2>2. \A q \in Procs : at[q] = "write" => q = p
    BY <1>4, <2>1 DEF write_registry, LockInv, Critical
  <2>3. \A q \in Procs : at'[q] # "write"
    BY <1>4, <2>2 DEF write_registry
  <2> QED
    BY <1>4, <2>1, <2>3 DEF write_registry
<1>5. ASSUME NEW p \in Procs, ProcFails(p)
      PROVE  /\ stored' = serial'
             /\ \A q \in Procs : at'[q] = "write" => entries'[q] = stored'
  BY <1>5 DEF ProcFails, OperationFails, OpenFails, ReleaseFails, Die, Forget
<1>6. CASE GrowOld
  BY <1>6 DEF GrowOld, Fault
<1>7. CASE UNCHANGED registryVars
  BY <1>7 DEF registryVars
<1> QED
  BY <1>1, <1>2, <1>3, <1>4, <1>5, <1>6, <1>7 DEF RegistryNext, ProcStep

(* Until a lock file is reclaimed, no operation on the registry is lost:   *)
(* registry.json is the sum of the operations in the order of their writes.*)
THEOREM Serializes == RegistrySpec => []NoUpdateLost
<1>1. RegistryInit => LockInv /\ ReadInv
  BY DEF RegistryInit, LockInv, ReadInv, Critical
<1>2. ReadInv => NoUpdateLost
  BY DEF ReadInv, NoUpdateLost
<1> QED
  BY <1>1, <1>2, RegistryTypeCorrect, LockStep, ReadStep, PTL DEF RegistrySpec

-----------------------------------------------------------------------------
(* Snapshots are numbered as they are published. *)
NumberInv ==
  /\ disk # Gone => disk <= published
  /\ \A d \in damaged : d <= published

(* A request is being answered, and it has seen what is on disk. *)
BusyInv ==
  /\ pc = "idle" <=> since = <<>>
  /\ pc # "idle" => disk \in Seen

(* A graph that was loaded is a good one, and no older than its stamp;     *)
(* what is on disk is no older than either.                                *)
LoadInv ==
  /\ pc \in {"load", "restat"} =>
       /\ fingerprint \in Nat
       /\ disk # Gone => fingerprint <= disk
       /\ fingerprint <= published
  /\ pc = "restat" =>
       /\ graph \in Seen \ damaged
       /\ graph \in Nat
       /\ fingerprint <= graph
       /\ disk # Gone => graph <= disk
       /\ graph <= published

(* Until a graph is kept there are no indexes, and after that the request  *)
(* works on the graph that is kept.                                        *)
KeptInv ==
  /\ pc \in {"load", "restat"} => indexes_cache = Nothing /\ fts_cache = Nothing
  /\ pc = "indexes" =>
       /\ graph = snapshot_cache
       /\ graph \in Seen \ damaged
       /\ graph \in Nat
  /\ snapshot_cache # Nothing => snapshot_cache \notin damaged /\ snapshot_cache <= published

(* A retry has seen one change already, and a stamp that no longer fits    *)
(* has seen another one.                                                   *)
ChangesInv ==
  /\ pc \in {"stat", "load", "restat"} => Changes >= attempt
  /\ pc \in {"load", "restat"} /\ disk # fingerprint => Changes >= attempt + 1

CacheInv == NumberInv /\ BusyInv /\ LoadInv /\ KeptInv /\ ChangesInv /\ CachesAgree

(* Whether the mirror has the fingerprint of what it was read from. *)
MirrorInv ==
  /\ rpc # "stamp" => torn \/ registry = registry_fingerprint
  /\ LookingUp => registry_file \in registry_seen
  /\ rpc = "stamp" => registry \in registry_seen

LookupInv == MirrorInv /\ CallsSeeTheRegistry

-----------------------------------------------------------------------------
(* Types. *)

LEMMA Sets ==
  /\ Nat \subseteq OnDisk /\ Gone \in OnDisk
  /\ Nat \subseteq Kept /\ Nothing \in Kept
BY DEF OnDisk, Kept

LEMMA InitTyped == Init => TypeOK
<1>1. Init => damaged \in SUBSET Nat /\ since \in Seq(OnDisk)
  BY DEF Init, DiskInit
<1>2. Init => disk \in OnDisk /\ published \in Nat /\ answer \in Nat \union {Nothing, Refused}
  BY Sets DEF Init, DiskInit
<1>. QED  BY <1>1, <1>2, Sets DEF Init, TypeOK, DiskTypeOK

(* What a step of the disk leaves there is a snapshot or none. *)
LEMMA DiskStepTyped ==
  ASSUME DiskTypeOK, DiskStep
  PROVE  DiskTypeOK'
<1>1. CASE \E readable \in BOOLEAN : Publish(readable)
  <2>1. PICK readable \in BOOLEAN : Publish(readable)
    BY <1>1
  <2>. QED  BY <2>1, Sets DEF DiskTypeOK, Publish
<1>2. CASE RemoveStorage
  BY <1>2, Sets DEF DiskTypeOK, RemoveStorage
<1>. QED  BY <1>1, <1>2 DEF DiskStep

(* Every step of the cache keeps the types. *)
LEMMA TypeStep ==
  ASSUME TypeOK, [Next]_vars
  PROVE  TypeOK'
<1>. USE Sets
<1>0. CASE UNCHANGED vars
  BY <1>0 DEF TypeOK, DiskTypeOK, vars, diskVars, observed, requestVars, caches
<1>a. <<>> \in Seq(OnDisk) /\ (disk \in OnDisk => <<disk>> \in Seq(OnDisk))
  OBVIOUS
<1>1. ASSUME NEW wants \in BOOLEAN, Request(wants)
      PROVE  TypeOK'
  BY <1>1, <1>a DEF TypeOK, DiskTypeOK, Request, diskVars, caches
<1>2. ASSUME Fail
      PROVE  TypeOK'
  BY <1>2, <1>a DEF TypeOK, DiskTypeOK, Fail, Return, diskVars, invalidate_snapshot_caches
<1>3. ASSUME NEW g \in Kept, Proceed(g), UNCHANGED <<indexes_cache, fts_cache>>,
             snapshot_cache' \in Kept, snapshot_fingerprint' \in Kept
      PROVE  TypeOK'
  <2>1. g \in Nat \union {Nothing, Refused}
    BY DEF Kept
  <2>2. CASE Return(g)
    BY <1>3, <1>a, <2>1, <2>2 DEF TypeOK, DiskTypeOK, Return, diskVars
  <2>3. CASE ~Return(g)
    BY <1>3, <2>3 DEF TypeOK, DiskTypeOK, Proceed, diskVars, observed
  <2>. QED  BY <2>2, <2>3
<1>4. CASE ServerStep
  <2>1. CASE StatFails \/ LoadFails \/ RestatFails \/ ChangedRepeatedly
    BY <2>1, <1>2 DEF StatFails, LoadFails, RestatFails, ChangedRepeatedly
  <2>2. CASE CacheHit
    BY <2>2, <1>3 DEF TypeOK, CacheHit, caches
  <2>3. CASE CacheMiss
    <3>1. fingerprint' \in Kept
      BY <2>3 DEF TypeOK, DiskTypeOK, CacheMiss, OnDisk, Kept
    <3>. QED
      BY <2>3, <3>1 DEF TypeOK, DiskTypeOK, CacheMiss, invalidate_snapshot_caches,
                        diskVars, observed, caches
  <2>4. CASE Load
    <3>1. graph' \in Kept
      BY <2>4 DEF TypeOK, DiskTypeOK, Load, Readable, OnDisk, Kept
    <3>. QED
      BY <2>4, <3>1 DEF TypeOK, DiskTypeOK, Load, diskVars, observed, caches
  <2>5. CASE Keep
    BY <2>5, <1>3 DEF TypeOK, Keep
  <2>6. CASE RetryOnce
    BY <2>6 DEF TypeOK, DiskTypeOK, RetryOnce, invalidate_snapshot_caches, diskVars, observed
  <2>7. CASE UseIndexes
    <3>1. graph \in Nat \union {Nothing, Refused}
      BY DEF TypeOK, Kept
    <3>. QED
      BY <2>7, <1>a, <3>1 DEF TypeOK, DiskTypeOK, UseIndexes, Return, diskVars
  <2>. QED
    BY <1>4, <2>1, <2>2, <2>3, <2>4, <2>5, <2>6, <2>7 DEF ServerStep
<1>5. CASE Disk
  <2>1. DiskTypeOK'
    BY <1>5, DiskStepTyped DEF TypeOK, Disk
  <2>2. since' \in Seq(OnDisk)
    BY <1>5, <2>1, AppendProperties DEF TypeOK, DiskTypeOK, Disk
  <2>. QED
    BY <1>5, <2>1, <2>2 DEF TypeOK, Disk, requestVars, caches
<1>. QED
  BY <1>0, <1>1, <1>4, <1>5 DEF Next

-----------------------------------------------------------------------------
(* What the request has seen. *)

LEMMA NothingSeen ==
  ASSUME since = <<>>
  PROVE  Seen = {} /\ Changes = 0
BY DEF Seen, Changes, ToSet

LEMMA ChangesTyped ==
  ASSUME since \in Seq(OnDisk)
  PROVE  Changes \in Nat
<1>1. Len(since) \in Nat /\ (since # <<>> => Len(since) # 0)
  BY EmptySeq, LenProperties
<1>. QED  BY <1>1 DEF Changes

(* One more snapshot on disk is one more seen, and one more change. *)
LEMMA SeenGrows ==
  ASSUME since \in Seq(OnDisk), since # <<>>, NEW d \in OnDisk, since' = Append(since, d)
  PROVE  Seen' = Seen \union {d} /\ Changes' = Changes + 1 /\ since' # <<>>
<1>1. /\ since' \in Seq(OnDisk) /\ Len(since') = Len(since) + 1
      /\ \A i \in 1..Len(since) : since'[i] = since[i]
      /\ since'[Len(since) + 1] = d
  BY AppendProperties
<1>2. Len(since) \in Nat /\ since' # <<>>
  BY <1>1
<1>3. DOMAIN since = 1..Len(since) /\ DOMAIN since' = 1..(Len(since) + 1)
  BY <1>1, LenProperties
<1>4. Seen' = Seen \union {d}
  BY <1>1, <1>2, <1>3 DEF Seen, ToSet
<1>. QED  BY <1>1, <1>2, <1>4 DEF Changes

LEMMA SeenKept ==
  ASSUME UNCHANGED since
  PROVE  Seen' = Seen /\ Changes' = Changes
BY DEF Seen, Changes

-----------------------------------------------------------------------------
(* The caches. *)

LEMMA NotNumbers ==
  Gone \notin Nat /\ Nothing \notin Nat /\ Refused \notin Nat /\ Gone # Nothing
BY ServiceAssumption

LEMMA InitCache == Init => CacheInv
BY NotNumbers DEF Init, DiskInit, CacheInv, NumberInv, BusyInv, LoadInv, KeptInv,
                  ChangesInv, CachesAgree

(* A new snapshot has a number that nothing kept or loaded has yet. *)
LEMMA DiskKeepsCache ==
  ASSUME TypeOK, CacheInv, Disk
  PROVE  CacheInv'
<1>. USE NotNumbers
<1>. USE DEF requestVars, caches
<1>1. /\ disk' # Gone => disk' = published' /\ published' = published + 1
      /\ published' \in {published, published + 1}
      /\ damaged' \subseteq damaged \union {published + 1}
      /\ published' = published => damaged' = damaged
      /\ damaged \subseteq damaged'
  <2>1. CASE RemoveStorage
    BY <2>1 DEF RemoveStorage
  <2>2. CASE \E readable \in BOOLEAN : Publish(readable)
    BY <2>2 DEF Publish, TypeOK, DiskTypeOK
  <2>. QED  BY <2>1, <2>2 DEF Disk, DiskStep
<1>2. disk' \in OnDisk /\ Changes \in Nat
  BY DiskStepTyped, ChangesTyped DEF TypeOK, DiskTypeOK, Disk
<1>3. /\ UNCHANGED <<requestVars, caches>>
      /\ pc = "idle" => since' = since
      /\ pc # "idle" =>
           /\ Seen' = Seen \union {disk'}
           /\ Changes' = Changes + 1
           /\ since' # <<>>
  BY <1>2, SeenGrows DEF Disk, TypeOK, CacheInv, BusyInv
<1>4. NumberInv'
  BY <1>1 DEF TypeOK, DiskTypeOK, CacheInv, NumberInv
<1>5. BusyInv'
  BY <1>3 DEF CacheInv, BusyInv
<1>6. LoadInv'
  BY <1>1, <1>3 DEF TypeOK, DiskTypeOK, OnDisk, CacheInv, LoadInv
<1>7. KeptInv'
  BY <1>1, <1>3 DEF TypeOK, DiskTypeOK, Kept, CacheInv, KeptInv
<1>8. ChangesInv'
  BY <1>2, <1>3 DEF TypeOK, CacheInv, ChangesInv
<1>9. CachesAgree'
  BY <1>3 DEF CacheInv, CachesAgree
<1>. QED  BY <1>4, <1>5, <1>6, <1>7, <1>8, <1>9 DEF CacheInv

(* An answer or an error ends the request; what the caches then hold only  *)
(* has to agree.                                                           *)
LEMMA ReturnKeepsCache ==
  ASSUME TypeOK, CacheInv, NEW a, Return(a), CachesAgree',
         snapshot_cache' # Nothing => snapshot_cache' \notin damaged /\ snapshot_cache' <= published
  PROVE  CacheInv'
BY DEF CacheInv, NumberInv, BusyInv, LoadInv, KeptInv, ChangesInv, Return, diskVars

(* Every step of the cache keeps its invariant. *)
LEMMA CacheStep ==
  ASSUME TypeOK, CacheInv, [Next]_vars
  PROVE  CacheInv'
<1>. USE NotNumbers
<1>a. UNCHANGED since => Seen' = Seen /\ Changes' = Changes
  BY SeenKept
<1>b. Changes \in Nat
  BY ChangesTyped DEF TypeOK
<1>0. CASE UNCHANGED vars
  BY <1>0, <1>a DEF vars, diskVars, observed, requestVars, caches, CacheInv, NumberInv, BusyInv,
                    LoadInv, KeptInv, ChangesInv, CachesAgree
<1>1. ASSUME NEW wants \in BOOLEAN, Request(wants)
      PROVE  CacheInv'
  <2>1. Seen' = {disk} /\ Changes' = 0 /\ since' # <<>>
    BY <1>1 DEF Request, Seen, Changes, ToSet
  <2>. QED
    BY <1>1, <2>1 DEF TypeOK, DiskTypeOK, Request, diskVars, caches, CacheInv, NumberInv,
                      BusyInv, LoadInv, KeptInv, ChangesInv, CachesAgree
<1>2. ASSUME Fail
      PROVE  CacheInv'
  BY <1>2, ReturnKeepsCache DEF Fail, invalidate_snapshot_caches, CachesAgree
<1>3. CASE StatFails \/ LoadFails \/ RestatFails \/ ChangedRepeatedly
  BY <1>2, <1>3 DEF StatFails, LoadFails, RestatFails, ChangedRepeatedly
<1>4. CASE CacheHit
  <2>1. CASE Return(snapshot_cache)
    BY <1>4, <2>1, ReturnKeepsCache DEF CacheHit, caches, CacheInv, KeptInv, CachesAgree
  <2>2. CASE ~Return(snapshot_cache)
    <3>1. /\ pc = "stat" /\ pc' = "indexes" /\ graph' = snapshot_cache
          /\ disk \in Seen /\ disk = snapshot_cache /\ disk \in Nat \ damaged
          /\ UNCHANGED <<diskVars, observed, caches, attempt>>
      BY <1>4, <2>2 DEF TypeOK, Kept, CacheHit, Proceed, CacheInv, BusyInv, KeptInv, CachesAgree
    <3>. QED
      BY <3>1, <1>a DEF diskVars, observed, caches, CacheInv, NumberInv, BusyInv, LoadInv, KeptInv,
                        ChangesInv, CachesAgree
  <2>. QED  BY <2>1, <2>2
<1>5. CASE CacheMiss
  <2>1. CachesAgree' /\ snapshot_cache' = Nothing
    BY <1>5 DEF TypeOK, DiskTypeOK, OnDisk, CacheMiss, invalidate_snapshot_caches, caches,
                CacheInv, CachesAgree
  <2>. QED
    BY <1>5, <1>a, <2>1 DEF TypeOK, DiskTypeOK, OnDisk, CacheMiss, diskVars, observed, CacheInv,
                            invalidate_snapshot_caches, caches,
                            NumberInv, BusyInv, LoadInv, KeptInv, ChangesInv, CachesAgree
<1>6. CASE Load
  BY <1>6, <1>a DEF TypeOK, DiskTypeOK, OnDisk, Load, Readable, diskVars, observed, caches, CacheInv,
              NumberInv, BusyInv, LoadInv, KeptInv, ChangesInv, CachesAgree
<1>7. CASE Keep
  <2>1. disk = graph
    BY <1>7 DEF TypeOK, DiskTypeOK, OnDisk, Keep, CacheInv, LoadInv
  <2>2. /\ CachesAgree'
        /\ snapshot_cache' = graph /\ graph \notin damaged /\ graph <= published
    BY <1>7, <2>1 DEF Keep, CacheInv, LoadInv, KeptInv, CachesAgree
  <2>3. CASE Return(graph)
    BY <2>2, <2>3, ReturnKeepsCache
  <2>4. CASE ~Return(graph)
    BY <1>7, <1>a, <2>2, <2>4 DEF Keep, Proceed, diskVars, observed, CacheInv,
                      NumberInv, BusyInv, LoadInv, KeptInv, ChangesInv
  <2>. QED  BY <2>3, <2>4
<1>8. CASE RetryOnce
  <2>1. Changes >= 1
    BY <1>8, <1>b DEF RetryOnce, TypeOK, CacheInv, ChangesInv
  <2>. QED
    BY <1>8, <1>a, <2>1 DEF RetryOnce, invalidate_snapshot_caches, diskVars, observed, CacheInv,
              NumberInv, BusyInv, LoadInv, KeptInv, ChangesInv, CachesAgree
<1>9. CASE UseIndexes
  <2>1. CachesAgree' /\ snapshot_cache' = snapshot_cache
    BY <1>9 DEF UseIndexes, CacheInv, KeptInv, CachesAgree
  <2>. QED
    BY <1>9, <2>1, ReturnKeepsCache DEF UseIndexes, CacheInv, KeptInv
<1>10. CASE Disk
  BY <1>10, DiskKeepsCache
<1>. QED
  BY <1>0, <1>1, <1>3, <1>4, <1>5, <1>6, <1>7, <1>8, <1>9, <1>10 DEF Next, ServerStep

(* The graph, the stamp and the indexes that are kept belong together,     *)
(* whatever replaces the file while it is read.                            *)
THEOREM CachesBelongTogether == Spec => []CachesAgree
<1>1. Init => TypeOK /\ CacheInv
  BY InitTyped, InitCache
<1>2. TypeOK /\ CacheInv /\ [Next]_vars => (TypeOK /\ CacheInv)'
  BY TypeStep, CacheStep
<1>3. CacheInv => CachesAgree
  BY DEF CacheInv
<1>. QED  BY <1>1, <1>2, <1>3, PTL DEF Spec

-----------------------------------------------------------------------------
(* The refinement. *)

(* The end of a request is a reply of the service. *)
LEMMA ReturnIsReply ==
  ASSUME CacheInv, NEW a, Return(a), pc # "idle"
  PROVE  Service!Reply(a)
<1>1. Seen' = {} /\ Changes' = 0
  BY NothingSeen DEF Return, Seen, Changes, ToSet
<1>. QED  BY <1>1 DEF Return, Service!Reply, Service!diskVars, diskVars

(* A graph the request has seen, and that is not a damaged one, is an      *)
(* answer.                                                                 *)
LEMMA AnswersSeen ==
  ASSUME CacheInv, NEW g \in Seen \ damaged, g \in Nat, Return(g), pc # "idle"
  PROVE  Service!Answer
BY NotNumbers, ReturnIsReply DEF Service!Answer

(* Each of the four errors has its excuse. *)
LEMMA ErrorsExcused ==
  ASSUME TypeOK, CacheInv, StatFails \/ LoadFails \/ RestatFails \/ ChangedRepeatedly
  PROVE  Service!Refuse
<1>1. Service!Reply(Refused)
  BY ReturnIsReply DEF StatFails, LoadFails, RestatFails, ChangedRepeatedly, Fail
<1>2. disk \in Seen
  BY DEF StatFails, LoadFails, RestatFails, ChangedRepeatedly, CacheInv, BusyInv
<1>3. CASE StatFails \/ RestatFails
  BY <1>1, <1>2, <1>3 DEF StatFails, RestatFails, Service!Refuse, Service!Excused
<1>4. CASE LoadFails
  BY <1>1, <1>2, <1>4 DEF LoadFails, Readable, Service!Refuse, Service!Excused
<1>5. CASE ChangedRepeatedly
  <2>1. Changes \in Nat
    BY ChangesTyped DEF TypeOK
  <2>2. Changes >= 2
    BY <1>5, <2>1 DEF ChangedRepeatedly, CacheInv, ChangesInv
  <2>. QED  BY <1>1, <2>2 DEF Service!Refuse, Service!Excused
<1>. QED  BY <1>3, <1>4, <1>5

(* Going on with a graph is an answer, or nothing the service would see. *)
LEMMA ProceedOrAnswer ==
  ASSUME CacheInv, NEW g \in Seen \ damaged, g \in Nat, Proceed(g), pc # "idle"
  PROVE  [Service!ServiceNext]_(Service!serviceVars)
<1>1. CASE Return(g)
  BY <1>1, AnswersSeen DEF Service!ServiceNext
<1>2. CASE ~Return(g)
  <2>1. UNCHANGED <<diskVars, observed>> /\ (pc # "idle") = (pc' # "idle")
    BY <1>2 DEF Proceed
  <2>2. Seen' = Seen /\ Changes' = Changes
    BY <2>1, SeenKept DEF observed
  <2>. QED  BY <2>1, <2>2 DEF Service!serviceVars, Service!diskVars, diskVars, observed
<1>. QED  BY <1>1, <1>2

(* A step of the disk is one for the service, seen if it is busy. *)
LEMMA DiskIsServiceDisk ==
  ASSUME TypeOK, CacheInv, Disk
  PROVE  Service!Disk
<1>1. Service!DiskStep
  BY DEF Disk, DiskStep, Publish, RemoveStorage,
         Service!DiskStep, Service!Publish, Service!RemoveStorage
<1>2. disk' \in OnDisk
  BY DiskStepTyped DEF TypeOK, DiskTypeOK, Disk
<1>3. pc' = pc /\ answer' = answer
  BY DEF Disk, requestVars
<1>4. CASE pc = "idle"
  <2>1. Seen' = Seen /\ Changes' = Changes
    BY <1>4, SeenKept DEF Disk
  <2>. QED  BY <1>1, <1>3, <1>4, <2>1 DEF Service!Disk
<1>5. CASE pc # "idle"
  <2>1. Seen' = Seen \union {disk'} /\ Changes' = Changes + 1
    BY <1>2, <1>5, SeenGrows DEF Disk, TypeOK, CacheInv, BusyInv
  <2>. QED  BY <1>1, <1>3, <1>5, <2>1 DEF Service!Disk
<1>. QED  BY <1>4, <1>5

(* Every step of the cache is a step of the service, or none. *)
LEMMA ServiceStep ==
  ASSUME TypeOK, CacheInv, [Next]_vars
  PROVE  [Service!ServiceNext]_(Service!serviceVars)
<1>. USE NotNumbers
<1>a. ASSUME UNCHANGED <<diskVars, observed>>, (pc # "idle") = (pc' # "idle")
      PROVE  UNCHANGED Service!serviceVars
  BY <1>a, SeenKept DEF Service!serviceVars, Service!diskVars, diskVars, observed
<1>0. CASE UNCHANGED vars
  BY <1>0, <1>a DEF vars, requestVars
<1>1. ASSUME NEW wants \in BOOLEAN, Request(wants)
      PROVE  [Service!ServiceNext]_(Service!serviceVars)
  <2>1. Seen' = {disk} /\ Changes' = 0
    BY <1>1 DEF Request, Seen, Changes, ToSet
  <2>2. Service!Begin
    BY <1>1, <2>1 DEF Request, Service!Begin, Service!diskVars, diskVars
  <2>. QED  BY <2>2 DEF Service!ServiceNext
<1>2. CASE StatFails \/ LoadFails \/ RestatFails \/ ChangedRepeatedly
  BY <1>2, ErrorsExcused DEF Service!ServiceNext
<1>3. CASE CacheHit
  <2>1. snapshot_cache \in Seen \ damaged /\ snapshot_cache \in Nat
    BY <1>3 DEF CacheHit, TypeOK, Kept, CacheInv, BusyInv, KeptInv, CachesAgree
  <2>. QED  BY <1>3, <2>1, ProceedOrAnswer DEF CacheHit, Proceed
<1>4. CASE Keep
  <2>1. graph \in Seen \ damaged /\ graph \in Nat
    BY <1>4 DEF Keep, CacheInv, LoadInv
  <2>. QED  BY <1>4, <2>1, ProceedOrAnswer DEF Keep, Proceed
<1>5. CASE UseIndexes
  <2>1. graph \in Seen \ damaged /\ graph \in Nat
    BY <1>5 DEF UseIndexes, CacheInv, KeptInv
  <2>. QED  BY <1>5, <2>1, AnswersSeen DEF UseIndexes, Service!ServiceNext
<1>6. CASE CacheMiss \/ Load \/ RetryOnce
  BY <1>6, <1>a DEF CacheMiss, Load, RetryOnce
<1>7. CASE Disk
  BY <1>7, DiskIsServiceDisk DEF Service!ServiceNext
<1>. QED
  BY <1>0, <1>1, <1>2, <1>3, <1>4, <1>5, <1>6, <1>7 DEF Next, ServerStep

(* The cache implements the service. *)
THEOREM CacheImplementsService == Spec => ImplementsService
<1>1. Init => Service!ServiceInit
  BY NothingSeen DEF Init, DiskInit, Service!ServiceInit, Service!DiskInit
<1>2. Init => TypeOK /\ CacheInv
  BY InitTyped, InitCache
<1>3. TypeOK /\ CacheInv /\ [Next]_vars
        => (TypeOK /\ CacheInv)' /\ [Service!ServiceNext]_(Service!serviceVars)
  BY TypeStep, CacheStep, ServiceStep
<1>. QED
  BY <1>1, <1>2, <1>3, PTL DEF Spec, ImplementsService, Service!ServiceSpec

-----------------------------------------------------------------------------
(* The backend in front of the cache. *)

(* Whatever the backend does is, for the cache, a request, one of its own  *)
(* steps, or nothing.                                                      *)
LEMMA BackendIsCacheStep ==
  ASSUME [BackendNext]_backendVars
  PROVE  [Next]_vars
<1>1. ASSUME NEW wants \in BOOLEAN, Resolve(wants)
      PROVE  Next
  BY <1>1 DEF Resolve, Next
<1>2. CASE Serve
  BY <1>2 DEF Serve, Next
<1>3. CASE Disk /\ UNCHANGED <<registryDisk, mirror, lookup, registry_seen>>
  BY <1>3 DEF Next
<1>4. CASE \/ \E content \in {"listed", "unlisted", "unreadable"} : ReplaceRegistry(content)
           \/ StartServer
           \/ \E path \in BOOLEAN : ToolCall(path) \/ RestRequest(path)
  BY <1>4 DEF ReplaceRegistry, StartServer, ToolCall, RestRequest
<1>5. CASE refresh_registry_if_changed \/ ReadRegistry \/ ReloadFails \/ StampRegistry \/ RepoNotFound
  BY <1>5 DEF refresh_registry_if_changed, ReadRegistry, ReloadFails, StampRegistry, RepoNotFound
<1>6. CASE UNCHANGED backendVars
  BY <1>6 DEF backendVars
<1>. QED
  BY <1>1, <1>2, <1>3, <1>4, <1>5, <1>6 DEF BackendNext

(* The backend uses the cache as the cache's specification says. *)
THEOREM BackendUsesCache == BackendSpec => Spec
<1>1. BackendInit => Init
  BY DEF BackendInit
<1>. QED  BY <1>1, BackendIsCacheStep, PTL DEF BackendSpec, Spec

(* In the backend, too, what the caches keep belongs together. *)
THEOREM BackendCachesAgree == BackendSpec => []CachesAgree
BY BackendUsesCache, CachesBelongTogether, PTL

(* The backend answers as the service promises. *)
THEOREM BackendImplementsService == BackendSpec => ImplementsService
BY BackendUsesCache, CacheImplementsService, PTL

-----------------------------------------------------------------------------
(* The mirror of the registry. *)

MirrorTypeOK ==
  /\ registry_file \in Versions
  /\ listing \in SUBSET (1 .. MaxRegistry)
  /\ unreadable \in SUBSET (1 .. MaxRegistry)
  /\ rpc \in {"down", "idle", "compare", "read", "stamp", "resolve", "serve"}
  /\ refreshes \in BOOLEAN
  /\ by_path \in BOOLEAN
  /\ registry \in Versions
  /\ registry_fingerprint \in Versions
  /\ torn \in BOOLEAN
  /\ registry_seen \in SUBSET Versions

LEMMA InitMirror == BackendInit => MirrorTypeOK /\ LookupInv
<1>1. BackendInit => /\ listing \in SUBSET (1 .. MaxRegistry)
                     /\ unreadable \in SUBSET (1 .. MaxRegistry)
                     /\ registry_seen \in SUBSET Versions
  BY DEF BackendInit
<1>2. 0 \in Versions
  BY BackendAssumption DEF Versions
<1>3. BackendInit => MirrorTypeOK
  BY <1>1, <1>2 DEF BackendInit, MirrorTypeOK
<1>4. BackendInit => LookupInv
  BY DEF BackendInit, LookupInv, MirrorInv, CallsSeeTheRegistry, LookingUp
<1>. QED  BY <1>3, <1>4

LEMMA MirrorTypeStep ==
  ASSUME MirrorTypeOK, [BackendNext]_backendVars
  PROVE  MirrorTypeOK'
<1>. USE BackendAssumption DEF Versions
<1>0. CASE UNCHANGED backendVars
  BY <1>0 DEF MirrorTypeOK, backendVars, registryDisk, mirror, lookup
<1>1. ASSUME NEW content, ReplaceRegistry(content)
      PROVE  MirrorTypeOK'
  <2>1. registry_file' \in 1 .. MaxRegistry
    BY <1>1 DEF MirrorTypeOK, ReplaceRegistry
  <2>2. /\ listing' \in SUBSET (1 .. MaxRegistry)
        /\ unreadable' \in SUBSET (1 .. MaxRegistry)
    BY <1>1, <2>1 DEF MirrorTypeOK, ReplaceRegistry
  <2>3. registry_seen' \subseteq registry_seen \union {registry_file'}
    BY <1>1 DEF ReplaceRegistry
  <2>4. registry_file' \in Versions /\ registry_seen' \in SUBSET Versions
    BY <2>1, <2>3 DEF MirrorTypeOK
  <2>. QED
    BY <1>1, <2>2, <2>4 DEF MirrorTypeOK, ReplaceRegistry, mirror, lookup
<1>2. CASE StartServer
  BY <1>2 DEF MirrorTypeOK, StartServer, registryDisk, mirror
<1>3. ASSUME NEW path \in BOOLEAN, ToolCall(path) \/ RestRequest(path)
      PROVE  MirrorTypeOK'
  BY <1>3 DEF MirrorTypeOK, ToolCall, RestRequest, registryDisk, mirror
<1>4. CASE refresh_registry_if_changed \/ ReadRegistry \/ ReloadFails
  BY <1>4 DEF MirrorTypeOK, refresh_registry_if_changed, ReadRegistry, ReloadFails, Refreshed,
              registryDisk, mirror
<1>5. CASE StampRegistry
  BY <1>5 DEF MirrorTypeOK, StampRegistry, Refreshed, registryDisk
<1>6. ASSUME NEW wants \in BOOLEAN, Resolve(wants) \/ RepoNotFound
      PROVE  MirrorTypeOK'
  BY <1>6 DEF MirrorTypeOK, Resolve, RepoNotFound, registryDisk, mirror
<1>7. CASE Serve
  BY <1>7 DEF MirrorTypeOK, Serve, registryDisk, mirror
<1>8. CASE Disk /\ UNCHANGED <<registryDisk, mirror, lookup, registry_seen>>
  BY <1>8 DEF MirrorTypeOK, registryDisk, mirror, lookup
<1>. QED
  BY <1>0, <1>1, <1>2, <1>3, <1>4, <1>5, <1>6, <1>7, <1>8 DEF BackendNext

(* Every variable of the backend and of its cache stays within its type. *)
THEOREM BackendTypeCorrect == BackendSpec => []BackendTypeOK
<1>1. BackendInit => TypeOK /\ MirrorTypeOK
  BY InitTyped, InitMirror DEF BackendInit
<1>2. TypeOK /\ MirrorTypeOK /\ [BackendNext]_backendVars => (TypeOK /\ MirrorTypeOK)'
  BY BackendIsCacheStep, TypeStep, MirrorTypeStep
<1>3. TypeOK /\ MirrorTypeOK => BackendTypeOK
  BY DEF BackendTypeOK, MirrorTypeOK
<1>. QED  BY <1>1, <1>2, <1>3, PTL DEF BackendSpec

(* Every step keeps what is known of the mirror. *)
LEMMA MirrorStep ==
  ASSUME MirrorTypeOK, LookupInv, [BackendNext]_backendVars
  PROVE  LookupInv'
<1>. USE BackendAssumption
<1>. USE DEF LookupInv, MirrorInv, CallsSeeTheRegistry, LookingUp
<1>0. CASE UNCHANGED backendVars
  BY <1>0 DEF backendVars, registryDisk, mirror, lookup
<1>1. ASSUME NEW content, ReplaceRegistry(content)
      PROVE  LookupInv'
  <2>1. /\ UNCHANGED <<rpc, refreshes, mirror>>
        /\ registry_seen \subseteq registry_seen'
        /\ unreadable \subseteq unreadable'
        /\ LookingUp => registry_file' \in registry_seen'
    BY <1>1 DEF ReplaceRegistry, lookup
  <2>. QED  BY <2>1 DEF mirror
<1>2. CASE StartServer
  BY <1>2 DEF StartServer, registryDisk, mirror
<1>3. ASSUME NEW path \in BOOLEAN, ToolCall(path) \/ RestRequest(path)
      PROVE  LookupInv'
  BY <1>3 DEF ToolCall, RestRequest, registryDisk, mirror
<1>4. CASE refresh_registry_if_changed
  BY <1>4 DEF refresh_registry_if_changed, registryDisk, mirror
<1>5. CASE ReadRegistry
  BY <1>5 DEF ReadRegistry, registryDisk
<1>6. CASE ReloadFails
  BY <1>6 DEF ReloadFails, Refreshed, registryDisk, mirror
<1>7. CASE StampRegistry
  BY <1>7 DEF StampRegistry, Refreshed, registryDisk
<1>8. ASSUME NEW wants \in BOOLEAN, Resolve(wants) \/ RepoNotFound
      PROVE  LookupInv'
  BY <1>8 DEF Resolve, RepoNotFound, registryDisk, mirror
<1>9. CASE Serve
  BY <1>9 DEF Serve, registryDisk, mirror
<1>10. CASE Disk /\ UNCHANGED <<registryDisk, mirror, lookup, registry_seen>>
  BY <1>10 DEF registryDisk, mirror, lookup
<1>. QED
  BY <1>0, <1>1, <1>2, <1>3, <1>4, <1>5, <1>6, <1>7, <1>8, <1>9, <1>10 DEF BackendNext

(* A tool call looks the repository up in a registry of its own time,      *)
(* unless that one could not be read or was replaced while it was.         *)
THEOREM ToolCallsSeeTheRegistry == BackendSpec => []CallsSeeTheRegistry
<1>1. BackendInit => MirrorTypeOK /\ LookupInv
  BY InitMirror
<1>2. MirrorTypeOK /\ LookupInv /\ [BackendNext]_backendVars => (MirrorTypeOK /\ LookupInv)'
  BY MirrorTypeStep, MirrorStep
<1>3. LookupInv => CallsSeeTheRegistry
  BY DEF LookupInv
<1>. QED  BY <1>1, <1>2, <1>3, PTL DEF BackendSpec

=============================================================================
