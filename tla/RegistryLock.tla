---------------------------- MODULE RegistryLock ----------------------------
(***************************************************************************)
(* The global registry of indexed repositories, registry.json, and the     *)
(* sentinel file that is to serialize the processes that change it.  Every *)
(* process of this module runs one register_repo or unregister_repo.       *)
(*                                                                         *)
(* The lock file has no owner in it, only a modification time: a process   *)
(* that finds it older than 30 seconds removes it, whoever created it.     *)
(* Time is abstracted to the fact that a lock file has become that old,    *)
(* because its creator died or was held up for so long.                    *)
(***************************************************************************)
EXTENDS Naturals, FiniteSets

CONSTANTS
  Procs,        \* processes, one registry operation each
  Repos,        \* repositories, by canonical path
  NoEntry,      \* the registry has no entry of a repository
  MaxAttempts,  \* attempts to create the lock file (50 in the code)
  MaxFaults     \* bound on processes that die or are held up, writes that fail

ASSUME RegistryAssumption ==
  /\ NoEntry \notin Procs
  /\ MaxAttempts \in Nat \ {0}
  /\ MaxFaults \in Nat

VARIABLES
  at,         \* where each process is
  target,     \* the repository of its operation
  adds,       \* the operation is register_repo
  attempts,   \* attempts to create the lock file so far
  entries,    \* the registry each process read
  lockFile,   \* registry.json.lock: "none", "fresh" or "old"
  stored,     \* registry.json: which process wrote a repository's entry
  serial,     \* the registry the operations written so far add up to
  reclaimed,  \* some process removed a lock file for its age
  faults      \* faults so far

registryVars == <<at, target, adds, attempts, entries, lockFile,
                  stored, serial, reclaimed, faults>>

Registries == [Repos -> Procs \union {NoEntry}]
Critical == {"read", "write", "unlock"}
Ended == {"done", "failed", "dead"}

RegistryTypeOK ==
  /\ at \in [Procs -> {"open", "stat", "reclaim"} \union Critical \union Ended]
  /\ target \in [Procs -> Repos]
  /\ adds \in [Procs -> BOOLEAN]
  /\ attempts \in [Procs -> Nat]
  /\ entries \in [Procs -> Registries]
  /\ lockFile \in {"none", "fresh", "old"}
  /\ stored \in Registries
  /\ serial \in Registries
  /\ reclaimed \in BOOLEAN
  /\ faults \in Nat

EmptyRegistry == [r \in Repos |-> NoEntry]

RegistryInit ==
  /\ at = [p \in Procs |-> "open"]
  /\ target \in [Procs -> Repos]
  /\ adds \in [Procs -> BOOLEAN]
  /\ attempts = [p \in Procs |-> 0]
  /\ entries = [p \in Procs |-> EmptyRegistry]
  /\ lockFile = "none"
  /\ stored = EmptyRegistry
  /\ serial = EmptyRegistry
  /\ reclaimed = FALSE
  /\ faults = 0

Goto(p, place) == at' = [at EXCEPT ![p] = place]

(* What a process read is gone when its operation is over. *)
Forget(p) == entries' = [entries EXCEPT ![p] = EmptyRegistry]

(* The operation of p on a registry: replace, add or remove its entry. *)
Apply(p, reg) ==
  [reg EXCEPT ![target[p]] = IF adds[p] THEN p ELSE NoEntry]

-----------------------------------------------------------------------------
(* with_registry_lock: create_new, else look at the age of the file. *)

Acquire(p) ==
  /\ at[p] = "open"
  /\ attempts[p] < MaxAttempts
  /\ lockFile = "none"
  /\ lockFile' = "fresh"
  /\ Goto(p, "read")
  /\ UNCHANGED <<target, adds, attempts, entries, stored, serial, reclaimed, faults>>

AlreadyExists(p) ==
  /\ at[p] = "open"
  /\ attempts[p] < MaxAttempts
  /\ lockFile # "none"
  /\ Goto(p, "stat")
  /\ UNCHANGED <<target, adds, attempts, entries, lockFile, stored, serial,
                 reclaimed, faults>>

(* The next attempt, after a sleep unless a lock file was just removed. *)
Retry(p) == attempts' = [attempts EXCEPT ![p] = @ + 1]

FindOld(p) ==
  /\ at[p] = "stat"
  /\ lockFile = "old"
  /\ Goto(p, "reclaim")
  /\ UNCHANGED <<target, adds, attempts, entries, lockFile, stored, serial,
                 reclaimed, faults>>

(* Mutant: an attempt that finds a young lock file is not counted. *)
FindYoungUncounted(p) ==
  /\ at[p] = "stat"
  /\ lockFile # "old"
  /\ Goto(p, "open")
  /\ UNCHANGED <<target, adds, attempts, entries, lockFile, stored, serial,
                 reclaimed, faults>>

(* A young lock file, or none any more. *)
FindYoung(p) ==
  /\ at[p] = "stat"
  /\ lockFile # "old"
  /\ Retry(p)
  /\ Goto(p, "open")
  /\ UNCHANGED <<target, adds, entries, lockFile, stored, serial, reclaimed, faults>>

(* The file that is removed need not be the one whose age was read. *)
Reclaim(p) ==
  /\ at[p] = "reclaim"
  /\ lockFile' = "none"
  /\ reclaimed' = TRUE
  /\ Retry(p)
  /\ Goto(p, "open")
  /\ UNCHANGED <<target, adds, entries, stored, serial, faults>>

(* Mutant: after the last attempt the operation runs without the lock. *)
GoOnUnlocked(p) ==
  /\ at[p] = "open"
  /\ attempts[p] = MaxAttempts
  /\ Goto(p, "read")
  /\ UNCHANGED <<target, adds, attempts, entries, lockFile, stored, serial,
                 reclaimed, faults>>

GiveUp(p) ==
  /\ at[p] = "open"
  /\ attempts[p] = MaxAttempts
  /\ Goto(p, "failed")
  /\ UNCHANGED <<target, adds, attempts, entries, lockFile, stored, serial,
                 reclaimed, faults>>

-----------------------------------------------------------------------------
(* Under the lock: read_registry, change the entry, write_registry. *)

(* Mutant: the lock covers the reading of the registry only. *)
ReadThenRelease(p) ==
  /\ at[p] = "read"
  /\ entries' = [entries EXCEPT ![p] = stored]
  /\ lockFile' = "none"
  /\ Goto(p, "write")
  /\ UNCHANGED <<target, adds, attempts, stored, serial, reclaimed, faults>>

read_registry(p) ==
  /\ at[p] = "read"
  /\ entries' = [entries EXCEPT ![p] = stored]
  /\ Goto(p, "write")
  /\ UNCHANGED <<target, adds, attempts, lockFile, stored, serial, reclaimed, faults>>

(* Temporary file and rename: all of the new registry or none of it. *)
write_registry(p) ==
  /\ at[p] = "write"
  /\ stored' = Apply(p, entries[p])
  /\ serial' = Apply(p, serial)
  /\ Forget(p)
  /\ Goto(p, "unlock")
  /\ UNCHANGED <<target, adds, attempts, lockFile, reclaimed, faults>>

(* Removes the lock file, also one that another process created since. *)
Release(p) ==
  /\ at[p] = "unlock"
  /\ lockFile' = "none"
  /\ Goto(p, "done")
  /\ UNCHANGED <<target, adds, attempts, entries, stored, serial, reclaimed, faults>>

-----------------------------------------------------------------------------
(* Faults: a read or write that fails is reported after the lock is        *)
(* released, an open that fails for another reason than the lock at once;  *)
(* a process that dies, or cannot remove its lock file, leaves it behind.  *)

Fault ==
  /\ faults < MaxFaults
  /\ faults' = faults + 1

OperationFails(p) ==
  /\ at[p] \in {"read", "write"}
  /\ Fault
  /\ Forget(p)
  /\ Goto(p, "unlock")
  /\ UNCHANGED <<target, adds, attempts, lockFile, stored, serial, reclaimed>>

OpenFails(p) ==
  /\ at[p] = "open"
  /\ attempts[p] < MaxAttempts
  /\ Fault
  /\ Goto(p, "failed")
  /\ UNCHANGED <<target, adds, attempts, entries, lockFile, stored, serial,
                 reclaimed>>

ReleaseFails(p) ==
  /\ at[p] = "unlock"
  /\ Fault
  /\ Goto(p, "done")
  /\ UNCHANGED <<target, adds, attempts, entries, lockFile, stored, serial,
                 reclaimed>>

Die(p) ==
  /\ at[p] \in Critical
  /\ Fault
  /\ Forget(p)
  /\ Goto(p, "dead")
  /\ UNCHANGED <<target, adds, attempts, lockFile, stored, serial, reclaimed>>

(* Thirty seconds pass over a lock file: nobody is left to remove it, or   *)
(* the process that should is held up.                                     *)
GrowOld ==
  /\ lockFile = "fresh"
  /\ \/ /\ \A p \in Procs : at[p] \notin Critical
        /\ UNCHANGED faults
     \/ /\ \E p \in Procs : at[p] \in Critical
        /\ Fault
  /\ lockFile' = "old"
  /\ UNCHANGED <<at, target, adds, attempts, entries, stored, serial, reclaimed>>

-----------------------------------------------------------------------------
ProcStep(p) ==
  \/ Acquire(p)
  \/ AlreadyExists(p)
  \/ FindOld(p)
  \/ FindYoung(p)
  \/ Reclaim(p)
  \/ GiveUp(p)
  \/ read_registry(p)
  \/ write_registry(p)
  \/ Release(p)

ProcFails(p) == OperationFails(p) \/ OpenFails(p) \/ ReleaseFails(p) \/ Die(p)

RegistryNext ==
  \/ \E p \in Procs : ProcStep(p) \/ ProcFails(p)
  \/ GrowOld

RegistrySpec == RegistryInit /\ [][RegistryNext]_registryVars

(* Every process is scheduled until it ends. *)
FairRegistrySpec == RegistrySpec /\ \A p \in Procs : WF_registryVars(ProcStep(p))

-----------------------------------------------------------------------------
(* Until a lock file is reclaimed for its age, one process at most is      *)
(* between its acquisition and its release, also after another one died.   *)
MutualExclusion ==
  ~reclaimed =>
    \A p, q \in Procs : (at[p] \in Critical /\ at[q] \in Critical) => p = q

(* Until then no operation is lost: registry.json is what the operations   *)
(* written so far add up to, one after the other.                          *)
NoUpdateLost == ~reclaimed => stored = serial

(* Nobody waits for a lock for ever, not even for one whose owner died.    *)
EveryoneEnds == \A p \in Procs : <>(at[p] \in Ended)

=============================================================================
