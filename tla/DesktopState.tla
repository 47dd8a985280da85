----------------------------- MODULE DesktopState -----------------------------
(***************************************************************************)
(* The desktop application's state: which repositories are loaded, in      *)
(* which version of their snapshot, and which of them is active.  Every    *)
(* command of the user interface is a task of its own and may be suspended *)
(* at each await; a guard of repos, registry or active_repo is held for    *)
(* one step, load_lock for as long as a snapshot is being loaded.          *)
(*                                                                         *)
(* Versions number the snapshots published for one repository, by the      *)
(* application itself or by an analyze or watch beside it.  A command is   *)
(* named by the order in which commands were started.                      *)
(***************************************************************************)
EXTENDS Naturals

CONSTANTS
  Repos,          \* names, which also stand for the storage directories
  MaxCommands,    \* bound on the commands of a behaviour
  MaxVersion,     \* bound on the snapshots published for a repository
  Menu,           \* kinds of commands that are given
  None

ASSUME DesktopAssumption ==
  MaxCommands \in Nat /\ MaxVersion \in Nat /\ None \notin Repos \union Nat

Commands == 1 .. MaxCommands

VARIABLES
  published,    \* version of graph.bin, 0 if there is none
  registered,   \* the registry on disk
  registry,     \* AppState::registry
  repos,        \* AppState::repos: the version that is loaded, or None
  active_repo,
  load_lock,    \* the command that holds it, or None
  started,      \* number of commands given
  pc, kind, repo,   \* of each command: where it is, its kind, the
                    \* repository it is about,
  got, entries,     \* the version it has loaded, and the list it has read
  removed       \* what the last reload of a repository found: a history

stateVars == <<registry, repos, active_repo, load_lock>>
diskVars  == <<published, registered>>
localVars == <<got, entries>>
callVars  == <<started, pc, kind, repo, localVars>>
desktopVars == <<diskVars, stateVars, callVars, removed>>

(* The state in which the application starts, or one repository is open.   *)
DesktopInit ==
  /\ registered \in SUBSET Repos
  /\ published = [r \in Repos |-> IF r \in registered THEN 1 ELSE 0]
  /\ \/ registry = {} /\ active_repo = None
     \/ registry = registered /\ active_repo \in registered
  /\ repos = [r \in Repos |-> IF r = active_repo THEN 1 ELSE None]
  /\ load_lock = None
  /\ started = 0
  /\ pc = [n \in Commands |-> "idle"]
  /\ kind = [n \in Commands |-> None]
  /\ repo = [n \in Commands |-> None]
  /\ got = [n \in Commands |-> None]
  /\ entries = [n \in Commands |-> {}]
  /\ removed = [r \in Repos |-> [version |-> 0, overtaken |-> FALSE]]

Give(k, r, first) ==
  LET n == started + 1
  IN  /\ k \in Menu
      /\ started < MaxCommands
      /\ started' = n
      /\ kind' = [kind EXCEPT ![n] = k]
      /\ repo' = [repo EXCEPT ![n] = r]
      /\ pc' = [pc EXCEPT ![n] = first]
      /\ UNCHANGED <<localVars, diskVars, stateVars, removed>>

GoTo(n, place) == pc' = [pc EXCEPT ![n] = place]

(* A command that returns drops the guard it holds. *)
Return(n) ==
  /\ GoTo(n, "done")
  /\ load_lock' = IF load_lock = n THEN None ELSE load_lock
  /\ got' = [got EXCEPT ![n] = None]
  /\ entries' = [entries EXCEPT ![n] = {}]

-----------------------------------------------------------------------------
(* AppState::open_repo *)

OpenFast(n) ==
  /\ pc[n] = "open"
  /\ GoTo(n, IF repos[repo[n]] # None THEN "activate" ELSE "lock")
  /\ UNCHANGED <<started, kind, repo, localVars, diskVars, stateVars, removed>>

(* Mutant: the lock is taken, and nobody looks once more. *)
LockOnly(n) ==
  /\ pc[n] = "lock"
  /\ load_lock = None
  /\ load_lock' = n
  /\ GoTo(n, "find")
  /\ UNCHANGED <<started, kind, repo, localVars, diskVars, registry, repos, active_repo, removed>>

TakeLoadLock(n) ==
  /\ pc[n] = "lock"
  /\ load_lock = None
  /\ load_lock' = n
  /\ GoTo(n, "recheck")
  /\ UNCHANGED <<started, kind, repo, localVars, diskVars, registry, repos, active_repo, removed>>

Recheck(n) ==
  /\ pc[n] = "recheck"
  /\ GoTo(n, IF repos[repo[n]] # None THEN "activate" ELSE "find")
  /\ UNCHANGED <<started, kind, repo, localVars, diskVars, stateVars, removed>>

FindEntry(n) ==
  /\ pc[n] = "find"
  /\ IF repo[n] \in registry
     THEN GoTo(n, "load") /\ UNCHANGED <<localVars, load_lock>>
     ELSE Return(n)
  /\ UNCHANGED <<started, kind, repo, diskVars, registry, repos, active_repo, removed>>

(* There may be no snapshot, or one that cannot be read. *)
LoadSnapshot(n) ==
  /\ pc[n] = "load"
  /\ \/ /\ published[repo[n]] # 0
        /\ got' = [got EXCEPT ![n] = published[repo[n]]]
        /\ GoTo(n, "insert")
        /\ UNCHANGED <<entries, load_lock>>
     \/ Return(n)
  /\ UNCHANGED <<started, kind, repo, diskVars, registry, repos, active_repo, removed>>

InsertRepo(n) ==
  /\ pc[n] = "insert"
  /\ repos' = [repos EXCEPT ![repo[n]] = got[n]]
  /\ GoTo(n, "activate")
  /\ UNCHANGED <<started, kind, repo, localVars, diskVars, registry, active_repo, load_lock, removed>>

(* The command open_repo also looks the entry up again, which changes      *)
(* nothing but its answer.                                                 *)
Activate(n) ==
  /\ pc[n] = "activate"
  /\ active_repo' = repo[n]
  /\ Return(n)
  /\ UNCHANGED <<started, kind, repo, diskVars, registry, repos, removed>>

OpenStep(n) ==
  \/ OpenFast(n)
  \/ TakeLoadLock(n)
  \/ Recheck(n)
  \/ FindEntry(n)
  \/ LoadSnapshot(n)
  \/ InsertRepo(n)
  \/ Activate(n)

-----------------------------------------------------------------------------
(* AppState::reload_repo: remove, then open *)

Remove(n, loaded) ==
  /\ pc[n] = "remove"
  /\ repos' = loaded
  /\ removed' = [removed EXCEPT ![repo[n]] =
       [version   |-> published[repo[n]],
        overtaken |-> \E m \in Commands : pc[m] = "insert" /\ repo[m] = repo[n]]]

(* Mutant: what is loaded is left there until the new graph is. *)
ReloadInPlace(n) ==
  /\ Remove(n, repos)
  /\ GoTo(n, "open")
  /\ UNCHANGED <<started, kind, repo, localVars, diskVars, registry, active_repo, load_lock>>

(* Mutant: the reload takes the lock that open_repo takes again. *)
ReloadLocked(n) ==
  /\ load_lock = None
  /\ load_lock' = n
  /\ Remove(n, [repos EXCEPT ![repo[n]] = None])
  /\ GoTo(n, "open")
  /\ UNCHANGED <<started, kind, repo, localVars, diskVars, registry, active_repo>>

ReloadRepo(n) ==
  /\ Remove(n, [repos EXCEPT ![repo[n]] = None])
  /\ GoTo(n, "open")
  /\ UNCHANGED <<started, kind, repo, localVars, diskVars, registry, active_repo, load_lock>>

-----------------------------------------------------------------------------
(* AppState::load_registry reads the file, then waits for the write guard. *)

ReadRegistry(n) ==
  /\ pc[n] = "readRegistry"
  /\ \/ /\ entries' = [entries EXCEPT ![n] = registered]
        /\ GoTo(n, "setRegistry")
        /\ UNCHANGED <<got, load_lock>>
     \/ Return(n)
  /\ UNCHANGED <<started, kind, repo, diskVars, registry, repos, active_repo, removed>>

SetRegistry(n) ==
  /\ pc[n] = "setRegistry"
  /\ registry' = entries[n]
  /\ IF kind[n] = "analyze_repo"
     THEN GoTo(n, "remove") /\ UNCHANGED <<localVars, load_lock>>
     ELSE Return(n)
  /\ UNCHANGED <<started, kind, repo, diskVars, repos, active_repo, removed>>

-----------------------------------------------------------------------------
(* The repository commands *)

Publish(r) ==
  /\ published[r] < MaxVersion
  /\ published' = [published EXCEPT ![r] = @ + 1]

ListRepos == Give("list_repos", None, "readRegistry")
OpenRepo(r) == Give("open_repo", r, "open")
AnalyzeRepo(r) == Give("analyze_repo", r, "register")
UnregisterRepo(r) == Give("unregister_repo", r, "unregister")

(* analyze_repo registers the repository, saves the snapshot, loads the    *)
(* registry and reloads; any step but the last may fail and end it.        *)
Register(n) ==
  /\ pc[n] = "register"
  /\ \/ registered' = registered \union {repo[n]} /\ GoTo(n, "save") /\ UNCHANGED <<localVars, load_lock>>
     \/ Return(n) /\ UNCHANGED registered
  /\ UNCHANGED <<started, kind, repo, published, registry, repos, active_repo, removed>>

SaveSnapshot(n) ==
  /\ pc[n] = "save"
  /\ \/ Publish(repo[n]) /\ GoTo(n, "readRegistry") /\ UNCHANGED <<localVars, load_lock>>
     \/ Publish(repo[n]) /\ Return(n)
     \/ Return(n) /\ UNCHANGED published
  /\ UNCHANGED <<started, kind, repo, registered, registry, repos, active_repo, removed>>

Unregister(n) ==
  /\ pc[n] = "unregister"
  /\ registered' = registered \ {repo[n]}
  /\ Return(n)
  /\ UNCHANGED <<started, kind, repo, published, registry, repos, active_repo, removed>>

(* An analyze or a watch on the command line. *)
PublishBeside(r) ==
  /\ Publish(r)
  /\ registered' = registered \union {r}
  /\ UNCHANGED <<stateVars, callVars, removed>>

StateStep(n) ==
  \/ OpenStep(n)
  \/ ReloadRepo(n)
  \/ ReadRegistry(n)
  \/ SetRegistry(n)
  \/ Register(n)
  \/ SaveSnapshot(n)
  \/ Unregister(n)

StateNext ==
  \/ ListRepos
  \/ \E r \in Repos : OpenRepo(r) \/ AnalyzeRepo(r) \/ UnregisterRepo(r)
  \/ \E r \in Repos : PublishBeside(r)
  \/ \E n \in Commands : StateStep(n)

-----------------------------------------------------------------------------
(* What is shown of a repository is never older than the snapshot that was *)
(* on disk at its last reload, but for a reload that another command's     *)
(* open_repo overtook, with an older snapshot in hand.                     *)
ShownIsReloaded ==
  \A r \in Repos :
    repos[r] # None => repos[r] >= removed[r].version \/ removed[r].overtaken

(* "two concurrent calls to open_repo can't both hit disk": a graph that   *)
(* is loaded is never replaced, it can only be removed.                    *)
LoadedOnce == [][\A r \in Repos : repos[r] # None => repos'[r] \in {repos[r], None}]_repos

=============================================================================
