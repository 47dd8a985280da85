---------------------------- MODULE LocalBackend ----------------------------
(***************************************************************************)
(* The MCP server's backend in front of its snapshot cache: its mirror of  *)
(* the global registry and the resolution of the repository a request      *)
(* names.  A tool call compares the registry's fingerprint with the one it *)
(* has, and reads the file again if they differ; the REST endpoints and    *)
(* the resources use the mirror as it is.  Other processes replace the     *)
(* registry at any moment (by a rename, so that it is never half-written). *)
(*                                                                         *)
(* The registry is followed for one repository: whether a version of the   *)
(* file lists it.  A version's number stands for its fingerprint, 0 for a  *)
(* file that does not exist.  The repository's index and its meta.json are *)
(* published and removed together.                                         *)
(***************************************************************************)
EXTENDS SnapshotCache

CONSTANT MaxRegistry  \* bound on the versions of the registry

ASSUME BackendAssumption == MaxRegistry \in Nat

VARIABLES
  registry_file,  \* the version of the registry on disk
  listing,        \* the versions that list the repository
  unreadable,     \* the versions that cannot be read
  rpc,            \* where the request is before it reaches the cache
  refreshes,      \* it is a tool call
  by_path,        \* it names the repository by its path
  registry,       \* the mirror: the version it was read from
  registry_fingerprint,
  torn,           \* the file was replaced between its reading and its stamp
  registry_seen   \* the versions on disk since the request came

registryDisk == <<registry_file, listing, unreadable>>
mirror       == <<registry, registry_fingerprint, torn>>
lookup       == <<rpc, refreshes, by_path>>
backendVars  == <<vars, registryDisk, mirror, lookup, registry_seen>>

Versions == 0 .. MaxRegistry

BackendTypeOK ==
  /\ TypeOK
  /\ registry_file \in Versions
  /\ listing \in SUBSET (1 .. MaxRegistry)
  /\ unreadable \in SUBSET (1 .. MaxRegistry)
  /\ rpc \in {"down", "idle", "compare", "read", "stamp", "resolve", "serve"}
  /\ refreshes \in BOOLEAN
  /\ by_path \in BOOLEAN
  /\ registry \in Versions
  /\ registry_fingerprint \in Versions
  /\ torn \in BOOLEAN
  /\ registry_seen \in SUBSET Versions

BackendInit ==
  /\ Init
  /\ registry_file = 0
  /\ listing = {}
  /\ unreadable = {}
  /\ rpc = "down"
  /\ refreshes = FALSE
  /\ by_path = FALSE
  /\ registry = 0
  /\ registry_fingerprint = 0
  /\ torn = FALSE
  /\ registry_seen = {}

-----------------------------------------------------------------------------
(* Other processes. *)

LookingUp == rpc \in {"compare", "read", "stamp", "resolve"}

ReplaceRegistry(content) ==
  /\ registry_file < MaxRegistry
  /\ registry_file' = registry_file + 1
  /\ listing' = listing \union {v \in {registry_file'} : content = "listed"}
  /\ unreadable' = unreadable \union {v \in {registry_file'} : content = "unreadable"}
  /\ registry_seen' = registry_seen \union {v \in {registry_file'} : LookingUp}
  /\ UNCHANGED <<vars, mirror, lookup>>

-----------------------------------------------------------------------------
(* The request, up to the snapshot cache. *)

(* init: the server starts also if the registry cannot be read. *)
StartServer ==
  /\ rpc = "down"
  /\ rpc' = "read"
  /\ registry_seen' = {registry_file}
  /\ UNCHANGED <<vars, registryDisk, mirror, refreshes, by_path>>

ToolCall(path) ==
  /\ rpc = "idle"
  /\ rpc' = "compare"
  /\ refreshes' = TRUE
  /\ by_path' = path
  /\ registry_seen' = {registry_file}
  /\ UNCHANGED <<vars, registryDisk, mirror>>

RestRequest(path) ==
  /\ rpc = "idle"
  /\ rpc' = "resolve"
  /\ refreshes' = FALSE
  /\ by_path' = path
  /\ registry_seen' = {registry_file}
  /\ UNCHANGED <<vars, registryDisk, mirror>>

(* Mutant: the registry is read when the server starts, and then no more. *)
never_refresh ==
  /\ rpc = "compare"
  /\ rpc' = "resolve"
  /\ UNCHANGED <<vars, registryDisk, mirror, refreshes, by_path, registry_seen>>

refresh_registry_if_changed ==
  /\ rpc = "compare"
  /\ rpc' = IF registry_file = registry_fingerprint THEN "resolve" ELSE "read"
  /\ UNCHANGED <<vars, registryDisk, mirror, refreshes, by_path, registry_seen>>

(* After the start the server is idle, in a call the lookup follows. *)
Refreshed == IF refreshes THEN "resolve" ELSE "idle"

(* reload_registry reads the file and then, a step later, its fingerprint. *)
(* A file that does not exist lists nothing.                               *)
ReadRegistry ==
  /\ rpc = "read"
  /\ registry_file \notin unreadable
  /\ registry' = registry_file
  /\ rpc' = "stamp"
  /\ UNCHANGED <<vars, registryDisk, registry_fingerprint, torn, refreshes,
                 by_path, registry_seen>>

(* The mirror stays as it was, and so does its fingerprint. *)
ReloadFails ==
  /\ rpc = "read"
  /\ registry_file \in unreadable
  /\ rpc' = Refreshed
  /\ UNCHANGED <<vars, registryDisk, mirror, refreshes, by_path, registry_seen>>

StampRegistry ==
  /\ rpc = "stamp"
  /\ registry_fingerprint' = registry_file
  /\ torn' = (registry # registry_file)
  /\ rpc' = Refreshed
  /\ UNCHANGED <<vars, registryDisk, registry, refreshes, by_path, registry_seen>>

lookup_registry == registry \in listing

(* An index that is there although the registry does not list it. *)
entry_from_disk == by_path /\ disk # Gone

resolve_repo == lookup_registry \/ entry_from_disk

Resolve(wants) ==
  /\ rpc = "resolve"
  /\ resolve_repo
  /\ ~refreshes => wants
  /\ Request(wants)
  /\ rpc' = "serve"
  /\ registry_seen' = {}
  /\ refreshes' = FALSE
  /\ by_path' = FALSE
  /\ UNCHANGED <<registryDisk, mirror>>

RepoNotFound ==
  /\ rpc = "resolve"
  /\ ~resolve_repo
  /\ rpc' = "idle"
  /\ registry_seen' = {}
  /\ refreshes' = FALSE
  /\ by_path' = FALSE
  /\ UNCHANGED <<vars, registryDisk, mirror>>

Serve ==
  /\ rpc = "serve"
  /\ ServerStep
  /\ rpc' = IF pc' = "idle" THEN "idle" ELSE "serve"
  /\ UNCHANGED <<registryDisk, mirror, refreshes, by_path, registry_seen>>

BackendNext ==
  \/ \E content \in {"listed", "unlisted", "unreadable"} : ReplaceRegistry(content)
  \/ StartServer
  \/ \E path \in BOOLEAN : ToolCall(path) \/ RestRequest(path)
  \/ refresh_registry_if_changed
  \/ ReadRegistry
  \/ ReloadFails
  \/ StampRegistry
  \/ \E wants \in BOOLEAN : Resolve(wants)
  \/ RepoNotFound
  \/ Serve
  \/ Disk /\ UNCHANGED <<registryDisk, mirror, lookup, registry_seen>>

BackendSpec == BackendInit /\ [][BackendNext]_backendVars

-----------------------------------------------------------------------------
(* A repository indexed after the server started is known to the next tool *)
(* call: when a call looks a repository up, the mirror is a registry that  *)
(* was on disk during the call.  Excepted are a registry that could not be *)
(* read, when the previous mirror is kept on purpose, and one that was     *)
(* replaced between its reading and its stamp: its stamp then says that it *)
(* is current, until the next replacement.                                 *)
CallsSeeTheRegistry ==
  (rpc = "resolve" /\ refreshes)
    => registry \in registry_seen \/ registry_seen \intersect unreadable # {} \/ torn

=============================================================================
