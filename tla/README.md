# Code Explorer in TLA+

Code Explorer indexes a source repository into a knowledge graph and serves the
graph to a command line, an MCP server, a desktop application and a browser.
This directory models the parts of it in which several actors change shared
state (the index on disk, the registry, the caches, the desktop's state and its
plan store), the commands that must survive a death at any point, and the
algorithms whose result has a definition of its own. Paths below are relative
to `src/crates/`, those of documents to `src/`.

Every module is checked by TLC on small instances (one `.cfg` per run), and has
theorems, proved for every value of its constants by TLAPS: they state every
safety property that a passing run checks.

## 1. Inventory

| Component | State it keeps | Operations | Where it is hard | What makes it correct |
|---|---|---|---|---|
| watch command (`code-explorer-cli/src/commands/watch.rs`) | the graph in memory, the debouncer's channel | load or first analysis, register, update per batch of events, save snapshot, save manifest | edits during walks, crashes between the saves, failed saves that the loop survives | the published pair agrees; an event ends in a fresh index |
| incremental engine (`code-explorer-ingest/src/incremental.rs`, `manifest.rs`) | none of its own; patches the caller's graph | diff of manifests, removal, parsing, resolution, pruning | any number of updates in place, each over the changed files alone | the graph of a full analysis, up to what is said of it below |
| on-disk store (`code-explorer-db/src/snapshot.rs`) | `graph.bin`, `manifest.json`, `meta.json` | atomic replacement of each | no transaction over the three | what a reader pairs belongs together |
| analyze command (`commands/analyze.rs`; the desktop's `analyze_repo` takes the same steps) | the graph it builds | pipeline, meta, snapshot, second walk, manifest | the second walk; death between any two writes | it repairs what crashes left |
| analysis caches (`code-explorer-ingest/src/phases/parsing.rs`, `local_enrichment.rs`) | `parse-cache.bin`, `local-enrichment.bin` | look up, invalidate, replace | what a key must contain; runs at the same time; other versions of the program | same graph as without a cache, and no more work than needed |
| knowledge graph (`code-explorer-core/src/graph/knowledge_graph.rs`) | `nodes`, `relationships`, `file_index` | seven mutating methods | a hand-kept index; cascading removals | exact index, nothing dangling |
| global registry (`code-explorer-core/src/storage/repo_manager.rs`) | `registry.json`, its lock file | register, unregister | read-modify-write by many processes, recovery of stale locks | exclusion, no lost update, nobody waits for ever |
| MCP backend (`code-explorer-mcp/src/backend/local.rs`) | four caches per repository, a mirror of the registry | resolve a repository, answer a request | files replaced between looks at them | an answer is a snapshot of the request's time |
| desktop plan executor (`code-explorer-desktop/src/commands/chat_executor.rs`) | the plan store | run a plan, run one step again | runs and steps share a bounded store with eviction | steps in order, the store current, a plan settles |
| desktop state (`code-explorer-desktop/src/state.rs`, `commands/repos.rs`) | registry, loaded repositories, the active one, `load_lock` | list, open, reload, analyze, unregister | commands overlap at every await; loads outside of the maps' locks | a reload shows the new graph, one load per repository |
| desktop chat (`commands/chat.rs`) | one cancel flag | ask, cancel | streaming in rounds; the flag is global | a cancelled answer stops |
| desktop snapshot history (`commands/snapshots.rs`) | copies of snapshots and `index.json` | create, delete, list | an index written in place, eviction, overlapping commands | the list shows the newest copies there are |
| documentation enrichment (`code-explorer-cli/src/commands/generate/enrichment.rs`, `cross_ref.rs`) | pages, hashes, kept answers, `queue.json`, `provenance.json` | generate, enrich only, retry the queue | paid requests that fail for hours, truncated answers, deaths | no page forgotten, no kept answer paid for twice |
| graph analyses (`code-explorer-db/src/analytics/cycles.rs`, `code-explorer-ingest/src/phases/architecture.rs`, `community.rs`, `code-explorer-core/src/impact.rs`) | none | cycles, communities, impact, paths | unrolled recursion, pruning, depth limits, hand-kept sums | the mathematical definition |
| the rest | none that changes concurrently, or is optional | parsing, resolution, queries, search, rendering, views, tokens, the database pool | pure, or decided outside of the program | |

How they interact: *analyze* and *watch* write the same store and have no lock
between them; *analyze* registers the repository and, with `--incremental`,
reads and replaces its own two caches; the MCP backend and the desktop read the
store and notice changes by looking at the files or by being told to reload.
The desktop's plan executor, chat and history go through its state. *generate*
reads a snapshot and keeps what it made under the documentation's directory. The
knowledge graph is the data structure all of them hold, and the incremental
engine is the only thing that changes one in place; the analyses borrow one that
does not change.

`PROJECT.json` lists all components with their status, and under `hazards` what
can go wrong, at its line, with the property that would notice.

## 2. Modules

```
IndexStore                 tree, snapshot, manifest; user edits; faults
  WatchIndex               the watch process
  AnalyzeIndex             the analyze process
    IndexSystem            both on one store             IndexSystemProofs
AnalysisCaches             analyze --incremental's       AnalysisCachesProofs
KnowledgeGraph             the graph's methods
  IncrementalGraph         an update, composed of them   GraphProofs
RegistryLock               the global registry           BackendProofs
SnapshotDisk               one snapshot file, as others replace it
  SnapshotService          what a server owes (abstract)
  SnapshotCache            the MCP backend's caches; implements SnapshotService
    LocalBackend           with the registry mirror      BackendProofs
PlanExecutor               research plans, their store   PlanExecutorProofs
DesktopState               the desktop's loaded repositories
  DesktopChat              answers and their cancellation
    SnapshotHistory        copies of snapshots
      DesktopSystem        all of them, and the end      DesktopProofs
Enrichment                 prose for generated pages     EnrichmentProofs
AnalysedGraph              a graph that does not change
  CycleAnalysis, ImpactAnalysis, CommunityAnalysis
    GraphAnalyses          one of them on one graph      GraphAnalysesProofs
MC*                        constants and symmetry sets for TLC
```

**IndexStore, WatchIndex.** A file's content is the number of the edit that made
it; a graph is, per file, the set of contents whose symbols it holds, so that a
node that survives its file shows as a second element. One action per step of
`watch.rs`: reading one file of a walk, patching, each save. A user edits at
any moment; only edits made while the watcher is registered send an event. Saves
are atomic (temporary file and rename in the code). A fault is a failed step of
an update, after which the loop goes on with the memory it has
(`UpdateStepFails`), or the death of the process, also by any failure outside of
an update (`WatchCrash`). The filter on event paths is abstracted: every file of
`Files` is one that it lets through. Documents are out of this module.

Two history variables mark what the code cannot know, and the properties that
need them say so:

- `reverted`: an old content came back. `watch.rs:184` gives as the reason for
  saving the snapshot first that otherwise "the manifest would claim files are
  current while the graph still reflects the pre-update state". The order alone
  does not give that: after a crash or a failed save between the two, an undo of
  the edit makes the diff empty, and the snapshot keeps the undone symbols.
- `raced`: a full analysis claimed a file with a content it had not parsed,
  because its manifest is made from a second walk (`analyze.rs:263-275`,
  `watch.rs:44-48`). Such a file is stale until it is edited again.

**AnalyzeIndex, IndexSystem.** `analyze` step by step, in the same store, with
its `has_index` shortcut and death at every point. `IndexSystem` runs the two
commands one after the other, as they are meant to be used.

**AnalysisCaches.** `parse_files_cached` and `LocalEnrichment` with everything
that can become of the two cache files: two versions of the program, an upgrade
while one runs (the fingerprint of a replaced program is empty, as on Linux,
where its path no longer names a file), two runs at once, oversized sources, failed saves, deaths, lost files. A parse is the pair
of the parser's version and the content; what a scanner finds depends on all it
is shown, the file's own nodes and what repository-wide phases wrote for its
neighbors, so that a key that leaves one of these out makes a different graph.
The reference is `FullGraph`, the analysis without any cache.

**KnowledgeGraph.** The mutating methods as actions over three functions; ids,
paths and labels are constants. `remove_empty_folders` is a function over the
rounds of its loop, so the module has no RECURSIVE operator. `get_node_mut` is
left out: its callers edit properties in place and leave `file_path` alone.

**IncrementalGraph.** What one `incremental_update` does, as one action over the
operators of `KnowledgeGraph`: removal of the changed files' nodes, structure,
definitions, imports, calls, documents, pruning; beside it `Analyze`, with or
without documents, which builds the graph from nothing, repairs the callers of
calls and goes on to the phases after them. The ids of the graph are those that
`generate_id` makes of the paths and names (`AllIds`, `AllRels`), and
`IncrementalAssumption` says what paths are: a file's or a directory's, each
longer than its parent's. A content is the parts it defines, the names it refers
to, its calls, and its marks, which stand for whatever a later phase makes a
node of its file of (to-do comments, endpoints, tables, entry points). One
community stands for all communities and processes, which have no file.

A name has an order of the files it may mean (`Candidates`: the exact path, then
the first suffix, extension by extension), and `FirstOf` takes the first that is
among the files handed in. That is all of them in an analysis, and the changed
ones in an update (`incremental.rs:203-210`). A call leads to the same file, else
to the imported files, else to all files, with the symbols of the whole graph;
its caller is named from the syntax tree, without a look at the nodes. Left out
are inheritance, which is resolved as calls are, visibility (every symbol is
exported), and the reconciliation of Go, C++ and project files across files.

An updated graph is not the one a full analysis builds, and the properties say
where the difference ends:

- The nodes of the later phases go with their file and are not made again, and
  no community goes before the next analysis (`touched`, in `NodesAsAnalyzed`
  and `RelationshipsSound`).
- An import is looked for among the changed files. It can be lost, or lead to
  another file than the one it means; and an unchanged file's import can be out
  of date because a better candidate was added. `ParsedTogetherKept` says which
  references survive, and `ReadTogetherExact` which imports are exactly those of
  an analysis: the ones whose deciding files were read together.
  `docs/INDEX-FRESHNESS.md:138` puts the boundary elsewhere.
- `resolve_calls` is not followed by `repoint_orphan_call_sources`
  (`incremental.rs:213-224`, `pipeline.rs:255-257`), so a call can stay without a
  caller, and nothing removes it with its file (`orphans`). `OnlyCallersMissing`
  says that nothing else dangles.
- The manifest of a full analysis lists no documents (`watch.rs:46`,
  `analyze.rs:269`), while the first update adds them as new and removes nothing
  for them. A document changed between the two (`missed`) keeps its old
  sections.

**RegistryLock.** `with_registry_lock` around `register_repo` or
`unregister_repo`, one operation per process: `create_new`, the look at the age,
the removal of an old lock file (two steps apart), read, write, release. Time is
abstracted to the lock file having become old, which needs a dead owner, or
spends a fault on a live one that was held up for thirty seconds. The history
variable `reclaimed` is the boundary of what holds: two processes that both
found a dead owner's lock old remove one after the other, the second removes the
lock the first has acquired since (`repo_manager.rs:211-216`), both run, and an
update is lost, against the comment at `repo_manager.rs:250`; or a live owner
that was held up goes on after another one took over.

**SnapshotDisk, SnapshotService, SnapshotCache.** `SnapshotDisk` is the file:
published, damaged and removed by others. The abstract service on top of it: an
answer is a snapshot that was published at some moment of the request, and an
error is excused only by a missing or damaged snapshot or by two changes during
one request. The detailed module is the loop of `load_cached_snapshot` (stat,
compare, load, stat again, keep or retry once) with `load_cached_indexes` after
it. The two share the disk and the answer, and the rest of the service's
state is a function of the cache's (`INSTANCE SnapshotService WITH`): a request
is in progress when `pc` is not idle, and what the service knows of the request,
which snapshots it may see and how many changes there were, follows from the
history `since`. Requests come one at a time, as the transports hold a mutex
around the backend. Every published snapshot has a fingerprint of its own; the
comment at `local.rs:168-171` names the exception.

**LocalBackend.** The mirror of the registry in front of the cache. Tool calls
refresh it when the file's fingerprint differs; REST requests and resources use
it as it is. `CallsSeeTheRegistry` excepts a registry that could not be read,
when the old mirror is kept on purpose, and one that was replaced between its
reading and its stamp (`torn`), which the code takes for current until the next
replacement. `lookup_registry` falls back to the index on disk for a path.

**PlanExecutor.** Runs of `chat_execute_plan`, each with its own copy of a plan,
level by level, and the store they copy it to; calls of `chat_execute_step`,
which copy a stored plan, mark, run and judge one step and put the whole plan
back. A panicked task is an outcome of its own and leaves its step running. A
loop of `store_plan` that never ends is the flag `stuck`: the mutex is never
released and nothing that needs the store happens again. `QueueWhileAlone` has
to except overlapping commands: a plan that is evicted while somebody works on
it is put back outside of `insertion_order`, nothing evicts it again, and once
such plans alone exceed the capacity the loop in `store_plan` pops an empty
queue for ever with the mutex held. With the real capacity that takes more than
ten plans evicted in mid-run. `PlanSettles` excepts two calls at once on one
plan (`mixed`), the later of which undoes the step of the other.
`StoreIsCurrent` says both ways when a plan reads as
failed: a plan all of whose steps were skipped does, one with a step that a panic
left running does not.

**DesktopState, DesktopChat, SnapshotHistory, DesktopSystem.** Every command of
the user interface is a task that can be suspended at each await; the modules
have one action per stretch between awaits, and a command is named by the order
in which it was given. `load_lock` is held over several of them, the guards of
the maps within one. Beside the commands, an *analyze* or *watch* publishes
snapshots, and the application may end and start again at any moment.
`ShownIsReloaded` has one exception (`overtaken`): an `open_repo` that has the
older snapshot in hand when `reload_repo` removes the entry inserts it
afterwards, and the reload finds the repository loaded. Answers keep the graph
they began with. The cancel flag is one for all answers: set while none is
streamed it cancels the next one, and of two answers the first to look uses it
up; `CancelStopsSoon` is about an answer whose request was not used up.
`HistoryIsNewest` excepts repositories on which commands overlapped, failed or
died, for the index is rewritten without a lock.

**Enrichment.** The three commands of `generate --enrich` over pages that are
tiny (skipped), normal (one structured request, with the freeform fallback) or
large (one request per section), the deferred pass over what failed, the review
of critical pages, and the cross-references that are put in afterwards. A page's
text is the version generated and the passes made over it; it determines the
requests made for the page, and stands for its own hash. Attempts of one request
are one step. A review is a paid request like the others, but its answer is
neither looked up nor kept (`Review`), so a page that is enriched again has it
paid again, and `PaidOnce` is about requests whose answers are kept. A review is paid in the
step that writes its text, so no death comes between the two. An error that
reaches the caller after an answer (tables lost, a text too short, a page that
cannot be written) is `Fail`, of one request or of all sections. Deaths happen anywhere, also in the middle of a file that is
written in place. A page all of whose sections failed counts as enriched
(`enrichment.rs:2439`), and a linked page no longer has the text of its hash, so
it is enriched again by the next command (`EnrichedAgainOnlyIfLinked`).

**AnalysedGraph and the analyses.** Five functions as loops over their locals.
The graph is the set of the pairs that have a relationship; where the code sees
each relationship, the pair may have up to `MaxParallel` of them (a call that
two phases find is two): `find_cycles` schedules a neighbor once for each
(`Schedules`), and the community graph counts each (`edgeCount`) while its sets
of neighbors do not. Iteration over a hash map or set is a choice; where the
code sorts, the order is fixed. `CycleAnalysis` has Tarjan's algorithm with its
work list, in which a node can be entered again and get a new index, and the
recursive search for circular dependencies. The depth bound of the latter, a
hundred calls, and the cut to twenty results are left out, so what is said of
it holds of graphs that stay within them. `ImpactAnalysis` has `bfs_impact` in
both directions, with noise to go around and members as further seeds, and
`find_path`. `CommunityAnalysis` compares gains in integers, scaled by the
square of twice the number of edges; the code compares floating-point numbers
with a threshold of `1e-10`, below the least gain of a graph of the size that is
checked, and beyond it makes fewer moves than the model. The
reference definitions are `Within` (nodes within so many steps), `Reached` and
`Component` (by closed sets) and `Modularity`.

`map` in `PROJECT.json` gives the lines of every definition. Definitions marked
as mutants in a comment are plausible mistakes, not part of the specifications;
each checked property is known to fail under one of them.

## 3. Runs

| Run | Instance | States | What it shows |
|---|---|---|---|
| `index_system` | 2 files, 3 edits, 2 faults | 870,000 | each command leaves a store the other can use (`HandedOverExactly`); after faults the manifest claims nothing current that is not indexed (`ClaimedCurrentIsIndexed`); a snapshot never goes back to older contents (`NeverGoesBack`); an event ends in an exact index once edits stop (`EventLeadsToFresh`); a completed analysis repairs what crashes left (`AnalysisRepairs`) |
| `analysis_caches` | 2 runs at a time, 3 in all, 2 files, 2 contents, 2 versions of the program, 2 disturbances | 780,000 | an incremental analysis builds the graph of a full one (`SameGraphAsFull`), and does only what changed and its neighbors (`OnlyChangesDone`) |
| `registry_lock` | 3 processes, 2 repositories, 2 attempts, 1 fault | 540,000 | exclusion and no lost update until a stale lock is reclaimed; every process ends |
| `knowledge_graph` | 3 ids, 2 relationships, 2 paths, 2 labels | 2,100 | exact index, no relationship left dangling by a removal, exact pruning, for all sequences of calls |
| `incremental_graph` | 2 code files, 1 document, 2 nested folders, 3 names of which 2 have two candidates, 2 or 3 contents each | 64,000 | all sequences of edits, analyses and updates: files, folders and parts as after a full analysis, and the nodes of later phases of the files no update touched (`NodesAsAnalyzed`); every reference and call is one its file makes now (`RelationshipsSound`); nothing dangles but callers (`OnlyCallersMissing`); references among files parsed together are kept, imports whose deciding files were read together are exact |
| `snapshot_cache` | 3 published snapshots, 3 registries | 1,800,000 | a tool call sees the registry, the four caches agree, and the cache implements the service |
| `plan_executor` | 3 runs, 2 calls, 2 steps, capacity 1 | 1,850,000 | steps run after their dependencies or are skipped for a reason (`StepsDecided`); the store is what the runs know (`StoreIsCurrent`); a plan settles after steps of it were run again; without overlapping commands it is a queue that never blocks |
| `desktop_system` | 1 repository, 3 commands of 8 kinds, 2 snapshots, answers of 2 rounds and 2 chunks, history of 1, 1 restart | 800,000 | a reload shows what it reloaded, a graph is loaded once, every command ends, a cancelled answer stops within a chunk, the history shows the newest copies |
| `enrichment` | 2 pages in 2 versions, 2 sections, 2 commands, 1 death | 1,350,000 | pages are done, too small or queued (`PagesAccountedFor`); provenance is kept; no request whose answer is kept is paid for twice (`PaidOnce`); no page is enriched on top without a reason |
| `graph_analyses` | all graphs of 3 nodes and the loop-free graphs of 4 with up to 7 edges, up to 2 relationships of a pair, depth limits 0 to 3 | 1,900,000 | each analysis against its definition, in every order of iteration |

The bounds. Two files are enough for a walk to see one before and one after an
edit, and the properties relate each file's entries to themselves. Three edits
give an edit before, during and after an update, or an edit and its undo; two
faults give a crash during the recovery from a failure. In the incremental
graph, two code files are an importer and the file it means, or the other one its
name may mean; a folder in a folder is pruned in two rounds; the document links to
itself and to code; and the contents make each file a caller, a callee and
neither, with a caller that is a symbol, is none, or is outside of all. In the
caches, two files
are a file and its neighbor in both directions and two owners of one route;
three analyses are one that writes the caches, one that disturbs them and one
that uses them. Three processes are a dead owner and two that find its lock; two
attempts let one fail and one succeed. Three graph ids give a chain of two
folders with a leaf, the shortest that is pruned in rounds. Three snapshots are
one to start with and changes during a request and during its retry. With
capacity 1, two plans stand for the eleven that fill the real store of ten;
three runs are enough for two evicted plans to come back (a fourth would then
block the store), and two calls may meet on one plan. Three
commands of the desktop are an open, a reload and a third that reads, or two
answers and a cancellation; with a history of one, a second copy evicts the
first (ten in the code). The pages of the enrichment are a leaf that shrinks
from large to normal and a critical page that shrinks to nothing, so each size
class and the review occur; a second command meets everything the first can
leave. Graphs of four nodes have every shape of two cycles with a shared node,
and a component entered from outside.

Deadlock checking is off where edits, commands or operations run out by their
bound, and in the registry, the plans and the analyses, where everybody ends.

Violation runs, each with its finding in `PROJECT.json`, which quotes the comment
that says otherwise:

| Run | Property | What happens |
|---|---|---|
| `enrichment_truncated` | `MarkedPagesAreComplete` | a truncated answer is kept without the fact that it was; the retry makes the same request, takes the kept answer for a whole one and marks the page as done |
| `cycles_repeat` | `CycleNodesOnce` | functions 1 and 2 call each other, 1 calls 2 at two places: node 2 is scheduled twice, entered twice, and listed twice in a cycle of length 3 |

Other statements of the repository are wrong in the cases that a property of a
passing run excepts. TLC finds each case when the exception is taken out of the
property; they have no run of their own.

| Statement | Excepted in | Case |
|---|---|---|
| "No relationship may still point at a node that is gone" (test, `incremental.rs:530`), "this guarantees no orphan-source CALLS edges regardless" (`phases/calls.rs:1587`) | `OnlyCallersMissing`, `orphans` | an update parses a call whose caller is no node |
| "a deleted or renamed Markdown file kept its `File` and `Section` nodes forever", listed as fixed (`docs/INDEX-FRESHNESS.md:132`) | `NodesAsAnalyzed`, `missed` | a document is deleted between an analysis and the first update after it |
| "Crashed `--enrich` runs resume for free" (`enrichment.rs:798`) | `PaidOnce`, reviews | the pages are generated again, their answers are replayed, the review of the critical one is paid once more |
| "concurrent indexers serialize instead of last-writer-wins clobbering each other" (`repo_manager.rs:250`) | `NoUpdateLost`, `reclaimed` | a process that was held up under the lock writes over the entry of the one that took the lock over |
| "One `stat` per tool call is enough to keep the two surfaces in sync" (`local.rs:359`) | `CallsSeeTheRegistry`, `torn` | the registry is replaced between its reading and its fingerprint |
| "insertion-order tracking for proper FIFO eviction" (`chat_executor.rs:28`) | `QueueWhileAlone`, `overlapped` | an evicted plan is put back, outside of the order |
| "Removes the old loaded data and re-loads from snapshot" (`state.rs:207`) | `ShownIsReloaded`, `overtaken` | an `open_repo` inserts the older graph during the reload |

**Fairness.** `index_system`: weak fairness of the watch process as a whole
while no analysis runs; its loop runs whenever it can, a scheduler owes it that.
Users, whoever calls *analyze*, and faults have none; the event property ends in
"or something failed". `registry_lock`: weak fairness of each process; none for
`GrowOld` and faults, so a process ends also when the lock never becomes old, by
giving up. `desktop_system`: weak fairness of some command's step, which is what
an async runtime with at least one worker owes; a stream goes on or ends; no
user owes a command. That is enough, since whoever waits for `load_lock` is not
the one that holds it.

## 4. Proofs

A module of proofs extends the module it is about, and those that one is made
of. Each theorem holds for every value of the constants that satisfies the
named assumptions.

| Theorem | States | Inductive invariant, and why it is needed |
|---|---|---|
| `IndexSystemProofs` | | |
| `TypeCorrect`, `SystemTypeCorrect` | types, of the watch process alone and of the two commands | one step per action |
| `PublishesExactly` | `PublishedExactly`, of watch alone | `ExactInv`: without faults the snapshot matches the manifest, and memory matches it too whenever the process is up, or, between the patch and the manifest, matches what was walked. It needs `FlowInv`: what the control state implies (an update runs on an existing snapshot and from the manifest on disk) |
| `HandsOverExactly` | `HandedOverExactly` | the same with analyze beside it: while one command is between its saves the other is not there, and what analyze parsed and claims differs only in raced files |
| `ClaimsAreBacked`, `SystemClaimsAreBacked` | `ClaimedCurrentIsIndexed`, of watch alone and of both | over faults the manifest may be older than the snapshot, so the proof needs that contents are numbered in order (`BoundInv`), that memory holds what the manifest claims (`BackedInv`), that a save under way has parsed what it will claim (`PendingInv`), and that a file which changed after a walk read it is not back at the content of the old manifest (`ReadInv`) |
| `SnapshotNeverGoesBack` | `NeverGoesBack` | every copy of the graph (memory, what is parsed, the snapshot) is bounded by what the tree has held, and memory is never behind the snapshot it is saved over |
| `AnalyzeRepairs` | `AnalysisRepairs` | of a file not touched since an analysis began, what was walked, parsed and walked again is the current content |
| `BackendProofs`, the registry | | |
| `RegistryTypeCorrect` | types | one step per action |
| `Exclusion` | `MutualExclusion` | `LockInv`: before any reclaim, someone in the critical section means that the lock file exists and that nobody else is there |
| `Serializes` | `NoUpdateLost` | `ReadInv` on top: what a process about to write has read is still the registry |
| `GraphProofs` | | |
| `TypeCorrect` | types | one step per method |
| `IndexIsExact` | `IndexExact` | inductive as it stands; `RemovalKeepsIndex` covers the four removals, each with the set it removes |
| `NoneDangle` | `NoneLeftDangling` | an action property: `RetainedKeeps` says what a filter by touched ids leaves |
| `PruningIsExact` | `PruneExact` | no round takes what holds itself up (`HeldStays`); a round that is not the last takes a folder, so the loop has ended after as many rounds as there are folders (`RoundsEnd`), and what it leaves holds itself up |
| `UpdatesKeepIndex`, `UpdatesMissOnlyCallers`, `UpdatesMakeFullNodes`, `UpdatesMakeSoundRelationships`, `UpdatesKeepParsedTogether`, `UpdatesReadTogether` | the six invariants of `IncrementalGraph`, in their order | `UpdateInv`, of the graph against the contents it was made of (`Base`), not against the tree: folders are those above files, a file that was not missed has exactly its parts, marks are those of untouched files, a call is one its file makes or an orphan of a touched file, and the imports of a file whose deciding files no update touched are those of an analysis (`ImportsInv`). Edits leave it alone; when the graph is in step, `Base` is the tree. `PruningLeaves` says what the pruning leaves of a graph whose files hang in their folders, by least counterexamples along the depth of a path; `FirstOfFewer` and `FirstOfSame` when a smaller set of files has the same first candidate |
| `BackendProofs`, the caches | | |
| `CachesBelongTogether`, `BackendCachesAgree` | `CachesAgree`, of the cache and of the backend | every cache holds one version, and only the version the fingerprint names may be completed |
| `CacheImplementsService`, `BackendImplementsService` | `ImplementsService` | the refinement under the mapping of section 2, action by action: an invariant says, for each place of the loop, which versions the request has seen published, so that what it answers is one of them, and how many changes an error of the retry needs |
| `BackendUsesCache` | a backend's behaviour is one of the cache | each step of the backend is a step of the cache or leaves it alone |
| `BackendTypeCorrect` | types | |
| `ToolCallsSeeTheRegistry` | `CallsSeeTheRegistry` | a mirror that is stamped with a fingerprint is that registry's, unless it was torn |
| `AnalysisCachesProofs` | | |
| `IncrementalAsFull` | `SameGraphAsFull` | every entry of either cache, on disk and in the hands of any run, is what its key determines: a parse by that version of the program, a scan of a file with those neighbors |
| `NoMoreThanChanges` | `OnlyChangesDone` | a clean run's caches on disk are of its base, entry by entry |
| `EnrichmentProofs` | | |
| `KeptAnswersPaidOnce` | `PaidOnce` | what was paid for is kept, or about to be, or a review, and of the rest only what is not kept is asked |
| `SourcesRecorded` | `ProvenanceKept` | entries in memory cover every hash but that of the command at work |
| `NoPageForgotten` | `PagesAccountedFor` | each page of the work is done, small, still to do, or in one of the two lists of the pass |
| `NotEnrichedOnTop` | `EnrichedAgainOnlyIfLinked` | an enriched page is as its hash says, or is the current one, on its way from the write to the hash |
| `DesktopProofs` | | |
| `DesktopTypeCorrect`, `LoadsAreSound` | types; who loads holds `load_lock` | `Prepared`: what a command has in hand at each of its places |
| `ReloadsAreShown`, `LoadsOnce` | `ShownIsReloaded`, `LoadedOnce` | `LoadInv`: nothing is loaded of a repository while somebody between the second look and the insertion holds the lock |
| `CancelsSoon` | `CancelStopsSoon` | `CancelInv`: the flag is up as long as an answer is to be cancelled |
| `HistoryShowsNewest` | `HistoryIsNewest` | `HistoryInv`: one command at work per undisturbed repository, and for each of its places how its list, the index and the copies differ |
| `PlanExecutorProofs` | | |
| `PlanTypeCorrect` | types | with `CallInv`: calls work on plans of runs that have ended |
| `StepsAreDecided` | `StepsDecided` | `LevelInv`: the steps of the levels that are done are decided the right way, those of later levels are pending. Needs that a step of a level depends on earlier levels only, or is on the last one with a dependency that is there too or nowhere (`Levels`) |
| `StoreStaysCurrent` | `StoreIsCurrent` | `StoreInv`: what a run put last; evictions and returns change nothing else. That a failed plan is one without a completed step, and the other way round, needs that the steps of every level are decided at the end (`LevelInv`) |
| `PlansSettle` | `PlanSettles` | `SettleInv`: the one call on a plan has a settled copy of what is stored, and its step's dependencies are completed in it |
| `StoreIsQueue` | `QueueWhileAlone` | `QueueInv`: without overlaps the store and the order have the same plans, each once, and whoever works has its plan among them, so `store_plan` pops one at most |
| `GraphAnalysesProofs` | | |
| `CyclesCorrect` | `CyclesAreComponents` | `TarjanInv`, see below |
| `CircularCorrect` | `CircularFound` | `DetectInv`: the calls in progress are a path; as long as no cycle of a component is found, its finished files are in an order without cycles (each set of them has a member that leads to no other), so a component that is finished without one is a single file |
| `SearchCorrect` | `NearestFirst` | `SearchInv`: the queue holds one distance and then the next, what was seen is exactly `Within` up to it, and the parents lead back to a seed along shortest paths. `WithinValues` and `NearValues` give the recursive definition its values |
| `LouvainCorrect` | `ModularityGrows` | `LouvainInv`: the sums kept by hand are the sums of degrees. `MoveGains`: a move changes the modularity by twice the gain it was decided by, and an edge from the node to itself only adds to that |

The inductive invariants were checked by TLC on the runs' instances before they
were proved.

Tarjan's algorithm. The textbook argument rests on a node being entered once and
numbered in the order of the stack. Neither holds of `find_cycles`: a node that
several relationships scheduled is entered again, before or after it was popped,
with a new index, and is on the stack twice. `TarjanInv` therefore speaks of the
open nodes, those still to be resumed, which have only one index while they are
open. What is on the stack is led to by the open nodes before it (`ForthInv`)
and leads back to one (`BackInv`); the stack above the topmost open `x` is what
was entered after `x` (`StackInv`); a lowlink below an open node is a way to an
open node before it (`LowInv`). Conversely, an edge from what was entered since
`y` to below an open `x` must not be lost although lowlinks are overwritten when
a node is entered again: `SegmentInv` says that a neighbor of `y` knows it, or
will in the next step (`LowBelow`), and `AgainInv` that a node entered again gets
its lowlink back from its neighbors. From these, what is popped with `v` has no
edge to what stays (`ResumeKeeps`), so it is the component of `v`, or `v` alone
if that was popped before (`PopComponents`). A second place on the stack is why
`CycleNodesOnce` fails; the proof shows that nothing worse comes of it.

Recursive functions. What the rounds of the level computation yield (`Resolved`)
is proved without an induction rule: a set of numbers that is not empty has a
least member (`Least`), so a property that fails somewhere fails first
somewhere, and the recursive equation itself follows the same way from
approximations that agree (`ResolvedEquation`). So it is for the rounds of the
pruning (`PrunedEquation`); of the folders above a path, `Above`, there is a
solution because the least sets closed under `Parent` are one, and for the
breadth-first `Within` and the folds that `Modularity` adds up with, the
solution is put together from finite approximations (`Iteration`, `SumsExist`).
Nothing is assumed about the
dependencies of a plan; they may be cyclic or name steps that do not exist.

The assumptions are those named in the modules (`StoreAssumption`,
`RegistryAssumption`, `GraphAssumption`, `EnrichmentAssumption`,
`PlanAssumption` and so on): finite sets where they are needed, bounds that are
numbers, and special values that are no members (`NoPlanAssumption` and the
like). The bounds on edits, faults, attempts, deaths and commands are arbitrary.

Model-checked only: liveness (`EventLeadsToFresh`, `EveryoneEnds`,
`EveryCommandEnds`), for the prover handles neither fairness nor ENABLED; and
the properties of the violation runs, which are false.

## 5. Not modelled

- Language providers, queries, search, git analytics, rendering, and of the
  resolution of imports, calls and inheritance the rules of the languages:
  algorithms over text or over a finished graph whose result has no definition
  but themselves. They share no state, and make up most
  of the repository's lines. Checking them against a second description of the
  same string rules would show that the two were written by the same hand.
- `watch` and `analyze`, or two watches, at the same time on one repository:
  nothing keeps them apart and nothing is promised.
- The second read of documents inside an update, and events for documents. An
  edit between the two reads (`incremental.rs:258`) is claimed as indexed, as
  between the walks of an analysis.
- Edits between the load of a snapshot and the registration of the watcher have
  no event of their own; `EventLeadsToFresh` shows that the next event brings
  them in.
- A snapshot replaced by one of the same length within the resolution of the
  modification time (`local.rs:170`), and a program replaced by one of the same
  length and time: the fingerprints do not tell them apart, the models' do.
- Requests over REST, and resources, use the registry mirror as it is; that they
  see a stale one is in `LocalBackend`, and no property denies it.
- Tools of the chat look at the pinned graph or at the current snapshot,
  depending on the tool; only which graph an answer has is modelled.
- The desktop's bookmarks, comments, saved views, notebooks, dashboards and the
  like: one JSON file each, read, changed and written back without a lock.
- The database pool: retries around an optional database; its only user is
  called under a mutex. Account tokens: what a second use of a refresh token is
  answered is up to the account service.
- `topological_level_sort` (`pipeline.rs:586-661`), which nothing but its tests
  calls.
- Serialization, compression, permissions and the durability of a rename.

## 6. Plan

The modelling is complete in the sense of section 5: what is left are text
algorithms and stores without a protocol. Every safety property of a passing
run is proved. What remains for the prover is out of its reach: the three
liveness properties, whose safety parts (what a process waits for, and that it
is not the one that holds it) are in the invariants proved here.
