------------------------ MODULE AnalysisCachesProofs ------------------------
(***************************************************************************)
(* Proofs about AnalysisCaches, for any files, contents, versions of the   *)
(* program and numbers of runs, edits and analyses: an incremental         *)
(* analysis builds the graph of a full one, and after a run that left both *)
(* caches it does no more than it has to.                                  *)
(*                                                                         *)
(* The first rests on this: every entry of a cache is what the version of  *)
(* the program that the cache names makes of what the entry is kept under, *)
(* whichever runs have written it.                                         *)
(***************************************************************************)
EXTENDS AnalysisCaches, TLAPS

Steps  == {"parse", "saveParses", "enrich", "saveEnrichment", "publish"}
Fields == {"exe", "incremental", "files", "base", "clean", "parsed", "scanned", "cache"}

RunsInv ==
  /\ DOMAIN pc = Runs /\ DOMAIN run = Runs /\ DOMAIN graph = Runs
  /\ \A p \in Runs : pc[p] \in Steps \union {"off"}
  /\ \A p \in Runs : pc[p] # "off" => DOMAIN run[p] = Fields

-----------------------------------------------------------------------------
(* What a step of one run leaves of the others. *)

(* The run goes on with what it has; at most it is no longer alone. *)
Undisturbed(q) ==
  /\ DOMAIN run'[q] = Fields
  /\ run'[q].exe = run[q].exe
  /\ run'[q].incremental = run[q].incremental
  /\ run'[q].files = run[q].files
  /\ run'[q].base = run[q].base
  /\ run'[q].parsed = run[q].parsed
  /\ run'[q].scanned = run[q].scanned
  /\ run'[q].cache = run[q].cache
  /\ run'[q].clean => run[q].clean
  /\ pc'[q] = pc[q]
  /\ graph'[q] = graph[q]

LEMMA NotCleanAnyMore ==
  ASSUME NEW r, DOMAIN r = Fields
  PROVE  LET n == [r EXCEPT !.clean = FALSE] IN
           /\ DOMAIN n = Fields
           /\ n.exe = r.exe /\ n.incremental = r.incremental /\ n.files = r.files
           /\ n.base = r.base /\ n.parsed = r.parsed /\ n.scanned = r.scanned
           /\ n.cache = r.cache
           /\ ~n.clean
BY DEF Fields

(* Edits, upgrades and lost caches do not stop a run. *)
LEMMA DisturbedRun ==
  ASSUME RunsInv, NEW q \in Runs, pc[q] # "off",
         \/ \E f \in Files, c \in Contents \union {Absent} : Edit(f, c)
         \/ \E x \in Executables : Upgrade(x)
         \/ LoseCache
         \/ UNCHANGED vars
  PROVE  Undisturbed(q)
<1>1. UNCHANGED <<pc, graph>>
  BY DEF Edit, Upgrade, LoseCache, Disturb, vars
<1>2. CASE UNCHANGED run
  BY <1>1, <1>2 DEF Undisturbed, RunsInv
<1>3. CASE LoseCache
  <2>1. run'[q] = [run[q] EXCEPT !.clean = FALSE]
    BY <1>3 DEF LoseCache
  <2>. QED  BY <1>1, <2>1, NotCleanAnyMore DEF Undisturbed, RunsInv
<1>. QED  BY <1>2, <1>3 DEF Edit, Upgrade, vars

LEMMA OtherRuns ==
  ASSUME RunsInv, NEW p \in Runs, AnalysisStep(p), NEW q \in Runs \ {p}, pc[q] # "off"
  PROVE  Undisturbed(q)
<1>1. CASE \E incremental \in BOOLEAN : Start(p, incremental)
  <2>1. run'[q] = [run[q] EXCEPT !.clean = FALSE]
    BY <1>1 DEF Start
  <2>2. pc'[q] = pc[q] /\ graph'[q] = graph[q]
    BY <1>1 DEF Start, RunsInv
  <2>. QED  BY <2>1, <2>2, NotCleanAnyMore DEF Undisturbed, RunsInv
<1>2. ASSUME pc'[q] = pc[q], graph'[q] = graph[q], run'[q] = run[q]
      PROVE  Undisturbed(q)
  BY <1>2 DEF Undisturbed, RunsInv
<1>3. CASE ParseFiles(p)
  BY <1>2, <1>3 DEF ParseFiles, RunsInv
<1>4. CASE ParseOversized(p)
  BY <1>2, <1>4 DEF ParseOversized, RunsInv
<1>5. CASE SaveParses(p)
  BY <1>2, <1>5 DEF SaveParses, Saved, NotSaved, RunsInv
<1>6. CASE Enrich(p)
  BY <1>2, <1>6 DEF Enrich, RunsInv
<1>7. CASE SaveEnrichment(p)
  BY <1>2, <1>7 DEF SaveEnrichment, Saved, NotSaved, RunsInv
<1>8. CASE Publish(p) \/ Die(p)
  BY <1>2, <1>8 DEF Publish, Die, Leave, RunsInv
<1>. QED
  BY <1>1, <1>3, <1>4, <1>5, <1>6, <1>7, <1>8 DEF AnalysisStep

-----------------------------------------------------------------------------
(* What a run's own steps do to what it has in hand. *)

(* The version, the files and the kind of a run never change. *)
SameRun(p) ==
  /\ DOMAIN run'[p] = Fields
  /\ run'[p].exe = run[p].exe
  /\ run'[p].incremental = run[p].incremental
  /\ run'[p].files = run[p].files
  /\ run'[p].base = run[p].base

LEMMA StartShape ==
  ASSUME RunsInv, NEW p \in Runs, NEW incremental \in BOOLEAN, Start(p, incremental)
  PROVE  /\ pc[p] = "off" /\ pc'[p] = "parse"
         /\ DOMAIN run'[p] = Fields
         /\ run'[p].base = last
         /\ run'[p].clean => Alone(p)
         /\ last' = Absent
         /\ UNCHANGED <<parse_cache, local_enrichment>>
<1>1. run'[p] = [exe |-> installed, incremental |-> incremental, files |-> tree,
                 base |-> last, clean |-> Alone(p),
                 parsed |-> {}, scanned |-> {}, cache |-> Absent]
  BY DEF Start
<1>2. run'[p].base = last /\ run'[p].clean = Alone(p)
  BY <1>1
<1>3. DOMAIN run'[p] = Fields
  BY <1>1 DEF Fields
<1>4. pc[p] = "off" /\ pc'[p] = "parse"
  BY DEF Start, RunsInv
<1>. QED  BY <1>2, <1>3, <1>4 DEF Start, diskVars

(* The files that are in the cache as they are now, and all parses. *)
CachedParses(p) == IF Usable(parse_cache, p) THEN parse_cache.files ELSE NoEntries

ReusedParses(p) ==
  {f \in Present(run[p].files) \intersect DOMAIN CachedParses(p) :
     CachedParses(p)[f].hash = run[p].files[f]}

AllParses(p) ==
  [f \in Files |-> IF f \in ReusedParses(p) THEN CachedParses(p)[f].parsed
                   ELSE IF run[p].files[f] = Absent THEN Absent
                   ELSE Parse(run[p].exe, run[p].files[f])]

LEMMA ParseShape ==
  ASSUME RunsInv, NEW p \in Runs, ParseFiles(p)
  PROVE  /\ pc[p] = "parse" /\ pc'[p] = "saveParses"
         /\ SameRun(p)
         /\ run'[p].clean = run[p].clean
         /\ graph'[p] = AllParses(p)
         /\ run'[p].parsed = Present(run[p].files) \ ReusedParses(p)
         /\ run'[p].cache = [executable |-> executable(p),
                             files |-> [f \in Present(run[p].files) |->
                                [hash |-> run[p].files[f], parsed |-> AllParses(p)[f]]]]
         /\ UNCHANGED <<parse_cache, local_enrichment, last>>
<1>. DEFINE Cache == [executable |-> executable(p),
                      files |-> [f \in Present(run[p].files) |->
                                   [hash |-> run[p].files[f], parsed |-> AllParses(p)[f]]]]
            Fresh == Present(run[p].files) \ ReusedParses(p)
<1>1. /\ pc[p] = "parse"
      /\ graph' = [graph EXCEPT ![p] = AllParses(p)]
      /\ run' = [run EXCEPT ![p].parsed = Fresh, ![p].cache = Cache]
      /\ pc' = [pc EXCEPT ![p] = "saveParses"]
      /\ UNCHANGED <<parse_cache, local_enrichment, last>>
  BY DEF ParseFiles, CachedParses, ReusedParses, AllParses, diskVars
<1>. HIDE DEF Cache, Fresh
<1>2. DOMAIN run[p] = Fields
  BY <1>1 DEF RunsInv
<1>3. SameRun(p) /\ run'[p].clean = run[p].clean /\ run'[p].parsed = Fresh /\ run'[p].cache = Cache
  BY <1>1, <1>2 DEF RunsInv, SameRun, Fields
<1>4. pc'[p] = "saveParses" /\ graph'[p] = AllParses(p)
  BY <1>1 DEF RunsInv
<1>. QED  BY <1>1, <1>3, <1>4 DEF Cache, Fresh

LEMMA OversizedShape ==
  ASSUME RunsInv, NEW p \in Runs, ParseOversized(p)
  PROVE  /\ pc[p] = "parse" /\ pc'[p] = "enrich"
         /\ SameRun(p)
         /\ ~run'[p].clean
         /\ graph'[p] = [f \in Files |-> IF run[p].files[f] = Absent THEN Absent
                                         ELSE Parse(run[p].exe, run[p].files[f])]
         /\ parse_cache' = EmptyParses
         /\ UNCHANGED <<local_enrichment, last>>
BY DEF ParseOversized, RunsInv, SameRun, Fields

(* Saved or not, the cache leaves the run's hands; a run that could not    *)
(* save it, or not for a version of the program, is not clean.             *)
LEMMA SaveShape ==
  ASSUME RunsInv, NEW p \in Runs, pc[p] # "off", run' = Saved(p) \/ run' = NotSaved(p)
  PROVE  /\ SameRun(p)
         /\ run'[p].parsed = run[p].parsed /\ run'[p].scanned = run[p].scanned
         /\ run'[p].clean => run[p].clean /\ run' = Saved(p) /\ run[p].cache.executable # Absent
<1>1. DOMAIN run[p] = Fields
  BY DEF RunsInv
<1>2. CASE run' = Saved(p)
  BY <1>1, <1>2 DEF Saved, RunsInv, SameRun, Fields
<1>3. CASE run' = NotSaved(p)
  BY <1>1, <1>3 DEF NotSaved, RunsInv, SameRun, Fields
<1>. QED  BY <1>2, <1>3

(* What Enrich computes on its way. *)
Old(p)      == IF Usable(local_enrichment, p) THEN local_enrichment ELSE EmptyEnrichment
Changed(p)  == {f \in Files : run[p].files[f] # Old(p).hashes[f]}
Affected(p) == Changed(p) \union Around(Old(p).neighbors, Changed(p))
                          \union Around(neighbors(run[p].files), Changed(p))
Seen(p)     == [f \in Present(run[p].files) |-> LocalNodes(run[p].files, graph[p], f, Absent)]
Todos(p)    == Artifacts(run[p].exe, run[p].files, "todos", Old(p).todos, Affected(p), Seen(p))
SeenNext(p) == [f \in Present(run[p].files) |->
                  LocalNodes(run[p].files, graph[p], f, Todos(p)[f].found)]
Api(p)      == Artifacts(run[p].exe, run[p].files, "api_surface", Old(p).api_surface,
                         Affected(p), SeenNext(p))

LEMMA EnrichShape ==
  ASSUME RunsInv, NEW p \in Runs, Enrich(p)
  PROVE  /\ pc[p] = "enrich" /\ pc'[p] = "saveEnrichment"
         /\ SameRun(p)
         /\ run'[p].clean = run[p].clean
         /\ graph'[p] = GraphOf(run[p].files, graph[p], Finds(Todos(p)), Finds(Api(p)))
         /\ run'[p].parsed = run[p].parsed
         /\ run'[p].scanned = Present(run[p].files) \
              (Reused(run[p].files, Old(p).todos, Affected(p), Seen(p)) \intersect
               Reused(run[p].files, Old(p).api_surface, Affected(p), SeenNext(p)))
         /\ run'[p].cache = [executable |-> executable(p), hashes |-> run[p].files,
                             neighbors |-> neighbors(run[p].files),
                             todos |-> Todos(p), api_surface |-> Api(p)]
         /\ UNCHANGED <<parse_cache, local_enrichment, last>>
<1>. DEFINE Scanned == Present(run[p].files) \
              (Reused(run[p].files, Old(p).todos, Affected(p), Seen(p)) \intersect
               Reused(run[p].files, Old(p).api_surface, Affected(p), SeenNext(p)))
            Cache == [executable |-> executable(p), hashes |-> run[p].files,
                      neighbors |-> neighbors(run[p].files),
                      todos |-> Todos(p), api_surface |-> Api(p)]
            Graph == GraphOf(run[p].files, graph[p], Finds(Todos(p)), Finds(Api(p)))
<1>1. /\ pc[p] = "enrich"
      /\ graph' = [graph EXCEPT ![p] = Graph]
      /\ run' = [run EXCEPT ![p].scanned = Scanned, ![p].cache = Cache]
      /\ pc' = [pc EXCEPT ![p] = "saveEnrichment"]
      /\ UNCHANGED <<parse_cache, local_enrichment, last>>
  BY DEF Enrich, Old, Changed, Affected, Seen, Todos, SeenNext, Api, diskVars
<1>. HIDE DEF Scanned, Cache, Graph
<1>2. DOMAIN run[p] = Fields
  BY <1>1 DEF RunsInv
<1>3. /\ SameRun(p) /\ run'[p].clean = run[p].clean /\ run'[p].parsed = run[p].parsed
      /\ run'[p].scanned = Scanned /\ run'[p].cache = Cache
  BY <1>1, <1>2 DEF RunsInv, SameRun, Fields
<1>4. pc'[p] = "saveEnrichment" /\ graph'[p] = Graph
  BY <1>1 DEF RunsInv
<1>. QED  BY <1>1, <1>3, <1>4 DEF Scanned, Cache, Graph

(* Every step keeps the domains. *)
LEMMA RunsStep ==
  ASSUME RunsInv, [Next]_vars
  PROVE  RunsInv'
<1>1. DOMAIN pc' = Runs /\ DOMAIN run' = Runs /\ DOMAIN graph' = Runs
  <2>1. ASSUME NEW p \in Runs, AnalysisStep(p)
        PROVE  DOMAIN pc' = Runs /\ DOMAIN run' = Runs /\ DOMAIN graph' = Runs
    BY <2>1 DEF RunsInv, AnalysisStep, Start, ParseFiles, ParseOversized, SaveParses, Enrich,
                SaveEnrichment, Saved, NotSaved, Publish, Die, Leave
  <2>. QED  BY <2>1 DEF RunsInv, Next, Edit, Upgrade, LoseCache, Disturb, vars
<1>2. ASSUME NEW q \in Runs
      PROVE  pc'[q] \in Steps \union {"off"} /\ (pc'[q] # "off" => DOMAIN run'[q] = Fields)
  <2>1. CASE \/ \E f \in Files, c \in Contents \union {Absent} : Edit(f, c)
             \/ \E x \in Executables : Upgrade(x)
             \/ LoseCache
             \/ UNCHANGED vars
    <3>1. pc' = pc
      BY <2>1 DEF Edit, Upgrade, LoseCache, Disturb, vars
    <3>. QED  BY <2>1, <3>1, DisturbedRun DEF RunsInv, Undisturbed
  <2>2. ASSUME NEW p \in Runs, AnalysisStep(p), p # q
        PROVE  pc'[q] \in Steps \union {"off"} /\ (pc'[q] # "off" => DOMAIN run'[q] = Fields)
    <3>1. pc'[q] = pc[q]
      BY <2>2 DEF RunsInv, AnalysisStep, Start, ParseFiles, ParseOversized, SaveParses, Enrich,
                  SaveEnrichment, Publish, Die, Leave
    <3>. QED  BY <2>2, <3>1, OtherRuns DEF RunsInv, Undisturbed
  <2>3. CASE AnalysisStep(q)
    <3>1. CASE SaveParses(q) \/ SaveEnrichment(q)
      <4>1. pc[q] # "off" /\ pc'[q] \in Steps /\ (run' = Saved(q) \/ run' = NotSaved(q))
        BY <3>1 DEF SaveParses, SaveEnrichment, RunsInv, Steps
      <4>. QED  BY <4>1, SaveShape DEF SameRun
    <3>2. CASE Publish(q) \/ Die(q)
      BY <3>2 DEF Publish, Die, Leave, RunsInv
    <3>3. CASE ParseFiles(q) \/ ParseOversized(q)
      BY <3>3, ParseShape, OversizedShape DEF SameRun, Steps
    <3>4. CASE Enrich(q)
      BY <3>4, EnrichShape DEF SameRun, Steps
    <3>5. CASE \E incremental \in BOOLEAN : Start(q, incremental)
      BY <3>5, StartShape DEF Steps
    <3>. QED  BY <2>3, <3>1, <3>2, <3>3, <3>4, <3>5 DEF AnalysisStep
  <2>. QED  BY <2>1, <2>2, <2>3 DEF Next
<1>. QED  BY <1>1, <1>2 DEF RunsInv

-----------------------------------------------------------------------------
(* An incremental analysis builds the graph of a full one. *)

(* A kept parse is what the cache's version of the program makes of the    *)
(* content it is kept for.                                                 *)
SoundParses(cache) ==
  cache.executable # Absent =>
    \A f \in DOMAIN cache.files :
      cache.files[f].parsed = Parse(cache.executable, cache.files[f].hash)

SoundFindings(x, phase, artifacts) ==
  \A f \in DOMAIN artifacts :
    artifacts[f].found = Found(x, phase, artifacts[f].input[1], artifacts[f].input[2])

(* Kept findings are what its scanners find in what they saw. *)
SoundEnrichment(cache) ==
  cache.executable # Absent =>
    /\ SoundFindings(cache.executable, "todos", cache.todos)
    /\ SoundFindings(cache.executable, "api_surface", cache.api_surface)

FullParses(x, t) == [f \in Files |-> IF t[f] = Absent THEN Absent ELSE Parse(x, t[f])]

(* Whatever a run has built so far is what a full analysis builds. *)
BuildInv(p) ==
  /\ pc[p] = "saveParses" => SoundParses(run[p].cache)
  /\ pc[p] \in {"saveParses", "enrich"} => graph[p] = FullParses(run[p].exe, run[p].files)
  /\ pc[p] = "saveEnrichment" => SoundEnrichment(run[p].cache)
  /\ pc[p] \in {"saveEnrichment", "publish"} => graph[p] = FullGraph(run[p].exe, run[p].files)

SoundInv ==
  /\ SoundParses(parse_cache)
  /\ SoundEnrichment(local_enrichment)
  /\ \A p \in Runs : BuildInv(p)

LEMMA EmptyIsSound == SoundParses(EmptyParses) /\ SoundEnrichment(EmptyEnrichment)
BY DEF SoundParses, SoundEnrichment, EmptyParses, EmptyEnrichment

(* A cache is used by the version of the program that wrote it. *)
LEMMA UsedByItsWriter ==
  ASSUME NEW p, NEW cache, Usable(cache, p)
  PROVE  cache.executable # Absent /\ cache.executable = run[p].exe
BY DEF Usable, executable

LEMMA ParsesAreFull ==
  ASSUME NEW p, SoundParses(parse_cache)
  PROVE  AllParses(p) = FullParses(run[p].exe, run[p].files)
<1>1. ASSUME NEW f \in ReusedParses(p)
      PROVE  CachedParses(p)[f].parsed = Parse(run[p].exe, run[p].files[f]) /\ run[p].files[f] # Absent
  <2>1. Usable(parse_cache, p)
    BY DEF ReusedParses, CachedParses, NoEntries
  <2>. QED
    BY <2>1, UsedByItsWriter DEF ReusedParses, CachedParses, SoundParses, Present
<1>. QED  BY <1>1 DEF AllParses, FullParses

(* What is used again is what the scanner would find. *)
LEMMA FindingsAreFull ==
  ASSUME NEW x, NEW t, NEW phase, NEW old, NEW affected, NEW local, SoundFindings(x, phase, old)
  PROVE  \A f \in Present(t) :
           /\ Artifacts(x, t, phase, old, affected, local)[f].found = Found(x, phase, t[f], local[f])
           /\ Artifacts(x, t, phase, old, affected, local)[f].input = <<t[f], local[f]>>
<1>. TAKE f \in Present(t)
<1>1. CASE f \in Reused(t, old, affected, local)
  <2>1. f \in DOMAIN old /\ old[f].input = <<t[f], local[f]>>
    BY <1>1 DEF Reused
  <2>2. old[f].found = Found(x, phase, t[f], local[f])
    BY <2>1 DEF SoundFindings
  <2>. QED  BY <1>1, <2>1, <2>2 DEF Artifacts
<1>2. CASE f \notin Reused(t, old, affected, local)
  BY <1>2 DEF Artifacts
<1>. QED  BY <1>1, <1>2

LEMMA ArtifactsAreSound ==
  ASSUME NEW x, NEW t, NEW phase, NEW old, NEW affected, NEW local, SoundFindings(x, phase, old)
  PROVE  SoundFindings(x, phase, Artifacts(x, t, phase, old, affected, local))
<1>1. DOMAIN Artifacts(x, t, phase, old, affected, local) = Present(t)
  BY DEF Artifacts
<1>. QED  BY <1>1, FindingsAreFull DEF SoundFindings

(* With sound caches, Enrich builds the full graph and a sound cache. *)
LEMMA EnrichIsFull ==
  ASSUME NEW p, SoundEnrichment(local_enrichment),
         graph[p] = FullParses(run[p].exe, run[p].files)
  PROVE  /\ GraphOf(run[p].files, graph[p], Finds(Todos(p)), Finds(Api(p)))
              = FullGraph(run[p].exe, run[p].files)
         /\ SoundFindings(run[p].exe, "todos", Todos(p))
         /\ SoundFindings(run[p].exe, "api_surface", Api(p))
<1>. DEFINE x == run[p].exe
            t == run[p].files
            parsed == FullParses(x, t)
            todos == [f \in Files |-> IF t[f] = Absent THEN Absent
                       ELSE Found(x, "todos", t[f], LocalNodes(t, parsed, f, Absent))]
            api == [f \in Files |-> IF t[f] = Absent THEN Absent
                     ELSE Found(x, "api_surface", t[f], LocalNodes(t, parsed, f, todos[f]))]
<1>1. SoundFindings(x, "todos", Old(p).todos) /\ SoundFindings(x, "api_surface", Old(p).api_surface)
  <2>1. CASE Usable(local_enrichment, p)
    BY <2>1, UsedByItsWriter DEF Old, SoundEnrichment
  <2>2. CASE ~Usable(local_enrichment, p)
    BY <2>2 DEF Old, EmptyEnrichment, NoEntries, SoundFindings
  <2>. QED  BY <2>1, <2>2
<1>2. \A f \in Present(t) : Todos(p)[f].found = todos[f]
  BY <1>1, FindingsAreFull DEF Todos, Seen, Present
<1>3. \A f \in Present(t) : Api(p)[f].found = api[f]
  <2>1. \A f \in Present(t) : SeenNext(p)[f] = LocalNodes(t, parsed, f, todos[f])
    BY <1>2 DEF SeenNext
  <2>2. \A f \in Present(t) : Api(p)[f].found = Found(x, "api_surface", t[f], SeenNext(p)[f])
    BY <1>1, FindingsAreFull DEF Api
  <2>. QED  BY <2>1, <2>2 DEF Present
<1>4. DOMAIN Todos(p) = Present(t) /\ DOMAIN Api(p) = Present(t)
  BY DEF Todos, Api, Artifacts
<1>5. Finds(Todos(p)) = todos
  BY <1>2, <1>4 DEF Finds, Present
<1>6. Finds(Api(p)) = api
  BY <1>3, <1>4 DEF Finds, Present
<1>7. GraphOf(t, graph[p], Finds(Todos(p)), Finds(Api(p))) = FullGraph(x, t)
  BY <1>5, <1>6 DEF FullGraph, FullParses
<1>8. SoundFindings(x, "todos", Todos(p)) /\ SoundFindings(x, "api_surface", Api(p))
  BY <1>1, ArtifactsAreSound DEF Todos, Api
<1>. QED  BY <1>7, <1>8

(* A run that is not disturbed keeps what it has built. *)
LEMMA BuildKept ==
  ASSUME NEW q, BuildInv(q), Undisturbed(q)
  PROVE  BuildInv(q)'
<1>1. /\ pc'[q] = pc[q] /\ graph'[q] = graph[q]
      /\ run'[q].exe = run[q].exe /\ run'[q].files = run[q].files /\ run'[q].cache = run[q].cache
  BY DEF Undisturbed
<1>. QED  BY <1>1 DEF BuildInv, SoundParses, SoundEnrichment

(* A run's own steps build on sound caches, and what it saves is sound. *)
LEMMA OwnBuild ==
  ASSUME RunsInv, SoundInv, NEW p \in Runs, AnalysisStep(p)
  PROVE  SoundParses(parse_cache)' /\ SoundEnrichment(local_enrichment)' /\ BuildInv(p)'
<1>0. BuildInv(p) /\ SoundParses(parse_cache) /\ SoundEnrichment(local_enrichment)
  BY DEF SoundInv
<1>1. ASSUME NEW incremental \in BOOLEAN, Start(p, incremental)
      PROVE  SoundParses(parse_cache)' /\ SoundEnrichment(local_enrichment)' /\ BuildInv(p)'
  BY <1>0, <1>1, StartShape DEF SoundParses, SoundEnrichment, BuildInv
<1>2. CASE ParseFiles(p)
  <2>1. AllParses(p) = FullParses(run[p].exe, run[p].files)
    BY <1>0, ParsesAreFull
  <2>2. SoundParses(run'[p].cache)
    <3>1. executable(p) # Absent => executable(p) = run[p].exe
      BY DEF executable
    <3>2. \A f \in Present(run[p].files) : AllParses(p)[f] = Parse(run[p].exe, run[p].files[f])
      BY <2>1 DEF FullParses, Present
    <3>. DEFINE Entries == [f \in Present(run[p].files) |->
                              [hash |-> run[p].files[f], parsed |-> AllParses(p)[f]]]
    <3>3. SoundParses([executable |-> executable(p), files |-> Entries])
      BY <3>1, <3>2 DEF SoundParses
    <3>4. run'[p].cache = [executable |-> executable(p), files |-> Entries]
      BY <1>2, ParseShape
    <3>. QED  BY <3>3, <3>4
  <2>3. /\ SameRun(p) /\ pc'[p] = "saveParses" /\ graph'[p] = AllParses(p)
        /\ UNCHANGED <<parse_cache, local_enrichment>>
    BY <1>2, ParseShape
  <2>4. SoundParses(parse_cache)' /\ SoundEnrichment(local_enrichment)'
    BY <1>0, <2>3 DEF SoundParses, SoundEnrichment
  <2>5. BuildInv(p)'
    BY <2>1, <2>2, <2>3 DEF SameRun, BuildInv, SoundParses
  <2>. QED  BY <2>4, <2>5
<1>3. CASE ParseOversized(p)
  BY <1>0, <1>3, OversizedShape, EmptyIsSound DEF SameRun, SoundParses, SoundEnrichment, BuildInv, FullParses
<1>4. CASE SaveParses(p)
  <2>1. /\ pc[p] = "saveParses" /\ pc'[p] = "enrich" /\ graph'[p] = graph[p] /\ SameRun(p)
        /\ parse_cache' \in {parse_cache, run[p].cache} /\ local_enrichment' = local_enrichment
    BY <1>4, SaveShape DEF SaveParses, RunsInv
  <2>. QED  BY <1>0, <2>1 DEF SameRun, SoundParses, SoundEnrichment, BuildInv
<1>5. CASE Enrich(p)
  <2>1. executable(p) # Absent => executable(p) = run[p].exe
    BY DEF executable
  <2>2. /\ graph'[p] = FullGraph(run[p].exe, run[p].files)
        /\ SoundEnrichment(run'[p].cache)
    <3>1. graph[p] = FullParses(run[p].exe, run[p].files)
      BY <1>0, <1>5, EnrichShape DEF BuildInv
    <3>. DEFINE Cache == [executable |-> executable(p), hashes |-> run[p].files,
                          neighbors |-> neighbors(run[p].files),
                          todos |-> Todos(p), api_surface |-> Api(p)]
    <3>2. SoundEnrichment(Cache)
      BY <1>0, <2>1, <3>1, EnrichIsFull DEF SoundEnrichment
    <3>3. run'[p].cache = Cache
      BY <1>5, EnrichShape
    <3>. HIDE DEF Cache
    <3>. QED  BY <1>0, <1>5, <3>1, <3>2, <3>3, EnrichShape, EnrichIsFull
  <2>3. /\ SameRun(p) /\ pc'[p] = "saveEnrichment"
        /\ UNCHANGED <<parse_cache, local_enrichment>>
    BY <1>5, EnrichShape
  <2>4. SoundParses(parse_cache)' /\ SoundEnrichment(local_enrichment)'
    BY <1>0, <2>3 DEF SoundParses, SoundEnrichment
  <2>5. BuildInv(p)'
    BY <2>2, <2>3 DEF SameRun, BuildInv, SoundEnrichment
  <2>. QED  BY <2>4, <2>5
<1>6. CASE SaveEnrichment(p)
  <2>1. /\ pc[p] = "saveEnrichment" /\ pc'[p] = "publish" /\ graph'[p] = graph[p] /\ SameRun(p)
        /\ local_enrichment' \in {local_enrichment, run[p].cache} /\ parse_cache' = parse_cache
    BY <1>6, SaveShape DEF SaveEnrichment, RunsInv
  <2>. QED  BY <1>0, <2>1 DEF SameRun, SoundParses, SoundEnrichment, BuildInv
<1>7. CASE Publish(p) \/ Die(p)
  <2>1. pc'[p] = "off" /\ UNCHANGED <<parse_cache, local_enrichment>>
    BY <1>7 DEF Publish, Die, Leave, RunsInv, diskVars
  <2>. QED  BY <1>0, <2>1 DEF SoundParses, SoundEnrichment, BuildInv
<1>. QED
  BY <1>1, <1>2, <1>3, <1>4, <1>5, <1>6, <1>7 DEF AnalysisStep

LEMMA SoundStep ==
  ASSUME RunsInv, SoundInv, [Next]_vars
  PROVE  SoundInv'
<1>0. \A q \in Runs : BuildInv(q)
  BY DEF SoundInv
<1>1. CASE \/ \E f \in Files, c \in Contents \union {Absent} : Edit(f, c)
           \/ \E x \in Executables : Upgrade(x)
           \/ LoseCache
           \/ UNCHANGED vars
  <2>1. /\ parse_cache' \in {parse_cache, EmptyParses}
        /\ local_enrichment' \in {local_enrichment, EmptyEnrichment}
    BY <1>1 DEF Edit, Upgrade, LoseCache, vars, diskVars
  <2>2. SoundParses(parse_cache)' /\ SoundEnrichment(local_enrichment)'
    BY <2>1, EmptyIsSound DEF SoundInv, SoundParses, SoundEnrichment
  <2>3. ASSUME NEW q \in Runs
        PROVE  BuildInv(q)'
    <3>1. CASE pc[q] = "off"
      BY <1>1, <3>1 DEF Edit, Upgrade, LoseCache, Disturb, vars, BuildInv
    <3>2. CASE pc[q] # "off"
      BY <1>0, <1>1, <3>2, DisturbedRun, BuildKept
    <3>. QED  BY <3>1, <3>2
  <2>. QED  BY <2>2, <2>3 DEF SoundInv
<1>2. ASSUME NEW p \in Runs, AnalysisStep(p)
      PROVE  SoundInv'
  <2>1. ASSUME NEW q \in Runs \ {p}
        PROVE  BuildInv(q)'
    <3>1. CASE pc[q] = "off"
      <4>1. pc'[q] = "off"
        BY <1>2, <3>1 DEF RunsInv, AnalysisStep, Start, ParseFiles, ParseOversized, SaveParses,
                          Enrich, SaveEnrichment, Publish, Die, Leave
      <4>. QED  BY <4>1 DEF BuildInv
    <3>2. CASE pc[q] # "off"
      BY <1>0, <1>2, <3>2, OtherRuns, BuildKept
    <3>. QED  BY <3>1, <3>2
  <2>. QED  BY <1>2, <2>1, OwnBuild DEF SoundInv
<1>. QED  BY <1>1, <1>2 DEF Next

LEMMA InitRuns == Init => RunsInv /\ SoundInv
BY EmptyIsSound DEF Init, RunsInv, SoundInv, BuildInv

(* An incremental analysis builds the graph of a full one of its files,    *)
(* from whatever runs the entries of its caches are.                       *)
THEOREM IncrementalAsFull == Spec => []SameGraphAsFull
<1>1. RunsInv /\ SoundInv /\ [Next]_vars => (RunsInv /\ SoundInv)'
  BY RunsStep, SoundStep
<1>2. SoundInv => SameGraphAsFull
  BY DEF SoundInv, BuildInv, SameGraphAsFull
<1>. QED  BY <1>1, <1>2, InitRuns, PTL DEF Spec

-----------------------------------------------------------------------------
(* After a run that left both caches only the changes are done. *)

FullSeen(x, t)     == [f \in Present(t) |-> LocalNodes(t, FullParses(x, t), f, Absent)]
FullSeenNext(x, t) ==
  [f \in Present(t) |-> LocalNodes(t, FullParses(x, t), f,
                                   Found(x, "todos", t[f], FullSeen(x, t)[f]))]

(* The cache that a run of version x over the files t leaves. *)
ParsesOf(cache, x, t) ==
  /\ cache.executable = x
  /\ DOMAIN cache.files = Present(t)
  /\ \A f \in Present(t) : cache.files[f].hash = t[f]

EnrichmentOf(cache, x, t) ==
  /\ cache.executable = x
  /\ cache.hashes = t
  /\ cache.neighbors = neighbors(t)
  /\ DOMAIN cache.todos = Present(t) /\ DOMAIN cache.api_surface = Present(t)
  /\ \A f \in Present(t) :
       /\ cache.todos[f].input = <<t[f], FullSeen(x, t)[f]>>
       /\ cache.api_surface[f].input = <<t[f], FullSeenNext(x, t)[f]>>

ChangesOf(before, t) == {f \in Files : t[f] # before[f]}

AffectedBy(before, t) ==
  ChangesOf(before, t) \union Around(neighbors(before), ChangesOf(before, t))
                       \union Around(neighbors(t), ChangesOf(before, t))

(* What a clean run finds and leaves: x is its version, t its files. *)
LeavesCaches(p, x, t) ==
  /\ pc[p] = "saveParses" /\ run[p].cache.executable # Absent => ParsesOf(run[p].cache, x, t)
  /\ pc[p] \in {"enrich", "saveEnrichment", "publish"} => ParsesOf(parse_cache, x, t)
  /\ pc[p] = "saveEnrichment" /\ run[p].cache.executable # Absent =>
       EnrichmentOf(run[p].cache, x, t)
  /\ pc[p] = "publish" => EnrichmentOf(local_enrichment, x, t)

FindsCaches(p, base) ==
  /\ pc[p] = "parse" => ParsesOf(parse_cache, base.exe, base.files)
  /\ pc[p] \in {"parse", "saveParses", "enrich"} =>
       EnrichmentOf(local_enrichment, base.exe, base.files)

DoesChanges(p, before, t) ==
  /\ \/ pc[p] = "saveParses" /\ run[p].cache.executable # Absent
     \/ pc[p] \in {"enrich", "saveEnrichment", "publish"}
     => run[p].parsed \subseteq ChangesOf(before, t)
  /\ \/ pc[p] = "saveEnrichment" /\ run[p].cache.executable # Absent
     \/ pc[p] = "publish"
     => run[p].scanned \subseteq AffectedBy(before, t)

CleanRun(p) ==
  /\ \A q \in Runs \ {p} : pc[q] = "off"
  /\ LeavesCaches(p, run[p].exe, run[p].files)
  /\ run[p].base # Absent =>
       /\ FindsCaches(p, run[p].base)
       /\ run[p].incremental /\ run[p].base.exe = run[p].exe =>
            DoesChanges(p, run[p].base.files, run[p].files)

CleanInv ==
  /\ \A p \in Runs : pc[p] # "off" => last = Absent /\ (run[p].clean => CleanRun(p))
  /\ last # Absent => /\ ParsesOf(parse_cache, last.exe, last.files)
                      /\ EnrichmentOf(local_enrichment, last.exe, last.files)

(* A file none of whose neighbors has changed is seen as it was. *)
LEMMA UnaffectedSeen ==
  ASSUME NEW x, NEW b, NEW t, NEW f \in Present(t), f \notin AffectedBy(b, t)
  PROVE  /\ f \in Present(b) /\ b[f] = t[f]
         /\ FullSeen(x, b)[f] = FullSeen(x, t)[f]
         /\ FullSeenNext(x, b)[f] = FullSeenNext(x, t)[f]
<1>1. f \in Files /\ t[f] # Absent /\ t[f] = b[f]
  BY DEF Present, AffectedBy, ChangesOf
<1>2. f \in Present(b)
  BY <1>1 DEF Present
<1>3. ASSUME NEW g \in Refers[t[f]] \intersect Files
      PROVE  t[g] = b[g]
  <2>. SUFFICES ASSUME t[g] # b[g]
                PROVE  FALSE
    OBVIOUS
  <2>1. g \in ChangesOf(b, t) /\ g # f
    BY <1>1 DEF ChangesOf
  <2>2. CASE t[g] # Absent
    <3>1. f \in neighbors(t)[g]
      BY <1>3, <2>1, <2>2 DEF neighbors, Present
    <3>. QED  BY <2>1, <3>1 DEF AffectedBy, Around
  <2>3. CASE t[g] = Absent
    <3>1. g \in Present(b)
      BY <2>3 DEF Present
    <3>2. f \in neighbors(b)[g]
      BY <1>1, <1>2, <1>3, <2>1, <3>1 DEF neighbors
    <3>. QED  BY <2>1, <3>2 DEF AffectedBy, Around
  <2>. QED  BY <2>2, <2>3
<1>4. Refers[t[f]] \intersect Present(t) = Refers[b[f]] \intersect Present(b)
  BY <1>1, <1>3 DEF Present
<1>5. \A g \in Refers[t[f]] \intersect Present(t) : FullParses(x, t)[g] = FullParses(x, b)[g]
  BY <1>3 DEF FullParses, Present
<1>6. FullParses(x, t)[f] = FullParses(x, b)[f]
  BY <1>1 DEF FullParses
<1>7. {FullParses(x, t)[g] : g \in Refers[t[f]] \intersect Present(t)}
        = {FullParses(x, b)[g] : g \in Refers[b[f]] \intersect Present(b)}
  BY <1>4, <1>5
<1>8. \A added : LocalNodes(t, FullParses(x, t), f, added) = LocalNodes(b, FullParses(x, b), f, added)
  BY <1>6, <1>7 DEF LocalNodes
<1>9. FullSeen(x, b)[f] = FullSeen(x, t)[f]
  BY <1>2, <1>8 DEF FullSeen
<1>. QED  BY <1>1, <1>2, <1>8, <1>9 DEF FullSeenNext

(* A clean run that finds the cache of its predecessor scans the affected  *)
(* files only.                                                             *)
LEMMA ScansAffected ==
  ASSUME NEW p, SoundEnrichment(local_enrichment), Usable(local_enrichment, p),
         graph[p] = FullParses(run[p].exe, run[p].files),
         NEW b, EnrichmentOf(local_enrichment, run[p].exe, b)
  PROVE  Present(run[p].files) \
           (Reused(run[p].files, Old(p).todos, Affected(p), Seen(p)) \intersect
            Reused(run[p].files, Old(p).api_surface, Affected(p), SeenNext(p)))
         \subseteq AffectedBy(b, run[p].files)
<1>. DEFINE t == run[p].files
            x == run[p].exe
<1>1. Old(p) = local_enrichment /\ Affected(p) = AffectedBy(b, t)
  BY DEF Old, Affected, AffectedBy, Changed, ChangesOf, EnrichmentOf
<1>. SUFFICES ASSUME NEW f \in Present(t), f \notin AffectedBy(b, t)
              PROVE  /\ f \in Reused(t, Old(p).todos, Affected(p), Seen(p))
                     /\ f \in Reused(t, Old(p).api_surface, Affected(p), SeenNext(p))
  BY <1>1
<1>2. /\ f \in Present(b) /\ b[f] = t[f]
      /\ FullSeen(x, b)[f] = FullSeen(x, t)[f] /\ FullSeenNext(x, b)[f] = FullSeenNext(x, t)[f]
  BY UnaffectedSeen
<1>3. /\ f \in DOMAIN Old(p).todos /\ f \in DOMAIN Old(p).api_surface
      /\ Old(p).todos[f].input = <<t[f], FullSeen(x, t)[f]>>
      /\ Old(p).api_surface[f].input = <<t[f], FullSeenNext(x, t)[f]>>
  BY <1>1, <1>2 DEF EnrichmentOf
<1>4. Seen(p) = FullSeen(x, t)
  BY DEF Seen, FullSeen
<1>5. SoundFindings(x, "todos", Old(p).todos)
  BY <1>1, UsedByItsWriter DEF SoundEnrichment
<1>6. Todos(p)[f].found = Found(x, "todos", t[f], FullSeen(x, t)[f])
  BY <1>4, <1>5, FindingsAreFull DEF Todos
<1>7. SeenNext(p)[f] = FullSeenNext(x, t)[f]
  BY <1>6 DEF SeenNext, FullSeenNext
<1>. QED  BY <1>1, <1>3, <1>4, <1>7 DEF Reused

(* What Enrich leaves is the cache of its version and its files. *)
LEMMA LeavesEnrichment ==
  ASSUME NEW p, SoundEnrichment(local_enrichment),
         graph[p] = FullParses(run[p].exe, run[p].files)
  PROVE  EnrichmentOf([executable |-> run[p].exe, hashes |-> run[p].files,
                       neighbors |-> neighbors(run[p].files),
                       todos |-> Todos(p), api_surface |-> Api(p)], run[p].exe, run[p].files)
<1>. DEFINE t == run[p].files
            x == run[p].exe
<1>1. SoundFindings(x, "todos", Old(p).todos) /\ SoundFindings(x, "api_surface", Old(p).api_surface)
  <2>1. CASE Usable(local_enrichment, p)
    BY <2>1, UsedByItsWriter DEF Old, SoundEnrichment
  <2>2. CASE ~Usable(local_enrichment, p)
    BY <2>2 DEF Old, EmptyEnrichment, NoEntries, SoundFindings
  <2>. QED  BY <2>1, <2>2
<1>2. DOMAIN Todos(p) = Present(t) /\ DOMAIN Api(p) = Present(t)
  BY DEF Todos, Api, Artifacts
<1>3. Seen(p) = FullSeen(x, t)
  BY DEF Seen, FullSeen
<1>4. \A f \in Present(t) : /\ Todos(p)[f].input = <<t[f], FullSeen(x, t)[f]>>
                            /\ Todos(p)[f].found = Found(x, "todos", t[f], FullSeen(x, t)[f])
  BY <1>1, <1>3, FindingsAreFull DEF Todos
<1>5. \A f \in Present(t) : SeenNext(p)[f] = FullSeenNext(x, t)[f]
  BY <1>4 DEF SeenNext, FullSeenNext
<1>6. \A f \in Present(t) : Api(p)[f].input = <<t[f], FullSeenNext(x, t)[f]>>
  BY <1>1, <1>5, FindingsAreFull DEF Api
<1>. HIDE DEF t, x
<1>7. EnrichmentOf([executable |-> x, hashes |-> t, neighbors |-> neighbors(t),
                    todos |-> Todos(p), api_surface |-> Api(p)], x, t)
  BY <1>2, <1>4, <1>6 DEF EnrichmentOf
<1>. QED  BY <1>7 DEF t, x

(* A clean run stays one as long as nobody else does anything. *)
LEMMA CleanKept ==
  ASSUME NEW q, CleanRun(q), Undisturbed(q), UNCHANGED <<parse_cache, local_enrichment>>,
         \A r \in Runs \ {q} : pc'[r] = "off"
  PROVE  CleanRun(q)'
<1>1. /\ pc'[q] = pc[q] /\ graph'[q] = graph[q]
      /\ run'[q].exe = run[q].exe /\ run'[q].files = run[q].files /\ run'[q].cache = run[q].cache
      /\ run'[q].base = run[q].base /\ run'[q].incremental = run[q].incremental
      /\ run'[q].parsed = run[q].parsed /\ run'[q].scanned = run[q].scanned
  BY DEF Undisturbed
<1>2. LeavesCaches(q, run[q].exe, run[q].files)'
  BY <1>1 DEF CleanRun, LeavesCaches
<1>3. run[q].base # Absent => FindsCaches(q, run[q].base)'
  BY <1>1 DEF CleanRun, FindsCaches
<1>4. run[q].base # Absent /\ run[q].incremental /\ run[q].base.exe = run[q].exe
        => DoesChanges(q, run[q].base.files, run[q].files)'
  BY <1>1 DEF CleanRun, DoesChanges
<1>. QED  BY <1>1, <1>2, <1>3, <1>4 DEF CleanRun

(* A step of another run, at its start or later, ends a run's being clean. *)
LEMMA NotAlone ==
  ASSUME RunsInv, CleanInv, NEW p \in Runs, AnalysisStep(p), NEW q \in Runs \ {p}, pc[q] # "off"
  PROVE  ~run'[q].clean
<1>1. CASE \E incremental \in BOOLEAN : Start(p, incremental)
  <2>1. run'[q] = [run[q] EXCEPT !.clean = FALSE]
    BY <1>1 DEF Start
  <2>. QED  BY <2>1, NotCleanAnyMore DEF RunsInv
<1>2. CASE pc[p] # "off"
  <2>1. ~run[q].clean
    BY <1>2 DEF CleanInv, CleanRun
  <2>. QED  BY <2>1, OtherRuns DEF Undisturbed
<1>. QED
  BY <1>1, <1>2 DEF AnalysisStep, ParseFiles, ParseOversized, SaveParses, Enrich, SaveEnrichment,
                    Publish, Die

(* The first half of a clean run. *)
LEMMA CleanParse ==
  ASSUME RunsInv, SoundInv, CleanInv, NEW p \in Runs, ParseFiles(p) \/ SaveParses(p),
         run'[p].clean, \A q \in Runs \ {p} : pc'[q] = pc[q]
  PROVE  CleanRun(p)'
<1>. DEFINE x == run[p].exe
            t == run[p].files
            b == run[p].base
<1>1. CASE ParseFiles(p)
  <2>1. /\ pc[p] = "parse" /\ pc'[p] = "saveParses" /\ SameRun(p) /\ run[p].clean
        /\ run'[p].parsed = Present(t) \ ReusedParses(p)
        /\ UNCHANGED <<parse_cache, local_enrichment, last>>
    BY <1>1, ParseShape
  <2>2. CleanRun(p)
    BY <2>1 DEF CleanInv
  <2>. DEFINE Entries == [f \in Present(t) |-> [hash |-> t[f], parsed |-> AllParses(p)[f]]]
  <2>3. run'[p].cache = [executable |-> executable(p), files |-> Entries]
    BY <1>1, ParseShape
  <2>4. executable(p) # Absent => executable(p) = x
    BY DEF executable
  <2>5. run'[p].cache.executable = executable(p)
    BY <2>3
  <2>6. executable(p) # Absent => ParsesOf(run'[p].cache, x, t)
    <3>1. executable(p) # Absent => ParsesOf([executable |-> executable(p), files |-> Entries], x, t)
      BY <2>4 DEF ParsesOf
    <3>. HIDE DEF Entries
    <3>. QED  BY <2>3, <3>1
  <2>7. ASSUME b # Absent, run[p].incremental, b.exe = x, executable(p) # Absent
        PROVE  run'[p].parsed \subseteq ChangesOf(b.files, t)
    <3>1. ParsesOf(parse_cache, x, b.files)
      BY <2>1, <2>2, <2>7 DEF CleanRun, FindsCaches
    <3>2. CachedParses(p) = parse_cache.files
      BY <2>4, <2>7, <3>1 DEF CachedParses, Usable, ParsesOf
    <3>3. ASSUME NEW f \in Present(t), t[f] = b.files[f]
          PROVE  f \in ReusedParses(p)
      BY <3>1, <3>2, <3>3 DEF ParsesOf, ReusedParses, Present
    <3>. QED  BY <2>1, <3>3 DEF ChangesOf, Present
  <2>8. LeavesCaches(p, x, t)'
    BY <2>1, <2>5, <2>6 DEF LeavesCaches, SameRun
  <2>9. b # Absent => FindsCaches(p, b)'
    BY <2>1, <2>2 DEF CleanRun, FindsCaches, SameRun
  <2>10. b # Absent /\ run[p].incremental /\ b.exe = x => DoesChanges(p, b.files, t)'
    BY <2>1, <2>5, <2>7 DEF DoesChanges, SameRun
  <2>. QED  BY <2>1, <2>2, <2>8, <2>9, <2>10 DEF CleanRun, SameRun
<1>2. CASE SaveParses(p)
  <2>1. /\ pc[p] = "saveParses" /\ pc'[p] = "enrich" /\ SameRun(p)
        /\ run'[p].parsed = run[p].parsed
        /\ run[p].clean /\ run[p].cache.executable # Absent
        /\ UNCHANGED local_enrichment
    BY <1>2, SaveShape DEF SaveParses, RunsInv
  <2>2. parse_cache' = run[p].cache
    <3>1. CASE run' = NotSaved(p)
      <4>1. ~run'[p].clean
        BY <2>1, <3>1 DEF NotSaved, RunsInv, Fields
      <4>. QED  BY <4>1
    <3>. QED  BY <1>2, <3>1 DEF SaveParses
  <2>3. CleanRun(p)
    BY <2>1 DEF CleanInv
  <2>4. LeavesCaches(p, x, t)'
    BY <2>1, <2>2, <2>3 DEF CleanRun, LeavesCaches, SameRun
  <2>5. b # Absent => FindsCaches(p, b)'
    BY <2>1, <2>3 DEF CleanRun, FindsCaches, SameRun
  <2>6. b # Absent /\ run[p].incremental /\ b.exe = x => DoesChanges(p, b.files, t)'
    BY <2>1, <2>3 DEF CleanRun, DoesChanges, SameRun
  <2>. QED  BY <2>1, <2>3, <2>4, <2>5, <2>6 DEF CleanRun, SameRun
<1>. QED  BY <1>1, <1>2

(* Its second half. *)
LEMMA CleanEnrich ==
  ASSUME RunsInv, SoundInv, CleanInv, NEW p \in Runs, Enrich(p) \/ SaveEnrichment(p),
         run'[p].clean, \A q \in Runs \ {p} : pc'[q] = pc[q]
  PROVE  CleanRun(p)'
<1>. DEFINE x == run[p].exe
            t == run[p].files
            b == run[p].base
<1>1. CASE Enrich(p)
  <2>1. /\ pc[p] = "enrich" /\ pc'[p] = "saveEnrichment" /\ SameRun(p) /\ run[p].clean
        /\ run'[p].parsed = run[p].parsed
        /\ UNCHANGED <<parse_cache, local_enrichment, last>>
    BY <1>1, EnrichShape
  <2>2. CleanRun(p)
    BY <2>1 DEF CleanInv
  <2>3. SoundEnrichment(local_enrichment) /\ graph[p] = FullParses(x, t)
    BY <2>1 DEF SoundInv, BuildInv
  <2>. DEFINE Cache == [executable |-> executable(p), hashes |-> t, neighbors |-> neighbors(t),
                        todos |-> Todos(p), api_surface |-> Api(p)]
  <2>4. run'[p].cache = Cache
    BY <1>1, EnrichShape
  <2>5. executable(p) # Absent => executable(p) = x
    BY DEF executable
  <2>6. run'[p].cache.executable = executable(p)
    BY <2>4
  <2>7. executable(p) # Absent => EnrichmentOf(run'[p].cache, x, t)
    BY <2>3, <2>4, <2>5, LeavesEnrichment
  <2>8. ASSUME b # Absent, run[p].incremental, b.exe = x, executable(p) # Absent
        PROVE  run'[p].scanned \subseteq AffectedBy(b.files, t)
    <3>1. EnrichmentOf(local_enrichment, x, b.files)
      BY <2>1, <2>2, <2>8 DEF CleanRun, FindsCaches
    <3>2. Usable(local_enrichment, p)
      BY <2>5, <2>8, <3>1 DEF Usable, EnrichmentOf
    <3>. QED  BY <1>1, <2>3, <3>1, <3>2, ScansAffected, EnrichShape
  <2>9. LeavesCaches(p, x, t)'
    BY <2>1, <2>2, <2>6, <2>7 DEF CleanRun, LeavesCaches, SameRun
  <2>10. b # Absent => FindsCaches(p, b)'
    BY <2>1 DEF FindsCaches, SameRun
  <2>11. b # Absent /\ run[p].incremental /\ b.exe = x => DoesChanges(p, b.files, t)'
    BY <2>1, <2>2, <2>6, <2>8 DEF CleanRun, DoesChanges, SameRun
  <2>. QED  BY <2>1, <2>2, <2>9, <2>10, <2>11 DEF CleanRun, SameRun
<1>2. CASE SaveEnrichment(p)
  <2>1. /\ pc[p] = "saveEnrichment" /\ pc'[p] = "publish" /\ SameRun(p)
        /\ run'[p].parsed = run[p].parsed /\ run'[p].scanned = run[p].scanned
        /\ run[p].clean /\ run[p].cache.executable # Absent
        /\ UNCHANGED parse_cache
    BY <1>2, SaveShape DEF SaveEnrichment, RunsInv
  <2>2. local_enrichment' = run[p].cache
    <3>1. CASE run' = NotSaved(p)
      <4>1. ~run'[p].clean
        BY <2>1, <3>1 DEF NotSaved, RunsInv, Fields
      <4>. QED  BY <4>1
    <3>. QED  BY <1>2, <3>1 DEF SaveEnrichment
  <2>3. CleanRun(p)
    BY <2>1 DEF CleanInv
  <2>4. LeavesCaches(p, x, t)'
    BY <2>1, <2>2, <2>3 DEF CleanRun, LeavesCaches, SameRun
  <2>5. b # Absent => FindsCaches(p, b)'
    BY <2>1, <2>3 DEF CleanRun, FindsCaches, SameRun
  <2>6. b # Absent /\ run[p].incremental /\ b.exe = x => DoesChanges(p, b.files, t)'
    BY <2>1, <2>3 DEF CleanRun, DoesChanges, SameRun
  <2>. QED  BY <2>1, <2>3, <2>4, <2>5, <2>6 DEF CleanRun, SameRun
<1>. QED  BY <1>1, <1>2

(* Every step keeps what is known of clean runs. *)
LEMMA CleanStep ==
  ASSUME RunsInv, SoundInv, CleanInv, [Next]_vars
  PROVE  CleanInv'
<1>1. CASE LoseCache
  <2>1. last' = Absent /\ pc' = pc
    BY <1>1 DEF LoseCache, Disturb
  <2>2. ASSUME NEW q \in Runs, pc[q] # "off"
        PROVE  ~run'[q].clean
    <3>1. run'[q] = [run[q] EXCEPT !.clean = FALSE]
      BY <1>1, <2>2 DEF LoseCache
    <3>. QED  BY <2>2, <3>1, NotCleanAnyMore DEF RunsInv
  <2>. QED  BY <2>1, <2>2 DEF CleanInv
<1>2. CASE \/ \E f \in Files, c \in Contents \union {Absent} : Edit(f, c)
           \/ \E x \in Executables : Upgrade(x)
           \/ UNCHANGED vars
  <2>1. UNCHANGED <<pc, run, last, parse_cache, local_enrichment>>
    BY <1>2 DEF Edit, Upgrade, Disturb, vars, diskVars
  <2>2. ASSUME NEW q \in Runs, pc[q] # "off", run[q].clean
        PROVE  CleanRun(q)'
    BY <1>2, <2>1, <2>2, DisturbedRun, CleanKept DEF CleanInv, CleanRun
  <2>. QED  BY <2>1, <2>2 DEF CleanInv
<1>3. ASSUME NEW p \in Runs, AnalysisStep(p)
      PROVE  CleanInv'
  <2>1. \A q \in Runs \ {p} : pc'[q] = pc[q]
    BY <1>3 DEF RunsInv, AnalysisStep, Start, ParseFiles, ParseOversized, SaveParses, Enrich,
                SaveEnrichment, Publish, Die, Leave
  <2>2. \A q \in Runs \ {p} : pc[q] # "off" => ~run'[q].clean
    BY <1>3, NotAlone
  <2>3. ASSUME NEW incremental \in BOOLEAN, Start(p, incremental)
        PROVE  CleanInv'
    <3>1. ASSUME run'[p].clean
          PROVE  CleanRun(p)'
      <4>1. \A q \in Runs \ {p} : pc'[q] = "off"
        BY <2>1, <2>3, <3>1, StartShape DEF Alone
      <4>2. LeavesCaches(p, run[p].exe, run[p].files)'
        BY <2>3, StartShape DEF LeavesCaches
      <4>3. (run[p].base # Absent => FindsCaches(p, run[p].base))'
        BY <2>3, StartShape DEF FindsCaches, CleanInv
      <4>4. DoesChanges(p, run[p].base.files, run[p].files)'
        BY <2>3, StartShape DEF DoesChanges
      <4>. QED  BY <4>1, <4>2, <4>3, <4>4 DEF CleanRun
    <3>. QED  BY <2>1, <2>2, <2>3, <3>1, StartShape DEF CleanInv
  <2>4. CASE ParseFiles(p) \/ SaveParses(p) \/ Enrich(p) \/ SaveEnrichment(p)
    <3>1. last = Absent /\ last' = last
      BY <2>4 DEF CleanInv, ParseFiles, SaveParses, Enrich, SaveEnrichment
    <3>2. run'[p].clean => CleanRun(p)'
      BY <2>1, <2>4, CleanParse, CleanEnrich
    <3>. QED  BY <2>1, <2>2, <3>1, <3>2 DEF CleanInv
  <2>5. CASE ParseOversized(p)
    <3>1. last = Absent /\ last' = last /\ ~run'[p].clean
      BY <2>5, OversizedShape DEF CleanInv
    <3>. QED  BY <2>1, <2>2, <3>1 DEF CleanInv
  <2>6. CASE Die(p)
    <3>1. last = Absent /\ last' = last /\ pc'[p] = "off"
      BY <2>6 DEF CleanInv, Die, Leave, RunsInv
    <3>. QED  BY <2>1, <2>2, <3>1 DEF CleanInv
  <2>7. CASE Publish(p)
    <3>1. pc[p] = "publish" /\ pc'[p] = "off" /\ last = Absent
          /\ UNCHANGED <<parse_cache, local_enrichment>>
      BY <2>7 DEF CleanInv, Publish, Leave, RunsInv, diskVars
    <3>2. CASE run[p].clean
      <4>1. CleanRun(p)
        BY <3>1, <3>2 DEF CleanInv
      <4>2. \A q \in Runs : pc'[q] = "off"
        BY <2>1, <3>1, <4>1 DEF CleanRun
      <4>3. last' = [exe |-> run[p].exe, files |-> run[p].files]
        BY <2>7, <3>2 DEF Publish
      <4>4. last'.exe = run[p].exe /\ last'.files = run[p].files
        BY <4>3
      <4>5. /\ ParsesOf(parse_cache, run[p].exe, run[p].files)
            /\ EnrichmentOf(local_enrichment, run[p].exe, run[p].files)
        BY <3>1, <4>1 DEF CleanRun, LeavesCaches
      <4>6. /\ ParsesOf(parse_cache', last'.exe, last'.files)
            /\ EnrichmentOf(local_enrichment', last'.exe, last'.files)
        BY <3>1, <4>4, <4>5
      <4>. QED  BY <4>2, <4>6 DEF CleanInv
    <3>3. CASE ~run[p].clean
      <4>1. last' = Absent
        BY <2>7, <3>3 DEF Publish
      <4>. QED  BY <2>1, <2>2, <3>1, <4>1 DEF CleanInv
    <3>. QED  BY <3>2, <3>3
  <2>. QED  BY <1>3, <2>3, <2>4, <2>5, <2>6, <2>7 DEF AnalysisStep
<1>. QED  BY <1>1, <1>2, <1>3 DEF Next

(* After a run that left both caches, the next one alone parses only the   *)
(* files that changed, and scans these and their neighbors only.           *)
THEOREM NoMoreThanChanges == Spec => []OnlyChangesDone
<1>1. Init => CleanInv
  BY DEF Init, CleanInv
<1>2. RunsInv /\ SoundInv /\ CleanInv /\ [Next]_vars => (RunsInv /\ SoundInv /\ CleanInv)'
  BY RunsStep, SoundStep, CleanStep
<1>3. CleanInv => OnlyChangesDone
  BY DEF CleanInv, CleanRun, DoesChanges, ChangesOf, AffectedBy, OnlyChangesDone
<1>. QED  BY <1>1, <1>2, <1>3, InitRuns, PTL DEF Spec

=============================================================================
