--------------------------- MODULE AnalysisCaches ---------------------------
(***************************************************************************)
(* The two caches of analyze: parse-cache.bin, parses keyed by a file's    *)
(* content, and local-enrichment.bin, what the scanners of the phases      *)
(* "todos" and "api_surface" found in one file, keyed by all they saw of   *)
(* it.  An incremental analysis must build the graph a full one builds,    *)
(* whatever became of the caches: other versions of the program, runs that *)
(* died or could not save, runs at the same time, deleted or damaged       *)
(* files.                                                                  *)
(*                                                                         *)
(* A parse is what a parser made of a content; the nodes of a file as the  *)
(* scanners see them are its parse and the parses of the files it refers   *)
(* to, which stand for what the repository-wide phases in between wrote    *)
(* into its nodes.  Both caches are files replaced as a whole.             *)
(***************************************************************************)
EXTENDS Naturals, FiniteSets, Sequences, SequencesExt

CONSTANTS
  Runs,         \* analyze processes
  FileOrder,    \* the repository's files, in the order of the walk
  Contents,     \* of files
  Refers,       \* Refers[c]: the files a content refers to
  Routes,       \* Routes[c]: the routes a content declares
  Executables,  \* versions of the program: [parser |-> .., scanner |-> ..]
  MaxEdits,     \* bound on edits, upgrades and lost caches
  MaxAnalyses,  \* bound on the analyses
  Absent        \* no file, no finding, no fingerprint

ASSUME CachesAssumption ==
  /\ IsFiniteSet(Runs) /\ IsFiniteSet(Contents) /\ IsFiniteSet(Executables)
  /\ Absent \notin Contents
  /\ MaxEdits \in Nat /\ MaxAnalyses \in Nat

Files == ToSet(FileOrder)

VARIABLES
  tree,        \* content of every file
  installed,   \* the version of the program that is installed
  edits, analyses,
  parse_cache, local_enrichment,   \* the two files
  pc, run,     \* where each process is, and what it has in hand
  graph,       \* the graph it builds
  last         \* what the caches are of, if the last run left both: a history

diskVars == <<parse_cache, local_enrichment>>
vars == <<tree, installed, edits, analyses, diskVars, pc, run, graph, last>>

Trees  == [Files -> Contents \union {Absent}]
Nobody == "nobody"

-----------------------------------------------------------------------------
(* What the phases compute. *)

Present(t) == {f \in Files : t[f] # Absent}

Parse(x, c) == [parser |-> x.parser, content |-> c]

(* All nodes of a file, as the phases before have left them. *)
LocalNodes(t, parsed, f, added) ==
  [own     |-> parsed[f],
   context |-> {parsed[g] : g \in Refers[t[f]] \intersect Present(t)},
   added   |-> added]

(* A scanner's findings depend on its version and on all it sees. *)
Found(x, phase, c, local) ==
  [phase |-> phase, scanner |-> x.scanner, content |-> c, local |-> local]

(* First declaration wins: the owner of a route is the first file, in the  *)
(* order of the walk, that declares it.                                    *)
Owner(t, route) ==
  LET declares == {i \in DOMAIN FileOrder :
                     t[FileOrder[i]] # Absent /\ route \in Routes[t[FileOrder[i]]]}
  IN  IF declares = {} THEN Nobody
      ELSE FileOrder[CHOOSE i \in declares : \A j \in declares : i <= j]

AllRoutes == UNION {Routes[c] : c \in Contents}

GraphOf(t, parsed, todos, api) ==
  [parsed |-> parsed, todos |-> todos,
   routes |-> [r \in AllRoutes |->
                 IF Owner(t, r) = Nobody THEN Absent ELSE api[Owner(t, r)]]]

(* analyze --force: every file is parsed and scanned. *)
FullGraph(x, t) ==
  LET parsed == [f \in Files |-> IF t[f] = Absent THEN Absent ELSE Parse(x, t[f])]
      todos  == [f \in Files |-> IF t[f] = Absent THEN Absent
                  ELSE Found(x, "todos", t[f], LocalNodes(t, parsed, f, Absent))]
      api    == [f \in Files |-> IF t[f] = Absent THEN Absent
                  ELSE Found(x, "api_surface", t[f], LocalNodes(t, parsed, f, todos[f]))]
  IN  GraphOf(t, parsed, todos, api)

-----------------------------------------------------------------------------
(* What a cache file holds that is missing or cannot be read. *)
NoEntries == [f \in {} |-> Absent]

EmptyParses == [executable |-> Absent, files |-> NoEntries]

EmptyEnrichment ==
  [executable |-> Absent, hashes |-> [f \in Files |-> Absent],
   neighbors |-> [f \in Files |-> {}], todos |-> NoEntries, api_surface |-> NoEntries]

Init ==
  /\ tree \in [Files -> Contents]
  /\ installed \in Executables
  /\ edits = 0
  /\ analyses = 0
  /\ parse_cache = EmptyParses
  /\ local_enrichment = EmptyEnrichment
  /\ pc = [p \in Runs |-> "off"]
  /\ run = [p \in Runs |-> Absent]
  /\ graph = [p \in Runs |-> Absent]
  /\ last = Absent

Disturb ==
  /\ edits < MaxEdits
  /\ edits' = edits + 1
  /\ UNCHANGED <<analyses, pc, graph>>

Edit(f, c) ==
  /\ Disturb
  /\ c # tree[f]
  /\ tree' = [tree EXCEPT ![f] = c]
  /\ UNCHANGED <<installed, diskVars, run, last>>

Upgrade(x) ==
  /\ Disturb
  /\ x # installed
  /\ installed' = x
  /\ UNCHANGED <<tree, diskVars, run, last>>

(* A cache file is deleted, or damaged: its checksum no longer fits. *)
LoseCache ==
  /\ Disturb
  /\ \/ parse_cache' = EmptyParses /\ UNCHANGED local_enrichment
     \/ local_enrichment' = EmptyEnrichment /\ UNCHANGED parse_cache
  /\ last' = Absent
  /\ run' = [p \in Runs |-> IF pc[p] = "off" THEN run[p] ELSE [run[p] EXCEPT !.clean = FALSE]]
  /\ UNCHANGED <<tree, installed>>

(* The fingerprint of the running program.  On Linux, which is what is     *)
(* modelled, a program that was replaced since it started has no file any  *)
(* more, and its fingerprint is empty; elsewhere its path may lead to its  *)
(* successor.                                                              *)
executable(p) == IF installed = run[p].exe THEN installed ELSE Absent

(* Mutant: a cache is used whichever version of the program wrote it. *)
AnyCache(cache, p) == run[p].incremental

Usable(cache, p) ==
  /\ run[p].incremental
  /\ executable(p) # Absent
  /\ cache.executable = executable(p)

(* Nobody else is at work. *)
Alone(p) == \A q \in Runs \ {p} : pc[q] = "off"

Start(p, incremental) ==
  /\ pc[p] = "off"
  /\ analyses < MaxAnalyses
  /\ analyses' = analyses + 1
  /\ run' = [q \in Runs |->
               IF q = p
               THEN [exe |-> installed, incremental |-> incremental, files |-> tree,
                     base |-> last, clean |-> Alone(p),
                     parsed |-> {}, scanned |-> {}, cache |-> Absent]
               ELSE IF pc[q] = "off" THEN run[q] ELSE [run[q] EXCEPT !.clean = FALSE]]
  /\ last' = Absent
  /\ pc' = [pc EXCEPT ![p] = "parse"]
  /\ UNCHANGED <<tree, installed, edits, diskVars, graph>>

(* parse_files_cached reuses the parses of contents that are the same, and *)
(* keeps what it reused and what it parsed.                                *)
ParseFiles(p) ==
  LET t      == run[p].files
      cached == IF Usable(parse_cache, p) THEN parse_cache.files ELSE NoEntries
      reused == {f \in Present(t) \intersect DOMAIN cached : cached[f].hash = t[f]}
      parsed == [f \in Files |-> IF f \in reused THEN cached[f].parsed
                                 ELSE IF t[f] = Absent THEN Absent
                                 ELSE Parse(run[p].exe, t[f])]
  IN  /\ pc[p] = "parse"
      /\ graph' = [graph EXCEPT ![p] = parsed]
      /\ run' = [run EXCEPT
                   ![p].parsed = Present(t) \ reused,
                   ![p].cache  = [executable |-> executable(p),
                                  files |-> [f \in Present(t) |->
                                               [hash |-> t[f], parsed |-> parsed[f]]]]]
      /\ pc' = [pc EXCEPT ![p] = "saveParses"]
      /\ UNCHANGED <<tree, installed, edits, analyses, diskVars, last>>

(* The sources are over the cache's budget: it is removed. *)
ParseOversized(p) ==
  LET t == run[p].files
  IN  /\ pc[p] = "parse"
      /\ parse_cache' = EmptyParses
      /\ graph' = [graph EXCEPT ![p] = [f \in Files |->
                     IF t[f] = Absent THEN Absent ELSE Parse(run[p].exe, t[f])]]
      /\ run' = [run EXCEPT ![p].clean = FALSE]
      /\ pc' = [pc EXCEPT ![p] = "enrich"]
      /\ UNCHANGED <<tree, installed, edits, analyses, local_enrichment, last>>

(* A save that fails is a warning. *)
Saved(p) == [run EXCEPT ![p].cache = Absent,
                        ![p].clean = @ /\ run[p].cache.executable # Absent]
NotSaved(p) == [run EXCEPT ![p].cache = Absent, ![p].clean = FALSE]

(* The parses are published before the graph they go into is built. *)
SaveParses(p) ==
  /\ pc[p] = "saveParses"
  /\ \/ parse_cache' = run[p].cache /\ run' = Saved(p)
     \/ run' = NotSaved(p) /\ UNCHANGED parse_cache
  /\ pc' = [pc EXCEPT ![p] = "enrich"]
  /\ UNCHANGED <<tree, installed, edits, analyses, local_enrichment, graph, last>>

(* Files with a relationship between nodes of theirs, in either direction. *)
neighbors(t) ==
  [f \in Files |-> {g \in Present(t) \ {f} :
     f \in Present(t) /\ (g \in Refers[t[f]] \/ f \in Refers[t[g]])}]

Around(ns, fs) == UNION {ns[f] : f \in fs}

(* Mutant: any change invalidates the artifacts of all files. *)
ReusedAllOrNone(t, old, affected, local) ==
  {f \in Present(t) \intersect DOMAIN old : affected = {}}

(* An artifact is used again if its file is not affected by a change and   *)
(* the scanner would see what it saw then.                                 *)
Reused(t, old, affected, local) ==
  {f \in (Present(t) \ affected) \intersect DOMAIN old :
     old[f].input = <<t[f], local[f]>>}

(* LocalEnrichment::run: the artifacts of one phase. *)
Artifacts(x, t, phase, old, affected, local) ==
  [f \in Present(t) |->
     IF f \in Reused(t, old, affected, local) THEN old[f]
     ELSE [input |-> <<t[f], local[f]>>, found |-> Found(x, phase, t[f], local[f])]]

Finds(artifacts) ==
  [f \in Files |-> IF f \in DOMAIN artifacts THEN artifacts[f].found ELSE Absent]

(* LocalEnrichment::new and both of its phases, between which other phases *)
(* go on with the graph.                                                   *)
Enrich(p) ==
  LET t        == run[p].files
      x        == run[p].exe
      old      == IF Usable(local_enrichment, p) THEN local_enrichment ELSE EmptyEnrichment
      changed  == {f \in Files : t[f] # old.hashes[f]}
      affected == changed \union Around(old.neighbors, changed)
                          \union Around(neighbors(t), changed)
      seen     == [f \in Present(t) |-> LocalNodes(t, graph[p], f, Absent)]
      todos    == Artifacts(x, t, "todos", old.todos, affected, seen)
      seenNext == [f \in Present(t) |-> LocalNodes(t, graph[p], f, todos[f].found)]
      api      == Artifacts(x, t, "api_surface", old.api_surface, affected, seenNext)
  IN  /\ pc[p] = "enrich"
      /\ graph' = [graph EXCEPT ![p] = GraphOf(t, graph[p], Finds(todos), Finds(api))]
      /\ run' = [run EXCEPT
                   ![p].scanned = Present(t) \
                                    (Reused(t, old.todos, affected, seen) \intersect
                                     Reused(t, old.api_surface, affected, seenNext)),
                   ![p].cache   = [executable |-> executable(p), hashes |-> t,
                                   neighbors |-> neighbors(t),
                                   todos |-> todos, api_surface |-> api]]
      /\ pc' = [pc EXCEPT ![p] = "saveEnrichment"]
      /\ UNCHANGED <<tree, installed, edits, analyses, diskVars, last>>

SaveEnrichment(p) ==
  /\ pc[p] = "saveEnrichment"
  /\ \/ local_enrichment' = run[p].cache /\ run' = Saved(p)
     \/ run' = NotSaved(p) /\ UNCHANGED local_enrichment
  /\ pc' = [pc EXCEPT ![p] = "publish"]
  /\ UNCHANGED <<tree, installed, edits, analyses, parse_cache, graph, last>>

Leave(p) ==
  /\ pc' = [pc EXCEPT ![p] = "off"]
  /\ run' = [run EXCEPT ![p] = Absent]
  /\ graph' = [graph EXCEPT ![p] = Absent]
  /\ UNCHANGED <<tree, installed, edits, analyses, diskVars>>

Publish(p) ==
  /\ pc[p] = "publish"
  /\ last' = IF run[p].clean THEN [exe |-> run[p].exe, files |-> run[p].files] ELSE Absent
  /\ Leave(p)

Die(p) == pc[p] # "off" /\ Leave(p) /\ UNCHANGED last

AnalysisStep(p) ==
  \/ \E incremental \in BOOLEAN : Start(p, incremental)
  \/ ParseFiles(p)
  \/ ParseOversized(p)
  \/ SaveParses(p)
  \/ Enrich(p)
  \/ SaveEnrichment(p)
  \/ Publish(p)
  \/ Die(p)

Next ==
  \/ \E f \in Files, c \in Contents \union {Absent} : Edit(f, c)
  \/ \E x \in Executables : Upgrade(x)
  \/ LoseCache
  \/ \E p \in Runs : AnalysisStep(p)

Spec == Init /\ [][Next]_vars

-----------------------------------------------------------------------------
(* An incremental analysis builds the graph that a full one of the same    *)
(* files builds, route ownership included, although the entries of its     *)
(* caches may come from any runs before it.                                *)
SameGraphAsFull ==
  \A p \in Runs : pc[p] = "publish" => graph[p] = FullGraph(run[p].exe, run[p].files)

(* And it does no more than it has to: after a run that left both caches,  *)
(* the next one alone parses only the files that changed, and scans these  *)
(* and their old and new neighbors only.                                   *)
OnlyChangesDone ==
  \A p \in Runs :
    (pc[p] = "publish" /\ run[p].incremental /\ run[p].clean
       /\ run[p].base # Absent /\ run[p].base.exe = run[p].exe) =>
      LET before  == run[p].base.files
          t       == run[p].files
          changed == {f \in Files : t[f] # before[f]}
      IN  /\ run[p].parsed \subseteq changed
          /\ run[p].scanned \subseteq
               changed \union Around(neighbors(before), changed)
                       \union Around(neighbors(t), changed)

=============================================================================
