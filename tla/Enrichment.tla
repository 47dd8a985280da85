----------------------------- MODULE Enrichment -----------------------------
(***************************************************************************)
(* generate --enrich: a language model writes prose into the generated     *)
(* pages.  Answers cost money and fail for hours, so everything is kept on *)
(* disk: answers by the request they answer (cache/llm), the hash of each  *)
(* page as it was left (cache/<page>.hash), the pages that failed          *)
(* (queue.json) and what each page rests on (provenance.json).  The        *)
(* commands are "generate" (the pages are made again, then enriched),      *)
(* "enrich_only" and "retry_queue"; each of them may die at any point.     *)
(*                                                                         *)
(* A page's text is the version of what was generated, the passes made     *)
(* over it, and whether the cross-references were put into it.  The text   *)
(* determines the requests made for it, and stands for its own hash.  The  *)
(* attempts of one request, with their delays, are one step: an answer or  *)
(* none.  Page names are taken to be distinct across the directories.      *)
(***************************************************************************)
EXTENDS Naturals, Sequences, SequencesExt

CONSTANTS
  Pages,        \* in the order in which they are enriched: leaves first
  Size,         \* Size[p][v]: "tiny", "normal" or "large", of its version v
  Critical,     \* pages the profile reviews: overview, architecture, guides
  Linked,       \* pages that name something cross-references are made to
  Sections,     \* the requests made for a large page, in order
  MaxVersion, MaxCommands, MaxDeaths,
  None

PageSet == ToSet(Pages)

ASSUME EnrichmentAssumption ==
  /\ Pages \in Seq(PageSet)
  /\ Size \in [PageSet -> [1 .. MaxVersion -> {"tiny", "normal", "large"}]]
  /\ Critical \subseteq PageSet /\ Linked \subseteq PageSet
  /\ MaxVersion \in Nat /\ MaxCommands \in Nat /\ MaxDeaths \in Nat

VARIABLES
  page,         \* text of every page
  hash,         \* text whose hash was written last, or None
  stored,       \* answers kept: a set of [body, text]
  queue, provenance,         \* the two files, as sets of pages
  command, work,             \* what runs, and the pages it is to do
  pc, todo, retrying,        \* where it is
  pending, failed, entries,  \* its queue, this pass's failures, provenance
  body, answer, missing,     \* the request, the answer to it, sections left
  commands, deaths,          \* counters
  paid, again                \* requests paid for; kinds one was paid for twice of

diskVars    == <<page, hash, stored, queue, provenance>>
requestVars == <<body, answer, missing>>
listVars    == <<pending, failed, entries>>
runVars     == <<command, work, pc, todo, retrying>>
countVars   == <<commands, deaths>>
payVars     == <<paid, again>>
vars == <<diskVars, requestVars, listVars, runVars, countVars, payVars>>

(* The first page to do, in the order of Pages. *)
Current ==
  Pages[CHOOSE i \in DOMAIN Pages :
          Pages[i] \in todo /\ \A j \in 1 .. i - 1 : Pages[j] \notin todo]

size(p) == Size[p][page[p].version]

Generated(version) == [version |-> version, passes |-> <<>>, linked |-> FALSE]
Passed(text, pass) == [text EXCEPT !.passes = Append(@, pass)]
WithLinks(text) == [text EXCEPT !.linked = TRUE]

is_cached(p) == hash[p] = page[p]

Request(kind, p) == [kind |-> kind, page |-> p, text |-> page[p]]

Kept(b) == {s \in stored : s.body = b}

-----------------------------------------------------------------------------
Init ==
  /\ page = [p \in PageSet |-> Generated(1)]
  /\ hash = [p \in PageSet |-> None]
  /\ stored = {}
  /\ queue = {} /\ provenance = {}
  /\ command = None /\ work = {}
  /\ pc = "idle" /\ todo = {} /\ retrying = FALSE
  /\ pending = {} /\ failed = {} /\ entries = {}
  /\ body = None /\ answer = None /\ missing = <<>>
  /\ commands = 0 /\ deaths = 0
  /\ paid = {} /\ again = {}

(* Mutant: the provenance of earlier commands is not read. *)
EnrichForgetting ==
  /\ pending' = {p \in queue : page'[p] # hash[p]}
  /\ entries' = {}
  /\ todo' = PageSet
  /\ work' = PageSet
  /\ retrying' = FALSE

(* run_enrichment_if_enabled, up to the pages: pages in the queue that a   *)
(* hash file shows to be done are dropped from it.                         *)
EnrichAll ==
  /\ pending' = {p \in queue : page'[p] # hash[p]}
  /\ entries' = provenance
  /\ todo' = PageSet
  /\ work' = PageSet
  /\ retrying' = FALSE

(* run_enrichment_queue_only *)
EnrichQueue ==
  /\ pending' = queue
  /\ entries' = provenance
  /\ todo' = queue
  /\ work' = queue
  /\ retrying' = TRUE

Begin(c) ==
  /\ pc = "idle"
  /\ commands < MaxCommands
  /\ commands' = commands + 1
  /\ command' = c
  /\ failed' = {}
  /\ pc' = "page"
  /\ UNCHANGED <<hash, stored, queue, provenance, requestVars, deaths, payVars>>

(* The pages are generated again, from the same graph or another one. *)
Generate(changed) ==
  /\ Begin("generate")
  /\ \A p \in changed : page[p].version < MaxVersion
  /\ page' = [p \in PageSet |->
                Generated(page[p].version + (IF p \in changed THEN 1 ELSE 0))]
  /\ EnrichAll

EnrichOnly ==
  /\ Begin("enrich_only")
  /\ UNCHANGED page
  /\ EnrichAll

RetryQueue ==
  /\ queue # {}
  /\ Begin("retry_queue")
  /\ EnrichQueue
  /\ UNCHANGED page

-----------------------------------------------------------------------------
(* One page *)

NextPage ==
  /\ todo' = todo \ {Current}
  /\ pc' = "page"
  /\ UNCHANGED <<command, work, retrying>>

AtPage == pc = "page" /\ todo # {}

(* Cached, or too small: nothing is asked.  In a pass over the queue       *)
(* nobody looks at the hash, and a page that is too small is dropped.      *)
SkipPage ==
  /\ AtPage
  /\ (~retrying /\ is_cached(Current)) \/ size(Current) = "tiny"
  /\ NextPage
  /\ UNCHANGED <<diskVars, requestVars, listVars, countVars, payVars>>

TakePage ==
  /\ AtPage
  /\ retrying \/ ~is_cached(Current)
  /\ size(Current) # "tiny"
  /\ IF size(Current) = "large"
     THEN /\ pc' = "sections"
          /\ missing' = Sections
          /\ UNCHANGED body
     ELSE /\ pc' = "ask"
          /\ body' = Request("structured", Current)
          /\ UNCHANGED missing
  /\ answer' = None
  /\ UNCHANGED <<diskVars, listVars, countVars, payVars, command, work, todo, retrying>>

(* A language model's answer may be cut at its limit, which is said beside *)
(* the answer, or be beyond repair.  A freeform answer is good or poor.    *)
Texts(kind) == CASE kind = "structured" -> {"full", "cut", "unreadable"}
                 [] kind = "freeform"   -> {"free", "poor"}
                 [] OTHER               -> {"full", "unreadable"}

OnRequest(goTo) ==
  /\ pc' = goTo
  /\ UNCHANGED <<page, hash, queue, provenance, listVars, countVars,
                 command, work, todo, retrying>>

(* try_cached_llm_response: the text alone was kept. *)
Replay ==
  /\ pc = "ask"
  /\ \E s \in Kept(body) : answer' = [text |-> s.text, truncated |-> FALSE]
  /\ OnRequest("judge")
  /\ UNCHANGED <<stored, body, missing, payVars>>

Pay(b) ==
  /\ paid' = paid \union {b}
  /\ again' = again \union {q.kind : q \in {b} \intersect paid}

Ask ==
  /\ pc = "ask"
  /\ Kept(body) = {}
  /\ \E t \in Texts(body.kind) :
       answer' = [text |-> t, truncated |-> body.kind = "structured" /\ t = "cut"]
  /\ Pay(body)
  /\ OnRequest("store")
  /\ UNCHANGED <<stored, body, missing>>

(* All attempts failed, or the page would lose its tables or most of its   *)
(* text, or could not be written.                                          *)
Fail ==
  /\ \/ /\ pc = "ask" /\ Kept(body) = {}
        /\ body.kind \in {"structured", "freeform"}
     \/ /\ pc = "judge" /\ answer.text # "unreadable" /\ ~answer.truncated
        /\ body.kind \in {"structured", "freeform"}
     \/ pc = "sections" /\ missing = <<>>
  /\ OnRequest("failed")
  /\ UNCHANGED <<stored, requestVars, payVars>>

(* Mutant: answers in the fallback mode are not kept. *)
StoreStructured ==
  /\ pc = "store"
  /\ stored' = IF body.kind = "freeform" THEN stored
               ELSE stored \union {[body |-> body, text |-> answer.text]}
  /\ OnRequest("judge")
  /\ UNCHANGED <<requestVars, payVars>>

store_llm_response ==
  /\ pc = "store"
  /\ stored' = stored \union {[body |-> body, text |-> answer.text]}
  /\ OnRequest("judge")
  /\ UNCHANGED <<requestVars, payVars>>

WritePage(text) ==
  /\ page' = [page EXCEPT ![Current] = text]
  /\ UNCHANGED <<hash, stored, queue, provenance, requestVars, listVars,
                 countVars, command, work, todo, retrying>>

AfterEnrichment ==
  IF ~retrying /\ Current \in Critical THEN "review" ELSE "hash"

(* inject_enrichment: a cut text was repaired. *)
Inject ==
  /\ pc = "judge" /\ body.kind = "structured"
  /\ answer.text \in {"full", "cut"} /\ ~answer.truncated
  /\ WritePage(Passed(page[Current], answer.text))
  /\ pc' = AfterEnrichment
  /\ UNCHANGED payVars

RefuseTruncated ==
  /\ pc = "judge" /\ body.kind = "structured"
  /\ answer.truncated
  /\ OnRequest("failed")
  /\ UNCHANGED <<stored, requestVars, payVars>>

FallBack ==
  /\ pc = "judge" /\ body.kind = "structured"
  /\ answer.text = "unreadable"
  /\ body' = Request("freeform", Current)
  /\ OnRequest("ask")
  /\ UNCHANGED <<stored, answer, missing, payVars>>

(* enrich_page_freeform keeps the page rather than put a poor text there,  *)
(* and the page counts as enriched.                                        *)
TakeFreeform ==
  /\ pc = "judge" /\ body.kind = "freeform"
  /\ WritePage(IF answer.text = "free" THEN Passed(page[Current], "free")
               ELSE page[Current])
  /\ pc' = AfterEnrichment
  /\ UNCHANGED payVars

(* enrich_page_sectioned: one request after the other; a section that      *)
(* cannot be had is left out.                                              *)
AskSection ==
  /\ pc = "sections" /\ missing # <<>>
  /\ body' = Request(Head(missing), Current)
  /\ missing' = Tail(missing)
  /\ OnRequest("ask")
  /\ UNCHANGED <<stored, answer, payVars>>

SkipSection ==
  /\ pc = "ask" /\ body.kind \in ToSet(Sections)
  /\ Kept(body) = {}
  /\ OnRequest("sections")
  /\ UNCHANGED <<stored, requestVars, payVars>>

TakeSection ==
  /\ pc = "judge" /\ body.kind \in ToSet(Sections)
  /\ OnRequest("sections")
  /\ UNCHANGED <<stored, requestVars, payVars>>

InjectSections ==
  /\ pc = "sections" /\ missing = <<>>
  /\ LET whole == \A s \in ToSet(Sections) :
           [body |-> Request(s, Current), text |-> "full"] \in stored
     IN  WritePage(Passed(page[Current], IF whole THEN "full" ELSE "cut"))
  /\ pc' = AfterEnrichment
  /\ UNCHANGED payVars

(* review_enriched_page: a request of its own, for which no answer is      *)
(* looked up and whose answer is not kept.  What goes wrong, with or       *)
(* without an answer, leaves the page as it is.                            *)
Review ==
  /\ pc = "review"
  /\ \/ /\ Pay(Request("review", Current))
        /\ WritePage(Passed(page[Current], "review"))
     \/ /\ Pay(Request("review", Current)) \/ UNCHANGED payVars
        /\ WritePage(page[Current])
  /\ pc' = "hash"

(* Mutant: the hash is of the page before the review. *)
HashBeforeReview ==
  /\ pc = "hash"
  /\ LET text == page[Current]
         n    == Len(text.passes)
     IN  hash' = [hash EXCEPT ![Current] =
           IF n > 0 /\ text.passes[n] = "review"
           THEN [text EXCEPT !.passes = SubSeq(@, 1, n - 1)] ELSE text]
  /\ entries' = entries \union {Current}
  /\ pending' = IF retrying THEN pending ELSE pending \ {Current}
  /\ NextPage
  /\ UNCHANGED <<page, stored, queue, provenance, failed, requestVars, countVars, payVars>>

(* The page is done.  The queue of a pass over it is replaced at its end. *)
WriteHash ==
  /\ pc = "hash"
  /\ hash' = [hash EXCEPT ![Current] = page[Current]]
  /\ entries' = entries \union {Current}
  /\ pending' = IF retrying THEN pending ELSE pending \ {Current}
  /\ NextPage
  /\ UNCHANGED <<page, stored, queue, provenance, failed, requestVars, countVars, payVars>>

PageFailed ==
  /\ pc = "failed"
  /\ IF retrying THEN failed' = failed \union {Current} /\ UNCHANGED pending
     ELSE pending' = pending \union {Current} /\ UNCHANGED failed
  /\ NextPage
  /\ UNCHANGED <<diskVars, entries, requestVars, countVars, payVars>>

-----------------------------------------------------------------------------
(* The end of a command *)

(* The deferred pass over the queue. *)
RetryPages ==
  /\ pc = "page" /\ todo = {} /\ ~retrying /\ pending # {}
  /\ retrying' = TRUE
  /\ todo' = pending
  /\ UNCHANGED <<diskVars, requestVars, listVars, countVars, payVars, command, work, pc>>

(* Mutant: what failed again is not kept. *)
EndPassEmpty ==
  /\ pc = "page" /\ todo = {}
  /\ retrying \/ pending = {}
  /\ pending' = {}
  /\ pc' = IF command = "retry_queue" THEN "saveProvenance" ELSE "saveQueue"
  /\ UNCHANGED <<diskVars, requestVars, failed, entries, countVars, payVars,
                 command, work, todo, retrying>>

EndPass ==
  /\ pc = "page" /\ todo = {}
  /\ retrying \/ pending = {}
  /\ pending' = failed
  /\ pc' = IF command = "retry_queue" THEN "saveProvenance" ELSE "saveQueue"
  /\ UNCHANGED <<diskVars, requestVars, failed, entries, countVars, payVars,
                 command, work, todo, retrying>>

SaveQueue ==
  /\ pc = "saveQueue"
  /\ queue' = pending
  /\ pc' = IF command = "retry_queue" THEN "link" ELSE "saveProvenance"
  /\ UNCHANGED <<page, hash, stored, provenance, requestVars, listVars, countVars,
                 payVars, command, work, todo, retrying>>

SaveProvenance ==
  /\ pc = "saveProvenance"
  /\ provenance' = entries
  /\ pc' = IF command = "retry_queue" THEN "saveQueue" ELSE "link"
  /\ UNCHANGED <<page, hash, stored, queue, requestVars, listVars, countVars,
                 payVars, command, work, todo, retrying>>

Stop ==
  /\ pc' = "idle"
  /\ command' = None /\ work' = {} /\ todo' = {} /\ retrying' = FALSE
  /\ pending' = {} /\ failed' = {} /\ entries' = {}
  /\ body' = None /\ answer' = None /\ missing' = <<>>

(* apply_cross_references: a name is linked where it occurs first, once. *)
apply_cross_references ==
  /\ pc = "link"
  /\ page' = [p \in PageSet |-> IF p \in Linked THEN WithLinks(page[p]) ELSE page[p]]
  /\ Stop
  /\ UNCHANGED <<hash, stored, queue, provenance, commands, deaths, payVars>>

(* Answers, queue and provenance are written in place: half an answer is   *)
(* repaired when it is read, half of the other two is read as nothing.  An *)
(* answer that was paid for and is lost may be paid for again.             *)
Die ==
  /\ pc # "idle"
  /\ deaths < MaxDeaths
  /\ deaths' = deaths + 1
  /\ \/ UNCHANGED <<stored, queue, provenance>>
     \/ /\ pc = "store" /\ body.kind = "structured"
        /\ stored' = stored \union {[body |-> body, text |-> "cut"]}
        /\ UNCHANGED <<queue, provenance>>
     \/ pc = "saveQueue" /\ queue' = {} /\ UNCHANGED <<stored, provenance>>
     \/ pc = "saveProvenance" /\ provenance' = {} /\ UNCHANGED <<stored, queue>>
  /\ paid' = IF pc = "store" THEN paid \ {body} ELSE paid
  /\ Stop
  /\ UNCHANGED <<page, hash, commands, again>>

PageStep ==
  \/ SkipPage
  \/ TakePage
  \/ Replay
  \/ Ask
  \/ Fail
  \/ store_llm_response
  \/ Inject
  \/ RefuseTruncated
  \/ FallBack
  \/ TakeFreeform
  \/ AskSection
  \/ SkipSection
  \/ TakeSection
  \/ InjectSections
  \/ Review
  \/ WriteHash
  \/ PageFailed

Next ==
  \/ \E changed \in SUBSET PageSet : Generate(changed)
  \/ EnrichOnly
  \/ RetryQueue
  \/ PageStep
  \/ RetryPages
  \/ EndPass
  \/ SaveQueue
  \/ SaveProvenance
  \/ apply_cross_references
  \/ Die

Spec == Init /\ [][Next]_vars

-----------------------------------------------------------------------------
(* A command that comes to its end has accounted for every page it was to  *)
(* do: it is too small, it is done and marked as done, or it is in the     *)
(* queue on disk for the next command.                                     *)
PagesAccountedFor ==
  pc = "link" => \A p \in work : size(p) = "tiny" \/ is_cached(p) \/ p \in queue

(* As long as no command died, each page that is marked as done has its    *)
(* sources recorded, through whichever pass or command it was done.        *)
ProvenanceKept ==
  (pc = "idle" /\ deaths = 0) => \A p \in PageSet : hash[p] # None => p \in provenance

(* No request for a page or a section is paid for twice: not after a       *)
(* failure later on, a death, or when the pages are generated again,       *)
(* unless its answer was lost.  Reviews are excepted.                      *)
PaidOnce == again \subseteq {"review"}

(* An enriched page is not enriched once more on top, except that the      *)
(* cross-references have changed it, or that a command died before it had  *)
(* marked it.                                                              *)
EnrichedAgainOnlyIfLinked ==
  (pc = "ask" /\ body.kind # "freeform" /\ body.text.passes # <<>>) =>
    Current \in Linked \/ deaths > 0

(* "The page cache hash is deliberately NOT written" for a truncated       *)
(* answer, so that a later run produces "a complete, non-truncated         *)
(* result": a page of one request that is marked as done is not a          *)
(* truncated one.                                                          *)
MarkedPagesAreComplete ==
  \A p \in PageSet :
    (hash[p] # None /\ Size[p][hash[p].version] = "normal" /\ deaths = 0) =>
      "cut" \notin ToSet(hash[p].passes)

=============================================================================
