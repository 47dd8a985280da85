-------------------------- MODULE EnrichmentProofs --------------------------
(***************************************************************************)
(* Proofs about Enrichment, for any pages, sections, profile and number of *)
(* commands and deaths: no page is lost from the books, no answer that is  *)
(* kept is paid for twice, no source of a page is forgotten, and no page   *)
(* is enriched on top of its own enrichment.                               *)
(***************************************************************************)
EXTENDS Enrichment, WellFoundedInduction, TLAPS

Asking    == {"sections", "ask", "store", "judge", "failed"}
Writing   == {"review", "hash"}
PageSteps == {"page"} \union Asking \union Writing

Pass == {"full", "cut", "free", "review"}
Text == [version : Nat, passes : Seq(Pass), linked : BOOLEAN]

(* The pages a command deals with are pages, and it is at one of them. *)
PagesInv ==
  /\ page \in [PageSet -> Text]
  /\ hash \in [PageSet -> Text \union {None}]
  /\ queue \subseteq PageSet /\ pending \subseteq PageSet /\ failed \subseteq PageSet
  /\ work \subseteq PageSet /\ todo \subseteq PageSet
  /\ pc \in PageSteps \union {"idle", "saveQueue", "saveProvenance", "link"}
  /\ pc \in Asking \union Writing => todo # {}
  /\ deaths \in Nat

-----------------------------------------------------------------------------
(* An answer that was paid for is kept, or about to be, or a review's. *)
PaidInv ==
  /\ again \subseteq {"review"}
  /\ \A b \in paid : Kept(b) # {} \/ (pc = "store" /\ b = body) \/ b.kind = "review"

Marked == {p \in PageSet : hash[p] # None}

(* retry_queue saves the provenance first, the other commands save it last. *)
ProvenanceSaved ==
  pc \in {"idle", "link"} \/ (pc = "saveQueue" /\ command = "retry_queue")

(* What is marked as done is in the provenance on disk, or in the one that *)
(* is going to replace it.                                                 *)
ProvenanceInv ==
  deaths = 0 => Marked \subseteq (IF ProvenanceSaved THEN provenance ELSE entries)

Done(p) == size(p) = "tiny" \/ is_cached(p)

QueueSaved ==
  pc \in {"idle", "link"} \/ (pc = "saveProvenance" /\ command # "retry_queue")

(* Each page a command is to do is still to come, done, or in the list     *)
(* that becomes the queue.                                                 *)
Accounted(p) ==
  /\ pc \in PageSteps => p \in todo \/ Done(p) \/ p \in (IF retrying THEN failed ELSE pending)
  /\ pc \in {"saveQueue", "saveProvenance", "link"} =>
       Done(p) \/ p \in (IF QueueSaved THEN queue ELSE pending)

AccountInv == \A p \in work : Accounted(p)

(* The lists are disjoint, and a request is made for the page as it is. *)
PassInv ==
  /\ ~retrying => failed = {}
  /\ pc \in PageSteps => failed \intersect todo = {}
  /\ pc \in {"ask", "store", "judge"} => body.text = page[Current]

Untouched(p) == page[p].passes = <<>>

BeingMarked(p) == pc \in Writing /\ p = Current

(* As long as no command died: a page that is enriched is marked with what *)
(* it has become, and one that waits for another attempt is as generated.  *)
AsGenerated(p) ==
  /\ Untouched(p) \/ is_cached(p) \/ BeingMarked(p)
  /\ QueueSaved /\ p \in queue => Untouched(p)
  /\ pc \in {"saveQueue", "saveProvenance"} /\ ~QueueSaved /\ p \in pending => Untouched(p)
  /\ pc \in PageSteps /\ ~retrying /\ p \in pending => Untouched(p) \/ BeingMarked(p)
  /\ pc \in PageSteps /\ retrying /\ p \in todo => Untouched(p) \/ BeingMarked(p)
  /\ pc \in PageSteps /\ p \in failed => Untouched(p)
  /\ pc \in Asking /\ p = Current => Untouched(p)

EnrichedInv == deaths = 0 => \A p \in PageSet \ Linked : AsGenerated(p)

-----------------------------------------------------------------------------
(* The page a command is at, and what the steps change. *)

(* While there are pages to do, the current page is one of them. *)
LEMMA CurrentIsToDo ==
  ASSUME todo \subseteq PageSet, todo # {}
  PROVE  Current \in todo
<1>. DEFINE At == {i \in DOMAIN Pages : Pages[i] \in todo}
<1>1. At \subseteq Nat /\ DOMAIN Pages = 1 .. Len(Pages) /\ Len(Pages) \in Nat
  BY EnrichmentAssumption
<1>2. At # {}
  BY DEF PageSet, ToSet
<1>3. PICK i \in At : \A j \in At : ~ (<<j, i>> \in OpToRel(<, Nat))
  <2>. HIDE DEF At
  <2>. QED  BY <1>1, <1>2, NatLessThanWellFounded, WFMin
<1>4. \A j \in At : ~ (j < i)
  BY <1>1, <1>3 DEF OpToRel
<1>5. \A j \in 1 .. i - 1 : Pages[j] \notin todo
  BY <1>1, <1>4
<1>. QED  BY <1>3, <1>5 DEF Current

LEMMA SameCurrent == UNCHANGED todo => UNCHANGED Current
BY DEF Current

(* The steps between the taking of a page and its answer. *)
RequestStep ==
  \/ Replay
  \/ Ask
  \/ Fail
  \/ store_llm_response
  \/ RefuseTruncated
  \/ FallBack
  \/ AskSection
  \/ SkipSection
  \/ TakeSection

(* The steps that write the page. *)
WriteStep == Inject \/ TakeFreeform \/ InjectSections \/ Review

Unlisted == <<hash, queue, provenance, listVars, countVars, command, work, todo, retrying>>

LEMMA RequestShape ==
  ASSUME PagesInv, RequestStep
  PROVE  /\ pc \in Asking /\ pc' \in Asking
         /\ UNCHANGED <<page, Unlisted>>
BY DEF RequestStep, Replay, Ask, Fail, store_llm_response, RefuseTruncated, FallBack, AskSection,
       SkipSection, TakeSection, OnRequest, Asking, Unlisted

LEMMA WriteShape ==
  ASSUME PagesInv, WriteStep
  PROVE  /\ pc \in Asking \union Writing /\ pc' \in Writing
         /\ page' = [page EXCEPT ![Current] = page'[Current]]
         /\ page'[Current] \in Text
         /\ UNCHANGED <<Unlisted, stored, requestVars>>
<1>1. pc \in Asking \union Writing
  BY DEF WriteStep, Inject, TakeFreeform, InjectSections, Review, Asking, Writing
<1>2. page[Current] \in Text
  BY <1>1, CurrentIsToDo DEF PagesInv
<1>3. \A pass \in Pass : Passed(page[Current], pass) \in Text
  <2>1. \A pass \in Pass : Append(page[Current].passes, pass) \in Seq(Pass)
    BY <1>2 DEF Text
  <2>. QED  BY <1>2, <2>1 DEF Text, Passed
<1>4. AfterEnrichment \in Writing /\ "hash" \in Writing
  BY DEF AfterEnrichment, Writing
<1>5. pc' \in Writing
  BY <1>4 DEF WriteStep, Inject, TakeFreeform, InjectSections, Review
<1>6. ASSUME NEW text \in Text, WritePage(text)
      PROVE  page' = [page EXCEPT ![Current] = page'[Current]] /\ page'[Current] \in Text
  BY <1>1, <1>6, CurrentIsToDo DEF PagesInv, WritePage
<1>8. page' = [page EXCEPT ![Current] = page'[Current]] /\ page'[Current] \in Text
  <2>1. CASE Inject
    <3>1. Passed(page[Current], answer.text) \in Text
      BY <2>1, <1>3 DEF Inject, Pass
    <3>. QED  BY <2>1, <3>1, <1>6 DEF Inject
  <2>2. CASE TakeFreeform
    <3>1. (IF answer.text = "free" THEN Passed(page[Current], "free") ELSE page[Current]) \in Text
      BY <1>2, <1>3 DEF Pass
    <3>. QED  BY <2>2, <3>1, <1>6 DEF TakeFreeform
  <2>3. CASE InjectSections
    <3>1. PICK pass \in {"full", "cut"} : WritePage(Passed(page[Current], pass))
      BY <2>3 DEF InjectSections
    <3>2. Passed(page[Current], pass) \in Text
      BY <3>1, <1>3 DEF Pass
    <3>. QED  BY <3>1, <3>2, <1>6
  <2>4. CASE Review
    BY <2>4, <1>2, <1>3, <1>6 DEF Review, Pass
  <2>. QED  BY <2>1, <2>2, <2>3, <2>4 DEF WriteStep
<1>7. UNCHANGED <<Unlisted, stored, requestVars>>
  BY DEF WriteStep, Inject, TakeFreeform, InjectSections, Review, WritePage, Unlisted
<1>. QED  BY <1>1, <1>5, <1>7, <1>8

LEMMA BeginShape ==
  ASSUME PagesInv, (\E changed \in SUBSET PageSet : Generate(changed)) \/ EnrichOnly \/ RetryQueue
  PROVE  /\ pc = "idle" /\ pc' = "page"
         /\ failed' = {}
         /\ UNCHANGED <<hash, stored, queue, provenance, requestVars, deaths, payVars>>
         /\ entries' = provenance
BY DEF Generate, EnrichOnly, RetryQueue, Begin, EnrichAll, EnrichQueue

-----------------------------------------------------------------------------
(* Types. *)

LEMMA InitPages == Init => PagesInv
<1>1. Generated(1) \in Text
  BY DEF Generated, Text
<1>2. Init => page \in [PageSet -> Text] /\ hash \in [PageSet -> Text \union {None}]
  BY <1>1 DEF Init
<1>3. Init => pc = "idle" /\ pc \notin Asking \union Writing
  BY DEF Init, Asking, Writing
<1>4. Init => /\ queue \subseteq PageSet /\ pending \subseteq PageSet /\ failed \subseteq PageSet
              /\ work \subseteq PageSet /\ todo \subseteq PageSet
  BY DEF Init
<1>. QED  BY <1>2, <1>3, <1>4 DEF Init, PagesInv

LEMMA PagesStep ==
  ASSUME PagesInv, [Next]_vars
  PROVE  PagesInv'
<1>0. CASE UNCHANGED vars
  BY <1>0 DEF PagesInv, vars, diskVars, listVars, runVars, countVars
<1>1. CASE (\E changed \in SUBSET PageSet : Generate(changed)) \/ EnrichOnly \/ RetryQueue
  <2>1. page' \in [PageSet -> Text]
    <3>1. ASSUME NEW changed \in SUBSET PageSet, Generate(changed)
          PROVE  page' \in [PageSet -> Text]
      <4>1. \A p \in PageSet : page[p].version + (IF p \in changed THEN 1 ELSE 0) \in Nat
        BY DEF PagesInv, Text
      <4>2. \A version \in Nat : Generated(version) \in Text
        BY DEF Generated, Text
      <4>. QED  BY <3>1, <4>1, <4>2 DEF Generate
    <3>. QED  BY <1>1, <3>1 DEF EnrichOnly, RetryQueue, PagesInv
  <2>2. /\ pending' \subseteq queue
        /\ work' \subseteq PageSet /\ todo' \subseteq PageSet
    BY <1>1 DEF Generate, EnrichOnly, RetryQueue, EnrichAll, EnrichQueue, PagesInv
  <2>. QED  BY <1>1, <2>1, <2>2, BeginShape DEF PagesInv, PageSteps, Asking, Writing
<1>2. CASE RequestStep
  BY <1>2, RequestShape DEF PagesInv, PageSteps, Unlisted, listVars, countVars
<1>3. CASE WriteStep
  BY <1>3, WriteShape DEF PagesInv, PageSteps, Unlisted, listVars, countVars
<1>4. CASE SkipPage
  BY <1>4 DEF SkipPage, NextPage, PagesInv, PageSteps, Asking, Writing, diskVars, listVars, countVars
<1>5. CASE TakePage
  <2>1. pc' \in Asking
    BY <1>5 DEF TakePage, Asking
  <2>. QED  BY <1>5, <2>1 DEF TakePage, AtPage, PagesInv, PageSteps, diskVars, listVars, countVars
<1>6. CASE WriteHash
  <2>1. Current \in PageSet
    BY <1>6, CurrentIsToDo DEF WriteHash, PagesInv, Writing
  <2>2. page[Current] \in Text
    BY <2>1 DEF PagesInv
  <2>. QED  BY <1>6, <2>1, <2>2 DEF WriteHash, NextPage, PagesInv, PageSteps, Asking, Writing, countVars
<1>7. CASE PageFailed
  <2>1. Current \in PageSet
    BY <1>7, CurrentIsToDo DEF PageFailed, PagesInv, Asking
  <2>. QED  BY <1>7, <2>1 DEF PageFailed, NextPage, PagesInv, PageSteps, Asking, Writing, diskVars, countVars
<1>8. CASE RetryPages \/ EndPass
  BY <1>8 DEF RetryPages, EndPass, PagesInv, PageSteps, Asking, Writing, diskVars, listVars, countVars
<1>9. CASE SaveQueue \/ SaveProvenance
  BY <1>9 DEF SaveQueue, SaveProvenance, PagesInv, PageSteps, Asking, Writing, listVars, countVars
<1>10. CASE apply_cross_references
  <2>1. \A p \in PageSet : WithLinks(page[p]) \in Text
    BY DEF PagesInv, Text, WithLinks
  <2>2. page' \in [PageSet -> Text]
    BY <1>10, <2>1 DEF apply_cross_references, PagesInv
  <2>3. pc' = "idle" /\ "idle" \notin Asking \union Writing
    BY <1>10 DEF apply_cross_references, Stop, Asking, Writing
  <2>. QED  BY <1>10, <2>2, <2>3 DEF apply_cross_references, Stop, PagesInv
<1>11. CASE Die
  BY <1>11 DEF Die, Stop, PagesInv, PageSteps, Asking, Writing
<1>. QED
  BY <1>0, <1>1, <1>2, <1>3, <1>4, <1>5, <1>6, <1>7, <1>8, <1>9, <1>10, <1>11
  DEF Next, PageStep, RequestStep, WriteStep

-----------------------------------------------------------------------------
(* Payments. *)

LEMMA PaidStep ==
  ASSUME PaidInv, [Next]_vars
  PROVE  PaidInv'
<1>. USE DEF PaidInv, Kept
<1>0. CASE UNCHANGED vars
  BY <1>0 DEF vars, diskVars, requestVars, runVars, payVars
<1>1. CASE Ask
  BY <1>1 DEF Ask, Pay, OnRequest
<1>2. CASE store_llm_response
  <2>1. [body |-> body, text |-> answer.text] \in stored' /\ stored \subseteq stored'
    BY <1>2 DEF store_llm_response
  <2>2. UNCHANGED payVars
    BY <1>2 DEF store_llm_response
  <2>3. ASSUME NEW b \in paid, b.kind # "review"
        PROVE  {s \in stored' : s.body = b} # {}
    <3>1. CASE b = body
      BY <2>1, <3>1
    <3>2. CASE b # body
      BY <2>1, <2>3, <3>2
    <3>. QED  BY <3>1, <3>2
  <2>. QED  BY <2>2, <2>3 DEF payVars
<1>3. CASE Die
  <2>1. stored \subseteq stored'
    BY <1>3 DEF Die
  <2>. QED  BY <1>3, <2>1 DEF Die
<1>4. ASSUME UNCHANGED <<stored, payVars>>, pc # "store"
      PROVE  PaidInv'
  BY <1>4 DEF payVars
<1>5. CASE (\E changed \in SUBSET PageSet : Generate(changed)) \/ EnrichOnly \/ RetryQueue
  BY <1>4, <1>5 DEF Generate, EnrichOnly, RetryQueue, Begin
<1>6. CASE Replay \/ Fail \/ RefuseTruncated \/ FallBack \/ AskSection \/ SkipSection \/ TakeSection
  BY <1>4, <1>6 DEF Replay, Fail, RefuseTruncated, FallBack, AskSection, SkipSection, TakeSection
<1>7. CASE Inject \/ TakeFreeform \/ InjectSections
  BY <1>4, <1>7 DEF Inject, TakeFreeform, InjectSections, WritePage
<1>10. CASE Review
  <2>1. pc # "store" /\ UNCHANGED stored
    BY <1>10 DEF Review, WritePage
  <2>2. Request("review", Current).kind = "review"
    BY DEF Request
  <2>3. CASE Pay(Request("review", Current))
    BY <2>1, <2>2, <2>3 DEF Pay
  <2>4. CASE UNCHANGED payVars
    BY <1>4, <2>1, <2>4
  <2>. QED  BY <1>10, <2>3, <2>4 DEF Review
<1>8. CASE SkipPage \/ TakePage \/ WriteHash \/ PageFailed
  BY <1>4, <1>8 DEF SkipPage, TakePage, AtPage, WriteHash, PageFailed, diskVars
<1>9. CASE RetryPages \/ EndPass \/ SaveQueue \/ SaveProvenance \/ apply_cross_references
  BY <1>4, <1>9 DEF RetryPages, EndPass, SaveQueue, SaveProvenance, apply_cross_references, diskVars
<1>. QED
  BY <1>0, <1>1, <1>2, <1>3, <1>5, <1>6, <1>7, <1>8, <1>9, <1>10 DEF Next, PageStep

(* No request but that of a review is paid for twice, unless its answer    *)
(* was lost.                                                               *)
THEOREM KeptAnswersPaidOnce == Spec => []PaidOnce
<1>1. Init => PaidInv
  BY DEF Init, PaidInv
<1>2. PaidInv => PaidOnce
  BY DEF PaidInv, PaidOnce
<1>. QED  BY <1>1, <1>2, PaidStep, PTL DEF Spec

-----------------------------------------------------------------------------
(* Provenance. *)

(* Only WriteHash marks a page, and it adds the page to the entries; only  *)
(* SaveProvenance puts the entries on disk.                                *)
LEMMA ProvenanceStep ==
  ASSUME PagesInv, ProvenanceInv, [Next]_vars
  PROVE  ProvenanceInv'
<1>. USE DEF ProvenanceInv, ProvenanceSaved, Marked
<1>0. CASE UNCHANGED vars
  BY <1>0 DEF vars, diskVars, listVars, runVars, countVars
<1>1. CASE (\E changed \in SUBSET PageSet : Generate(changed)) \/ EnrichOnly \/ RetryQueue
  BY <1>1, BeginShape
<1>2. CASE RequestStep
  BY <1>2, RequestShape DEF Unlisted, listVars, countVars, Asking
<1>3. CASE WriteStep
  BY <1>3, WriteShape DEF Unlisted, listVars, countVars, Asking, Writing
<1>4. CASE SkipPage
  BY <1>4 DEF SkipPage, AtPage, NextPage, diskVars, listVars, countVars
<1>5. CASE TakePage
  BY <1>5 DEF TakePage, AtPage, diskVars, listVars, countVars
<1>6. CASE WriteHash
  <2>1. Marked' \subseteq Marked \union {Current}
    BY <1>6 DEF WriteHash, PagesInv
  <2>2. ~ProvenanceSaved /\ ~ProvenanceSaved'
    BY <1>6 DEF WriteHash, NextPage
  <2>. QED  BY <1>6, <2>1, <2>2 DEF WriteHash, countVars
<1>7. CASE PageFailed
  BY <1>7 DEF PageFailed, NextPage, diskVars, countVars
<1>8. CASE RetryPages \/ EndPass
  BY <1>8 DEF RetryPages, EndPass, diskVars, listVars, countVars
<1>9. CASE SaveQueue
  BY <1>9 DEF SaveQueue, listVars, countVars
<1>10. CASE SaveProvenance
  BY <1>10 DEF SaveProvenance, listVars, countVars
<1>11. CASE apply_cross_references
  BY <1>11 DEF apply_cross_references, Stop
<1>12. CASE Die
  BY <1>12 DEF Die, PagesInv
<1>. QED
  BY <1>0, <1>1, <1>2, <1>3, <1>4, <1>5, <1>6, <1>7, <1>8, <1>9, <1>10, <1>11, <1>12
  DEF Next, PageStep, RequestStep, WriteStep

(* As long as no command died, every page that is marked as done has its   *)
(* sources recorded.                                                       *)
THEOREM SourcesRecorded == Spec => []ProvenanceKept
<1>1. Init => PagesInv /\ ProvenanceInv
  BY InitPages DEF Init, ProvenanceInv, Marked
<1>2. PagesInv /\ ProvenanceInv /\ [Next]_vars => (PagesInv /\ ProvenanceInv)'
  BY PagesStep, ProvenanceStep
<1>3. ProvenanceInv => ProvenanceKept
  BY DEF ProvenanceInv, ProvenanceSaved, Marked, ProvenanceKept
<1>. QED  BY <1>1, <1>2, <1>3, PTL DEF Spec

-----------------------------------------------------------------------------
(* Accounts. *)

LEMMA SameDone ==
  ASSUME NEW p, page'[p] = page[p], hash'[p] = hash[p]
  PROVE  Done(p)' <=> Done(p)
BY DEF Done, size, is_cached

(* Every page a command is to do stays accounted for. *)
LEMMA AccountStep ==
  ASSUME PagesInv, AccountInv, [Next]_vars
  PROVE  AccountInv'
<1>1. CASE (\E changed \in SUBSET PageSet : Generate(changed)) \/ EnrichOnly \/ RetryQueue
  <2>1. pc' = "page" /\ todo' = work'
    BY <1>1 DEF Generate, EnrichOnly, RetryQueue, Begin, EnrichAll, EnrichQueue
  <2>. QED  BY <2>1 DEF AccountInv, Accounted
<1>2. CASE apply_cross_references \/ Die
  <2>1. work' = {}
    BY <1>2 DEF apply_cross_references, Die, Stop
  <2>. QED  BY <2>1 DEF AccountInv
<1>3. ASSUME work' = work, NEW p \in work,
             RequestStep \/ WriteStep \/ SkipPage \/ TakePage \/ WriteHash \/ PageFailed
      PROVE  Accounted(p)'
  <2>0. Accounted(p) /\ p \in PageSet
    BY DEF AccountInv, PagesInv
  <2>. USE DEF Accounted
  <2>1. CASE RequestStep
    BY <2>0, <2>1, RequestShape, SameDone DEF Unlisted, listVars, PageSteps, Asking
  <2>2. CASE WriteStep
    <3>1. CASE p = Current
      <4>1. p \in todo
        BY <2>2, <3>1, WriteShape, CurrentIsToDo DEF PagesInv
      <4>. QED  BY <2>2, <4>1, WriteShape DEF Unlisted, Writing
    <3>2. CASE p # Current
      <4>1. page'[p] = page[p]
        BY <2>0, <2>2, <3>2, WriteShape DEF PagesInv
      <4>. QED
        BY <2>0, <2>2, <4>1, WriteShape, SameDone DEF Unlisted, listVars, PageSteps, Asking, Writing
    <3>. QED  BY <3>1, <3>2
  <2>3. CASE SkipPage
    <3>1. p = Current => Done(p)
      BY <2>3 DEF SkipPage, Done
    <3>. QED
      BY <2>0, <2>3, <3>1, SameDone DEF SkipPage, AtPage, NextPage, diskVars, listVars, PageSteps
  <2>4. CASE TakePage
    BY <2>0, <2>4, SameDone DEF TakePage, AtPage, diskVars, listVars, PageSteps, Asking
  <2>5. CASE WriteHash
    <3>1. CASE p = Current
      <4>1. Done(p)'
        BY <2>0, <2>5, <3>1 DEF WriteHash, PagesInv, Done, is_cached
      <4>. QED  BY <2>5, <4>1 DEF WriteHash, NextPage
    <3>2. CASE p # Current
      <4>1. page'[p] = page[p] /\ hash'[p] = hash[p]
        BY <2>0, <2>5, <3>2 DEF WriteHash, PagesInv
      <4>. QED
        BY <2>0, <2>5, <3>2, <4>1, SameDone DEF WriteHash, NextPage, PageSteps, Writing
    <3>. QED  BY <3>1, <3>2
  <2>6. CASE PageFailed
    BY <2>0, <2>6, SameDone DEF PageFailed, NextPage, diskVars, PageSteps, Asking
  <2>. QED  BY <1>3, <2>1, <2>2, <2>3, <2>4, <2>5, <2>6
<1>4. ASSUME work' = work, NEW p \in work,
             RetryPages \/ EndPass \/ SaveQueue \/ SaveProvenance \/ UNCHANGED vars
      PROVE  Accounted(p)'
  <2>0. Accounted(p) /\ p \in PageSet
    BY DEF AccountInv, PagesInv
  <2>1. Done(p)' <=> Done(p)
    BY <1>4, SameDone DEF RetryPages, EndPass, SaveQueue, SaveProvenance, vars, diskVars
  <2>. USE DEF Accounted, QueueSaved, PageSteps, Asking, Writing
  <2>2. CASE RetryPages
    BY <2>0, <2>1, <2>2 DEF RetryPages
  <2>3. CASE EndPass
    BY <2>0, <2>1, <2>3 DEF EndPass
  <2>4. CASE SaveQueue
    BY <2>0, <2>1, <2>4 DEF SaveQueue
  <2>5. CASE SaveProvenance
    BY <2>0, <2>1, <2>5 DEF SaveProvenance, listVars
  <2>6. CASE UNCHANGED vars
    BY <2>0, <2>1, <2>6 DEF vars, diskVars, listVars, runVars
  <2>. QED  BY <1>4, <2>2, <2>3, <2>4, <2>5, <2>6
<1>5. ASSUME \/ RequestStep \/ WriteStep \/ SkipPage \/ TakePage \/ WriteHash \/ PageFailed
             \/ RetryPages \/ EndPass \/ SaveQueue \/ SaveProvenance \/ UNCHANGED vars
      PROVE  work' = work
  <2>1. CASE RequestStep \/ WriteStep
    BY <2>1, RequestShape, WriteShape DEF Unlisted
  <2>. QED
    BY <1>5, <2>1 DEF SkipPage, TakePage, WriteHash, PageFailed, NextPage, RetryPages, EndPass,
                      SaveQueue, SaveProvenance, vars, runVars
<1>. QED
  BY <1>1, <1>2, <1>3, <1>4, <1>5 DEF AccountInv, Next, PageStep, RequestStep, WriteStep

(* A command that comes to its end has accounted for each of its pages. *)
THEOREM NoPageForgotten == Spec => []PagesAccountedFor
<1>1. Init => PagesInv /\ AccountInv
  BY InitPages DEF Init, AccountInv
<1>2. PagesInv /\ AccountInv /\ [Next]_vars => (PagesInv /\ AccountInv)'
  BY PagesStep, AccountStep
<1>3. AccountInv => PagesAccountedFor
  BY DEF AccountInv, Accounted, QueueSaved, Done, PagesAccountedFor
<1>. QED  BY <1>1, <1>2, <1>3, PTL DEF Spec

-----------------------------------------------------------------------------
(* One pass over a page. *)

(* The lists of a pass stay apart, and a request is about the page as it   *)
(* is.                                                                     *)
LEMMA PassStep ==
  ASSUME PagesInv, PassInv, [Next]_vars
  PROVE  PassInv'
<1>. USE DEF PassInv
<1>0. CASE UNCHANGED vars
  BY <1>0, SameCurrent DEF vars, diskVars, requestVars, listVars, runVars
<1>1. CASE (\E changed \in SUBSET PageSet : Generate(changed)) \/ EnrichOnly \/ RetryQueue
  BY <1>1, BeginShape
<1>2. CASE RequestStep
  <2>1. pc' \in {"ask", "store", "judge"} => body'.text = page[Current]
    BY <1>2 DEF RequestStep, Replay, Ask, Fail, store_llm_response, RefuseTruncated, FallBack,
                AskSection, SkipSection, TakeSection, OnRequest, Request, requestVars
  <2>. QED
    BY <1>2, <2>1, RequestShape, SameCurrent DEF Unlisted, listVars, PageSteps, Asking
<1>3. CASE WriteStep
  BY <1>3, WriteShape DEF Unlisted, listVars, PageSteps, Asking, Writing
<1>4. CASE SkipPage
  BY <1>4 DEF SkipPage, AtPage, NextPage, listVars, PageSteps
<1>5. CASE TakePage
  BY <1>5, SameCurrent DEF TakePage, AtPage, Request, diskVars, listVars, PageSteps
<1>6. CASE WriteHash
  BY <1>6 DEF WriteHash, NextPage, PageSteps, Writing
<1>7. CASE PageFailed
  BY <1>7 DEF PageFailed, NextPage, PageSteps, Asking
<1>8. CASE RetryPages
  BY <1>8 DEF RetryPages, listVars
<1>9. CASE EndPass \/ SaveQueue \/ SaveProvenance
  BY <1>9 DEF EndPass, SaveQueue, SaveProvenance, listVars, PageSteps, Asking, Writing
<1>10. CASE apply_cross_references \/ Die
  BY <1>10 DEF apply_cross_references, Die, Stop, PageSteps, Asking, Writing
<1>. QED
  BY <1>0, <1>1, <1>2, <1>3, <1>4, <1>5, <1>6, <1>7, <1>8, <1>9, <1>10
  DEF Next, PageStep, RequestStep, WriteStep

LEMMA SameText ==
  ASSUME NEW p, page'[p] = page[p]
  PROVE  Untouched(p)' <=> Untouched(p)
BY DEF Untouched

(* A page that is enriched is marked, one that waits is as generated. *)
LEMMA EnrichedStep ==
  ASSUME PagesInv, PassInv, EnrichedInv, [Next]_vars
  PROVE  EnrichedInv'
<1>1. CASE Die
  BY <1>1 DEF Die, EnrichedInv, PagesInv
<1>. SUFFICES ASSUME ~Die, deaths = 0, NEW p \in PageSet \ Linked
              PROVE  AsGenerated(p)'
  <2>1. ~Die => deaths' = deaths
    <3>1. (\E changed \in SUBSET PageSet : Generate(changed)) \/ EnrichOnly \/ RetryQueue
            => deaths' = deaths
      BY BeginShape
    <3>2. RequestStep \/ WriteStep => deaths' = deaths
      BY RequestShape, WriteShape DEF Unlisted, countVars
    <3>. QED
      BY <3>1, <3>2 DEF Next, PageStep, RequestStep, WriteStep, SkipPage, TakePage, WriteHash,
           PageFailed, RetryPages, EndPass, SaveQueue, SaveProvenance, apply_cross_references,
           countVars, vars
  <2>. QED  BY <1>1, <2>1 DEF EnrichedInv
<1>2. AsGenerated(p)
  BY DEF EnrichedInv
<1>. USE <1>2 DEF AsGenerated, QueueSaved
<1>3. CASE UNCHANGED vars
  BY <1>3, SameCurrent DEF vars, diskVars, listVars, runVars, Untouched, is_cached, BeingMarked
<1>4. ASSUME NEW changed \in SUBSET PageSet, Generate(changed)
      PROVE  AsGenerated(p)'
  <2>1. Untouched(p)'
    BY <1>4 DEF Generate, Generated, Untouched
  <2>. QED  BY <2>1
<1>5. CASE EnrichOnly \/ RetryQueue
  <2>1. page' = page /\ pending' \subseteq queue /\ (retrying' => todo' = queue)
    BY <1>5 DEF EnrichOnly, RetryQueue, EnrichAll, EnrichQueue
  <2>. QED
    BY <1>5, <2>1, BeginShape DEF Untouched, is_cached, BeingMarked, PageSteps, Asking, Writing
<1>6. CASE RequestStep
  BY <1>6, RequestShape, SameCurrent
  DEF Unlisted, listVars, Untouched, is_cached, BeingMarked, PageSteps, Asking, Writing
<1>7. CASE WriteStep
  <2>1. Current' = Current /\ Current \in todo
    BY <1>7, WriteShape, SameCurrent, CurrentIsToDo DEF Unlisted, PagesInv
  <2>2. CASE p = Current
    BY <1>7, <2>1, <2>2, WriteShape
    DEF PassInv, Unlisted, listVars, BeingMarked, PageSteps, Asking, Writing
  <2>3. CASE p # Current
    <3>1. page'[p] = page[p]
      BY <1>7, <2>3, WriteShape DEF PagesInv
    <3>. QED
      BY <1>7, <2>1, <2>3, <3>1, WriteShape
      DEF Unlisted, listVars, Untouched, is_cached, BeingMarked, PageSteps, Asking, Writing
  <2>. QED  BY <2>2, <2>3
<1>8. CASE SkipPage
  BY <1>8 DEF SkipPage, AtPage, NextPage, diskVars, listVars, Untouched, is_cached, BeingMarked,
              PageSteps, Asking, Writing
<1>9. CASE TakePage
  <2>1. Current' = Current /\ Current \in todo
    BY <1>9, SameCurrent, CurrentIsToDo DEF TakePage, AtPage, PagesInv
  <2>2. p = Current => Untouched(p)
    BY <1>9, <2>1 DEF TakePage, AtPage, BeingMarked, PageSteps, Writing
  <2>. QED
    BY <1>9, <2>1, <2>2 DEF TakePage, AtPage, diskVars, listVars, Untouched, is_cached,
                            BeingMarked, PageSteps, Asking, Writing
<1>10. CASE WriteHash
  <2>1. Current \in todo /\ page' = page
    BY <1>10, CurrentIsToDo DEF WriteHash, PagesInv, Writing
  <2>2. CASE p = Current
    <3>1. is_cached(p)' /\ p \notin todo' /\ p \notin failed' /\ (~retrying' => p \notin pending')
      BY <1>10, <2>1, <2>2 DEF WriteHash, NextPage, PagesInv, PassInv, is_cached, PageSteps, Writing
    <3>. QED  BY <1>10, <3>1 DEF WriteHash, NextPage, PageSteps, Asking, Writing
  <2>3. CASE p # Current
    <3>1. hash'[p] = hash[p]
      BY <1>10, <2>3 DEF WriteHash, PagesInv
    <3>. QED
      BY <1>10, <2>1, <2>3, <3>1 DEF WriteHash, NextPage, Untouched, is_cached, BeingMarked,
                                     PageSteps, Asking, Writing
  <2>. QED  BY <2>2, <2>3
<1>11. CASE PageFailed
  BY <1>11 DEF PageFailed, NextPage, diskVars, Untouched, is_cached, BeingMarked, PageSteps,
               Asking, Writing
<1>12. CASE RetryPages
  BY <1>12 DEF RetryPages, diskVars, listVars, Untouched, is_cached, BeingMarked, PageSteps,
               Asking, Writing
<1>13. CASE EndPass
  BY <1>13 DEF EndPass, diskVars, Untouched, is_cached, BeingMarked, PageSteps, Asking, Writing
<1>14. CASE SaveQueue \/ SaveProvenance
  BY <1>14 DEF SaveQueue, SaveProvenance, listVars, Untouched, is_cached, BeingMarked, PageSteps,
               Asking, Writing
<1>15. CASE apply_cross_references
  <2>1. page'[p] = page[p]
    BY <1>15 DEF apply_cross_references
  <2>. QED
    BY <1>15, <2>1 DEF apply_cross_references, Stop, Untouched, is_cached, BeingMarked, PageSteps,
                       Asking, Writing
<1>. QED
  BY <1>3, <1>4, <1>5, <1>6, <1>7, <1>8, <1>9, <1>10, <1>11, <1>12, <1>13, <1>14, <1>15
  DEF Next, PageStep, RequestStep, WriteStep

(* A page is not enriched on top of its own enrichment, unless the links   *)
(* were put into it or a command died before it had marked it.             *)
THEOREM NotEnrichedOnTop == Spec => []EnrichedAgainOnlyIfLinked
<1>1. Init => PagesInv /\ PassInv /\ EnrichedInv
  BY InitPages DEF Init, PassInv, EnrichedInv, AsGenerated, Untouched, Generated, QueueSaved,
                   PageSteps, Asking, Writing
<1>2. PagesInv /\ PassInv /\ EnrichedInv /\ [Next]_vars => (PagesInv /\ PassInv /\ EnrichedInv)'
  BY PagesStep, PassStep, EnrichedStep
<1>3. PagesInv /\ PassInv /\ EnrichedInv => EnrichedAgainOnlyIfLinked
  <2>. SUFFICES ASSUME PagesInv, PassInv, EnrichedInv, pc = "ask", Current \notin Linked, deaths = 0
                PROVE  body.text.passes = <<>>
    BY DEF EnrichedAgainOnlyIfLinked, PagesInv
  <2>1. Current \in PageSet
    BY CurrentIsToDo DEF PagesInv, Asking
  <2>. QED  BY <2>1 DEF PassInv, EnrichedInv, AsGenerated, Untouched, Asking
<1>. QED  BY <1>1, <1>2, <1>3, PTL DEF Spec

=============================================================================
