----------------------------- MODULE DesktopProofs -----------------------------
(***************************************************************************)
(* Proofs about DesktopSystem, for any repositories, menu and number of    *)
(* commands, rounds, chunks, copies and deaths: a graph is loaded once and *)
(* never older than its last reload, an answer stops when it is told to,   *)
(* and the history of snapshots lists the newest copies.                   *)
(***************************************************************************)
EXTENDS DesktopSystem, FiniteSetTheorems, WellFoundedInduction, TLAPS

Kinds == {"list_repos", "open_repo", "analyze_repo", "unregister_repo", "chat_ask",
          "chat_cancel", "snapshot_create", "snapshot_delete"}

(* Where a command is between taking load_lock and giving it back with a   *)
(* snapshot in the state.                                                  *)
Loading == {"find", "load", "insert"}

(* Where it is at work on the repository it names. *)
RepoPlaces == {"open", "lock", "recheck", "activate", "remove", "register", "save",
               "unregister", "getRepo"} \union Loading \union HistoryPlaces

ChatPlaces == {"ask", "stream", "chunk", "cancelled", "tools"}

Places == {"idle", "done", "activeName", "readRegistry", "setRegistry"}
            \union RepoPlaces \union ChatPlaces

Names    == Repos \union {None}
Versions == Nat \union {None}

StateTypeOK ==
  /\ published \in [Repos -> Nat]
  /\ registered \subseteq Repos
  /\ registry \subseteq Repos
  /\ repos \in [Repos -> Versions]
  /\ active_repo \in Names
  /\ load_lock \in Commands \union {None}
  /\ started \in 0 .. MaxCommands
  /\ pc \in [Commands -> Places]
  /\ kind \in [Commands -> Kinds \union {None}]
  /\ repo \in [Commands -> Names]
  /\ got \in [Commands -> Versions]
  /\ entries \in [Commands -> SUBSET (Repos \union Nat)]
  /\ removed \in [Repos -> [version : Nat, overtaken : BOOLEAN]]

ChatTypeOK ==
  /\ cancel_flag \in BOOLEAN
  /\ iteration \in [Commands -> Nat]
  /\ chunks \in [Commands -> Nat]
  /\ late \in [Commands -> Versions]

HistoryTypeOK ==
  /\ clock \in Nat
  /\ index \in [Repos -> SUBSET (1 .. clock)]
  /\ copies \in [Repos -> SUBSET (1 .. clock)]
  /\ history \in [Repos -> SUBSET (1 .. clock)]
  /\ own \in [Commands -> Versions]
  /\ disturbed \subseteq Names
  /\ deaths \in Nat

(* A command names a repository before it works on one, and has read a     *)
(* list of what it writes; commands not given yet are nowhere.             *)
Prepared ==
  /\ \A n \in Commands : n > started => pc[n] = "idle"
  /\ \A n \in Commands :
       /\ pc[n] \in RepoPlaces => repo[n] \in Repos
       /\ pc[n] # "idle" /\ kind[n] = "analyze_repo" => repo[n] \in Repos
       /\ pc[n] = "insert" => got[n] \in Nat
       /\ pc[n] = "setRegistry" => entries[n] \subseteq Repos
       /\ pc[n] \in HistoryPlaces => kind[n] \in HistoryKinds
       /\ pc[n] \in {"evict", "saveIndex"} => entries[n] \subseteq 1 .. clock
       /\ pc[n] \in {"copy", "evict"} => kind[n] = "snapshot_create"
       /\ pc[n] # "idle" /\ kind[n] = "snapshot_delete" => own[n] \in 1 .. clock
       /\ pc[n] \in HistoryPlaces \ {"copy"} => own[n] \in 1 .. clock

TypeInv == StateTypeOK /\ ChatTypeOK /\ HistoryTypeOK /\ Prepared

-----------------------------------------------------------------------------
(* Whoever loads a snapshot holds the lock, and found nothing loaded; what *)
(* it has in hand is as new as the last reload, or the reload noticed it.  *)
LoadInv ==
  /\ \A n \in Commands :
       /\ pc[n] \in {"recheck"} \union Loading => load_lock = n
       /\ pc[n] \in Loading => repos[repo[n]] = None
       /\ pc[n] = "insert" =>
            got[n] >= removed[repo[n]].version \/ removed[repo[n]].overtaken
  /\ \A r \in Repos : removed[r].version <= published[r]
  /\ ShownIsReloaded

(* While an answer is to be cancelled the flag is up, so after the chunk   *)
(* it had in hand it does not show another.                                *)
CancelInv ==
  /\ (\E n \in Commands : late[n] # None) => cancel_flag
  /\ \A n \in Commands : late[n] = 1 => pc[n] # "chunk"
  /\ CancelStopsSoon

-----------------------------------------------------------------------------
(* What the list shows is newer than what was evicted, and little enough. *)
Settled(r) ==
  /\ Cardinality(index[r]) <= MaxSnapshots
  /\ \A i \in history[r] \ index[r], j \in index[r] : i < j

Working(n, r) == repo[n] = r /\ pc[n] \in HistoryPlaces

Fresh(n, r) == \A i \in index[r] \union history[r] : i < own[n]

(* How far the command at work on the copies of r has come. *)
Progress(n, r) ==
  LET creating == kind[n] = "snapshot_create"
  IN  /\ creating /\ pc[n] \in {"readIndex", "evict", "saveIndex"} => Fresh(n, r)
      /\ pc[n] = "copy" => copies[r] = index[r]
      /\ pc[n] = "readIndex" =>
           copies[r] = IF creating THEN index[r] \union {own[n]} ELSE index[r]
      /\ pc[n] = "evict" =>
           copies[r] = index[r] \union {own[n]} /\ entries[n] = copies[r]
      /\ pc[n] = "saveIndex" /\ creating =>
           copies[r] = Newest(index[r] \union {own[n]}) /\ entries[n] = copies[r]
      /\ pc[n] = "saveIndex" /\ ~creating =>
           copies[r] = index[r] /\ entries[n] = index[r] \ {own[n]}
      /\ pc[n] = "removeCopy" => index[r] = copies[r] \ {own[n]}

HistoryInv ==
  \A r \in Repos \ disturbed :
    /\ Settled(r)
    /\ \A m, n \in Commands : Working(m, r) /\ Working(n, r) => m = n
    /\ (\A n \in Commands : ~Working(n, r)) => index[r] = copies[r]
    /\ \A n \in Commands : Working(n, r) => Progress(n, r)

-----------------------------------------------------------------------------
(* Types. *)

LEMMA NoneApart == None \notin Repos /\ None \notin Nat /\ Commands \subseteq Nat /\ None \notin Commands
BY DesktopAssumption DEF Commands

(* The sets of places and kinds, in the form the cases need them. *)
CallTypeOK ==
  /\ load_lock \in Commands \union {None}
  /\ pc \in [Commands -> Places]
  /\ got \in [Commands -> Versions]
  /\ entries \in [Commands -> SUBSET (Repos \union Nat)]

LEMMA ReturnTyped ==
  ASSUME TypeInv, NEW n \in Commands, pc[n] # "idle", Return(n),
         UNCHANGED <<started, kind, repo>>
  PROVE  /\ CallTypeOK'
         /\ (\A m \in Commands : own'[m] = own[m]) /\ clock' \in Nat /\ clock <= clock' => Prepared'
<1>1. CallTypeOK'
  BY NoneApart DEF Return, GoTo, CallTypeOK, TypeInv, StateTypeOK, ChatTypeOK, HistoryTypeOK, Prepared, Places, Names, Versions
<1>2. \A m \in Commands : pc'[m] = IF m = n THEN "done" ELSE pc[m]
  BY DEF Return, GoTo, TypeInv, StateTypeOK
<1>3. ~(n > started)
  BY DEF TypeInv, Prepared
<1>4. ASSUME \A m \in Commands : own'[m] = own[m], clock' \in Nat, clock <= clock'
      PROVE  Prepared'
  BY <1>2, <1>3, <1>4, NoneApart DEF Return, TypeInv, StateTypeOK, ChatTypeOK, HistoryTypeOK, Prepared, RepoPlaces, Loading, HistoryPlaces, HistoryKinds
<1> QED
  BY <1>1, <1>4

LEMMA OpenTyped ==
  ASSUME TypeInv, NEW n \in Commands, OpenStep(n), UNCHANGED <<chatVars, historyVars>>
  PROVE  TypeInv'
<1>1. CASE OpenFast(n)
  BY <1>1, NoneApart, ReturnTyped DEF OpenFast, TypeInv, StateTypeOK, ChatTypeOK, HistoryTypeOK, Prepared, Places, RepoPlaces, ChatPlaces, Loading, HistoryPlaces,
       HistoryKinds, Kinds, Names, Versions, GoTo, stateVars, diskVars, localVars, callVars, chatVars, historyVars
<1>2. CASE TakeLoadLock(n)
  BY <1>2, NoneApart, ReturnTyped DEF TakeLoadLock, TypeInv, StateTypeOK, ChatTypeOK, HistoryTypeOK, Prepared, Places, RepoPlaces, ChatPlaces, Loading, HistoryPlaces,
       HistoryKinds, Kinds, Names, Versions, GoTo, stateVars, diskVars, localVars, callVars, chatVars, historyVars
<1>3. CASE Recheck(n)
  BY <1>3, NoneApart, ReturnTyped DEF Recheck, TypeInv, StateTypeOK, ChatTypeOK, HistoryTypeOK, Prepared, Places, RepoPlaces, ChatPlaces, Loading, HistoryPlaces,
       HistoryKinds, Kinds, Names, Versions, GoTo, stateVars, diskVars, localVars, callVars, chatVars, historyVars
<1>4. CASE FindEntry(n)
  <2>1. CASE Return(n)
    BY <1>4, <2>1, NoneApart, ReturnTyped DEF FindEntry, TypeInv, StateTypeOK, ChatTypeOK, HistoryTypeOK, CallTypeOK, stateVars, diskVars, localVars, callVars, chatVars, historyVars
  <2>2. CASE ~Return(n)
    BY <1>4, <2>2, NoneApart DEF FindEntry, TypeInv, StateTypeOK, ChatTypeOK, HistoryTypeOK, Prepared, Places, RepoPlaces, ChatPlaces, Loading, HistoryPlaces,
       HistoryKinds, Kinds, Names, Versions, GoTo, stateVars, diskVars, localVars, callVars, chatVars, historyVars
  <2> QED
    BY <2>1, <2>2
<1>5. CASE LoadSnapshot(n)
  <2>1. CASE ~Return(n)
    <3>1. StateTypeOK'
      <4>1. /\ got' = [got EXCEPT ![n] = published[repo[n]]]
            /\ pc' = [pc EXCEPT ![n] = "insert"]
            /\ UNCHANGED <<entries, load_lock>>
        BY <1>5, <2>1 DEF LoadSnapshot, GoTo
      <4>2. published[repo[n]] \in Versions /\ "insert" \in Places
        BY <1>5 DEF LoadSnapshot, TypeInv, StateTypeOK, Prepared, Places, RepoPlaces, Loading, Versions
      <4> QED
        BY <1>5, <4>1, <4>2 DEF LoadSnapshot, diskVars, TypeInv, StateTypeOK
    <3>2. HistoryTypeOK' /\ ChatTypeOK'
      BY <1>5, <2>1, NoneApart DEF LoadSnapshot, TypeInv, StateTypeOK, ChatTypeOK, HistoryTypeOK, Prepared, Places, RepoPlaces, ChatPlaces, Loading, HistoryPlaces,
       HistoryKinds, Kinds, Names, Versions, GoTo, stateVars, diskVars, localVars, callVars, chatVars, historyVars
    <3>3. Prepared'
      BY <1>5, <2>1, NoneApart DEF LoadSnapshot, TypeInv, StateTypeOK, ChatTypeOK, HistoryTypeOK, Prepared, Places, RepoPlaces, ChatPlaces, Loading, HistoryPlaces,
       HistoryKinds, Kinds, Names, Versions, GoTo, stateVars, diskVars, localVars, callVars, chatVars, historyVars
    <3> QED
      BY <3>1, <3>2, <3>3 DEF TypeInv
  <2>2. CASE Return(n)
    <3>1. Return(n) /\ UNCHANGED <<started, kind, repo, own, clock>> /\ pc[n] # "idle"
      BY <1>5, <2>2 DEF LoadSnapshot, historyVars
    <3> QED
      BY <1>5, <2>2, <3>1, ReturnTyped DEF LoadSnapshot, TypeInv, StateTypeOK, ChatTypeOK, HistoryTypeOK, CallTypeOK, stateVars, diskVars, localVars, callVars, chatVars, historyVars
  <2> QED
    BY <1>5, <2>1, <2>2 DEF LoadSnapshot
<1>6. CASE InsertRepo(n)
  BY <1>6, NoneApart, ReturnTyped DEF InsertRepo, TypeInv, StateTypeOK, ChatTypeOK, HistoryTypeOK, Prepared, Places, RepoPlaces, ChatPlaces, Loading, HistoryPlaces,
       HistoryKinds, Kinds, Names, Versions, GoTo, stateVars, diskVars, localVars, callVars, chatVars, historyVars
<1>7. CASE Activate(n)
  BY <1>7, NoneApart, ReturnTyped DEF Activate, TypeInv, StateTypeOK, ChatTypeOK, HistoryTypeOK, Prepared, Places, RepoPlaces, ChatPlaces, Loading, HistoryPlaces,
       HistoryKinds, Kinds, Names, Versions, GoTo, stateVars, diskVars, localVars, callVars, chatVars, historyVars, Return
<1> QED
  BY <1>1, <1>2, <1>3, <1>4, <1>5, <1>6, <1>7 DEF OpenStep

LEMMA ChatTyped ==
  ASSUME TypeInv, NEW n \in Commands, ChatStep(n), UNCHANGED historyVars
  PROVE  TypeInv'
<1>1. CASE ActiveName(n)
  <2>1. CASE active_repo # None
    <3>1. StateTypeOK'
      <4>1. /\ repo' = [repo EXCEPT ![n] = active_repo]
            /\ pc' = [pc EXCEPT ![n] = "getRepo"]
            /\ UNCHANGED <<got, entries, load_lock>>
        BY <1>1, <2>1 DEF ActiveName, GoTo, localVars
      <4>2. "getRepo" \in Places
        BY DEF Places, RepoPlaces
      <4> QED
        BY <1>1, <4>1, <4>2 DEF ActiveName, diskVars, TypeInv, StateTypeOK
    <3>2. HistoryTypeOK' /\ ChatTypeOK'
      BY <1>1, <2>1, NoneApart DEF ActiveName, TypeInv, StateTypeOK, ChatTypeOK, HistoryTypeOK, Prepared, Places, RepoPlaces, ChatPlaces, Loading, HistoryPlaces,
       HistoryKinds, Kinds, Names, Versions, GoTo, stateVars, diskVars, localVars, callVars, chatVars, historyVars
    <3>3. Prepared'
      BY <1>1, <2>1, NoneApart DEF ActiveName, TypeInv, StateTypeOK, ChatTypeOK, HistoryTypeOK, Prepared, Places, RepoPlaces, ChatPlaces, Loading, HistoryPlaces,
       HistoryKinds, Kinds, Names, Versions, GoTo, stateVars, diskVars, localVars, callVars, chatVars, historyVars
    <3> QED
      BY <3>1, <3>2, <3>3 DEF TypeInv
  <2>2. CASE active_repo = None
    <3>1. Return(n) /\ UNCHANGED <<started, kind, repo, own, clock>> /\ pc[n] # "idle"
      BY <1>1, <2>2 DEF ActiveName, historyVars
    <3> QED
      BY <1>1, <2>2, <3>1, ReturnTyped DEF ActiveName, TypeInv, StateTypeOK, ChatTypeOK, HistoryTypeOK, CallTypeOK, stateVars, diskVars, localVars, callVars, chatVars, historyVars
  <2> QED
    BY <1>1, <2>1, <2>2 DEF ActiveName
<1>2. CASE GetRepo(n)
  <2>1. CASE repos[repo[n]] # None
    <3>1. StateTypeOK'
      <4>1. /\ got' = [got EXCEPT ![n] = repos[repo[n]]]
            /\ pc' = [pc EXCEPT ![n] = "ask"]
            /\ UNCHANGED <<entries, load_lock>>
        BY <1>2, <2>1 DEF GetRepo, GoTo
      <4>2. repos[repo[n]] \in Versions /\ "ask" \in Places
        BY <1>2 DEF GetRepo, TypeInv, StateTypeOK, Prepared, Places, RepoPlaces, ChatPlaces
      <4> QED
        BY <1>2, <4>1, <4>2 DEF GetRepo, diskVars, TypeInv, StateTypeOK
    <3>2. HistoryTypeOK' /\ ChatTypeOK'
      BY <1>2, <2>1, NoneApart DEF GetRepo, TypeInv, StateTypeOK, ChatTypeOK, HistoryTypeOK, Prepared, Places, RepoPlaces, ChatPlaces, Loading, HistoryPlaces,
       HistoryKinds, Kinds, Names, Versions, GoTo, stateVars, diskVars, localVars, callVars, chatVars, historyVars
    <3>3. Prepared'
      BY <1>2, <2>1, NoneApart DEF GetRepo, TypeInv, StateTypeOK, ChatTypeOK, HistoryTypeOK, Prepared, Places, RepoPlaces, ChatPlaces, Loading, HistoryPlaces,
       HistoryKinds, Kinds, Names, Versions, GoTo, stateVars, diskVars, localVars, callVars, chatVars, historyVars
    <3> QED
      BY <3>1, <3>2, <3>3 DEF TypeInv
  <2>2. CASE repos[repo[n]] = None
    <3>1. Return(n) /\ UNCHANGED <<started, kind, repo, own, clock>> /\ pc[n] # "idle"
      BY <1>2, <2>2 DEF GetRepo, historyVars
    <3> QED
      BY <1>2, <2>2, <3>1, ReturnTyped DEF GetRepo, TypeInv, StateTypeOK, ChatTypeOK, HistoryTypeOK, CallTypeOK, stateVars, diskVars, localVars, callVars, chatVars, historyVars
  <2> QED
    BY <1>2, <2>1, <2>2 DEF GetRepo
<1>3. CASE StreamCompletion(n)
  <2>1. CASE Return(n)
    <3>1. Return(n) /\ UNCHANGED <<started, kind, repo, own, clock>> /\ pc[n] # "idle"
      BY <1>3, <2>1 DEF StreamCompletion, AnswerStep, historyVars
    <3>2. iteration' \in [Commands -> Nat]
      BY <1>3 DEF StreamCompletion, TypeInv, ChatTypeOK
    <3> QED
      BY <1>3, <2>1, <3>1, <3>2, ReturnTyped DEF StreamCompletion, TypeInv, StateTypeOK, ChatTypeOK, HistoryTypeOK, CallTypeOK, stateVars, diskVars, localVars, callVars, chatVars, historyVars, AnswerStep
  <2>2. CASE ~Return(n)
    <3>1. StateTypeOK'
      BY <1>3, <2>2, NoneApart DEF StreamCompletion, TypeInv, StateTypeOK, ChatTypeOK, HistoryTypeOK, Prepared, Places, RepoPlaces, ChatPlaces, Loading, HistoryPlaces,
       HistoryKinds, Kinds, Names, Versions, GoTo, stateVars, diskVars, localVars, callVars, chatVars, historyVars, AnswerStep
    <3>2. HistoryTypeOK' /\ ChatTypeOK'
      BY <1>3, <2>2, NoneApart DEF StreamCompletion, TypeInv, StateTypeOK, ChatTypeOK, HistoryTypeOK, Prepared, Places, RepoPlaces, ChatPlaces, Loading, HistoryPlaces,
       HistoryKinds, Kinds, Names, Versions, GoTo, stateVars, diskVars, localVars, callVars, chatVars, historyVars, AnswerStep
    <3>3. Prepared'
      BY <1>3, <2>2, NoneApart DEF StreamCompletion, TypeInv, StateTypeOK, ChatTypeOK, HistoryTypeOK, Prepared, Places, RepoPlaces, ChatPlaces, Loading, HistoryPlaces,
       HistoryKinds, Kinds, Names, Versions, GoTo, stateVars, diskVars, localVars, callVars, chatVars, historyVars, AnswerStep
    <3> QED
      BY <3>1, <3>2, <3>3 DEF TypeInv
  <2> QED
    BY <1>3, <2>1, <2>2 DEF StreamCompletion
<1>4. CASE NextChunk(n)
  BY <1>4, NoneApart, ReturnTyped DEF NextChunk, TypeInv, StateTypeOK, ChatTypeOK, HistoryTypeOK, Prepared, Places, RepoPlaces, ChatPlaces, Loading, HistoryPlaces,
       HistoryKinds, Kinds, Names, Versions, GoTo, stateVars, diskVars, localVars, callVars, chatVars, historyVars, AnswerStep
<1>5. CASE ShowChunk(n)
  BY <1>5, NoneApart, ReturnTyped DEF ShowChunk, TypeInv, StateTypeOK, ChatTypeOK, HistoryTypeOK, Prepared, Places, RepoPlaces, ChatPlaces, Loading, HistoryPlaces,
       HistoryKinds, Kinds, Names, Versions, GoTo, stateVars, diskVars, localVars, callVars, chatVars, historyVars, AnswerStep
<1>6. CASE Cancelled(n)
  <2>1. /\ pc[n] # "idle" /\ Return(n) /\ cancel_flag' = FALSE
        /\ late' = [m \in Commands |-> None]
        /\ UNCHANGED <<started, kind, repo, diskVars, registry, repos, active_repo, removed>>
        /\ UNCHANGED <<historyVars, iteration, chunks>>
    BY <1>6 DEF Cancelled, AnswerStep, ChatStep, historyVars
  <2>2. CallTypeOK' /\ Prepared'
    BY <2>1, ReturnTyped DEF TypeInv, HistoryTypeOK, historyVars
  <2>3. StateTypeOK'
    BY <2>1, <2>2 DEF TypeInv, StateTypeOK, CallTypeOK, diskVars
  <2>4. ChatTypeOK' /\ HistoryTypeOK'
    BY <2>1 DEF TypeInv, ChatTypeOK, HistoryTypeOK, historyVars, Versions
  <2> QED
    BY <2>2, <2>3, <2>4 DEF TypeInv
<1>7. CASE EndOfStream(n)
  <2>1. CASE Return(n)
    BY <1>7, <2>1, NoneApart, ReturnTyped DEF EndOfStream, TypeInv, StateTypeOK, ChatTypeOK, HistoryTypeOK, CallTypeOK, stateVars, diskVars, localVars, callVars, chatVars, historyVars, AnswerStep
  <2>2. CASE ~Return(n)
    BY <1>7, <2>2, NoneApart DEF EndOfStream, TypeInv, StateTypeOK, ChatTypeOK, HistoryTypeOK, Prepared, Places, RepoPlaces, ChatPlaces, Loading, HistoryPlaces,
       HistoryKinds, Kinds, Names, Versions, GoTo, stateVars, diskVars, localVars, callVars, chatVars, historyVars, AnswerStep
  <2> QED
    BY <2>1, <2>2
<1>8. CASE ExecuteTools(n)
  <2>1. CASE Return(n)
    BY <1>8, <2>1, NoneApart, ReturnTyped DEF ExecuteTools, TypeInv, StateTypeOK, ChatTypeOK, HistoryTypeOK, CallTypeOK, stateVars, diskVars, localVars, callVars, chatVars, historyVars, AnswerStep
  <2>2. CASE ~Return(n)
    BY <1>8, <2>2, NoneApart DEF ExecuteTools, TypeInv, StateTypeOK, ChatTypeOK, HistoryTypeOK, Prepared, Places, RepoPlaces, ChatPlaces, Loading, HistoryPlaces,
       HistoryKinds, Kinds, Names, Versions, GoTo, stateVars, diskVars, localVars, callVars, chatVars, historyVars, AnswerStep
  <2> QED
    BY <2>1, <2>2
<1> QED
  BY <1>1, <1>2, <1>3, <1>4, <1>5, <1>6, <1>7, <1>8 DEF ChatStep

LEMMA HistoryTyped ==
  ASSUME TypeInv, NEW n \in Commands, HistoryCommandStep(n)
  PROVE  TypeInv'
<1>1. CASE StoragePath(n)
  <2>1. CASE Return(n)
    BY <1>1, <2>1, NoneApart, ReturnTyped DEF StoragePath, TypeInv, StateTypeOK, ChatTypeOK, HistoryTypeOK, CallTypeOK, stateVars, diskVars, localVars, callVars, chatVars, historyVars, HistoryStep
  <2>2. CASE ~Return(n)
    BY <1>1, <2>2, NoneApart, SMTT(30) DEF StoragePath, TypeInv, StateTypeOK, ChatTypeOK, HistoryTypeOK, Prepared, Places, RepoPlaces, ChatPlaces, Loading, HistoryPlaces,
       HistoryKinds, Kinds, Names, Versions, GoTo, stateVars, diskVars, localVars, callVars, chatVars, historyVars, HistoryStep
  <2> QED
    BY <2>1, <2>2
<1>2. CASE CopyGraph(n)
  <2>1. CASE clock' = clock + 1
    <3>1. StateTypeOK'
      BY <1>2, <2>1, NoneApart, SMTT(30) DEF CopyGraph, TypeInv, StateTypeOK, ChatTypeOK, HistoryTypeOK, Prepared, Places, RepoPlaces, ChatPlaces, Loading, HistoryPlaces,
       HistoryKinds, Kinds, Names, Versions, GoTo, stateVars, diskVars, localVars, callVars, chatVars, historyVars, HistoryStep
    <3>2. HistoryTypeOK' /\ ChatTypeOK'
      <4>1. /\ own' = [own EXCEPT ![n] = clock + 1]
            /\ copies' = [copies EXCEPT ![repo[n]] = @ \union {clock + 1}]
            /\ UNCHANGED <<index, history, deaths, disturbed, chatVars>>
        BY <1>2, <2>1 DEF CopyGraph, HistoryStep, TypeInv, HistoryTypeOK
      <4>2. clock' \in Nat /\ 1 .. clock \subseteq 1 .. clock' /\ clock + 1 \in 1 .. clock' /\ clock + 1 \in Versions
        BY <2>1 DEF TypeInv, HistoryTypeOK, Versions
      <4> QED
        BY <4>1, <4>2 DEF TypeInv, HistoryTypeOK, ChatTypeOK, chatVars
    <3>3. Prepared'
      BY <1>2, <2>1, NoneApart DEF CopyGraph, TypeInv, StateTypeOK, ChatTypeOK, HistoryTypeOK, Prepared, Places, RepoPlaces, ChatPlaces, Loading, HistoryPlaces,
       HistoryKinds, Kinds, Names, Versions, GoTo, stateVars, diskVars, localVars, callVars, chatVars, historyVars, HistoryStep
    <3> QED
      BY <3>1, <3>2, <3>3 DEF TypeInv
  <2>2. CASE clock' # clock + 1
    <3>1. Return(n) /\ UNCHANGED <<started, kind, repo, own, clock>> /\ pc[n] # "idle"
      BY <1>2, <2>2 DEF CopyGraph, HistoryStep
    <3> QED
      BY <1>2, <2>2, <3>1, ReturnTyped DEF CopyGraph, TypeInv, StateTypeOK, ChatTypeOK, HistoryTypeOK, CallTypeOK, stateVars, diskVars, localVars, callVars, chatVars, historyVars, HistoryStep
  <2> QED
    BY <1>2, <2>1, <2>2 DEF CopyGraph
<1>3. CASE ReadIndex(n)
  <2>1. CASE TRUE
    <3>1. StateTypeOK'
      <4>1. PICK list : /\ entries' = [entries EXCEPT ![n] = list]
                        /\ list \in {index[repo[n]] \union {own[n]}, index[repo[n]] \ {own[n]}}
        BY <1>3 DEF ReadIndex
      <4>2. list \in SUBSET (Repos \union Nat)
        <5>1. pc[n] = "readIndex" /\ repo[n] \in Repos /\ own[n] \in 1 .. clock
          BY <1>3 DEF ReadIndex, TypeInv, Prepared, RepoPlaces, HistoryPlaces
        <5>2. index[repo[n]] \in SUBSET (1 .. clock) /\ clock \in Nat
          BY <5>1 DEF TypeInv, HistoryTypeOK
        <5>3. 1 .. clock \subseteq Nat
          BY <5>2
        <5> QED
          BY <4>1, <5>1, <5>2, <5>3
      <4>3. PICK place \in {"evict", "saveIndex"} : pc' = [pc EXCEPT ![n] = place]
        BY <1>3 DEF ReadIndex, GoTo
      <4>4. place \in Places
        BY DEF Places, RepoPlaces, HistoryPlaces
      <4> QED
        BY <1>3, <4>1, <4>2, <4>3, <4>4 DEF ReadIndex, HistoryStep, diskVars, TypeInv, StateTypeOK
    <3>2. HistoryTypeOK' /\ ChatTypeOK'
      BY <1>3, <2>1, NoneApart DEF ReadIndex, TypeInv, StateTypeOK, ChatTypeOK, HistoryTypeOK, Prepared, Places, RepoPlaces, ChatPlaces, Loading, HistoryPlaces,
       HistoryKinds, Kinds, Names, Versions, GoTo, stateVars, diskVars, localVars, callVars, chatVars, historyVars, HistoryStep
    <3>3. Prepared'
      BY <1>3, <2>1, NoneApart DEF ReadIndex, TypeInv, StateTypeOK, ChatTypeOK, HistoryTypeOK, Prepared, Places, RepoPlaces, ChatPlaces, Loading, HistoryPlaces,
       HistoryKinds, Kinds, Names, Versions, GoTo, stateVars, diskVars, localVars, callVars, chatVars, historyVars, HistoryStep
    <3> QED
      BY <3>1, <3>2, <3>3 DEF TypeInv
  <2> QED
    BY <1>3, <2>1 DEF ReadIndex
<1>4. CASE Evict(n)
  BY <1>4, NoneApart, ReturnTyped DEF Evict, TypeInv, StateTypeOK, ChatTypeOK, HistoryTypeOK, Prepared, Places, RepoPlaces, ChatPlaces, Loading, HistoryPlaces,
       HistoryKinds, Kinds, Names, Versions, GoTo, stateVars, diskVars, localVars, callVars, chatVars, historyVars, HistoryStep, Newest
<1>5. CASE SaveIndex(n)
  <2> USE <1>5 DEF SaveIndex, HistoryStep
  <2>1. /\ UNCHANGED <<started, kind, repo, own, clock, deaths, copies, chatVars, diskVars>>
        /\ UNCHANGED <<registry, repos, active_repo, removed>>
        /\ pc[n] = "saveIndex" /\ own[n] \in 1 .. clock /\ entries[n] \subseteq 1 .. clock
        /\ repo[n] \in Repos
    BY DEF TypeInv, Prepared, RepoPlaces, HistoryPlaces
  <2>2. HistoryTypeOK' /\ ChatTypeOK'
    <3>1. \/ index' = index
          \/ index' = [index EXCEPT ![repo[n]] = entries[n]]
      OBVIOUS
    <3>2. \/ history' = history
          \/ history' = [history EXCEPT ![repo[n]] = @ \union {own[n]}]
          \/ history' = [history EXCEPT ![repo[n]] = @ \ {own[n]}]
      OBVIOUS
    <3>3. index' \in [Repos -> SUBSET (1 .. clock)]
      BY <2>1, <3>1 DEF TypeInv, HistoryTypeOK
    <3>4. history' \in [Repos -> SUBSET (1 .. clock)]
      BY <2>1, <3>2 DEF TypeInv, HistoryTypeOK
    <3>5. disturbed' \subseteq Names
      BY DEF TypeInv, HistoryTypeOK, StateTypeOK
    <3> QED
      BY <2>1, <3>3, <3>4, <3>5 DEF TypeInv, HistoryTypeOK, ChatTypeOK, chatVars
  <2>3. CASE Return(n)
    <3>1. CallTypeOK' /\ Prepared'
      BY <2>1, <2>3, ReturnTyped DEF TypeInv, HistoryTypeOK
    <3> QED
      BY <2>1, <2>2, <3>1 DEF TypeInv, StateTypeOK, CallTypeOK, diskVars
  <2>4. CASE GoTo(n, "removeCopy") /\ UNCHANGED <<localVars, load_lock>> /\ kind[n] # "snapshot_create"
    <3>1. pc' = [pc EXCEPT ![n] = "removeCopy"] /\ "removeCopy" \in Places
      BY <2>4 DEF GoTo, Places, RepoPlaces, HistoryPlaces
    <3>2. StateTypeOK'
      BY <2>1, <2>4, <3>1 DEF TypeInv, StateTypeOK, localVars, diskVars
    <3>3. Prepared'
      BY <2>1, <2>4, <3>1 DEF TypeInv, StateTypeOK, Prepared, localVars, RepoPlaces, HistoryPlaces, Loading
    <3> QED
      BY <2>2, <3>2, <3>3 DEF TypeInv
  <2> QED
    BY <2>3, <2>4
<1>6. CASE RemoveCopy(n)
  BY <1>6, NoneApart, ReturnTyped DEF RemoveCopy, TypeInv, StateTypeOK, ChatTypeOK, HistoryTypeOK, Prepared, Places, RepoPlaces, ChatPlaces, Loading, HistoryPlaces,
       HistoryKinds, Kinds, Names, Versions, GoTo, stateVars, diskVars, localVars, callVars, chatVars, historyVars, HistoryStep, Return
<1> QED
  BY <1>1, <1>2, <1>3, <1>4, <1>5, <1>6 DEF HistoryCommandStep

LEMMA StateTyped ==
  ASSUME TypeInv, NEW n \in Commands, StateStep(n), UNCHANGED <<chatVars, historyVars>>
  PROVE  TypeInv'
<1>1. CASE OpenStep(n)
  BY <1>1, OpenTyped DEF TypeInv, StateTypeOK, ChatTypeOK, HistoryTypeOK, Prepared, Places, RepoPlaces, ChatPlaces, Loading, HistoryPlaces,
       HistoryKinds, Kinds, Names, Versions, GoTo, stateVars, diskVars, localVars, callVars, chatVars, historyVars
<1>2. CASE ReloadRepo(n)
  BY <1>2, NoneApart, ReturnTyped DEF ReloadRepo, TypeInv, StateTypeOK, ChatTypeOK, HistoryTypeOK, Prepared, Places, RepoPlaces, ChatPlaces, Loading, HistoryPlaces,
       HistoryKinds, Kinds, Names, Versions, GoTo, stateVars, diskVars, localVars, callVars, chatVars, historyVars, Remove
<1>3. CASE ReadRegistry(n)
  <2>1. CASE ~Return(n)
    <3>1. StateTypeOK'
      BY <1>3, <2>1, NoneApart DEF ReadRegistry, TypeInv, StateTypeOK, ChatTypeOK, HistoryTypeOK, Prepared, Places, RepoPlaces, ChatPlaces, Loading, HistoryPlaces,
       HistoryKinds, Kinds, Names, Versions, GoTo, stateVars, diskVars, localVars, callVars, chatVars, historyVars
    <3>2. HistoryTypeOK' /\ ChatTypeOK'
      BY <1>3, <2>1, NoneApart DEF ReadRegistry, TypeInv, StateTypeOK, ChatTypeOK, HistoryTypeOK, Prepared, Places, RepoPlaces, ChatPlaces, Loading, HistoryPlaces,
       HistoryKinds, Kinds, Names, Versions, GoTo, stateVars, diskVars, localVars, callVars, chatVars, historyVars
    <3>3. Prepared'
      BY <1>3, <2>1, NoneApart DEF ReadRegistry, TypeInv, StateTypeOK, ChatTypeOK, HistoryTypeOK, Prepared, Places, RepoPlaces, ChatPlaces, Loading, HistoryPlaces,
       HistoryKinds, Kinds, Names, Versions, GoTo, stateVars, diskVars, localVars, callVars, chatVars, historyVars
    <3> QED
      BY <3>1, <3>2, <3>3 DEF TypeInv
  <2>2. CASE Return(n)
    <3>1. Return(n) /\ UNCHANGED <<started, kind, repo, own, clock>> /\ pc[n] # "idle"
      BY <1>3, <2>2 DEF ReadRegistry, historyVars
    <3> QED
      BY <1>3, <2>2, <3>1, ReturnTyped DEF ReadRegistry, TypeInv, StateTypeOK, ChatTypeOK, HistoryTypeOK, CallTypeOK, stateVars, diskVars, localVars, callVars, chatVars, historyVars
  <2> QED
    BY <1>3, <2>1, <2>2 DEF ReadRegistry
<1>4. CASE SetRegistry(n)
  <2>1. CASE kind[n] = "analyze_repo"
    <3>1. StateTypeOK'
      BY <1>4, <2>1, NoneApart DEF SetRegistry, TypeInv, StateTypeOK, ChatTypeOK, HistoryTypeOK, Prepared, Places, RepoPlaces, ChatPlaces, Loading, HistoryPlaces,
       HistoryKinds, Kinds, Names, Versions, GoTo, stateVars, diskVars, localVars, callVars, chatVars, historyVars
    <3>2. HistoryTypeOK' /\ ChatTypeOK'
      BY <1>4, <2>1, NoneApart DEF SetRegistry, TypeInv, StateTypeOK, ChatTypeOK, HistoryTypeOK, Prepared, Places, RepoPlaces, ChatPlaces, Loading, HistoryPlaces,
       HistoryKinds, Kinds, Names, Versions, GoTo, stateVars, diskVars, localVars, callVars, chatVars, historyVars
    <3>3. Prepared'
      BY <1>4, <2>1, NoneApart DEF SetRegistry, TypeInv, StateTypeOK, ChatTypeOK, HistoryTypeOK, Prepared, Places, RepoPlaces, ChatPlaces, Loading, HistoryPlaces,
       HistoryKinds, Kinds, Names, Versions, GoTo, stateVars, diskVars, localVars, callVars, chatVars, historyVars
    <3> QED
      BY <3>1, <3>2, <3>3 DEF TypeInv
  <2>2. CASE kind[n] # "analyze_repo"
    <3>1. Return(n) /\ UNCHANGED <<started, kind, repo, own, clock>> /\ pc[n] # "idle"
      BY <1>4, <2>2 DEF SetRegistry, historyVars
    <3>2. entries[n] \subseteq Repos
      BY <1>4 DEF SetRegistry, TypeInv, Prepared
    <3> QED
      BY <1>4, <2>2, <3>1, <3>2, ReturnTyped DEF SetRegistry, TypeInv, StateTypeOK, ChatTypeOK, HistoryTypeOK, CallTypeOK, stateVars, diskVars, localVars, callVars, chatVars, historyVars
  <2> QED
    BY <1>4, <2>1, <2>2 DEF SetRegistry
<1>5. CASE Register(n)
  <2>1. CASE ~Return(n)
    <3>1. StateTypeOK'
      BY <1>5, <2>1, NoneApart, SMTT(30) DEF Register, TypeInv, StateTypeOK, ChatTypeOK, HistoryTypeOK, Prepared, Places, RepoPlaces, ChatPlaces, Loading, HistoryPlaces,
       HistoryKinds, Kinds, Names, Versions, GoTo, stateVars, diskVars, localVars, callVars, chatVars, historyVars
    <3>2. HistoryTypeOK' /\ ChatTypeOK'
      BY <1>5, <2>1, NoneApart DEF Register, TypeInv, StateTypeOK, ChatTypeOK, HistoryTypeOK, Prepared, Places, RepoPlaces, ChatPlaces, Loading, HistoryPlaces,
       HistoryKinds, Kinds, Names, Versions, GoTo, stateVars, diskVars, localVars, callVars, chatVars, historyVars
    <3>3. Prepared'
      BY <1>5, <2>1, NoneApart DEF Register, TypeInv, StateTypeOK, ChatTypeOK, HistoryTypeOK, Prepared, Places, RepoPlaces, ChatPlaces, Loading, HistoryPlaces,
       HistoryKinds, Kinds, Names, Versions, GoTo, stateVars, diskVars, localVars, callVars, chatVars, historyVars
    <3> QED
      BY <3>1, <3>2, <3>3 DEF TypeInv
  <2>2. CASE Return(n)
    <3>1. Return(n) /\ UNCHANGED <<started, kind, repo, own, clock>> /\ pc[n] # "idle"
      BY <1>5, <2>2 DEF Register, historyVars
    <3>2. repo[n] \in Repos
      BY <1>5 DEF Register, TypeInv, Prepared, RepoPlaces
    <3> QED
      BY <1>5, <2>2, <3>1, <3>2, ReturnTyped DEF Register, TypeInv, StateTypeOK, ChatTypeOK, HistoryTypeOK, CallTypeOK, stateVars, diskVars, localVars, callVars, chatVars, historyVars
  <2> QED
    BY <1>5, <2>1, <2>2 DEF Register
<1>6. CASE SaveSnapshot(n)
  <2>1. published' \in [Repos -> Nat] /\ UNCHANGED <<registered, registry, repos, active_repo, removed>>
    BY <1>6 DEF SaveSnapshot, Publish, TypeInv, StateTypeOK
  <2>2. CASE Return(n)
    <3>1. Return(n) /\ UNCHANGED <<started, kind, repo, own, clock>> /\ pc[n] # "idle"
      BY <1>6, <2>2 DEF SaveSnapshot, historyVars
    <3> QED
      BY <2>1, <3>1, ReturnTyped DEF TypeInv, StateTypeOK, ChatTypeOK, HistoryTypeOK, CallTypeOK,
         chatVars, historyVars
  <2>3. CASE GoTo(n, "readRegistry") /\ UNCHANGED <<localVars, load_lock>>
    <3>1. pc' = [pc EXCEPT ![n] = "readRegistry"] /\ "readRegistry" \in Places
      BY <2>3 DEF GoTo, Places
    <3>2. UNCHANGED <<started, kind, repo, got, entries, load_lock>>
      BY <1>6, <2>3 DEF SaveSnapshot, localVars
    <3>3. StateTypeOK'
      BY <2>1, <3>1, <3>2 DEF TypeInv, StateTypeOK
    <3>4. Prepared'
      BY <1>6, <3>1, <3>2 DEF SaveSnapshot, TypeInv, StateTypeOK, Prepared, historyVars,
         RepoPlaces, Loading, HistoryPlaces
    <3> QED
      BY <3>3, <3>4 DEF TypeInv, ChatTypeOK, HistoryTypeOK, chatVars, historyVars
  <2> QED
    BY <1>6, <2>2, <2>3 DEF SaveSnapshot
<1>7. CASE Unregister(n)
  BY <1>7, NoneApart, ReturnTyped DEF Unregister, TypeInv, StateTypeOK, ChatTypeOK, HistoryTypeOK, Prepared, Places, RepoPlaces, ChatPlaces, Loading, HistoryPlaces,
       HistoryKinds, Kinds, Names, Versions, GoTo, stateVars, diskVars, localVars, callVars, chatVars, historyVars, Return
<1> QED
  BY <1>1, <1>2, <1>3, <1>4, <1>5, <1>6, <1>7 DEF StateStep

LEMMA GiveTyped ==
  ASSUME TypeInv, NEW k \in Kinds, NEW r \in Names, NEW first \in Places,
         Give(k, r, first)
  PROVE  /\ StateTypeOK'
         /\ started + 1 \in Commands
         /\ \A m \in Commands : m # started + 1 =>
              pc'[m] = pc[m] /\ kind'[m] = kind[m] /\ repo'[m] = repo[m]
         /\ pc'[started + 1] = first /\ kind'[started + 1] = k /\ repo'[started + 1] = r
         /\ started' = started + 1
         /\ UNCHANGED <<localVars, diskVars, stateVars, removed>>
<1>1. started + 1 \in Commands /\ started + 1 \in 0 .. MaxCommands
  BY DesktopAssumption DEF Give, TypeInv, StateTypeOK, Commands
<1> QED
  BY <1>1 DEF Give, TypeInv, StateTypeOK, localVars, diskVars, stateVars

LEMMA GivenTyped ==
  ASSUME TypeInv,
         \/ /\ ListRepos \/ \E r \in Repos : OpenRepo(r) \/ AnalyzeRepo(r) \/ UnregisterRepo(r)
            /\ UNCHANGED <<chatVars, historyVars>>
         \/ (ChatAsk \/ ChatCancel) /\ UNCHANGED historyVars
         \/ SnapshotCreate \/ \E r \in Repos : \E id \in index[r] : SnapshotDelete(id)
  PROVE  TypeInv'
<1>1. CASE ListRepos /\ UNCHANGED <<chatVars, historyVars>>
  <2>1. Give("list_repos", None, "readRegistry") /\ "list_repos" \in Kinds /\ None \in Names /\ "readRegistry" \in Places
    BY <1>1 DEF ListRepos, Kinds, Names, Places, RepoPlaces
  <2>2. StateTypeOK'
    BY <2>1, GiveTyped
  <2>3. ChatTypeOK' /\ HistoryTypeOK'
    BY <1>1, <1>1, NoneApart DEF ListRepos, TypeInv, StateTypeOK, ChatTypeOK, HistoryTypeOK, Versions, chatVars, historyVars
  <2>4. Prepared'
    BY <1>1, <1>1, <2>1, GiveTyped, NoneApart DEF ListRepos, Prepared, TypeInv, StateTypeOK, HistoryTypeOK, localVars, historyVars,
       RepoPlaces, Loading, HistoryPlaces
  <2> QED
    BY <2>2, <2>3, <2>4 DEF TypeInv
<1>2. CASE (\E r \in Repos : OpenRepo(r)) /\ UNCHANGED <<chatVars, historyVars>>
  <2>0. PICK r \in Repos : OpenRepo(r)
    BY <1>2
  <2>1. Give("open_repo", r, "open") /\ "open_repo" \in Kinds /\ r \in Names /\ "open" \in Places
    BY <2>0 DEF OpenRepo, Kinds, Names, Places, RepoPlaces
  <2>2. StateTypeOK'
    BY <2>1, GiveTyped
  <2>3. ChatTypeOK' /\ HistoryTypeOK'
    BY <1>2, <2>0, NoneApart DEF OpenRepo, TypeInv, StateTypeOK, ChatTypeOK, HistoryTypeOK, Versions, chatVars, historyVars
  <2>4. Prepared'
    BY <1>2, <2>0, <2>1, GiveTyped, NoneApart DEF OpenRepo, Prepared, TypeInv, StateTypeOK, HistoryTypeOK, localVars, historyVars,
       RepoPlaces, Loading, HistoryPlaces
  <2> QED
    BY <2>2, <2>3, <2>4 DEF TypeInv
<1>3. CASE (\E r \in Repos : AnalyzeRepo(r)) /\ UNCHANGED <<chatVars, historyVars>>
  <2>0. PICK r \in Repos : AnalyzeRepo(r)
    BY <1>3
  <2>1. Give("analyze_repo", r, "register") /\ "analyze_repo" \in Kinds /\ r \in Names /\ "register" \in Places
    BY <2>0 DEF AnalyzeRepo, Kinds, Names, Places, RepoPlaces
  <2>2. StateTypeOK'
    BY <2>1, GiveTyped
  <2>3. ChatTypeOK' /\ HistoryTypeOK'
    BY <1>3, <2>0, NoneApart DEF AnalyzeRepo, TypeInv, StateTypeOK, ChatTypeOK, HistoryTypeOK, Versions, chatVars, historyVars
  <2>4. Prepared'
    BY <1>3, <2>0, <2>1, GiveTyped, NoneApart DEF AnalyzeRepo, Prepared, TypeInv, StateTypeOK, HistoryTypeOK, localVars, historyVars,
       RepoPlaces, Loading, HistoryPlaces
  <2> QED
    BY <2>2, <2>3, <2>4 DEF TypeInv
<1>4. CASE (\E r \in Repos : UnregisterRepo(r)) /\ UNCHANGED <<chatVars, historyVars>>
  <2>0. PICK r \in Repos : UnregisterRepo(r)
    BY <1>4
  <2>1. Give("unregister_repo", r, "unregister") /\ "unregister_repo" \in Kinds /\ r \in Names /\ "unregister" \in Places
    BY <2>0 DEF UnregisterRepo, Kinds, Names, Places, RepoPlaces
  <2>2. StateTypeOK'
    BY <2>1, GiveTyped
  <2>3. ChatTypeOK' /\ HistoryTypeOK'
    BY <1>4, <2>0, NoneApart DEF UnregisterRepo, TypeInv, StateTypeOK, ChatTypeOK, HistoryTypeOK, Versions, chatVars, historyVars
  <2>4. Prepared'
    BY <1>4, <2>0, <2>1, GiveTyped, NoneApart DEF UnregisterRepo, Prepared, TypeInv, StateTypeOK, HistoryTypeOK, localVars, historyVars,
       RepoPlaces, Loading, HistoryPlaces
  <2> QED
    BY <2>2, <2>3, <2>4 DEF TypeInv
<1>5. CASE ChatAsk /\ UNCHANGED historyVars
  <2>1. Give("chat_ask", None, "activeName") /\ "chat_ask" \in Kinds /\ None \in Names /\ "activeName" \in Places
    BY <1>5 DEF ChatAsk, Kinds, Names, Places, RepoPlaces
  <2>2. StateTypeOK'
    BY <2>1, GiveTyped
  <2>3. ChatTypeOK' /\ HistoryTypeOK'
    BY <1>5, <1>5, NoneApart DEF ChatAsk, TypeInv, StateTypeOK, ChatTypeOK, HistoryTypeOK, Versions, chatVars, historyVars
  <2>4. Prepared'
    BY <1>5, <1>5, <2>1, GiveTyped, NoneApart DEF ChatAsk, Prepared, TypeInv, StateTypeOK, HistoryTypeOK, localVars, historyVars,
       RepoPlaces, Loading, HistoryPlaces
  <2> QED
    BY <2>2, <2>3, <2>4 DEF TypeInv
<1>6. CASE ChatCancel /\ UNCHANGED historyVars
  <2>1. Give("chat_cancel", None, "done") /\ "chat_cancel" \in Kinds /\ None \in Names /\ "done" \in Places
    BY <1>6 DEF ChatCancel, Kinds, Names, Places, RepoPlaces
  <2>2. StateTypeOK'
    BY <2>1, GiveTyped
  <2>3. ChatTypeOK' /\ HistoryTypeOK'
    BY <1>6, <1>6, NoneApart DEF ChatCancel, TypeInv, StateTypeOK, ChatTypeOK, HistoryTypeOK, Versions, chatVars, historyVars
  <2>4. Prepared'
    BY <1>6, <1>6, <2>1, GiveTyped, NoneApart DEF ChatCancel, Prepared, TypeInv, StateTypeOK, HistoryTypeOK, localVars, historyVars,
       RepoPlaces, Loading, HistoryPlaces
  <2> QED
    BY <2>2, <2>3, <2>4 DEF TypeInv
<1>7. CASE SnapshotCreate
  <2>1. Give("snapshot_create", None, "activeName") /\ "snapshot_create" \in Kinds /\ None \in Names /\ "activeName" \in Places
    BY <1>7 DEF SnapshotCreate, Kinds, Names, Places, RepoPlaces
  <2>2. StateTypeOK'
    BY <2>1, GiveTyped
  <2>3. ChatTypeOK' /\ HistoryTypeOK'
    BY <1>7, <1>7, NoneApart DEF SnapshotCreate, TypeInv, StateTypeOK, ChatTypeOK, HistoryTypeOK, Versions, chatVars, historyVars
  <2>4. Prepared'
    BY <1>7, <1>7, <2>1, GiveTyped, NoneApart DEF SnapshotCreate, Prepared, TypeInv, StateTypeOK, HistoryTypeOK, localVars, historyVars,
       RepoPlaces, Loading, HistoryPlaces
  <2> QED
    BY <2>2, <2>3, <2>4 DEF TypeInv
<1>8. CASE \E r \in Repos : \E id \in index[r] : SnapshotDelete(id)
  <2>a. PICK r \in Repos : \E id \in index[r] : SnapshotDelete(id)
    BY <1>8
  <2>0. PICK id \in index[r] : SnapshotDelete(id)
    BY <2>a
  <2>1. Give("snapshot_delete", None, "activeName") /\ "snapshot_delete" \in Kinds /\ None \in Names /\ "activeName" \in Places
    BY <2>0 DEF SnapshotDelete, Kinds, Names, Places, RepoPlaces
  <2>2. StateTypeOK'
    BY <2>1, GiveTyped
  <2>3. ChatTypeOK' /\ HistoryTypeOK'
    <3>1. id \in Versions /\ UNCHANGED <<chatVars, index, copies, clock, history, disturbed, deaths>>
      BY <2>0 DEF SnapshotDelete, TypeInv, HistoryTypeOK, Versions
    <3>2. own' = [own EXCEPT ![started + 1] = id]
      BY <2>0 DEF SnapshotDelete
    <3> QED
      BY <3>1, <3>2 DEF TypeInv, ChatTypeOK, HistoryTypeOK, chatVars
  <2>4. Prepared'
    BY <1>8, <2>0, <2>1, GiveTyped, NoneApart DEF SnapshotDelete, Prepared, TypeInv, StateTypeOK, HistoryTypeOK, localVars, historyVars,
       RepoPlaces, Loading, HistoryPlaces
  <2> QED
    BY <2>2, <2>3, <2>4 DEF TypeInv
<1> QED
  BY <1>1, <1>2, <1>3, <1>4, <1>5, <1>6, <1>7, <1>8

LEMMA QuitTyped == TypeInv /\ QuitAndStart => TypeInv'
<1> SUFFICES ASSUME TypeInv, QuitAndStart PROVE TypeInv'
  OBVIOUS
<1> USE DEF QuitAndStart
<1>1. StateTypeOK'
  <2>1. None \in Names /\ None \in Versions /\ "done" \in Places
    BY DEF Names, Versions, Places
  <2>2. pc' \in [Commands -> Places]
    BY <2>1 DEF TypeInv, StateTypeOK
  <2> QED
    BY <2>1, <2>2 DEF TypeInv, StateTypeOK, diskVars
<1>2. ChatTypeOK'
  BY DEF TypeInv, ChatTypeOK, Versions
<1>3. HistoryTypeOK'
  <2>1. index' \in [Repos -> SUBSET (1 .. clock)]
    BY DEF TypeInv, HistoryTypeOK
  <2>2. disturbed' \subseteq Names
    BY DEF TypeInv, HistoryTypeOK, StateTypeOK
  <2> QED
    BY <2>1, <2>2 DEF TypeInv, HistoryTypeOK
<1>4. Prepared'
  <2>1. \A n \in Commands : pc'[n] \in {"idle", "done"} /\ (n > started => pc'[n] = "idle")
                             /\ (pc'[n] # "idle" => pc[n] # "idle")
    BY DEF TypeInv, Prepared, Running
  <2> QED
    BY <2>1 DEF TypeInv, Prepared, RepoPlaces, Loading, HistoryPlaces
<1> QED
  BY <1>1, <1>2, <1>3, <1>4 DEF TypeInv

LEMMA StutterTyped == TypeInv /\ UNCHANGED vars => TypeInv'
BY DEF vars, desktopVars, diskVars, stateVars, callVars, localVars, chatVars, historyVars,
       TypeInv, StateTypeOK, ChatTypeOK, HistoryTypeOK, Prepared

LEMMA InitTyped == Init => TypeInv
<1> SUFFICES ASSUME Init PROVE TypeInv
  OBVIOUS
<1> USE NoneApart, DesktopAssumption DEF Init, DesktopInit, ChatInit, HistoryInit
<1>1. StateTypeOK
  <2>1. None \in Names /\ None \in Versions /\ "idle" \in Places /\ 1 \in Versions /\ 0 \in 0 .. MaxCommands
    BY DEF Names, Versions, Places
  <2>2. active_repo \in Names /\ registry \subseteq Repos
    BY DEF Names
  <2> QED
    BY <2>1, <2>2 DEF StateTypeOK
<1>2. ChatTypeOK /\ HistoryTypeOK
  BY DEF ChatTypeOK, HistoryTypeOK, Versions
<1>3. Prepared
  BY DEF Prepared, RepoPlaces, Loading, HistoryPlaces
<1> QED
  BY <1>1, <1>2, <1>3 DEF TypeInv

LEMMA NextTyped == TypeInv /\ [Next]_vars => TypeInv'
<1> SUFFICES ASSUME TypeInv, [Next]_vars PROVE TypeInv'
  OBVIOUS
<1>1. CASE StateNext /\ UNCHANGED <<chatVars, historyVars>>
  <2>1. CASE \E r \in Repos : PublishBeside(r)
    BY <1>1, <2>1 DEF PublishBeside, Publish, TypeInv, StateTypeOK, ChatTypeOK, HistoryTypeOK, Prepared,
         stateVars, callVars, localVars, chatVars, historyVars
  <2>2. CASE \E n \in Commands : StateStep(n)
    BY <1>1, <2>2, StateTyped
  <2> QED
    BY <1>1, <2>1, <2>2, GivenTyped DEF StateNext
<1>2. CASE ChatNext /\ UNCHANGED historyVars
  BY <1>2, GivenTyped, ChatTyped DEF ChatNext
<1>3. CASE HistoryNext
  BY <1>3, GivenTyped, HistoryTyped DEF HistoryNext
<1>4. CASE QuitAndStart
  BY <1>4, QuitTyped
<1>5. CASE UNCHANGED vars
  BY <1>5, StutterTyped
<1> QED
  BY <1>1, <1>2, <1>3, <1>4, <1>5 DEF Next

(* Every variable of the application keeps its type, no command works on a *)
(* repository or a list before it has one, and none acts that was not      *)
(* given.                                                                  *)
THEOREM DesktopTypeCorrect == Spec => []TypeInv
BY InitTyped, NextTyped, PTL DEF Spec

(* Every action that gives a command gives it a kind, a name and a place.  *)
LEMMA NextGives ==
  ASSUME \/ ListRepos \/ \E r \in Repos : OpenRepo(r) \/ AnalyzeRepo(r) \/ UnregisterRepo(r)
         \/ ChatAsk \/ ChatCancel
         \/ SnapshotCreate \/ \E r \in Repos : \E id \in index[r] : SnapshotDelete(id)
  PROVE  \E k \in Kinds, r \in Names, first \in Places \ ({"recheck"} \union Loading) : Give(k, r, first)
<1>1. /\ {"idle", "done", "activeName", "readRegistry", "open", "register", "unregister"}
            \subseteq Places \ ({"recheck"} \union Loading)
      /\ Repos \subseteq Names /\ None \in Names
  BY DEF Places, RepoPlaces, Loading, Names
<1> USE <1>1 DEF Kinds
<1>2. ASSUME ListRepos
      PROVE  \E k \in Kinds, r \in Names, first \in Places \ ({"recheck"} \union Loading) : Give(k, r, first)
  BY <1>2 DEF ListRepos
<1>3. ASSUME NEW q \in Repos, OpenRepo(q) \/ AnalyzeRepo(q) \/ UnregisterRepo(q)
      PROVE  \E k \in Kinds, r \in Names, first \in Places \ ({"recheck"} \union Loading) : Give(k, r, first)
  BY <1>3 DEF OpenRepo, AnalyzeRepo, UnregisterRepo
<1>4. ASSUME ChatAsk \/ ChatCancel
      PROVE  \E k \in Kinds, r \in Names, first \in Places \ ({"recheck"} \union Loading) : Give(k, r, first)
  BY <1>4 DEF ChatAsk, ChatCancel
<1>5. ASSUME SnapshotCreate
      PROVE  \E k \in Kinds, r \in Names, first \in Places \ ({"recheck"} \union Loading) : Give(k, r, first)
  BY <1>5 DEF SnapshotCreate
<1>6. ASSUME NEW id, SnapshotDelete(id)
      PROVE  \E k \in Kinds, r \in Names, first \in Places \ ({"recheck"} \union Loading) : Give(k, r, first)
  BY <1>6 DEF SnapshotDelete
<1> QED
  BY <1>2, <1>3, <1>4, <1>5, <1>6

-----------------------------------------------------------------------------
(* The loading of graphs. *)

(* What a command does that is not loading a graph, before and after.      *)
LEMMA LoadElsewhere ==
  ASSUME TypeInv, TypeInv', LoadInv, NEW n \in Commands,
         pc'[n] \notin {"recheck"} \union Loading,
         \A m \in Commands : m # n => pc'[m] = pc[m] /\ repo'[m] = repo[m] /\ got'[m] = got[m],
         load_lock' = load_lock \/ load_lock = n,
         UNCHANGED <<repos, removed>>,
         \A r \in Repos : published'[r] >= published[r]
  PROVE  LoadInv'
<1>1. \A r \in Repos : removed'[r].version <= published'[r]
  BY DEF LoadInv, TypeInv, StateTypeOK
<1>2. ShownIsReloaded'
  BY DEF LoadInv, ShownIsReloaded
<1>3. \A m \in Commands : pc'[m] \in {"recheck"} \union Loading => m # n /\ load_lock' = m
  BY DEF LoadInv
<1> QED
  BY <1>1, <1>2, <1>3 DEF LoadInv, Loading

(* A command that loads a graph does it alone. *)
LEMMA LoadAlone ==
  ASSUME TypeInv, LoadInv, NEW m \in Commands, NEW n \in Commands,
         pc[m] \in {"recheck"} \union Loading, pc[n] \in {"recheck"} \union Loading
  PROVE  m = n
BY DEF LoadInv

LEMMA LoadOpen ==
  ASSUME TypeInv, TypeInv', LoadInv, NEW n \in Commands, OpenStep(n)
  PROVE  LoadInv'
<1> USE NoneApart
<1>1. CASE OpenFast(n)
  BY <1>1, LoadElsewhere DEF OpenFast, GoTo, localVars, diskVars, stateVars, TypeInv, StateTypeOK, Loading
<1>2. CASE TakeLoadLock(n)
  BY <1>2 DEF TakeLoadLock, GoTo, localVars, diskVars, TypeInv, StateTypeOK, Loading, LoadInv, ShownIsReloaded
<1>3. CASE Recheck(n)
  BY <1>3 DEF Recheck, GoTo, localVars, diskVars, stateVars, TypeInv, StateTypeOK, Loading, LoadInv, ShownIsReloaded
<1>4. CASE FindEntry(n)
  <2>1. CASE repo[n] \in registry
    BY <1>4, <2>1 DEF FindEntry, GoTo, localVars, diskVars, TypeInv, StateTypeOK, Loading, LoadInv, ShownIsReloaded
  <2>2. CASE repo[n] \notin registry
    BY <1>4, <2>2, LoadElsewhere DEF FindEntry, GoTo, Return, diskVars, TypeInv, StateTypeOK, Loading
  <2> QED
    BY <2>1, <2>2
<1>5. CASE LoadSnapshot(n)
  <2>1. CASE Return(n)
    BY <1>5, <2>1, LoadElsewhere DEF LoadSnapshot, GoTo, Return, diskVars, TypeInv, StateTypeOK, Loading
  <2>2. CASE ~Return(n)
    <3>1. /\ pc' = [pc EXCEPT ![n] = "insert"] /\ got' = [got EXCEPT ![n] = published[repo[n]]]
          /\ UNCHANGED <<repo, published, repos, removed, load_lock>> /\ pc[n] = "load"
      BY <1>5, <2>2 DEF LoadSnapshot, GoTo, diskVars
    <3>2. repo[n] \in Repos
      BY <3>1 DEF TypeInv, Prepared, RepoPlaces, Loading
    <3>3. got'[n] >= removed[repo[n]].version
      BY <3>1, <3>2 DEF LoadInv, TypeInv, StateTypeOK
    <3> QED
      BY <3>1, <3>3 DEF TypeInv, StateTypeOK, Loading, LoadInv, ShownIsReloaded
  <2> QED
    BY <2>1, <2>2
<1>6. CASE InsertRepo(n)
  <2>1. /\ pc[n] = "insert" /\ pc' = [pc EXCEPT ![n] = "activate"]
        /\ repos' = [repos EXCEPT ![repo[n]] = got[n]]
        /\ UNCHANGED <<repo, got, published, removed, load_lock>>
    BY <1>6 DEF InsertRepo, GoTo, localVars, diskVars
  <2>2. \A m \in Commands : pc'[m] \notin {"recheck"} \union Loading
    BY <2>1, LoadAlone DEF TypeInv, StateTypeOK, Loading
  <2>3. ShownIsReloaded'
    BY <2>1 DEF LoadInv, ShownIsReloaded, TypeInv, StateTypeOK
  <2> QED
    BY <2>1, <2>2, <2>3 DEF LoadInv, Loading
<1>7. CASE Activate(n)
  BY <1>7, LoadElsewhere DEF Activate, GoTo, Return, localVars, diskVars, TypeInv, StateTypeOK, Loading
<1> QED
  BY <1>1, <1>2, <1>3, <1>4, <1>5, <1>6, <1>7 DEF OpenStep

(* A reload shows nothing, and who has an older snapshot in hand is noted. *)
LEMMA LoadReload ==
  ASSUME TypeInv, TypeInv', LoadInv, NEW n \in Commands, ReloadRepo(n)
  PROVE  LoadInv'
<1> USE NoneApart
<1>1. /\ pc[n] = "remove" /\ pc' = [pc EXCEPT ![n] = "open"]
      /\ repos' = [repos EXCEPT ![repo[n]] = None]
      /\ UNCHANGED <<repo, got, published, load_lock>>
  BY DEF ReloadRepo, Remove, GoTo, localVars, diskVars
<1>2. \A r \in Repos : r # repo[n] => removed'[r] = removed[r]
  BY DEF ReloadRepo, Remove, TypeInv, StateTypeOK
<1>3. repo[n] \in Repos
  BY <1>1 DEF TypeInv, Prepared, RepoPlaces
<1>4. /\ removed'[repo[n]].version = published[repo[n]]
      /\ removed'[repo[n]].overtaken = \E m \in Commands : pc[m] = "insert" /\ repo[m] = repo[n]
  BY <1>3 DEF ReloadRepo, Remove, TypeInv, StateTypeOK
<1>5. \A r \in Repos : removed'[r].version <= published'[r]
  BY <1>1, <1>2, <1>4 DEF LoadInv, TypeInv, StateTypeOK
<1>6. ShownIsReloaded'
  BY <1>1, <1>2 DEF LoadInv, ShownIsReloaded, TypeInv, StateTypeOK
<1>7. ASSUME NEW m \in Commands
      PROVE  /\ pc'[m] \in {"recheck"} \union Loading => load_lock' = m
             /\ pc'[m] \in Loading => repos'[repo'[m]] = None
             /\ pc'[m] = "insert" =>
                  got'[m] >= removed'[repo'[m]].version \/ removed'[repo'[m]].overtaken
  <2>1. pc'[m] = IF m = n THEN "open" ELSE pc[m]
    BY <1>1 DEF TypeInv, StateTypeOK
  <2>2. pc'[m] = "insert" => repo[m] \in Repos
    BY <2>1 DEF TypeInv, Prepared, RepoPlaces, Loading
  <2>3. pc'[m] \in Loading => repos'[repo'[m]] = None
    BY <1>1, <2>1 DEF LoadInv, TypeInv, StateTypeOK, Loading
  <2>4. pc'[m] \in {"recheck"} \union Loading => load_lock' = m
    BY <1>1, <2>1 DEF LoadInv, Loading
  <2>5. ASSUME pc'[m] = "insert"
        PROVE  got'[m] >= removed'[repo'[m]].version \/ removed'[repo'[m]].overtaken
    <3>1. pc[m] = "insert" /\ repo'[m] = repo[m] /\ got'[m] = got[m]
      BY <1>1, <2>1, <2>5
    <3>2. CASE repo[m] = repo[n]
      BY <1>4, <3>1, <3>2
    <3>3. CASE repo[m] # repo[n]
      BY <1>2, <2>2, <2>5, <3>1, <3>3 DEF LoadInv
    <3> QED
      BY <3>2, <3>3
  <2> QED
    BY <2>3, <2>4, <2>5
<1> QED
  BY <1>5, <1>6, <1>7 DEF LoadInv

LEMMA LoadState ==
  ASSUME TypeInv, TypeInv', LoadInv, NEW n \in Commands, StateStep(n)
  PROVE  LoadInv'
<1> USE DEF GoTo, localVars, diskVars, TypeInv, StateTypeOK, Loading
<1>1. CASE ReadRegistry(n)
  BY <1>1, LoadElsewhere DEF ReadRegistry, Return
<1>2. CASE SetRegistry(n)
  BY <1>2, LoadElsewhere, SMTT(30) DEF SetRegistry, Return
<1>3. CASE Register(n)
  BY <1>3, LoadElsewhere, SMTT(30) DEF Register, Return
<1>4. CASE SaveSnapshot(n)
  <2>1. \A r \in Repos : published'[r] >= published[r]
    BY <1>4 DEF SaveSnapshot, Publish
  <2> QED
    BY <1>4, <2>1, LoadElsewhere DEF SaveSnapshot, Return
<1>5. CASE Unregister(n)
  BY <1>5, LoadElsewhere DEF Unregister, Return
<1> QED
  BY <1>1, <1>2, <1>3, <1>4, <1>5, LoadOpen, LoadReload DEF StateStep

LEMMA LoadChat ==
  ASSUME TypeInv, TypeInv', LoadInv, NEW n \in Commands, ChatStep(n)
  PROVE  LoadInv'
<1> USE DEF GoTo, Return, AnswerStep, localVars, diskVars, TypeInv, StateTypeOK, Loading
<1>1. CASE ActiveName(n)
  BY <1>1, LoadElsewhere DEF ActiveName
<1>2. CASE GetRepo(n)
  BY <1>2, LoadElsewhere, SMTT(30) DEF GetRepo
<1>3. CASE StreamCompletion(n)
  BY <1>3, LoadElsewhere DEF StreamCompletion
<1>4. CASE NextChunk(n)
  BY <1>4, LoadElsewhere DEF NextChunk
<1>5. CASE ShowChunk(n)
  BY <1>5, LoadElsewhere DEF ShowChunk
<1>6. CASE Cancelled(n)
  BY <1>6, LoadElsewhere DEF Cancelled
<1>7. CASE EndOfStream(n)
  BY <1>7, LoadElsewhere DEF EndOfStream
<1>8. CASE ExecuteTools(n)
  BY <1>8, LoadElsewhere DEF ExecuteTools
<1> QED
  BY <1>1, <1>2, <1>3, <1>4, <1>5, <1>6, <1>7, <1>8 DEF ChatStep

LEMMA LoadHistory ==
  ASSUME TypeInv, TypeInv', LoadInv, NEW n \in Commands, HistoryCommandStep(n)
  PROVE  LoadInv'
<1> USE DEF GoTo, Return, HistoryStep, localVars, diskVars, TypeInv, StateTypeOK, Loading
<1>1. CASE StoragePath(n)
  BY <1>1, LoadElsewhere DEF StoragePath
<1>2. CASE CopyGraph(n)
  <2>1. PICK place \in {"readIndex", "done"} : pc' = [pc EXCEPT ![n] = place]
    BY <1>2 DEF CopyGraph
  <2>2. UNCHANGED <<repo, published, repos, removed>>
    BY <1>2 DEF CopyGraph
  <2>3. /\ \A m \in Commands : m # n => got'[m] = got[m]
        /\ load_lock' = load_lock \/ load_lock = n
    BY <1>2 DEF CopyGraph
  <2> QED
    BY <2>1, <2>2, <2>3, LoadElsewhere
<1>3. CASE ReadIndex(n)
  BY <1>3, LoadElsewhere DEF ReadIndex
<1>4. CASE Evict(n)
  BY <1>4, LoadElsewhere DEF Evict
<1>5. CASE SaveIndex(n)
  BY <1>5, LoadElsewhere DEF SaveIndex
<1>6. CASE RemoveCopy(n)
  BY <1>6, LoadElsewhere DEF RemoveCopy
<1> QED
  BY <1>1, <1>2, <1>3, <1>4, <1>5, <1>6 DEF HistoryCommandStep


LEMMA LoadGiven ==
  ASSUME TypeInv, TypeInv', LoadInv, NEW k \in Kinds, NEW r \in Names,
         NEW first \in Places \ ({"recheck"} \union Loading), Give(k, r, first)
  PROVE  LoadInv'
BY GiveTyped, LoadElsewhere DEF TypeInv, StateTypeOK, localVars, diskVars, stateVars

LEMMA LoadNext == TypeInv /\ TypeInv' /\ LoadInv /\ [Next]_vars => LoadInv'
<1> SUFFICES ASSUME TypeInv, TypeInv', LoadInv, [Next]_vars PROVE LoadInv'
  OBVIOUS
<1>1. CASE \E k \in Kinds, r \in Names, first \in Places \ ({"recheck"} \union Loading) : Give(k, r, first)
  BY <1>1, LoadGiven
<1>2. CASE \E r \in Repos : PublishBeside(r)
  <2>1. \A r \in Repos : published'[r] >= published[r]
    BY <1>2 DEF PublishBeside, Publish, TypeInv, StateTypeOK
  <2>2. UNCHANGED <<pc, repo, got, load_lock, repos, removed>>
    BY <1>2 DEF PublishBeside, stateVars, callVars, localVars
  <2>3. \A r \in Repos : removed[r].version <= published'[r]
    BY <2>1 DEF LoadInv, TypeInv, StateTypeOK
  <2> QED
    BY <2>2, <2>3 DEF LoadInv, ShownIsReloaded
<1>3. CASE \E n \in Commands : StateStep(n) \/ ChatStep(n) \/ HistoryCommandStep(n)
  BY <1>3, LoadState, LoadChat, LoadHistory
<1>4. CASE QuitAndStart
  <2>1. /\ UNCHANGED published
        /\ \A r \in Repos : repos'[r] = None /\ removed'[r].version = 0
    BY <1>4 DEF QuitAndStart, diskVars
  <2>2. \A n \in Commands : pc'[n] \in {"idle", "done"}
    BY <1>4 DEF QuitAndStart, Running
  <2>3. ShownIsReloaded'
    BY <2>1 DEF ShownIsReloaded
  <2>4. \A r \in Repos : removed'[r].version <= published'[r]
    BY <2>1 DEF TypeInv, StateTypeOK
  <2> QED
    BY <2>2, <2>3, <2>4 DEF LoadInv, Loading
<1>5. CASE UNCHANGED vars
  BY <1>5 DEF vars, desktopVars, diskVars, stateVars, callVars, localVars, LoadInv, ShownIsReloaded
<1> QED
  BY <1>1, <1>2, <1>3, <1>4, <1>5, NextGives DEF Next, StateNext, ChatNext, HistoryNext

LEMMA LoadInit == Init => LoadInv
BY DesktopAssumption DEF Init, DesktopInit, LoadInv, ShownIsReloaded, Loading

(* Whoever loads a snapshot holds load_lock, and nothing else is loaded of *)
(* the repository meanwhile; what it loaded is as new as the snapshot that *)
(* was there at the last reload, or that reload has been overtaken.        *)
THEOREM LoadsAreSound == Spec => []LoadInv
BY DesktopTypeCorrect, LoadInit, LoadNext, PTL DEF Spec

(* Whatever commands overlap, the graph that is shown of a repository is   *)
(* not older than the snapshot that was on disk at its last reload, unless *)
(* somebody was about to show an older one when it was removed.            *)
THEOREM ReloadsAreShown == Spec => []ShownIsReloaded
BY LoadsAreSound, PTL DEF LoadInv

(* load_lock and the second look keep two commands from loading the same   *)
(* graph: what is loaded is removed before something else is loaded.       *)
THEOREM LoadsOnce == Spec => LoadedOnce
<1>1. LoadInv /\ TypeInv /\ [Next]_vars => [\A r \in Repos : repos[r] # None => repos'[r] \in {repos[r], None}]_repos
  <2> SUFFICES ASSUME LoadInv, TypeInv, [Next]_vars, NEW r \in Repos, repos[r] # None
               PROVE  repos'[r] \in {repos[r], None}
    OBVIOUS
  <2>1. CASE \E n \in Commands : OpenStep(n)
    <3>1. PICK n \in Commands : OpenStep(n)
      BY <2>1
    <3>2. repos' = repos \/ (pc[n] = "insert" /\ repos' = [repos EXCEPT ![repo[n]] = got[n]])
      BY <3>1 DEF OpenStep, OpenFast, TakeLoadLock, Recheck, FindEntry, LoadSnapshot, InsertRepo, Activate, stateVars
    <3>3. pc[n] = "insert" => repos[repo[n]] = None
      BY DEF LoadInv, Loading
    <3> QED
      BY <3>2, <3>3 DEF TypeInv, StateTypeOK
  <2>2. CASE \E n \in Commands : ReloadRepo(n)
    BY <2>2 DEF ReloadRepo, Remove, TypeInv, StateTypeOK
  <2>3. CASE QuitAndStart
    BY <2>3 DEF QuitAndStart
  <2>4. CASE UNCHANGED repos
    BY <2>4
  <2>5. ASSUME NEW n \in Commands, StateStep(n)
        PROVE  OpenStep(n) \/ ReloadRepo(n) \/ UNCHANGED repos
    BY <2>5 DEF StateStep, ReadRegistry, SetRegistry, Register, SaveSnapshot, Unregister
  <2>6. ASSUME NEW n \in Commands, ChatStep(n) PROVE UNCHANGED repos
    BY <2>6 DEF ChatStep, ActiveName, GetRepo, StreamCompletion, NextChunk, ShowChunk, Cancelled,
         EndOfStream, ExecuteTools, AnswerStep
  <2>7. ASSUME NEW n \in Commands, HistoryCommandStep(n) PROVE UNCHANGED repos
    BY <2>7 DEF HistoryCommandStep, StoragePath, CopyGraph, ReadIndex, Evict, SaveIndex, RemoveCopy, HistoryStep
  <2>8. ASSUME \E k \in Kinds, q \in Names, first \in Places : Give(k, q, first) PROVE UNCHANGED repos
    BY <2>8 DEF Give, stateVars
  <2>9. ASSUME NEW q \in Repos, PublishBeside(q) PROVE UNCHANGED repos
    BY <2>9 DEF PublishBeside, stateVars
  <2> QED
    BY <2>1, <2>2, <2>3, <2>4, <2>5, <2>6, <2>7, <2>8, <2>9, NextGives
    DEF Next, StateNext, ChatNext, HistoryNext, vars, desktopVars, stateVars
<1> QED
  BY <1>1, LoadsAreSound, DesktopTypeCorrect, PTL DEF Spec, LoadedOnce

-----------------------------------------------------------------------------
(* Cancelling an answer. *)

LEMMA CancelElsewhere ==
  ASSUME CancelInv, UNCHANGED <<cancel_flag, late>>,
         \A m \in Commands : pc'[m] = "chunk" => pc[m] = "chunk"
  PROVE  CancelInv'
BY DEF CancelInv, CancelStopsSoon

LEMMA CancelChat ==
  ASSUME TypeInv, CancelInv, NEW n \in Commands, ChatStep(n)
  PROVE  CancelInv'
<1> USE DEF GoTo, Return, AnswerStep, chatVars, TypeInv, StateTypeOK
<1>1. CASE ActiveName(n)
  BY <1>1, CancelElsewhere DEF ActiveName
<1>2. CASE GetRepo(n)
  BY <1>2, CancelElsewhere DEF GetRepo
<1>3. CASE StreamCompletion(n)
  BY <1>3, CancelElsewhere DEF StreamCompletion
<1>4. CASE NextChunk(n)
  BY <1>4, NoneApart DEF NextChunk, CancelInv, CancelStopsSoon, ChatTypeOK
<1>5. CASE ShowChunk(n)
  BY <1>5, NoneApart DEF ShowChunk, CancelInv, CancelStopsSoon, ChatTypeOK
<1>6. CASE Cancelled(n)
  BY <1>6, NoneApart DEF Cancelled, CancelInv, CancelStopsSoon
<1>7. CASE EndOfStream(n)
  BY <1>7, CancelElsewhere DEF EndOfStream
<1>8. CASE ExecuteTools(n)
  BY <1>8, CancelElsewhere DEF ExecuteTools
<1> QED
  BY <1>1, <1>2, <1>3, <1>4, <1>5, <1>6, <1>7, <1>8 DEF ChatStep

(* Only an answer comes to have a chunk in hand. *)
LEMMA ChunksAreAnswers ==
  ASSUME TypeInv, NEW n \in Commands, StateStep(n) \/ HistoryCommandStep(n)
  PROVE  \A m \in Commands : pc'[m] = "chunk" => pc[m] = "chunk"
<1> USE DEF GoTo, Return, TypeInv, StateTypeOK
<1>1. CASE OpenStep(n)
  BY <1>1 DEF OpenStep, OpenFast, TakeLoadLock, Recheck, FindEntry, LoadSnapshot, InsertRepo, Activate
<1>2. CASE StateStep(n) /\ ~OpenStep(n)
  BY <1>2 DEF StateStep, ReloadRepo, ReadRegistry, SetRegistry, Register, SaveSnapshot, Unregister
<1>3. CASE HistoryCommandStep(n)
  BY <1>3 DEF HistoryCommandStep, StoragePath, CopyGraph, ReadIndex, Evict, SaveIndex, RemoveCopy
<1> QED
  BY <1>1, <1>2, <1>3

LEMMA CancelNext == TypeInv /\ CancelInv /\ [Next]_vars => CancelInv'
<1> SUFFICES ASSUME TypeInv, CancelInv, [Next]_vars PROVE CancelInv'
  OBVIOUS
<1>1. CASE ChatCancel
  <2>1. \A m \in Commands : pc'[m] = "chunk" => pc[m] = "chunk"
    BY <1>1 DEF ChatCancel, Give, TypeInv, StateTypeOK
  <2>2. cancel_flag' /\ \A m \in Commands : late'[m] = late[m] \/ late'[m] = 0
    BY <1>1 DEF ChatCancel
  <2> QED
    BY <2>1, <2>2, NoneApart DEF CancelInv, CancelStopsSoon
<1>2. ASSUME \/ ListRepos \/ \E r \in Repos : OpenRepo(r) \/ AnalyzeRepo(r) \/ UnregisterRepo(r)
             \/ ChatAsk \/ SnapshotCreate
             \/ \E r \in Repos : \E id \in index[r] : SnapshotDelete(id)
      PROVE  \A m \in Commands : pc'[m] = "chunk" => pc[m] = "chunk"
  BY <1>2 DEF ListRepos, OpenRepo, AnalyzeRepo, UnregisterRepo, ChatAsk, SnapshotCreate, SnapshotDelete,
       Give, TypeInv, StateTypeOK
<1>3. ASSUME \E r \in Repos : PublishBeside(r) PROVE UNCHANGED pc
  BY <1>3 DEF PublishBeside, callVars
<1>4. CASE QuitAndStart
  BY <1>4, NoneApart DEF QuitAndStart, CancelInv, CancelStopsSoon
<1>5. CASE UNCHANGED vars
  BY <1>5, CancelElsewhere DEF vars, desktopVars, callVars, chatVars
<1>6. CASE StateNext /\ UNCHANGED <<chatVars, historyVars>>
  BY <1>2, <1>3, <1>6, CancelElsewhere, ChunksAreAnswers DEF StateNext, chatVars
<1>7. CASE ChatNext
  BY <1>1, <1>2, <1>7, CancelElsewhere, CancelChat DEF ChatNext, ChatAsk, chatVars
<1>8. CASE HistoryNext
  <2>1. UNCHANGED <<cancel_flag, late>>
    BY <1>8 DEF HistoryNext, SnapshotCreate, SnapshotDelete, HistoryCommandStep, StoragePath, CopyGraph,
         ReadIndex, Evict, SaveIndex, RemoveCopy, HistoryStep, chatVars
  <2> QED
    BY <1>2, <1>8, <2>1, CancelElsewhere, ChunksAreAnswers DEF HistoryNext
<1> QED
  BY <1>4, <1>5, <1>6, <1>7, <1>8 DEF Next

(* In whichever round an answer is, and however many are given at once: it *)
(* shows one chunk more at most after it was to be cancelled, the one it   *)
(* had in hand; the flag stays up until an answer has been given up.       *)
THEOREM CancelsSoon == Spec => []CancelStopsSoon
<1>1. Init => CancelInv
  BY NoneApart DEF Init, ChatInit, CancelInv, CancelStopsSoon
<1> QED
  BY <1>1, CancelNext, DesktopTypeCorrect, PTL DEF Spec, CancelInv


-----------------------------------------------------------------------------
(* The history of snapshots. *)

(* The newest ones are few enough, and newer than the others. *)
LEMMA NewestOnes ==
  ASSUME NEW S \in SUBSET Nat, IsFiniteSet(S)
  PROVE  /\ Newest(S) \subseteq S
         /\ Cardinality(Newest(S)) <= MaxSnapshots
         /\ \A i \in S \ Newest(S), j \in Newest(S) : i < j
<1> DEFINE Above(i) == {k \in S : k > i}
<1>0. S \subseteq Nat
  OBVIOUS
<1>1. ASSUME NEW i \in S
      PROVE  IsFiniteSet(Above(i)) /\ Cardinality(Above(i)) \in Nat
  BY FS_Subset, FS_CardinalityType, Above(i) \in SUBSET S
<1>2. \A i \in S : i \in Newest(S) <=> Cardinality(Above(i)) < MaxSnapshots
  BY DEF Newest
<1>3. Newest(S) \subseteq S
  BY DEF Newest
<1>4. ASSUME NEW i \in S \ Newest(S), NEW j \in Newest(S), ~(i < j) PROVE FALSE
  <2>1. ASSUME NEW k \in Above(i) PROVE k \in Above(j)
    <3>1. k \in Nat /\ i \in Nat /\ j \in Nat /\ k > i /\ k \in S
      BY <1>3
    <3> QED
      BY <1>4, <3>1
  <2>2. Cardinality(Above(i)) <= Cardinality(Above(j))
    BY <1>1, <1>3, <2>1, FS_Subset
  <2>3. Cardinality(Above(j)) < MaxSnapshots /\ ~(Cardinality(Above(i)) < MaxSnapshots)
    BY <1>2, <1>3
  <2>4. Cardinality(Above(j)) \in Nat /\ Cardinality(Above(i)) \in Nat
    BY <1>1, <1>3
  <2> QED
    BY <2>2, <2>3, <2>4, HistoryAssumption
<1>5. Cardinality(Newest(S)) <= MaxSnapshots
  <2>1. CASE Newest(S) = {}
    BY <2>1, FS_EmptySet, HistoryAssumption
  <2>2. CASE Newest(S) # {}
    <3>1. PICK m \in Newest(S) : \A j \in Newest(S) : ~(j < m)
      <4>1. PICK m \in Newest(S) : \A j \in Newest(S) : <<j, m>> \notin OpToRel(<, Nat)
        BY <1>3, <2>2, NatLessThanWellFounded, WFMin
      <4> QED
        BY <1>3, <4>1 DEF OpToRel
    <3>2. ASSUME NEW k \in Newest(S) \ {m} PROVE k \in Above(m)
      <4>1. k \in Nat /\ m \in Nat /\ k # m /\ ~(k < m) /\ k \in S
        BY <1>3, <3>1
      <4> QED
        BY <4>1
    <3>3. Cardinality(Newest(S) \ {m}) <= Cardinality(Above(m)) /\ IsFiniteSet(Newest(S) \ {m})
      BY <1>1, <1>3, <3>2, FS_Subset
    <3>4. Cardinality((Newest(S) \ {m}) \union {m}) = Cardinality(Newest(S) \ {m}) + 1
      BY <3>3, FS_AddElement
    <3>5. (Newest(S) \ {m}) \union {m} = Newest(S)
      OBVIOUS
    <3>6. Cardinality(Above(m)) < MaxSnapshots /\ Cardinality(Above(m)) \in Nat
      BY <1>1, <1>2, <1>3
    <3>7. Cardinality(Newest(S) \ {m}) \in Nat
      BY <3>3, FS_CardinalityType
    <3> QED
      BY <3>3, <3>4, <3>5, <3>6, <3>7, HistoryAssumption
  <2> QED
    BY <2>1, <2>2
<1> QED
  BY <1>3, <1>4, <1>5

(* What is at work elsewhere does not touch the copies. *)
LEMMA HistoryElsewhere ==
  ASSUME TypeInv, HistoryInv, UNCHANGED <<index, copies, history, disturbed>>,
         \A m \in Commands :
           \/ pc[m] \notin HistoryPlaces /\ pc'[m] \notin HistoryPlaces
           \/ /\ pc'[m] = pc[m] /\ repo'[m] = repo[m] /\ kind'[m] = kind[m]
              /\ own'[m] = own[m] /\ entries'[m] = entries[m]
  PROVE  HistoryInv'
<1> SUFFICES ASSUME NEW r \in Repos \ disturbed
             PROVE  /\ Settled(r)'
                    /\ \A m, n \in Commands : Working(m, r)' /\ Working(n, r)' => m = n
                    /\ (\A n \in Commands : ~Working(n, r)') => index'[r] = copies'[r]
                    /\ \A n \in Commands : Working(n, r)' => Progress(n, r)'
  BY DEF HistoryInv
<1>1. Settled(r)'
  BY DEF HistoryInv, Settled
<1>2. \A n \in Commands : Working(n, r)' <=> Working(n, r)
  BY DEF Working
<1>3. ASSUME NEW n \in Commands, Working(n, r)' PROVE Progress(n, r)'
  <2>1. Progress(n, r)
    BY <1>2, <1>3 DEF HistoryInv
  <2>2. /\ pc'[n] = pc[n] /\ repo'[n] = repo[n] /\ kind'[n] = kind[n]
        /\ own'[n] = own[n] /\ entries'[n] = entries[n]
    BY <1>3 DEF Working
  <2> QED
    BY <2>1, <2>2 DEF Progress, Fresh
<1> QED
  BY <1>1, <1>2, <1>3 DEF HistoryInv

(* A step of a command that is alone at work on the copies of r, or was    *)
(* not and is now: it is enough to look at r.                              *)
LEMMA HistoryMove ==
  ASSUME TypeInv, HistoryInv, NEW n \in Commands, NEW r \in Repos, repo[n] = r,
         UNCHANGED <<repo, kind>>, disturbed \subseteq disturbed',
         \A m \in Commands : m # n =>
           pc'[m] = pc[m] /\ own'[m] = own[m] /\ entries'[m] = entries[m],
         \A q \in Repos : q # r =>
           index'[q] = index[q] /\ copies'[q] = copies[q] /\ history'[q] = history[q],
         r \notin disturbed' =>
           /\ Working(n, r) \/ \A m \in Commands : m # n => ~Working(m, r)
           /\ Settled(r)'
           /\ IF pc'[n] \in HistoryPlaces THEN Progress(n, r)' ELSE index'[r] = copies'[r]
  PROVE  HistoryInv'
<1> SUFFICES ASSUME NEW q \in Repos \ disturbed'
             PROVE  /\ Settled(q)'
                    /\ \A k, m \in Commands : Working(k, q)' /\ Working(m, q)' => k = m
                    /\ (\A m \in Commands : ~Working(m, q)') => index'[q] = copies'[q]
                    /\ \A m \in Commands : Working(m, q)' => Progress(m, q)'
  BY DEF HistoryInv
<1>1. CASE q = r
  <2>1. \A m \in Commands : m # n => ~Working(m, r)'
    BY <1>1 DEF Working, HistoryInv
  <2> QED
    BY <1>1, <2>1 DEF Working
<1>2. CASE q # r
  <2>1. \A m \in Commands : Working(m, q)' <=> (m # n /\ Working(m, q))
    BY <1>2 DEF Working
  <2>2. \A m \in Commands : Working(m, q) => m # n
    BY <1>2 DEF Working
  <2>3. Settled(q)'
    BY <1>2 DEF HistoryInv, Settled
  <2>4. ASSUME NEW m \in Commands, Working(m, q)' PROVE Progress(m, q)'
    <3>1. Progress(m, q)
      BY <2>1, <2>4 DEF HistoryInv
    <3> QED
      BY <1>2, <2>1, <2>4, <3>1 DEF Progress, Fresh
  <2> QED
    BY <1>2, <2>1, <2>2, <2>3, <2>4 DEF HistoryInv
<1> QED
  BY <1>1, <1>2


(* The lists are finite sets of times. *)
LEMMA Times ==
  ASSUME TypeInv, NEW r \in Repos
  PROVE  /\ \A S \in SUBSET (1 .. clock) : IsFiniteSet(S) /\ S \subseteq Nat
         /\ index[r] \subseteq 1 .. clock /\ copies[r] \subseteq 1 .. clock /\ history[r] \subseteq 1 .. clock
<1>1. clock \in Nat /\ IsFiniteSet(1 .. clock)
  BY FS_Interval DEF TypeInv, HistoryTypeOK
<1>2. ASSUME NEW S \in SUBSET (1 .. clock) PROVE IsFiniteSet(S) /\ S \subseteq Nat
  <2>1. IsFiniteSet(S)
    BY <1>1, FS_Subset
  <2> QED
    BY <1>1, <2>1
<1> QED
  BY <1>2 DEF TypeInv, HistoryTypeOK

LEMMA HistoryCommand ==
  ASSUME TypeInv, HistoryInv, NEW n \in Commands, HistoryCommandStep(n)
  PROVE  HistoryInv'
<1>1. PICK r \in Repos : repo[n] = r /\ kind[n] \in HistoryKinds
  BY DEF HistoryCommandStep, StoragePath, CopyGraph, ReadIndex, Evict, SaveIndex, RemoveCopy,
     TypeInv, Prepared, RepoPlaces, HistoryPlaces
<1>2. UNCHANGED <<repo, kind>> /\ disturbed \subseteq disturbed'
  BY DEF HistoryCommandStep, StoragePath, CopyGraph, ReadIndex, Evict, SaveIndex, RemoveCopy, HistoryStep
<1>3. ASSUME Working(n, r), r \notin disturbed
      PROVE  /\ Progress(n, r) /\ Settled(r)
             /\ Fresh(n, r) => \A i \in index[r] \union history[r] : i < own[n]
  BY <1>1, <1>3 DEF HistoryInv, Fresh
<1>4. CASE StoragePath(n)
  <2>1. /\ pc[n] = "getRepo" /\ UNCHANGED <<own, index, copies, history>>
        /\ \A m \in Commands : m # n => pc'[m] = pc[m] /\ entries'[m] = entries[m]
    BY <1>4 DEF StoragePath, GoTo, Return, localVars, TypeInv, StateTypeOK
  <2>2. CASE pc'[n] \notin HistoryPlaces
    <3>1. disturbed' = disturbed
      BY <1>4, <2>2 DEF StoragePath, GoTo, HistoryPlaces, TypeInv, StateTypeOK
    <3> QED
      BY <1>2, <2>1, <2>2, <3>1, HistoryElsewhere DEF HistoryPlaces
  <2>3. CASE pc'[n] \in HistoryPlaces
    <3>1. /\ pc'[n] = IF kind[n] = "snapshot_create" THEN "copy" ELSE "readIndex"
          /\ disturbed' = IF Beside(n, r) = {} THEN disturbed ELSE disturbed \union {r}
      BY <1>1, <1>4, <2>3 DEF StoragePath, GoTo, Return, HistoryPlaces, TypeInv, StateTypeOK
    <3>2. ASSUME r \notin disturbed' PROVE \A m \in Commands : ~Working(m, r)
      BY <2>1, <3>1, <3>2 DEF Beside, Working, HistoryPlaces
    <3>3. ASSUME r \notin disturbed' PROVE Settled(r)' /\ Progress(n, r)'
      BY <1>1, <1>2, <2>1, <3>1, <3>2, <3>3 DEF HistoryInv, Settled, Progress, HistoryKinds
    <3> QED
      BY <1>1, <1>2, <2>1, <2>3, <3>2, <3>3, HistoryMove
  <2> QED
    BY <2>2, <2>3
<1>5. CASE CopyGraph(n)
  <2>1. /\ pc[n] = "copy" /\ kind[n] = "snapshot_create" /\ UNCHANGED <<index, history>>
        /\ Working(n, r)
        /\ \A m \in Commands : m # n => pc'[m] = pc[m] /\ entries'[m] = entries[m] /\ own'[m] = own[m]
        /\ \A q \in Repos : q # r => copies'[q] = copies[q]
    BY <1>1, <1>5 DEF CopyGraph, GoTo, Return, localVars, TypeInv, StateTypeOK, HistoryTypeOK, Prepared, Working, HistoryPlaces
  <2>2. ASSUME r \notin disturbed'
        PROVE  Settled(r)' /\ pc'[n] = "readIndex" /\ Progress(n, r)'
    <3>1. /\ own'[n] = clock + 1 /\ copies'[r] = copies[r] \union {clock + 1} /\ pc'[n] = "readIndex"
      BY <1>1, <1>5, <2>2 DEF CopyGraph, GoTo, TypeInv, StateTypeOK, HistoryTypeOK
    <3>2. Progress(n, r) /\ Settled(r)
      BY <1>2, <1>3, <2>1, <2>2
    <3>3. \A i \in index'[r] \union history'[r] : i \in 1 .. clock
      BY <2>1, Times
    <3>4. Fresh(n, r)'
      BY <3>1, <3>3 DEF Fresh, TypeInv, HistoryTypeOK
    <3> QED
      BY <1>2, <2>1, <3>1, <3>2, <3>4 DEF Progress, Settled
  <2> QED
    BY <1>1, <1>2, <2>1, <2>2, HistoryMove DEF HistoryPlaces
<1>6. CASE ReadIndex(n)
  <2>1. /\ pc[n] = "readIndex" /\ UNCHANGED <<index, history, copies, own>> /\ Working(n, r)
        /\ \A m \in Commands : m # n => pc'[m] = pc[m] /\ entries'[m] = entries[m]
        /\ IF kind[n] = "snapshot_create"
           THEN entries'[n] = index[r] \union {own[n]} /\ pc'[n] = "evict"
           ELSE entries'[n] = index[r] \ {own[n]} /\ pc'[n] = "saveIndex"
    BY <1>1, <1>6 DEF ReadIndex, GoTo, TypeInv, StateTypeOK, Working, HistoryPlaces
  <2>2. ASSUME r \notin disturbed'
        PROVE  Settled(r)' /\ Progress(n, r)'
    BY <1>2, <1>3, <2>1, <2>2 DEF Progress, Settled, Fresh
  <2> QED
    BY <1>1, <1>2, <2>1, <2>2, HistoryMove DEF HistoryPlaces
<1>7. CASE Evict(n)
  <2>1. /\ pc[n] = "evict" /\ kind[n] = "snapshot_create" /\ UNCHANGED <<index, history, own>>
        /\ Working(n, r)
        /\ \A m \in Commands : m # n => pc'[m] = pc[m] /\ entries'[m] = entries[m]
        /\ \A q \in Repos : q # r => copies'[q] = copies[q]
        /\ pc'[n] = "saveIndex" /\ entries'[n] = Newest(entries[n])
        /\ copies'[r] = copies[r] \ (entries[n] \ Newest(entries[n]))
    BY <1>1, <1>7 DEF Evict, GoTo, TypeInv, StateTypeOK, HistoryTypeOK, Prepared, Working, HistoryPlaces
  <2>2. ASSUME r \notin disturbed'
        PROVE  Settled(r)' /\ Progress(n, r)'
    <3>1. Progress(n, r) /\ Settled(r)
      BY <1>2, <1>3, <2>1, <2>2
    <3>2. copies[r] = entries[n] /\ entries[n] = index[r] \union {own[n]} /\ Newest(entries[n]) \subseteq entries[n]
      BY <2>1, <3>1 DEF Progress, Newest
    <3>3. copies'[r] = Newest(index'[r] \union {own'[n]})
      BY <2>1, <3>2
    <3> QED
      BY <1>2, <2>1, <3>1, <3>2, <3>3 DEF Progress, Settled, Fresh
  <2> QED
    BY <1>1, <1>2, <2>1, <2>2, HistoryMove DEF HistoryPlaces
<1>8. CASE SaveIndex(n)
  <2>1. /\ pc[n] = "saveIndex" /\ UNCHANGED <<copies, own>> /\ Working(n, r)
        /\ \A m \in Commands : m # n => pc'[m] = pc[m] /\ entries'[m] = entries[m]
        /\ \A q \in Repos : q # r => index'[q] = index[q] /\ history'[q] = history[q]
    BY <1>1, <1>8 DEF SaveIndex, GoTo, Return, localVars, TypeInv, StateTypeOK, HistoryTypeOK, Working, HistoryPlaces
  <2>2. ASSUME r \notin disturbed'
        PROVE  /\ Settled(r)'
               /\ IF pc'[n] \in HistoryPlaces THEN Progress(n, r)' ELSE index'[r] = copies'[r]
    <3>1. Progress(n, r) /\ Settled(r)
      BY <1>2, <1>3, <2>1, <2>2
    <3>2. index'[r] = entries[n]
      BY <1>1, <1>8, <2>2 DEF SaveIndex, TypeInv, HistoryTypeOK
    <3>3. CASE kind[n] = "snapshot_create"
      <4>1. pc'[n] = "done" /\ history'[r] = history[r] \union {own[n]}
        BY <1>1, <1>8, <2>2, <3>3 DEF SaveIndex, GoTo, Return, TypeInv, StateTypeOK, HistoryTypeOK
      <4>2. index'[r] = copies'[r] /\ index'[r] = Newest(index[r] \union {own[n]})
        BY <2>1, <3>1, <3>2, <3>3 DEF Progress
      <4>3. /\ \A i \in index[r] \union history[r] : i < own[n]
            /\ own[n] \in 1 .. clock
        BY <2>1, <3>1, <3>3 DEF Progress, Fresh, TypeInv, Prepared, HistoryPlaces
      <4>4. /\ Cardinality(index'[r]) <= MaxSnapshots
            /\ \A i \in (index[r] \union {own[n]}) \ index'[r], j \in index'[r] : i < j
            /\ index'[r] \subseteq index[r] \union {own[n]}
        <5>1. index[r] \union {own[n]} \in SUBSET (1 .. clock)
          BY <4>3, Times
        <5>2. IsFiniteSet(index[r] \union {own[n]}) /\ index[r] \union {own[n]} \in SUBSET Nat
          BY <5>1, Times
        <5> QED
          BY <4>2, <5>2, NewestOnes
      <4>5. ASSUME NEW i \in history'[r] \ index'[r], NEW j \in index'[r] PROVE i < j
        <5>1. CASE i \in index[r] \union {own[n]}
          BY <4>4, <5>1
        <5>2. CASE i \in history[r] \ index[r]
          BY <3>1, <4>3, <4>4, <5>2 DEF Settled
        <5> QED
          BY <4>1, <5>1, <5>2
      <4> QED
        BY <4>1, <4>2, <4>4, <4>5 DEF Settled, HistoryPlaces
    <3>4. CASE kind[n] # "snapshot_create"
      <4>1. pc'[n] = "removeCopy" /\ history'[r] = history[r] \ {own[n]}
        BY <1>1, <1>8, <2>2, <3>4 DEF SaveIndex, GoTo, TypeInv, StateTypeOK, HistoryTypeOK
      <4>2. copies[r] = index[r] /\ index'[r] = index[r] \ {own[n]}
        BY <2>1, <3>1, <3>2, <3>4 DEF Progress
      <4>3. Cardinality(index'[r]) <= Cardinality(index[r]) /\ Cardinality(index[r]) \in Nat /\ Cardinality(index'[r]) \in Nat
        BY <1>1, <4>2, Times, FS_Subset, FS_CardinalityType
      <4>4. Settled(r)'
        BY <3>1, <4>1, <4>2, <4>3, HistoryAssumption DEF Settled
      <4> QED
        BY <1>2, <2>1, <3>4, <4>1, <4>2, <4>4 DEF Progress, HistoryPlaces
    <3> QED
      BY <3>3, <3>4
  <2> QED
    BY <1>1, <1>2, <2>1, <2>2, HistoryMove
<1>9. CASE RemoveCopy(n)
  <2>1. /\ pc[n] = "removeCopy" /\ UNCHANGED <<index, history, own>> /\ Working(n, r)
        /\ \A m \in Commands : m # n => pc'[m] = pc[m] /\ entries'[m] = entries[m]
        /\ \A q \in Repos : q # r => copies'[q] = copies[q]
        /\ pc'[n] = "done" /\ copies'[r] = copies[r] \ {own[n]}
    BY <1>1, <1>9 DEF RemoveCopy, GoTo, Return, TypeInv, StateTypeOK, HistoryTypeOK, Working, HistoryPlaces
  <2>2. ASSUME r \notin disturbed'
        PROVE  Settled(r)' /\ index'[r] = copies'[r]
    BY <1>2, <1>3, <2>1, <2>2 DEF Progress, Settled
  <2>3. pc'[n] \notin HistoryPlaces
    BY <2>1 DEF HistoryPlaces
  <2>4. ASSUME r \notin disturbed'
        PROVE  IF pc'[n] \in HistoryPlaces THEN Progress(n, r)' ELSE index'[r] = copies'[r]
    BY <2>2, <2>3, <2>4
  <2>5. \A q \in Repos : q # r =>
          index'[q] = index[q] /\ copies'[q] = copies[q] /\ history'[q] = history[q]
    BY <2>1
  <2>6. \A m \in Commands : m # n => pc'[m] = pc[m] /\ own'[m] = own[m] /\ entries'[m] = entries[m]
    BY <2>1
  <2>7. Working(n, r)
    BY <2>1
  <2> QED
    BY <1>1, <1>2, <2>2, <2>4, <2>5, <2>6, <2>7, HistoryMove
<1> QED
  BY <1>4, <1>5, <1>6, <1>7, <1>8, <1>9 DEF HistoryCommandStep

(* A command of another kind is never at work on the copies. *)
LEMMA OthersElsewhere ==
  ASSUME TypeInv, NEW n \in Commands, StateStep(n) \/ ChatStep(n)
  PROVE  \A m \in Commands :
           \/ pc[m] \notin HistoryPlaces /\ pc'[m] \notin HistoryPlaces
           \/ /\ pc'[m] = pc[m] /\ repo'[m] = repo[m] /\ kind'[m] = kind[m]
              /\ entries'[m] = entries[m]
<1> USE DEF GoTo, Return, TypeInv, StateTypeOK, localVars
<1>1. CASE OpenStep(n)
  BY <1>1 DEF OpenStep, OpenFast, TakeLoadLock, Recheck, FindEntry, LoadSnapshot, InsertRepo, Activate, HistoryPlaces
<1>2. CASE StateStep(n) /\ ~OpenStep(n)
  <2> USE DEF HistoryPlaces
  <2>1. CASE ReloadRepo(n) \/ Unregister(n)
    BY <2>1 DEF ReloadRepo, Remove, Unregister
  <2>2. CASE ReadRegistry(n)
    BY <2>2 DEF ReadRegistry
  <2>3. CASE SetRegistry(n)
    BY <2>3 DEF SetRegistry
  <2>4. CASE Register(n)
    BY <2>4 DEF Register
  <2>5. CASE SaveSnapshot(n)
    BY <2>5 DEF SaveSnapshot
  <2> QED
    BY <1>2, <2>1, <2>2, <2>3, <2>4, <2>5 DEF StateStep
<1>3. CASE ChatStep(n)
  BY <1>3 DEF ChatStep, ActiveName, GetRepo, StreamCompletion, NextChunk, ShowChunk, Cancelled,
       EndOfStream, ExecuteTools, AnswerStep, HistoryPlaces
<1> QED
  BY <1>1, <1>2, <1>3

LEMMA GivesElsewhere ==
  ASSUME TypeInv,
         \/ ListRepos \/ \E r \in Repos : OpenRepo(r) \/ AnalyzeRepo(r) \/ UnregisterRepo(r)
         \/ ChatAsk \/ ChatCancel
         \/ SnapshotCreate \/ \E r \in Repos : \E id \in index[r] : SnapshotDelete(id)
  PROVE  \A m \in Commands :
           \/ /\ m = started + 1 /\ pc[m] \notin HistoryPlaces /\ pc'[m] \notin HistoryPlaces
           \/ /\ m # started + 1 /\ pc'[m] = pc[m] /\ repo'[m] = repo[m] /\ kind'[m] = kind[m]
              /\ entries'[m] = entries[m]
<1>1. \E k \in Kinds, r \in Names, first \in {"activeName", "readRegistry", "open", "register", "unregister", "done"} :
        Give(k, r, first)
  BY DEF ListRepos, OpenRepo, AnalyzeRepo, UnregisterRepo, ChatAsk, ChatCancel, SnapshotCreate,
     SnapshotDelete, Kinds, Names
<1> PICK k \in Kinds, r \in Names, first \in {"activeName", "readRegistry", "open", "register", "unregister", "done"} :
        Give(k, r, first)
  BY <1>1
<1>2. started + 1 \in Commands => pc[started + 1] = "idle"
  BY DEF TypeInv, StateTypeOK, Prepared, Commands
<1> QED
  BY <1>2 DEF Give, localVars, TypeInv, StateTypeOK, HistoryPlaces

LEMMA HistoryNextInv == TypeInv /\ HistoryInv /\ [Next]_vars => HistoryInv'
<1> SUFFICES ASSUME TypeInv, HistoryInv, [Next]_vars PROVE HistoryInv'
  OBVIOUS
<1>1. CASE StateNext /\ UNCHANGED <<chatVars, historyVars>>
  <2>1. CASE \E n \in Commands : StateStep(n)
    BY <1>1, <2>1, OthersElsewhere, HistoryElsewhere DEF historyVars
  <2>2. CASE \E r \in Repos : PublishBeside(r)
    BY <1>1, <2>2, HistoryElsewhere DEF PublishBeside, callVars, localVars, historyVars
  <2>3. CASE ListRepos \/ \E r \in Repos : OpenRepo(r) \/ AnalyzeRepo(r) \/ UnregisterRepo(r)
    BY <1>1, <2>3, GivesElsewhere, HistoryElsewhere DEF historyVars
  <2> QED
    BY <1>1, <2>1, <2>2, <2>3 DEF StateNext
<1>2. CASE ChatNext /\ UNCHANGED historyVars
  BY <1>2, GivesElsewhere, OthersElsewhere, HistoryElsewhere DEF ChatNext, historyVars
<1>3. CASE SnapshotCreate \/ \E r \in Repos : \E id \in index[r] : SnapshotDelete(id)
  <2>1. UNCHANGED <<index, copies, history, disturbed>> /\ \A m \in Commands : m # started + 1 => own'[m] = own[m]
    BY <1>3 DEF SnapshotCreate, SnapshotDelete, historyVars, TypeInv, HistoryTypeOK
  <2> QED
    BY <1>3, <2>1, GivesElsewhere, HistoryElsewhere
<1>4. CASE \E n \in Commands : HistoryCommandStep(n)
  BY <1>4, HistoryCommand
<1>5. CASE QuitAndStart
  <2>1. \A m \in Commands : pc'[m] \notin HistoryPlaces
    BY <1>5 DEF QuitAndStart, Running, HistoryPlaces
  <2>2. ASSUME NEW r \in Repos \ disturbed'
        PROVE  r \notin disturbed /\ index'[r] = index[r] /\ \A m \in Commands : ~Working(m, r)
    BY <1>5, <2>2 DEF QuitAndStart, Working, HistoryPlaces
  <2>3. UNCHANGED <<copies, history>>
    BY <1>5 DEF QuitAndStart
  <2> QED
    BY <2>1, <2>2, <2>3 DEF HistoryInv, Settled, Working
<1>6. CASE UNCHANGED vars
  BY <1>6, HistoryElsewhere DEF vars, desktopVars, callVars, localVars, historyVars
<1> QED
  BY <1>1, <1>2, <1>3, <1>4, <1>5, <1>6 DEF Next, HistoryNext

(* The list of copies shows the newest ones, MaxSnapshots at most, and     *)
(* each of them is there, as long as commands on one repository did not    *)
(* overlap, fail or die: eviction, saving and deletion agree.              *)
THEOREM HistoryShowsNewest == Spec => []HistoryIsNewest
<1>1. Init => HistoryInv
  <2> SUFFICES ASSUME Init PROVE HistoryInv
    OBVIOUS
  <2>1. /\ \A n \in Commands : pc[n] = "idle"
        /\ \A r \in Repos : index[r] = {} /\ copies[r] = {} /\ history[r] = {}
    BY DEF Init, DesktopInit, HistoryInit
  <2>2. \A r \in Repos : Settled(r)
    <3>1. Cardinality({}) <= MaxSnapshots
      BY FS_EmptySet, HistoryAssumption
    <3> QED
      BY <2>1, <3>1 DEF Settled
  <2> QED
    BY <2>1, <2>2 DEF HistoryInv, Working, HistoryPlaces
<1>2. HistoryInv => HistoryIsNewest
  BY DEF HistoryInv, HistoryIsNewest, Settled, Working
<1> QED
  BY <1>1, <1>2, HistoryNextInv, DesktopTypeCorrect, PTL DEF Spec

=============================================================================
