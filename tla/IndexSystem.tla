---------------------------- MODULE IndexSystem ----------------------------
(***************************************************************************)
(* The watch and the analyze commands on one repository.  Nothing in the   *)
(* code keeps the two processes apart; this module composes the sequential *)
(* use of them, analyze while no watch is running, and checks that each    *)
(* hands the other a store it can go on from, also after a crash.          *)
(***************************************************************************)
EXTENDS WatchIndex, AnalyzeIndex

systemVars == <<storeVars, watchVars, analyzeVars>>

SystemInit == Init /\ AnalyzeInit

SystemNext ==
  \/ apc = "off" /\ (WatchStep \/ UpdateStepFails \/ WatchCrash)
       /\ UNCHANGED analyzeVars
  \/ wpc = "down" /\ AnalyzeStep /\ UNCHANGED watchVars
  \/ /\ UserEdit
     /\ NoteEdits
     /\ UNCHANGED <<apc, meta, atodo, awalked, graph>>

SystemSpec == SystemInit /\ [][SystemNext]_systemVars

(* The watch process runs whenever it can; users, whoever calls analyze,   *)
(* and faults owe nothing.                                                 *)
FairSystemSpec ==
  SystemSpec /\ WF_systemVars(apc = "off" /\ WatchStep /\ UNCHANGED analyzeVars)

(* Each program leaves a pair the other can take over: while nothing has   *)
(* failed and neither is between its two saves, the snapshot holds what    *)
(* the manifest records.                                                   *)
HandedOverExactly ==
  (faults = 0 /\ snapExists /\ wpc # "saveManifest" /\ apc # "rewalk")
    => \A f \in Files \ raced : snap[f] = Symbols(manifest[f])

(* analyze rebuilds from nothing, so it repairs whatever crashes of the    *)
(* two programs left behind: of a file nobody edited while it ran, a       *)
(* completed analysis leaves the current symbols, no older ones, and a     *)
(* manifest that says so.                                                  *)
AnalysisRepairs ==
  [][ (apc = "rewalk" /\ apc' = "off" /\ faults' = faults) =>
        \A f \in Files \ touched :
          snap'[f] = Symbols(tree[f]) /\ manifest'[f] = tree[f] ]_systemVars

=============================================================================
