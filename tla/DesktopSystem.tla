----------------------------- MODULE DesktopSystem -----------------------------
(***************************************************************************)
(* The desktop application as a whole: its state, the chat and the history *)
(* of snapshots, whose commands overlap, and the end of the application at *)
(* any moment.                                                             *)
(***************************************************************************)
EXTENDS SnapshotHistory

vars == <<desktopVars, chatVars, historyVars>>

Init == DesktopInit /\ ChatInit /\ HistoryInit

CommandStep(n) ==
  \/ StateStep(n) /\ UNCHANGED <<chatVars, historyVars>>
  \/ ChatStep(n) /\ UNCHANGED historyVars
  \/ HistoryCommandStep(n)

Running(n) == pc[n] \notin {"idle", "done"}

(* The application is ended, and started again.  An index that was being   *)
(* written is read as an empty one.                                        *)
QuitAndStart ==
  /\ deaths < MaxDeaths
  /\ deaths' = deaths + 1
  /\ registry' = {} /\ active_repo' = None /\ load_lock' = None
  /\ repos' = [r \in Repos |-> None]
  /\ removed' = [r \in Repos |-> [version |-> 0, overtaken |-> FALSE]]
  /\ cancel_flag' = FALSE
  /\ pc' = [n \in Commands |-> IF Running(n) THEN "done" ELSE pc[n]]
  /\ got' = [n \in Commands |-> None]
  /\ entries' = [n \in Commands |-> {}]
  /\ late' = [n \in Commands |-> None]
  /\ LET half == {repo[n] : n \in {m \in Commands : pc[m] = "saveIndex"}}
     IN  \/ UNCHANGED index
         \/ half # {} /\ index' = [r \in Repos |-> IF r \in half THEN {} ELSE index[r]]
  /\ disturbed' = disturbed \union
                    {repo[n] : n \in {m \in Commands : pc[m] \in HistoryPlaces}}
  /\ UNCHANGED <<diskVars, started, kind, repo, iteration, chunks,
                 copies, own, clock, history>>

Next ==
  \/ StateNext /\ UNCHANGED <<chatVars, historyVars>>
  \/ ChatNext /\ UNCHANGED historyVars
  \/ HistoryNext
  \/ QuitAndStart

(* The runtime goes on with some task as long as one can go on, and a      *)
(* provider's stream goes on or ends.  Nobody owes it a command.           *)
Fairness == WF_vars(\E n \in Commands : CommandStep(n))

Spec == Init /\ [][Next]_vars /\ Fairness

-----------------------------------------------------------------------------
(* The application always comes to rest again: every command ends, with    *)
(* whatever fails in it, and whoever loads a snapshot, nobody waits for    *)
(* load_lock for ever.                                                     *)
EveryCommandEnds == []<>(\A n \in Commands : ~Running(n))

=============================================================================
