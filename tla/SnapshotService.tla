-------------------------- MODULE SnapshotService --------------------------
(***************************************************************************)
(* What a long-lived server owes to those who ask it about one repository, *)
(* while other processes publish, damage and remove the snapshot: a graph  *)
(* that was the published one at some moment of the request, or an error   *)
(* that something which happened during the request accounts for.          *)
(***************************************************************************)
EXTENDS SnapshotDisk

VARIABLES
  busy,       \* a request is being answered
  seen,       \* what was on disk since it began
  changes,    \* how often that changed
  answer      \* the answer to the last request

serviceVars == <<diskVars, busy, seen, changes, answer>>

ServiceInit ==
  /\ DiskInit
  /\ busy = FALSE
  /\ seen = {}
  /\ changes = 0
  /\ answer = Nothing

(* Only what happens during a request is remembered. *)
Disk ==
  /\ DiskStep
  /\ IF busy THEN seen' = seen \union {disk'} /\ changes' = changes + 1
             ELSE UNCHANGED <<seen, changes>>
  /\ UNCHANGED <<busy, answer>>

Begin ==
  /\ ~busy
  /\ busy' = TRUE
  /\ seen' = {disk}
  /\ changes' = 0
  /\ answer' = Nothing
  /\ UNCHANGED diskVars

Reply(a) ==
  /\ busy
  /\ busy' = FALSE
  /\ seen' = {}
  /\ changes' = 0
  /\ answer' = a
  /\ UNCHANGED diskVars

Answer == \E v \in seen \ ({Gone} \union damaged) : Reply(v)

(* One change during a request is no excuse. *)
Excused == Gone \in seen \/ seen \intersect damaged # {} \/ changes >= 2

Refuse == Excused /\ Reply(Refused)

ServiceNext == Disk \/ Begin \/ Answer \/ Refuse

ServiceSpec == ServiceInit /\ [][ServiceNext]_serviceVars

=============================================================================
