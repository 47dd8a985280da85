---------------------------- MODULE PlanExecutor ----------------------------
(***************************************************************************)
(* The desktop's two commands on research plans and the store they are     *)
(* kept in.  A run of chat_execute_plan works on its own copy of a plan:   *)
(* it goes through the steps level by level, the steps of one level at the *)
(* same time, and copies the plan into the store now and then.  A call of  *)
(* chat_execute_step copies a plan out of the store, runs one step of it   *)
(* again and puts the whole plan back.  All share the store, which evicts  *)
(* the oldest plans when a new one makes it too large.                     *)
(*                                                                         *)
(* A plan's id is a time in milliseconds; every run has its own here, so   *)
(* no plan is stored twice.  A caller learns the id with the answer of the *)
(* run, so steps are run again only of plans whose run has ended.          *)
(***************************************************************************)
EXTENDS Naturals, FiniteSets, Sequences

CONSTANTS
  Runs,      \* calls of chat_execute_plan, and the plans they make
  Calls,     \* calls of chat_execute_step
  Steps,     \* steps of a plan
  Shapes,    \* what the steps of a plan may depend on
  Capacity,  \* plans the store keeps (10 in the code)
  NoPlan     \* the store does not have the plan

ASSUME PlanAssumption ==
  /\ IsFiniteSet(Runs)
  /\ IsFiniteSet(Calls)
  /\ IsFiniteSet(Steps)
  /\ \A shape \in Shapes : DOMAIN shape = Steps
  /\ Capacity \in Nat \ {0}

VARIABLES
  pc,         \* where each run is
  depends_on, \* the dependencies of the steps of its plan
  level,      \* number of the level it is at
  status,     \* the status of the steps in its own copy of the plan
  plans,      \* the store: the status of the steps and of the plan
  insertion_order,
  stuck,      \* a run holds the store's lock for ever
  cpc,        \* where each call is
  target,     \* the plan and the step a call is working on
  copy,       \* the plan as the call has it
  overlapped, \* two of the commands were going on at the same time
  rerun,      \* plans some step of which was run again
  mixed       \* plans two calls were working on at the same time

storeVars == <<plans, insertion_order, stuck>>
runVars   == <<pc, depends_on, level, status>>
callVars  == <<cpc, target, copy, rerun, mixed>>
vars == <<runVars, storeVars, callVars, overlapped>>

StepStates == [Steps -> {"Pending", "Running", "Completed", "Failed", "Skipped"}]
Plans == [steps : StepStates, status : {"Running", "Completed", "Failed"}]

ASSUME NoPlanAssumption == NoPlan \notin Plans

Last == Cardinality(Steps)

TypeOK ==
  /\ pc \in [Runs -> {"new", "select", "execute", "end"}]
  /\ depends_on \in [Runs -> Shapes]
  /\ level \in [Runs -> 0 .. Last + 1]
  /\ status \in [Runs -> StepStates]
  /\ plans \in [Runs -> Plans \union {NoPlan}]
  /\ insertion_order \in Seq(Runs)
  /\ stuck \in BOOLEAN
  /\ cpc \in [Calls -> {"new", "read", "execute", "end"}]
  /\ target \in [Calls -> (Runs \X Steps) \union {NoPlan}]
  /\ copy \in [Calls -> Plans \union {NoPlan}]
  /\ overlapped \in BOOLEAN
  /\ rerun \in SUBSET Runs
  /\ mixed \in SUBSET Runs

Init ==
  /\ pc = [r \in Runs |-> "new"]
  /\ depends_on \in [Runs -> Shapes]
  /\ level = [r \in Runs |-> 0]
  /\ status = [r \in Runs |-> [s \in Steps |-> "Pending"]]
  /\ plans = [r \in Runs |-> NoPlan]
  /\ insertion_order = << >>
  /\ stuck = FALSE
  /\ cpc = [c \in Calls |-> "new"]
  /\ target = [c \in Calls |-> NoPlan]
  /\ copy = [c \in Calls |-> NoPlan]
  /\ overlapped = FALSE
  /\ rerun = {}
  /\ mixed = {}

RunsGoing  == {r \in Runs : pc[r] \in {"select", "execute"}}
CallsGoing == {c \in Calls : cpc[c] \in {"read", "execute"}}
CallsOn(r) == {c \in CallsGoing : target[c][1] = r}

-----------------------------------------------------------------------------
(* The store. *)

Kept(ps) == {r \in Runs : ps[r] # NoPlan}

Evicted(ps, order, n) ==
  [r \in Runs |-> IF \E i \in 1..n : order[i] = r THEN NoPlan ELSE ps[r]]

(* Mutant: room is made for one plan more. *)
FitsAnother(ps) == Cardinality(Kept(ps)) < Capacity

Fits(ps) == Cardinality(Kept(ps)) <= Capacity

(* The loop of store_plan pops the order until the store fits.  When the   *)
(* order is empty and it does not, the loop never ends, and the lock of    *)
(* the store is never released.                                            *)
store_plan(r, plan) ==
  LET order  == Append(insertion_order, r)
      ps     == [plans EXCEPT ![r] = plan]
      enough == {n \in 0..Len(order) : Fits(Evicted(ps, order, n))}
      pops   == IF enough = {} THEN Len(order)
                ELSE CHOOSE n \in enough : \A m \in enough : n <= m
  IN  /\ plans' = Evicted(ps, order, pops)
      /\ insertion_order' = SubSeq(order, pops + 1, Len(order))
      /\ stuck' = (enough = {})

(* Puts a plan that was evicted back, but not into the order. *)
update_plan(r, plan) ==
  /\ plans' = [plans EXCEPT ![r] = plan]
  /\ UNCHANGED <<insertion_order, stuck>>

-----------------------------------------------------------------------------
(* compute_topological_levels: a step's level is one more than the highest *)
(* of its dependencies; steps whose dependencies have none come last.      *)

Resolved(shape) ==
  LET before[n \in Nat] ==
        IF n = 0 THEN {}
        ELSE LET known == before[n - 1] IN {s \in Steps : shape[s] \subseteq known}
  IN  before

(* Mutant: all steps are on the first level. *)
AllAtOnce(shape, n) == IF n = 0 THEN Steps ELSE {}

Level(shape, n) ==
  IF n < Last THEN Resolved(shape)[n + 1] \ Resolved(shape)[n]
              ELSE Steps \ Resolved(shape)[Last]

DepsOk(ss, deps) == \A d \in deps : d \in Steps /\ ss[d] = "Completed"

-----------------------------------------------------------------------------
(* chat_execute_plan.  The store's lock is taken by every action on it.    *)

StartPlan(r) ==
  /\ pc[r] = "new"
  /\ ~stuck
  /\ store_plan(r, [steps |-> status[r], status |-> "Running"])
  /\ pc' = [pc EXCEPT ![r] = "select"]
  /\ overlapped' = (overlapped \/ RunsGoing # {} \/ CallsGoing # {})
  /\ UNCHANGED <<depends_on, level, status, callVars>>

(* The steps of the level that can run are started, the others skipped.    *)
SelectSteps(r) ==
  LET here  == Level(depends_on[r], level[r])
      ready == {s \in here : DepsOk(status[r], depends_on[r][s])}
      ss    == [s \in Steps |-> IF s \in ready THEN "Running"
                                ELSE IF s \in here THEN "Skipped" ELSE status[r][s]]
  IN  /\ pc[r] = "select"
      /\ level[r] <= Last
      /\ status' = [status EXCEPT ![r] = ss]
      /\ \/ /\ ready = {}
            /\ level' = [level EXCEPT ![r] = @ + 1]
            /\ UNCHANGED <<pc, storeVars>>
         \/ /\ ready # {}
            /\ ~stuck
            /\ update_plan(r, [steps |-> ss, status |-> "Running"])
            /\ pc' = [pc EXCEPT ![r] = "execute"]
            /\ UNCHANGED level
      /\ UNCHANGED <<depends_on, callVars, overlapped>>

(* All tasks of the level are joined; a step whose task panicked is left   *)
(* as it is.                                                               *)
JoinSteps(r) ==
  \E outcome \in [{s \in Level(depends_on[r], level[r]) : status[r][s] = "Running"}
                    -> {"Completed", "Failed", "Running"}] :
    LET ss == [s \in Steps |-> IF s \in DOMAIN outcome THEN outcome[s] ELSE status[r][s]]
    IN  /\ pc[r] = "execute"
        /\ ~stuck
        /\ status' = [status EXCEPT ![r] = ss]
        /\ update_plan(r, [steps |-> ss, status |-> "Running"])
        /\ level' = [level EXCEPT ![r] = @ + 1]
        /\ pc' = [pc EXCEPT ![r] = "select"]
        /\ UNCHANGED <<depends_on, callVars, overlapped>>

(* Mutant: a plan with a skipped step does not count as failed. *)
NoneSkipped(ss) ==
  IF \A s \in Steps : ss[s] = "Failed" THEN "Failed" ELSE "Completed"

PlanStatusOf(ss) ==
  IF \A s \in Steps : ss[s] \in {"Failed", "Skipped"} THEN "Failed" ELSE "Completed"

EndPlan(r) ==
  /\ pc[r] = "select"
  /\ level[r] = Last + 1
  /\ ~stuck
  /\ update_plan(r, [steps |-> status[r], status |-> PlanStatusOf(status[r])])
  /\ pc' = [pc EXCEPT ![r] = "end"]
  /\ UNCHANGED <<depends_on, level, status, callVars, overlapped>>

RunStep(r) == StartPlan(r) \/ SelectSteps(r) \/ JoinSteps(r) \/ EndPlan(r)

-----------------------------------------------------------------------------
(* chat_execute_step: the plan is copied out of the store under its lock,  *)
(* marked, executed and put back as a whole.                               *)

GetPlan(c, r, s) ==
  /\ cpc[c] = "new"
  /\ pc[r] = "end"
  /\ ~stuck
  /\ plans[r] # NoPlan
  /\ target' = [target EXCEPT ![c] = <<r, s>>]
  /\ copy' = [copy EXCEPT ![c] = plans[r]]
  /\ cpc' = [cpc EXCEPT ![c] = "read"]
  /\ overlapped' = (overlapped \/ RunsGoing # {} \/ CallsGoing # {})
  /\ rerun' = rerun \union {r}
  /\ mixed' = IF CallsOn(r) = {} THEN mixed ELSE mixed \union {r}
  /\ UNCHANGED <<runVars, storeVars>>

EndCall(c) ==
  /\ cpc' = [cpc EXCEPT ![c] = "end"]
  /\ target' = [target EXCEPT ![c] = NoPlan]
  /\ copy' = [copy EXCEPT ![c] = NoPlan]
  /\ UNCHANGED <<runVars, overlapped, rerun, mixed>>

(* Dependencies the plan does not have are passed over here. *)
StepDepsOk(ss, deps) == \A d \in deps \intersect Steps : ss[d] = "Completed"

Refuse(c) ==
  LET r == target[c][1] s == target[c][2]
  IN  /\ cpc[c] = "read"
      /\ ~StepDepsOk(copy[c].steps, depends_on[r][s])
      /\ EndCall(c)
      /\ UNCHANGED storeVars

MarkRunning(c) ==
  LET r == target[c][1] s == target[c][2]
      plan == [copy[c] EXCEPT !.steps[s] = "Running", !.status = "Running"]
  IN  /\ cpc[c] = "read"
      /\ StepDepsOk(copy[c].steps, depends_on[r][s])
      /\ ~stuck
      /\ copy' = [copy EXCEPT ![c] = plan]
      /\ update_plan(r, plan)
      /\ cpc' = [cpc EXCEPT ![c] = "execute"]
      /\ UNCHANGED <<runVars, target, overlapped, rerun, mixed>>

Decided == {"Completed", "Failed", "Skipped"}

(* Mutant: a plan is judged only if no step failed. *)
JudgedUnfailed(plan) ==
  IF \A s \in Steps : plan.steps[s] \in {"Completed", "Skipped"}
  THEN [plan EXCEPT !.status = PlanStatusOf(plan.steps)] ELSE plan

Judged(plan) ==
  IF \A s \in Steps : plan.steps[s] \in Decided
  THEN [plan EXCEPT !.status = PlanStatusOf(plan.steps)] ELSE plan

(* A failed step takes the steps that depend on it along, those as well    *)
(* that were decided before.                                               *)
WithFailed(ss, s, deps) ==
  [q \in Steps |-> IF s \in deps[q] THEN "Skipped"
                   ELSE IF q = s THEN "Failed" ELSE ss[q]]

FinishStep(c) ==
  LET r == target[c][1] s == target[c][2] ss == copy[c].steps
  IN  /\ cpc[c] = "execute"
      /\ ~stuck
      /\ \E after \in {[ss EXCEPT ![s] = "Completed"],
                       WithFailed(ss, s, depends_on[r])} :
           update_plan(r, Judged([copy[c] EXCEPT !.steps = after]))
      /\ EndCall(c)

(* The tool panics, and the command with it. *)
StepPanics(c) ==
  /\ cpc[c] = "execute"
  /\ EndCall(c)
  /\ UNCHANGED storeVars

CallStep(c) ==
  \/ \E r \in Runs, s \in Steps : GetPlan(c, r, s)
  \/ Refuse(c) \/ MarkRunning(c) \/ FinishStep(c) \/ StepPanics(c)

Next == (\E r \in Runs : RunStep(r)) \/ (\E c \in Calls : CallStep(c))

Spec == Init /\ [][Next]_vars

-----------------------------------------------------------------------------
(* When a run ends every step has been decided, and the right way: it was  *)
(* skipped exactly if something it depends on did not complete, so none    *)
(* was tried too early, and none was run in vain.                          *)
StepsDecided ==
  \A r \in Runs : pc[r] = "end" =>
    \A s \in Steps :
      /\ status[r][s] # "Pending"
      /\ status[r][s] = "Skipped"
           <=> \E d \in depends_on[r][s] : d \notin Steps \/ status[r][d] # "Completed"

(* What others read in the store is what the run knows, at the latest when *)
(* it waits for its tasks or has ended, however often the plan has been    *)
(* evicted meanwhile: a plan that is kept reads as running until its run   *)
(* ends, and then as failed if, and only if, no step completed or was left *)
(* running by a panic.  (Until a step of it is run again.)                 *)
StoreIsCurrent ==
  \A r \in Runs \ rerun : plans[r] # NoPlan =>
    /\ plans[r].status = "Running" <=> pc[r] # "end"
    /\ pc[r] \in {"execute", "end"} => plans[r].steps = status[r]
    /\ pc[r] = "end" =>
         (plans[r].status = "Failed"
            <=> \A s \in Steps : status[r][s] \notin {"Completed", "Running"})

(* However often steps are run again, a plan settles: once no call works   *)
(* on it, it reads as running only if a panic left one of its steps so,    *)
(* and nothing it shows as completed rests on a step that failed since.    *)
(* Two calls at once on one plan are excepted: each puts the whole plan    *)
(* back as it copied it, and the later one undoes the step of the other.   *)
PlanSettles ==
  \A r \in Runs \ mixed :
    (pc[r] = "end" /\ plans[r] # NoPlan /\ CallsOn(r) = {}) =>
      LET ss == plans[r].steps
      IN  /\ plans[r].status = "Running" => \E s \in Steps : ss[s] = "Running"
          /\ \A s \in Steps : ss[s] = "Completed" =>
               \A d \in depends_on[r][s] \intersect Steps : ss[d] # "Failed"

(* While commands come one at a time the store is what its comment says, a *)
(* queue of the newest plans, and its lock always comes back.  Overlapping *)
(* ones break it: a plan that is evicted while a run or a call works on it *)
(* comes back outside of the order, where nothing evicts it again, and     *)
(* once more than Capacity of them are there store_plan never returns.     *)
QueueWhileAlone ==
  ~overlapped =>
    /\ ~stuck
    /\ Kept(plans) = {insertion_order[i] : i \in 1..Len(insertion_order)}
    /\ Cardinality(Kept(plans)) <= Capacity

=============================================================================
