-------------------------- MODULE PlanExecutorProofs --------------------------
(***************************************************************************)
(* Proofs about PlanExecutor, for any finite sets of runs, calls and       *)
(* steps, any dependencies, cyclic ones and such on steps that do not      *)
(* exist among them, and any capacity of the store.                        *)
(***************************************************************************)
EXTENDS PlanExecutor, FiniteSetTheorems, SequenceTheorems, WellFoundedInduction, TLAPS

(* A set of numbers that is not empty has a least one. *)
LEMMA Least ==
  ASSUME NEW S \in SUBSET Nat, S # {}
  PROVE  \E n \in S : \A m \in S : n <= m
<1>1. PICK n \in S : \A m \in S : <<m, n>> \notin OpToRel(<, Nat)
  BY NatLessThanWellFounded, WFMin
<1>2. \A m \in S : ~(m < n)
  BY <1>1 DEF OpToRel
<1>3. n \in Nat /\ \A m \in S : m \in Nat
  OBVIOUS
<1>4. \A m \in S : n <= m
  BY <1>2, <1>3
<1> QED
  BY <1>4

-----------------------------------------------------------------------------
(* Levels.  Resolved is a recursive function: it is shown to be one, by    *)
(* least counterexamples, before anything is derived from its equation.    *)

LEMMA ResolvedChosen ==
  ASSUME NEW shape
  PROVE  Resolved(shape) =
           CHOOSE f : f = [n \in Nat |-> IF n = 0 THEN {}
                                         ELSE {s \in Steps : shape[s] \subseteq f[n - 1]}]
BY DEF Resolved

(* h satisfies the equation up to m. *)
Approximates(h, m, shape) ==
  \A n \in 0 .. m : h[n] = IF n = 0 THEN {} ELSE {s \in Steps : shape[s] \subseteq h[n - 1]}

LEMMA ApproximationsAgree ==
  ASSUME NEW shape, NEW g, NEW h, NEW m \in Nat, NEW k \in Nat,
         Approximates(g, m, shape), Approximates(h, k, shape)
  PROVE  \A n \in Nat : n <= m /\ n <= k => g[n] = h[n]
<1> DEFINE Bad == {n \in Nat : n <= m /\ n <= k /\ g[n] # h[n]}
<1> SUFFICES ASSUME Bad # {} PROVE FALSE
  OBVIOUS
<1>1. PICK n \in Bad : \A i \in Bad : n <= i
  BY Least
<1>2. n # 0 => n - 1 \in Nat /\ g[n - 1] = h[n - 1]
  BY <1>1
<1>3. n \in 0 .. m /\ n \in 0 .. k
  OBVIOUS
<1>4. g[n] = IF n = 0 THEN {} ELSE {s \in Steps : shape[s] \subseteq g[n - 1]}
  BY <1>3 DEF Approximates
<1>5. h[n] = IF n = 0 THEN {} ELSE {s \in Steps : shape[s] \subseteq h[n - 1]}
  BY <1>3 DEF Approximates
<1>6. g[n] = h[n]
  BY <1>2, <1>4, <1>5
<1> QED
  BY <1>6

LEMMA ApproximationsExist ==
  ASSUME NEW shape
  PROVE  \A m \in Nat : \E h : Approximates(h, m, shape)
<1> DEFINE Bad == {m \in Nat : ~\E h : Approximates(h, m, shape)}
<1> SUFFICES ASSUME Bad # {} PROVE FALSE
  OBVIOUS
<1>1. PICK m \in Bad : \A i \in Bad : m <= i
  BY Least
<1>2. m # 0
  <2>1. Approximates([n \in 0 .. 0 |-> {}], 0, shape)
    BY DEF Approximates
  <2> QED
    BY <1>1, <2>1
<1>3. m - 1 \in Nat /\ \E h : Approximates(h, m - 1, shape)
  BY <1>1, <1>2
<1>4. PICK h : Approximates(h, m - 1, shape)
  BY <1>3
<1> DEFINE g == [n \in 0 .. m |-> IF n = m THEN {s \in Steps : shape[s] \subseteq h[m - 1]} ELSE h[n]]
<1>5. ASSUME NEW n \in 0 .. m
      PROVE  g[n] = IF n = 0 THEN {} ELSE {s \in Steps : shape[s] \subseteq g[n - 1]}
  <2>1. CASE n = m
    <3>1. g[m] = {s \in Steps : shape[s] \subseteq h[m - 1]} /\ g[m - 1] = h[m - 1]
      BY <1>2
    <3> QED
      BY <1>2, <2>1, <3>1
  <2>2. CASE n # m
    <3>1. n \in 0 .. (m - 1) /\ g[n] = h[n]
      BY <2>2
    <3>2. n # 0 => g[n - 1] = h[n - 1]
      BY <3>1
    <3> QED
      BY <1>4, <3>1, <3>2 DEF Approximates
  <2> QED
    BY <2>1, <2>2
<1>6. Approximates(g, m, shape)
  BY <1>5 DEF Approximates
<1> QED
  BY <1>1, <1>6

LEMMA ResolvedEquation ==
  ASSUME NEW shape
  PROVE  Resolved(shape) = [n \in Nat |-> IF n = 0 THEN {}
                              ELSE {s \in Steps : shape[s] \subseteq Resolved(shape)[n - 1]}]
<1> DEFINE Equation(f) == f = [n \in Nat |-> IF n = 0 THEN {}
                                 ELSE {s \in Steps : shape[s] \subseteq f[n - 1]}]
<1> DEFINE A(m) == CHOOSE h : Approximates(h, m, shape)
<1> DEFINE g == [n \in Nat |-> A(n)[n]]
<1>1. \A m \in Nat : Approximates(A(m), m, shape)
  BY ApproximationsExist
<1>2. ASSUME NEW n \in Nat, n # 0
      PROVE  A(n)[n - 1] = g[n - 1]
  <2>1. n - 1 \in Nat /\ Approximates(A(n), n, shape) /\ Approximates(A(n - 1), n - 1, shape)
    BY <1>1, <1>2
  <2>2. \A i \in Nat : i <= n /\ i <= n - 1 => A(n)[i] = A(n - 1)[i]
    BY <2>1, ApproximationsAgree
  <2> QED
    BY <2>1, <2>2
<1> HIDE DEF A
<1>3. ASSUME NEW n \in Nat
      PROVE  g[n] = IF n = 0 THEN {} ELSE {s \in Steps : shape[s] \subseteq g[n - 1]}
  <2>1. A(n)[n] = IF n = 0 THEN {} ELSE {s \in Steps : shape[s] \subseteq A(n)[n - 1]}
    BY <1>1 DEF Approximates
  <2> QED
    BY <1>2, <2>1
<1>4. Equation(g)
  BY <1>3
<1>5. Resolved(shape) = CHOOSE f : Equation(f)
  BY ResolvedChosen
<1>6. Equation(CHOOSE f : Equation(f))
  BY <1>4
<1> QED
  BY <1>5, <1>6

LEMMA ResolvedValues ==
  ASSUME NEW shape
  PROVE  /\ Resolved(shape)[0] = {}
         /\ \A n \in Nat : Resolved(shape)[n + 1] = {s \in Steps : shape[s] \subseteq Resolved(shape)[n]}
         /\ \A n \in Nat : Resolved(shape)[n] \subseteq Steps
<1> DEFINE R == Resolved(shape)
<1> HIDE DEF R
<1>1. R = [n \in Nat |-> IF n = 0 THEN {} ELSE {s \in Steps : shape[s] \subseteq R[n - 1]}]
  BY ResolvedEquation DEF R
<1>2. R[0] = {}
  BY <1>1
<1>3. ASSUME NEW n \in Nat PROVE R[n + 1] = {s \in Steps : shape[s] \subseteq R[n]}
  <2>1. n + 1 \in Nat /\ n + 1 # 0 /\ (n + 1) - 1 = n
    OBVIOUS
  <2>2. R[n + 1] = {s \in Steps : shape[s] \subseteq R[(n + 1) - 1]}
    BY <1>1, <2>1
  <2> QED
    BY <2>1, <2>2
<1>4. ASSUME NEW n \in Nat PROVE R[n] \subseteq Steps
  BY <1>1
<1> QED
  BY <1>2, <1>3, <1>4 DEF R

(* What is resolved stays so. *)
LEMMA ResolvedGrows ==
  ASSUME NEW shape
  PROVE  \A n \in Nat : Resolved(shape)[n] \subseteq Resolved(shape)[n + 1]
<1> DEFINE R == Resolved(shape)
           Bad == {n \in Nat : ~(R[n] \subseteq R[n + 1])}
<1> SUFFICES ASSUME Bad # {} PROVE FALSE
  OBVIOUS
<1>1. PICK n \in Bad : \A i \in Bad : n <= i
  BY Least
<1>2. R[0] = {} /\ \A i \in Nat : R[i + 1] = {s \in Steps : shape[s] \subseteq R[i]}
  BY ResolvedValues
<1>3. n # 0
  BY <1>1, <1>2
<1>4. n - 1 \in Nat /\ (n - 1) + 1 = n /\ n - 1 \notin Bad
  BY <1>1, <1>3
<1>5. R[n - 1] \subseteq R[n]
  BY <1>4
<1>6. R[n] = {s \in Steps : shape[s] \subseteq R[n - 1]}
  BY <1>2, <1>4
<1>7. R[n + 1] = {s \in Steps : shape[s] \subseteq R[n]}
  BY <1>2
<1>8. R[n] \subseteq R[n + 1]
  BY <1>5, <1>6, <1>7
<1> QED
  BY <1>8

(* As long as something new is resolved, one step is at least.             *)
LEMMA ResolvedCount ==
  ASSUME NEW shape, NEW m \in Nat,
         \A n \in 0 .. m : Resolved(shape)[n] # Resolved(shape)[n + 1]
  PROVE  Cardinality(Resolved(shape)[m]) >= m
<1> DEFINE R == Resolved(shape)
           Bad == {n \in 0 .. m : ~(Cardinality(R[n]) >= n)}
<1>1. ASSUME NEW n \in Nat PROVE IsFiniteSet(R[n]) /\ Cardinality(R[n]) \in Nat
  <2>1. R[n] \in SUBSET Steps
    BY ResolvedValues
  <2> QED
    BY <2>1, FS_Subset, FS_CardinalityType, PlanAssumption
<1> SUFFICES ASSUME Bad # {} PROVE FALSE
  OBVIOUS
<1>2. PICK n \in Bad : \A i \in Bad : n <= i
  BY Least, Bad \in SUBSET Nat
<1>3. n # 0
  BY <1>1, <1>2
<1>4. n - 1 \in 0 .. m /\ n - 1 \in Nat /\ (n - 1) + 1 = n /\ n - 1 \notin Bad
  BY <1>2, <1>3
<1>5. Cardinality(R[n - 1]) >= n - 1 /\ R[n - 1] \subseteq R[n] /\ R[n - 1] # R[n]
  BY <1>4, ResolvedGrows
<1>6. Cardinality(R[n - 1]) <= Cardinality(R[n]) /\ Cardinality(R[n - 1]) # Cardinality(R[n])
  BY <1>1, <1>5, FS_Subset
<1>7. Cardinality(R[n]) >= n
  BY <1>1, <1>4, <1>5, <1>6
<1> QED
  BY <1>7

(* After as many rounds as there are steps nothing more is resolved. *)
LEMMA ResolvedEnds ==
  ASSUME NEW shape
  PROVE  Resolved(shape)[Last + 1] = Resolved(shape)[Last]
<1> DEFINE R == Resolved(shape)
<1>1. Last \in Nat /\ \A n \in Nat : R[n] \in SUBSET Steps
  BY FS_CardinalityType, PlanAssumption, ResolvedValues DEF Last
<1> SUFFICES ASSUME R[Last + 1] # R[Last] PROVE FALSE
  OBVIOUS
<1>2. ASSUME NEW n \in 0 .. Last, R[n] = R[n + 1] PROVE FALSE
  <2> DEFINE Bad == {i \in Nat : i >= n /\ R[i + 1] # R[i]}
  <2>1. Last \in Bad
    BY <1>1
  <2>2. PICK i \in Bad : \A k \in Bad : i <= k
    BY <2>1, Least
  <2>3. i # n
    BY <1>2
  <2>4. i - 1 \in Nat /\ (i - 1) + 1 = i /\ i - 1 >= n /\ i - 1 \notin Bad
    BY <2>2, <2>3
  <2>5. R[i] = R[i - 1]
    BY <2>4
  <2>6. R[i + 1] = {s \in Steps : shape[s] \subseteq R[i]} /\ R[i] = {s \in Steps : shape[s] \subseteq R[i - 1]}
    BY <2>4, ResolvedValues
  <2> QED
    BY <2>2, <2>5, <2>6
<1>3. Cardinality(R[Last]) >= Last
  BY <1>1, <1>2, ResolvedCount
<1>4. R[Last] = Steps
  BY <1>1, <1>3, FS_Subset, FS_CardinalityType, PlanAssumption DEF Last
<1>5. R[Last + 1] \in SUBSET Steps /\ R[Last] \subseteq R[Last + 1]
  BY <1>1, ResolvedGrows
<1> QED
  BY <1>4, <1>5

(* The steps of the levels before the n-th. *)
Before(shape, n) == IF n <= Last THEN Resolved(shape)[n] ELSE Steps

(* Every step is on one level; a step that is not on the last level        *)
(* depends on steps of earlier levels, one that is on a step of the last   *)
(* level too, or on one that does not exist.                               *)
LEMMA Levels ==
  ASSUME NEW shape
  PROVE  /\ Last \in Nat
         /\ Before(shape, 0) = {} /\ Before(shape, Last + 1) = Steps
         /\ \A n \in 0 .. Last :
              /\ Before(shape, n) \subseteq Before(shape, n + 1)
              /\ Before(shape, n + 1) \subseteq Steps
              /\ Level(shape, n) = Before(shape, n + 1) \ Before(shape, n)
         /\ \A n \in 0 .. Last, s \in Steps :
              s \in Level(shape, n) =>
                IF n < Last THEN shape[s] \subseteq Before(shape, n)
                ELSE \E d \in shape[s] : d \notin Steps \/ d \in Level(shape, n)
<1> DEFINE R == Resolved(shape)
<1>1. Last \in Nat
  BY FS_CardinalityType, PlanAssumption DEF Last
<1>2. /\ R[0] = {}
      /\ \A n \in Nat : R[n + 1] = {s \in Steps : shape[s] \subseteq R[n]}
      /\ \A n \in Nat : R[n] \subseteq Steps /\ R[n] \subseteq R[n + 1]
  BY ResolvedValues, ResolvedGrows
<1>3. Before(shape, 0) = {} /\ Before(shape, Last + 1) = Steps
  BY <1>1, <1>2 DEF Before
<1>4. ASSUME NEW n \in 0 .. Last
      PROVE  /\ Before(shape, n) \subseteq Before(shape, n + 1)
             /\ Before(shape, n + 1) \subseteq Steps
             /\ Level(shape, n) = Before(shape, n + 1) \ Before(shape, n)
  BY <1>1, <1>2 DEF Before, Level
<1>5. ASSUME NEW n \in 0 .. Last, NEW s \in Steps, s \in Level(shape, n)
      PROVE  IF n < Last THEN shape[s] \subseteq Before(shape, n)
             ELSE \E d \in shape[s] : d \notin Steps \/ d \in Level(shape, n)
  <2>1. CASE n < Last
    BY <1>1, <1>2, <1>5, <2>1 DEF Before, Level
  <2>2. CASE n = Last
    <3>1. Level(shape, n) = Steps \ R[Last]
      BY <1>1, <2>2 DEF Level
    <3>2. s \notin R[Last + 1]
      BY <1>5, <3>1, ResolvedEnds
    <3>3. PICK d \in shape[s] : d \notin R[Last]
      BY <1>1, <1>2, <3>2
    <3> QED
      BY <2>2, <3>1, <3>3
  <2> QED
    BY <1>1, <2>1, <2>2
<1> QED
  BY <1>1, <1>3, <1>4, <1>5

-----------------------------------------------------------------------------
(* The invariants. *)

(* A step whose dependencies are not all there and completed. *)
Blocked(r, s) == \E d \in depends_on[r][s] : d \notin Steps \/ status[r][d] # "Completed"

Right(r, s) == status[r][s] # "Pending" /\ (status[r][s] = "Skipped" <=> Blocked(r, s))

(* A run that waits for tasks has a level left to go to. *)
LevelBound == \A r \in Runs : pc[r] = "execute" => level[r] <= Last

(* A run decides its steps level by level, and only these.  (Said of what  *)
(* the run is at: where, on which level, and with which statuses.)         *)
LevelOf(r, p, l, ss) ==
  LET done == Before(depends_on[r], l)
      here == Level(depends_on[r], l)
      blocked(s) == \E d \in depends_on[r][s] : d \notin Steps \/ ss[d] # "Completed"
  IN  /\ p = "new" => l = 0
      /\ p = "end" => l = Last + 1
      /\ \A s \in done : ss[s] # "Pending" /\ (ss[s] = "Skipped" <=> blocked(s))
      /\ \A s \in Steps \ done :
           IF p = "execute" /\ s \in here
           THEN ss[s] \in {"Running", "Skipped"} /\ (ss[s] = "Skipped" <=> blocked(s))
           ELSE ss[s] = "Pending"

LevelInv == \A r \in Runs : LevelOf(r, pc[r], level[r], status[r])

(* Who works on a plan, and since when it is in the store. *)
CallInv ==
  /\ \A r \in Runs : pc[r] = "new" => plans[r] = NoPlan /\ r \notin rerun
  /\ \A c \in CallsGoing :
       /\ target[c] \in Runs \X Steps
       /\ pc[target[c][1]] = "end" /\ target[c][1] \in rerun
       /\ copy[c] \in Plans

StoreInv ==
  \A r \in Runs \ rerun : plans[r] # NoPlan =>
    /\ plans[r].status = "Running" <=> pc[r] # "end"
    /\ pc[r] \in {"execute", "end"} => plans[r].steps = status[r]
    /\ pc[r] = "end" => plans[r].status = PlanStatusOf(status[r])

(* A plan nobody works on shows what a reader expects of it. *)
SettledPlan(plan, deps) ==
  /\ plan.status = "Running" => \E s \in Steps : plan.steps[s] = "Running"
  /\ \A s \in Steps : plan.steps[s] # "Pending"
  /\ \A s \in Steps : plan.steps[s] = "Completed" =>
       \A d \in deps[s] \intersect Steps : plan.steps[d] # "Failed"

(* A call has a settled plan in hand, and the store has the same one.      *)
Settles(r) ==
  /\ pc[r] = "end" /\ plans[r] # NoPlan => SettledPlan(plans[r], depends_on[r])
  /\ \A c, d \in CallsOn(r) : c = d
  /\ \A c \in CallsOn(r) :
       /\ plans[r] \in {copy[c], NoPlan}
       /\ SettledPlan(copy[c], depends_on[r])
       /\ cpc[c] = "execute" =>
            /\ copy[c].steps[target[c][2]] = "Running"
            /\ \A d \in depends_on[r][target[c][2]] \intersect Steps :
                 d # target[c][2] => copy[c].steps[d] = "Completed"

SettleInv == \A r \in Runs \ mixed : Settles(r)

(* What the order holds. *)
Entries(order) == {order[i] : i \in 1 .. Len(order)}

Once(order) == \A i, j \in 1 .. Len(order) : order[i] = order[j] => i = j

(* One command at a time works, on a plan that is in the store. *)
Alone ==
  /\ ~stuck
  /\ Kept(plans) = Entries(insertion_order) /\ Cardinality(Kept(plans)) <= Capacity
  /\ Once(insertion_order)
  /\ RunsGoing \subseteq Kept(plans)
  /\ \A c \in CallsGoing : target[c][1] \in Kept(plans)
  /\ \A p, q \in RunsGoing : p = q
  /\ \A c, d \in CallsGoing : c = d
  /\ RunsGoing = {} \/ CallsGoing = {}

QueueInv == ~overlapped => Alone

-----------------------------------------------------------------------------
(* The store. *)

(* Room is made from the front of the order, as little as is needed; if    *)
(* there is too little even then, the lock is held for ever.               *)
LEMMA Stored ==
  ASSUME TypeOK, NEW r \in Runs, NEW plan, store_plan(r, plan)
  PROVE  LET order == Append(insertion_order, r)
             ps    == [plans EXCEPT ![r] = plan]
         IN  \E n \in 0 .. Len(order) :
               /\ plans' = Evicted(ps, order, n)
               /\ insertion_order' = SubSeq(order, n + 1, Len(order))
               /\ stuck' \in BOOLEAN
               /\ \A m \in 0 .. Len(order) :
                    Fits(Evicted(ps, order, m)) => ~stuck' /\ n <= m /\ Fits(Evicted(ps, order, n))
<1> DEFINE order == Append(insertion_order, r)
           ps == [plans EXCEPT ![r] = plan]
           enough == {n \in 0 .. Len(order) : Fits(Evicted(ps, order, n))}
<1>1. order \in Seq(Runs) /\ Len(order) \in Nat
  BY DEF TypeOK
<1>2. CASE enough = {}
  <2>1. Len(order) \in 0 .. Len(order)
    BY <1>1
  <2> QED
    BY <1>2, <2>1 DEF store_plan
<1>3. CASE enough # {}
  <2>1. \E n \in enough : \A m \in enough : n <= m
    BY <1>3, Least, enough \in SUBSET Nat
  <2> DEFINE pops == CHOOSE n \in enough : \A m \in enough : n <= m
  <2>2. pops \in enough /\ \A m \in enough : pops <= m
    BY <2>1
  <2>3. /\ plans' = Evicted(ps, order, pops)
        /\ insertion_order' = SubSeq(order, pops + 1, Len(order))
        /\ stuck' = FALSE
    BY <1>3 DEF store_plan
  <2> HIDE DEF pops
  <2> QED
    BY <2>2, <2>3
<1> QED
  BY <1>2, <1>3

(* What a new plan does to the plans there are: some are evicted. *)
LEMMA StoredPlans ==
  ASSUME TypeOK, NEW r \in Runs, NEW plan \in Plans, store_plan(r, plan)
  PROVE  /\ plans' \in [Runs -> Plans \union {NoPlan}]
         /\ insertion_order' \in Seq(Runs) /\ stuck' \in BOOLEAN
         /\ plans'[r] \in {plan, NoPlan}
         /\ \A q \in Runs : q # r => plans'[q] \in {plans[q], NoPlan}
<1> DEFINE order == Append(insertion_order, r)
           ps == [plans EXCEPT ![r] = plan]
<1>1. PICK n \in 0 .. Len(order) :
        /\ plans' = Evicted(ps, order, n)
        /\ insertion_order' = SubSeq(order, n + 1, Len(order))
        /\ stuck' \in BOOLEAN
  BY Stored
<1>2. order \in Seq(Runs) /\ Len(order) \in Nat /\ \A i \in 1 .. Len(order) : order[i] \in Runs
  BY DEF TypeOK
<1>3. insertion_order' \in Seq(Runs)
  <2>1. \A i \in (n + 1) .. Len(order) : order[i] \in Runs
    BY <1>2
  <2> QED
    BY <1>1, <1>2, <2>1, SubSeqProperties
<1> HIDE DEF order
<1>4. ps \in [Runs -> Plans \union {NoPlan}] /\ ps[r] = plan /\ \A q \in Runs : q # r => ps[q] = plans[q]
  BY DEF TypeOK
<1> HIDE DEF ps
<1>5. \A q \in Runs : plans'[q] \in {ps[q], NoPlan}
  BY <1>1 DEF Evicted
<1>6. plans' \in [Runs -> Plans \union {NoPlan}]
  BY <1>1, <1>4 DEF Evicted
<1> QED
  BY <1>1, <1>3, <1>4, <1>5, <1>6

(* Whoever updates a plan leaves the others. *)
LEMMA UpdatedPlans ==
  ASSUME TypeOK, NEW r \in Runs, NEW plan \in Plans, update_plan(r, plan)
  PROVE  /\ plans' \in [Runs -> Plans \union {NoPlan}]
         /\ insertion_order' \in Seq(Runs) /\ stuck' \in BOOLEAN
         /\ plans'[r] = plan
         /\ \A q \in Runs : q # r => plans'[q] = plans[q]
BY DEF update_plan, TypeOK

-----------------------------------------------------------------------------
(* Types. *)

LEMMA LastNat == Last \in Nat
BY FS_CardinalityType, PlanAssumption DEF Last

LEMMA MadePlans ==
  ASSUME NEW ss \in StepStates
  PROVE  /\ [steps |-> ss, status |-> "Running"] \in Plans
         /\ [steps |-> ss, status |-> PlanStatusOf(ss)] \in Plans
         /\ PlanStatusOf(ss) \in {"Failed", "Completed"}
BY DEF Plans, PlanStatusOf

(* What a call that finishes puts back is a plan, the step's outcome in it *)
(* and judged if all of it is decided.                                     *)
LEMMA Finished ==
  ASSUME TypeOK, CallInv, NEW c \in Calls, FinishStep(c)
  PROVE  \E plan \in Plans :
           LET r == target[c][1] s == target[c][2] ss == copy[c].steps
           IN  /\ update_plan(r, plan)
               /\ plan.steps \in {[ss EXCEPT ![s] = "Completed"], WithFailed(ss, s, depends_on[r])}
               /\ plan.status = "Running" =>
                    copy[c].status = "Running" /\ \E q \in Steps : plan.steps[q] \notin Decided
<1> DEFINE r == target[c][1]
           s == target[c][2]
           ss == copy[c].steps
<1>1. r \in Runs /\ s \in Steps /\ copy[c] \in Plans
  BY DEF FinishStep, CallInv, CallsGoing
<1>2. ss \in StepStates
  BY <1>1 DEF Plans
<1>3. PICK after \in {[ss EXCEPT ![s] = "Completed"], WithFailed(ss, s, depends_on[r])} :
        update_plan(r, Judged([copy[c] EXCEPT !.steps = after]))
  BY DEF FinishStep
<1>4. after \in StepStates
  <2>1. CASE after = [ss EXCEPT ![s] = "Completed"]
    BY <1>2, <2>1 DEF StepStates
  <2>2. CASE after = WithFailed(ss, s, depends_on[r])
    BY <1>2, <2>2 DEF StepStates, WithFailed
  <2> QED
    BY <2>1, <2>2
<1> DEFINE unjudged == [copy[c] EXCEPT !.steps = after]
<1>5. unjudged \in Plans /\ unjudged.steps = after /\ unjudged.status = copy[c].status
  BY <1>1, <1>4 DEF Plans
<1> HIDE DEF unjudged
<1>6. /\ Judged(unjudged) \in Plans /\ Judged(unjudged).steps = after
      /\ Judged(unjudged).status = "Running" =>
           copy[c].status = "Running" /\ \E q \in Steps : after[q] \notin Decided
  <2>1. CASE \A q \in Steps : after[q] \in Decided
    <3>1. Judged(unjudged) = [unjudged EXCEPT !.status = PlanStatusOf(after)]
      BY <1>5, <2>1 DEF Judged
    <3>2. PlanStatusOf(after) \in {"Failed", "Completed"}
      BY DEF PlanStatusOf
    <3> QED
      BY <1>5, <3>1, <3>2 DEF Plans
  <2>2. CASE \E q \in Steps : after[q] \notin Decided
    <3>1. Judged(unjudged) = unjudged
      BY <1>5, <2>2 DEF Judged
    <3> QED
      BY <1>5, <2>2, <3>1
  <2> QED
    BY <2>1, <2>2
<1> QED
  BY <1>3, <1>6 DEF unjudged

LEMMA RunTyped ==
  ASSUME TypeOK, LevelBound, NEW r \in Runs, RunStep(r)
  PROVE  TypeOK' /\ LevelBound'
<1> USE LastNat
<1>1. CASE StartPlan(r)
  <2>1. status[r] \in StepStates
    BY DEF TypeOK
  <2>2. /\ plans' \in [Runs -> Plans \union {NoPlan}]
        /\ insertion_order' \in Seq(Runs) /\ stuck' \in BOOLEAN
    BY <1>1, <2>1, MadePlans, StoredPlans DEF StartPlan
  <2>3. UNCHANGED <<depends_on, level, status, cpc, target, copy, rerun, mixed>>
    BY <1>1 DEF StartPlan, callVars
  <2>4. pc' \in [Runs -> {"new", "select", "execute", "end"}] /\ overlapped' \in BOOLEAN
    BY <1>1 DEF StartPlan, TypeOK
  <2>5. TypeOK'
    BY <2>2, <2>3, <2>4 DEF TypeOK
  <2>6. LevelBound'
    BY <1>1, <2>3 DEF StartPlan, LevelBound, TypeOK
  <2> QED
    BY <2>5, <2>6
<1>2. CASE SelectSteps(r)
  <2> DEFINE here  == Level(depends_on[r], level[r])
             ready == {s \in here : DepsOk(status[r], depends_on[r][s])}
             ss    == [s \in Steps |-> IF s \in ready THEN "Running"
                                        ELSE IF s \in here THEN "Skipped" ELSE status[r][s]]
  <2>1. ss \in StepStates
    <3> HIDE DEF ready, here
    <3> QED
      BY DEF TypeOK, StepStates
  <2> HIDE DEF ss
  <2>2. status' = [status EXCEPT ![r] = ss] /\ level[r] <= Last
    BY <1>2 DEF SelectSteps, ss
  <2>3. /\ level' \in {level, [level EXCEPT ![r] = @ + 1]}
        /\ pc' \in {pc, [pc EXCEPT ![r] = "execute"]}
        /\ UNCHANGED storeVars \/ update_plan(r, [steps |-> ss, status |-> "Running"])
        /\ UNCHANGED <<depends_on, callVars, overlapped>>
    BY <1>2 DEF SelectSteps, ss
  <2>4. plans' \in [Runs -> Plans \union {NoPlan}] /\ insertion_order' \in Seq(Runs) /\ stuck' \in BOOLEAN
    BY <2>1, <2>3, MadePlans, UpdatedPlans DEF TypeOK, storeVars
  <2>5. level' \in [Runs -> 0 .. Last + 1]
    <3>1. level \in [Runs -> 0 .. Last + 1] /\ level[r] + 1 \in 0 .. Last + 1
      BY <2>2 DEF TypeOK
    <3> QED
      BY <2>3, <3>1
  <2>6. status' \in [Runs -> StepStates]
    BY <2>1, <2>2 DEF TypeOK
  <2>7. pc' \in [Runs -> {"new", "select", "execute", "end"}]
    BY <2>3 DEF TypeOK
  <2>8. TypeOK'
    BY <2>3, <2>4, <2>5, <2>6, <2>7 DEF TypeOK, callVars
  <2>9. \/ level' = level
        \/ pc' = pc /\ pc[r] = "select" /\ level' = [level EXCEPT ![r] = @ + 1]
    BY <1>2 DEF SelectSteps
  <2>10. LevelBound'
    BY <2>2, <2>3, <2>9 DEF LevelBound, TypeOK
  <2> QED
    BY <2>8, <2>10
<1>3. CASE JoinSteps(r)
  <2>1. PICK ss : /\ ss \in StepStates
                  /\ status' = [status EXCEPT ![r] = ss]
                  /\ update_plan(r, [steps |-> ss, status |-> "Running"])
    <3> DEFINE pending == {s \in Level(depends_on[r], level[r]) : status[r][s] = "Running"}
    <3>1. PICK outcome \in [pending -> {"Completed", "Failed", "Running"}] :
            LET ss == [s \in Steps |-> IF s \in DOMAIN outcome THEN outcome[s] ELSE status[r][s]]
            IN  status' = [status EXCEPT ![r] = ss] /\ update_plan(r, [steps |-> ss, status |-> "Running"])
      BY <1>3 DEF JoinSteps
    <3> DEFINE ss == [s \in Steps |-> IF s \in DOMAIN outcome THEN outcome[s] ELSE status[r][s]]
    <3> HIDE DEF pending
    <3>2. ss \in StepStates
      BY DEF TypeOK, StepStates
    <3> QED
      BY <3>1, <3>2
  <2>2. /\ level' = [level EXCEPT ![r] = @ + 1] /\ pc' = [pc EXCEPT ![r] = "select"]
        /\ UNCHANGED <<depends_on, callVars, overlapped>> /\ pc[r] = "execute"
    BY <1>3 DEF JoinSteps
  <2>3. plans' \in [Runs -> Plans \union {NoPlan}] /\ insertion_order' \in Seq(Runs) /\ stuck' \in BOOLEAN
    BY <2>1, MadePlans, UpdatedPlans
  <2>4. level' \in [Runs -> 0 .. Last + 1]
    <3>1. level \in [Runs -> 0 .. Last + 1] /\ level[r] + 1 \in 0 .. Last + 1
      BY <2>2 DEF TypeOK, LevelBound
    <3> QED
      BY <2>2, <3>1
  <2>5. pc' \in [Runs -> {"new", "select", "execute", "end"}] /\ status' \in [Runs -> StepStates]
    BY <2>1, <2>2 DEF TypeOK
  <2>6. TypeOK'
    BY <2>2, <2>3, <2>4, <2>5 DEF TypeOK, callVars
  <2>7. LevelBound'
    BY <2>2 DEF LevelBound, TypeOK
  <2> QED
    BY <2>6, <2>7
<1>4. CASE EndPlan(r)
  <2>1. status[r] \in StepStates
    BY DEF TypeOK
  <2>2. plans' \in [Runs -> Plans \union {NoPlan}] /\ insertion_order' \in Seq(Runs) /\ stuck' \in BOOLEAN
    BY <1>4, <2>1, MadePlans, UpdatedPlans DEF EndPlan
  <2>3. pc' \in [Runs -> {"new", "select", "execute", "end"}]
    BY <1>4 DEF EndPlan, TypeOK
  <2>4. TypeOK'
    BY <1>4, <2>2, <2>3 DEF EndPlan, TypeOK, callVars
  <2>5. LevelBound'
    BY <1>4 DEF EndPlan, LevelBound, TypeOK
  <2> QED
    BY <2>4, <2>5
<1> QED
  BY <1>1, <1>2, <1>3, <1>4 DEF RunStep

LEMMA CallTyped ==
  ASSUME TypeOK, CallInv, NEW c \in Calls, CallStep(c)
  PROVE  TypeOK'
<1>0. UNCHANGED <<pc, depends_on, level, status>>
  BY DEF CallStep, GetPlan, Refuse, MarkRunning, FinishStep, StepPanics, EndCall, runVars
<1>1. CASE \E r \in Runs, s \in Steps : GetPlan(c, r, s)
  <2>1. PICK r \in Runs, s \in Steps : GetPlan(c, r, s)
    BY <1>1
  <2>2. /\ cpc' \in [Calls -> {"new", "read", "execute", "end"}]
        /\ overlapped' \in BOOLEAN /\ rerun' \in SUBSET Runs /\ mixed' \in SUBSET Runs
    BY <2>1 DEF GetPlan, TypeOK
  <2>3. copy' \in [Calls -> Plans \union {NoPlan}]
    BY <2>1 DEF GetPlan, TypeOK
  <2>4. target' \in [Calls -> (Runs \X Steps) \union {NoPlan}]
    BY <2>1 DEF GetPlan, TypeOK
  <2>5. UNCHANGED <<plans, insertion_order, stuck>>
    BY <2>1 DEF GetPlan, storeVars
  <2> QED
    BY <1>0, <2>2, <2>3, <2>4, <2>5 DEF TypeOK
<1>2. ASSUME EndCall(c), plans' \in [Runs -> Plans \union {NoPlan}],
             insertion_order' \in Seq(Runs), stuck' \in BOOLEAN
      PROVE  TypeOK'
  <2>1. cpc' \in [Calls -> {"new", "read", "execute", "end"}]
    BY <1>2 DEF EndCall, TypeOK
  <2>2. copy' \in [Calls -> Plans \union {NoPlan}]
    BY <1>2 DEF EndCall, TypeOK
  <2>3. target' \in [Calls -> (Runs \X Steps) \union {NoPlan}]
    BY <1>2 DEF EndCall, TypeOK
  <2> QED
    BY <1>0, <1>2, <2>1, <2>2, <2>3 DEF EndCall, TypeOK
<1>3. CASE Refuse(c) \/ StepPanics(c)
  BY <1>2, <1>3 DEF Refuse, StepPanics, storeVars, TypeOK
<1>4. CASE MarkRunning(c)
  <2> DEFINE r == target[c][1]
             s == target[c][2]
             plan == [copy[c] EXCEPT !.steps[s] = "Running", !.status = "Running"]
  <2>1. r \in Runs /\ s \in Steps /\ copy[c] \in Plans
    BY <1>4 DEF MarkRunning, CallInv, CallsGoing
  <2>2. plan \in Plans
    BY <2>1 DEF Plans, StepStates
  <2> HIDE DEF plan
  <2>3. /\ copy' = [copy EXCEPT ![c] = plan] /\ update_plan(r, plan)
        /\ cpc' = [cpc EXCEPT ![c] = "execute"]
        /\ UNCHANGED <<runVars, target, overlapped, rerun, mixed>>
    BY <1>4 DEF MarkRunning, plan
  <2> HIDE DEF r
  <2>4. plans' \in [Runs -> Plans \union {NoPlan}] /\ insertion_order' \in Seq(Runs) /\ stuck' \in BOOLEAN
    BY <2>1, <2>2, <2>3, UpdatedPlans
  <2>5. cpc' \in [Calls -> {"new", "read", "execute", "end"}]
    BY <2>3 DEF TypeOK
  <2>6. copy' \in [Calls -> Plans \union {NoPlan}]
    BY <2>2, <2>3 DEF TypeOK
  <2> QED
    BY <1>0, <2>3, <2>4, <2>5, <2>6 DEF TypeOK
<1>5. CASE FinishStep(c)
  <2>1. PICK plan \in Plans : update_plan(target[c][1], plan)
    BY <1>5, Finished
  <2>2. target[c][1] \in Runs /\ EndCall(c)
    BY <1>5 DEF FinishStep, CallInv, CallsGoing
  <2>3. plans' \in [Runs -> Plans \union {NoPlan}] /\ insertion_order' \in Seq(Runs) /\ stuck' \in BOOLEAN
    BY <2>1, <2>2, UpdatedPlans
  <2> QED
    BY <1>2, <2>2, <2>3
<1> QED
  BY <1>1, <1>3, <1>4, <1>5 DEF CallStep
-----------------------------------------------------------------------------
(* What the steps of the others leave alone. *)

LEMMA RunChanges ==
  ASSUME TypeOK, NEW r \in Runs, RunStep(r)
  PROVE  /\ pc[r] # "end" /\ pc'[r] # "new"
         /\ UNCHANGED <<depends_on, cpc, target, copy, rerun, mixed>>
         /\ \A q \in Runs : q # r =>
              /\ pc'[q] = pc[q] /\ level'[q] = level[q] /\ status'[q] = status[q]
              /\ plans'[q] \in {plans[q], NoPlan}
<1>1. CASE StartPlan(r)
  <2>1. [steps |-> status[r], status |-> "Running"] \in Plans
    BY MadePlans DEF TypeOK
  <2>2. \A q \in Runs : q # r => plans'[q] \in {plans[q], NoPlan}
    BY <1>1, <2>1, StoredPlans DEF StartPlan
  <2> QED
    BY <1>1, <2>2 DEF StartPlan, TypeOK, callVars
<1>2. CASE SelectSteps(r)
  <2>1. \A q \in Runs : q # r => plans'[q] = plans[q]
    BY <1>2 DEF SelectSteps, update_plan, storeVars, TypeOK
  <2> QED
    BY <1>2, <2>1 DEF SelectSteps, TypeOK, callVars
<1>3. CASE JoinSteps(r)
  <2>1. \A q \in Runs : q # r => plans'[q] = plans[q]
    BY <1>3 DEF JoinSteps, update_plan, TypeOK
  <2>2. \A q \in Runs : q # r => status'[q] = status[q]
    BY <1>3 DEF JoinSteps, TypeOK
  <2>3. /\ pc[r] = "execute" /\ pc' = [pc EXCEPT ![r] = "select"]
        /\ level' = [level EXCEPT ![r] = @ + 1]
        /\ UNCHANGED <<depends_on, callVars>>
    BY <1>3 DEF JoinSteps
  <2> QED
    BY <2>1, <2>2, <2>3 DEF TypeOK, callVars
<1>4. CASE EndPlan(r)
  BY <1>4 DEF EndPlan, update_plan, TypeOK, callVars
<1> QED
  BY <1>1, <1>2, <1>3, <1>4 DEF RunStep

(* The step of a call that has a plan in hand. *)
Continue(c) == Refuse(c) \/ MarkRunning(c) \/ FinishStep(c) \/ StepPanics(c)

LEMMA CallChanges ==
  ASSUME TypeOK, CallInv, NEW c \in Calls, CallStep(c)
  PROVE  /\ UNCHANGED <<pc, depends_on, level, status>>
         /\ rerun \subseteq rerun' /\ mixed \subseteq mixed'
         /\ \A d \in Calls : d # c =>
              cpc'[d] = cpc[d] /\ target'[d] = target[d] /\ copy'[d] = copy[d]
         /\ Continue(c) =>
              /\ c \in CallsGoing
              /\ target'[c] = target[c] \/ c \notin CallsGoing'
              /\ UNCHANGED <<overlapped, rerun, mixed>>
              /\ \A q \in Runs : q # target[c][1] => plans'[q] = plans[q]
<1>1. UNCHANGED <<pc, depends_on, level, status>>
  BY DEF CallStep, GetPlan, Refuse, MarkRunning, FinishStep, StepPanics, EndCall, runVars
<1>2. ASSUME NEW r \in Runs, NEW s \in Steps, GetPlan(c, r, s)
      PROVE  /\ rerun \subseteq rerun' /\ mixed \subseteq mixed'
             /\ \A d \in Calls : d # c =>
                  cpc'[d] = cpc[d] /\ target'[d] = target[d] /\ copy'[d] = copy[d]
             /\ cpc[c] = "new"
  BY <1>2 DEF GetPlan, TypeOK
<1>3. ASSUME EndCall(c)
      PROVE  /\ UNCHANGED <<overlapped, rerun, mixed>>
             /\ \A d \in Calls : d # c =>
                  cpc'[d] = cpc[d] /\ target'[d] = target[d] /\ copy'[d] = copy[d]
             /\ c \notin CallsGoing'
  BY <1>3 DEF EndCall, CallsGoing, TypeOK
<1>4. CASE MarkRunning(c)
  <2>1. /\ UNCHANGED <<target, overlapped, rerun, mixed>> /\ c \in CallsGoing
        /\ \A d \in Calls : d # c => cpc'[d] = cpc[d] /\ copy'[d] = copy[d]
    BY <1>4 DEF MarkRunning, CallsGoing, TypeOK
  <2>2. \A q \in Runs : q # target[c][1] => plans'[q] = plans[q]
    BY <1>4 DEF MarkRunning, update_plan, TypeOK
  <2> QED
    BY <1>1, <2>1, <2>2
<1>5. CASE FinishStep(c)
  <2>1. \A q \in Runs : q # target[c][1] => plans'[q] = plans[q]
    BY <1>5 DEF FinishStep, update_plan, TypeOK
  <2>2. EndCall(c) /\ c \in CallsGoing
    BY <1>5 DEF FinishStep, CallsGoing
  <2> QED
    BY <1>1, <1>3, <2>1, <2>2
<1>6. CASE Refuse(c) \/ StepPanics(c)
  <2>1. EndCall(c) /\ c \in CallsGoing /\ plans' = plans
    BY <1>6 DEF Refuse, StepPanics, CallsGoing, storeVars
  <2> QED
    BY <1>1, <1>3, <2>1
<1>7. CASE \E r \in Runs, s \in Steps : GetPlan(c, r, s)
  <2>1. cpc[c] = "new"
    BY <1>2, <1>7
  <2>2. ~Continue(c)
    BY <2>1 DEF Continue, Refuse, MarkRunning, FinishStep, StepPanics
  <2> QED
    BY <1>1, <1>2, <1>7, <2>2
<1> QED
  BY <1>4, <1>5, <1>6, <1>7 DEF CallStep

LEMMA CallInvNext ==
  ASSUME TypeOK, CallInv, Next
  PROVE  CallInv'
<1>1. ASSUME NEW r \in Runs, RunStep(r)
      PROVE  CallInv'
  <2>1. \A q \in Runs : pc'[q] = "new" => plans'[q] = NoPlan /\ q \notin rerun'
    BY <1>1, RunChanges DEF CallInv
  <2>2. CallsGoing' = CallsGoing
    BY <1>1, RunChanges DEF CallsGoing
  <2>3. ASSUME NEW c \in CallsGoing
        PROVE  /\ target'[c] \in Runs \X Steps
               /\ pc'[target'[c][1]] = "end" /\ target'[c][1] \in rerun'
               /\ copy'[c] \in Plans
    BY <1>1, RunChanges DEF CallInv
  <2> QED
    BY <2>1, <2>2, <2>3 DEF CallInv
<1>2. ASSUME NEW c \in Calls, NEW r \in Runs, NEW s \in Steps, GetPlan(c, r, s)
      PROVE  CallInv'
  <2>1. CallStep(c)
    BY <1>2 DEF CallStep
  <2>2. /\ target'[c] = <<r, s>> /\ copy'[c] = plans[r] /\ rerun' = rerun \union {r}
        /\ plans' = plans /\ plans[r] \in Plans /\ pc[r] = "end"
    BY <1>2 DEF GetPlan, TypeOK, storeVars
  <2>3. \A q \in Runs : pc'[q] = "new" => plans'[q] = NoPlan /\ q \notin rerun'
    BY <2>1, <2>2, CallChanges DEF CallInv
  <2>4. ASSUME NEW d \in CallsGoing'
        PROVE  /\ target'[d] \in Runs \X Steps
               /\ pc'[target'[d][1]] = "end" /\ target'[d][1] \in rerun'
               /\ copy'[d] \in Plans
    <3>1. CASE d = c
      <4>1. target'[d] = <<r, s>> /\ target'[d][1] = r /\ copy'[d] \in Plans /\ r \in rerun'
        BY <2>2, <3>1
      <4>2. pc'[r] = "end"
        BY <2>1, <2>2, CallChanges
      <4> QED
        BY <4>1, <4>2
    <3>2. CASE d # c
      <4>1. d \in CallsGoing /\ target'[d] = target[d] /\ copy'[d] = copy[d]
        BY <2>1, <3>2, CallChanges DEF CallsGoing
      <4> QED
        BY <2>1, <4>1, CallChanges DEF CallInv
    <3> QED
      BY <3>1, <3>2
  <2> QED
    BY <2>3, <2>4 DEF CallInv
<1>3. ASSUME NEW c \in Calls, Continue(c)
      PROVE  CallInv'
  <2>1. CallStep(c)
    BY <1>3 DEF CallStep, Continue
  <2>2. c \in CallsGoing /\ target[c][1] \in Runs /\ pc[target[c][1]] = "end"
    BY <1>3, <2>1, CallChanges DEF CallInv
  <2>3. \A q \in Runs : pc'[q] = "new" => plans'[q] = NoPlan /\ q \notin rerun'
    BY <1>3, <2>1, <2>2, CallChanges DEF CallInv
  <2>4. ASSUME NEW d \in CallsGoing'
        PROVE  /\ target'[d] \in Runs \X Steps
               /\ pc'[target'[d][1]] = "end" /\ target'[d][1] \in rerun'
               /\ copy'[d] \in Plans
    <3>1. CASE d = c
      <4>1. target'[c] = target[c]
        BY <1>3, <2>1, <2>4, <3>1, CallChanges
      <4>2. copy'[c] \in Plans
        <5>1. MarkRunning(c)
          BY <1>3, <2>4, <3>1 DEF Continue, Refuse, FinishStep, StepPanics, EndCall, CallsGoing, TypeOK
        <5>2. target[c][2] \in Steps /\ copy[c] \in Plans
          BY <2>2 DEF CallInv
        <5>3. [copy[c] EXCEPT !.steps[target[c][2]] = "Running", !.status = "Running"] \in Plans
          BY <5>2 DEF Plans, StepStates
        <5> QED
          BY <5>1, <5>3 DEF MarkRunning, TypeOK
      <4> QED
        BY <1>3, <2>1, <2>2, <3>1, <4>1, <4>2, CallChanges DEF CallInv
    <3>2. CASE d # c
      <4>1. d \in CallsGoing /\ target'[d] = target[d] /\ copy'[d] = copy[d]
        BY <2>1, <3>2, CallChanges DEF CallsGoing
      <4> QED
        BY <1>3, <2>1, <4>1, CallChanges DEF CallInv
    <3> QED
      BY <3>1, <3>2
  <2> QED
    BY <2>3, <2>4 DEF CallInv
<1> QED
  BY <1>1, <1>2, <1>3 DEF Next, CallStep, Continue

-----------------------------------------------------------------------------
(* Types, and who works on what. *)

Typed == TypeOK /\ LevelBound /\ CallInv

LEMMA TypedInit == Init => Typed
<1> SUFFICES ASSUME Init PROVE Typed
  OBVIOUS
<1>1. depends_on \in [Runs -> Shapes] /\ level \in [Runs -> 0 .. Last + 1] /\ LevelBound
  BY LastNat DEF Init, LevelBound
<1>2. status \in [Runs -> StepStates]
  BY DEF Init, StepStates
<1>3. target \in [Calls -> (Runs \X Steps) \union {NoPlan}]
  BY DEF Init
<1>4. plans \in [Runs -> Plans \union {NoPlan}] /\ copy \in [Calls -> Plans \union {NoPlan}]
  BY DEF Init
<1>5. insertion_order \in Seq(Runs)
  BY DEF Init
<1>6. TypeOK
  BY <1>1, <1>2, <1>3, <1>4, <1>5 DEF Init, TypeOK
<1>7. CallInv
  BY DEF Init, CallInv, CallsGoing
<1> QED
  BY <1>1, <1>6, <1>7 DEF Typed

LEMMA TypedNext == Typed /\ [Next]_vars => Typed'
<1> SUFFICES ASSUME Typed, [Next]_vars PROVE Typed'
  OBVIOUS
<1> USE DEF Typed
<1>1. ASSUME NEW r \in Runs, RunStep(r)
      PROVE  Typed'
  BY <1>1, RunTyped, CallInvNext DEF Next
<1>2. ASSUME NEW c \in Calls, CallStep(c)
      PROVE  Typed'
  <2>1. LevelBound'
    BY <1>2, CallChanges DEF LevelBound
  <2> QED
    BY <1>2, <2>1, CallTyped, CallInvNext DEF Next
<1>3. CASE UNCHANGED vars
  BY <1>3 DEF vars, runVars, storeVars, callVars, TypeOK, LevelBound, CallInv, CallsGoing
<1> QED
  BY <1>1, <1>2, <1>3 DEF Next

(* Every variable keeps its type: no run goes past the last level, and     *)
(* every call that goes on has a plan in hand, of a run that has ended.    *)
THEOREM PlanTypeCorrect == Spec => []TypeOK
<1>1. Typed => TypeOK
  BY DEF Typed
<1> QED
  BY <1>1, TypedInit, TypedNext, PTL DEF Spec

-----------------------------------------------------------------------------
(* Steps are decided the right way. *)

(* A step of an earlier level depends on steps of earlier levels only. *)
LEMMA BeforeClosed ==
  ASSUME NEW shape, NEW n \in 0 .. Last
  PROVE  \A s \in Before(shape, n) : shape[s] \subseteq Before(shape, n)
<1> DEFINE R == Resolved(shape)
<1>1. R[0] = {} /\ \A k \in Nat : R[k + 1] = {s \in Steps : shape[s] \subseteq R[k]} /\ R[k] \subseteq R[k + 1]
  BY ResolvedValues, ResolvedGrows
<1>2. n \in Nat /\ n <= Last
  BY LastNat
<1>3. CASE n = 0
  BY <1>1, <1>2, <1>3 DEF Before
<1>4. CASE n # 0
  <2>1. n - 1 \in Nat /\ (n - 1) + 1 = n
    BY <1>2, <1>4
  <2>2. R[n] = {s \in Steps : shape[s] \subseteq R[n - 1]} /\ R[n - 1] \subseteq R[n]
    BY <1>1, <2>1
  <2> QED
    BY <1>2, <2>2 DEF Before
<1> QED
  BY <1>3, <1>4

LEMMA LevelInit == Init => LevelInv
<1> SUFFICES ASSUME Init, NEW r \in Runs
             PROVE  /\ level[r] = 0 /\ pc[r] = "new" /\ \A s \in Steps : status[r][s] = "Pending"
                    /\ Before(depends_on[r], level[r]) = {}
  BY DEF LevelInv, LevelOf
<1>1. level[r] = 0 /\ pc[r] = "new" /\ \A s \in Steps : status[r][s] = "Pending"
  BY DEF Init
<1> QED
  BY <1>1, Levels

LEMMA SelectKeepsLevel ==
  ASSUME Typed, NEW r \in Runs, LevelOf(r, pc[r], level[r], status[r]), SelectSteps(r)
  PROVE  LevelOf(r, pc'[r], level'[r], status'[r])
<1> DEFINE shape == depends_on[r]
           l == level[r]
           old == status[r]
           done == Before(shape, l)
           here == Level(shape, l)
           ready == {s \in here : DepsOk(old, shape[s])}
           ss == [s \in Steps |-> IF s \in ready THEN "Running"
                                   ELSE IF s \in here THEN "Skipped" ELSE old[s]]
           blocked(st, s) == \E d \in shape[s] : d \notin Steps \/ st[d] # "Completed"
<1>1. pc[r] = "select" /\ l \in 0 .. Last /\ status'[r] = ss
  BY LastNat DEF SelectSteps, Typed, TypeOK
<1>2. /\ done \subseteq Before(shape, l + 1) /\ Before(shape, l + 1) \subseteq Steps
      /\ here = Before(shape, l + 1) \ done
  BY <1>1, Levels
<1>3. /\ \A s \in done : old[s] # "Pending" /\ (old[s] = "Skipped" <=> blocked(old, s))
      /\ \A s \in Steps \ done : old[s] = "Pending"
  BY <1>1 DEF LevelOf
<1>4. \A s \in here : s \in Steps \ done /\ (s \in ready <=> ~blocked(old, s))
  BY <1>2 DEF DepsOk
<1>5. here \subseteq Steps /\ ready \subseteq here
  BY <1>2
<1> HIDE DEF ready, here, done
<1>6. /\ \A s \in here : ss[s] = IF s \in ready THEN "Running" ELSE "Skipped"
      /\ \A s \in Steps \ here : ss[s] = old[s]
  BY <1>5
<1> HIDE DEF ss
<1>7. \A d \in Steps : ss[d] = "Completed" <=> old[d] = "Completed"
  BY <1>3, <1>4, <1>6
<1>8. \A s \in Steps : blocked(ss, s) <=> blocked(old, s)
  BY <1>7
<1> HIDE DEF blocked
<1>9. \A s \in done : ss[s] # "Pending" /\ (ss[s] = "Skipped" <=> blocked(ss, s))
  BY <1>2, <1>3, <1>4, <1>6, <1>8
<1>10. \A s \in here : ss[s] \in {"Running", "Skipped"} /\ (ss[s] = "Skipped" <=> blocked(ss, s))
  BY <1>4, <1>6, <1>8
<1>11. \A s \in Steps \ (done \union here) : ss[s] = "Pending"
  BY <1>3, <1>6
<1>12. CASE ready = {}
  <2>1. level'[r] = l + 1 /\ pc'[r] = "select"
    BY <1>1, <1>12 DEF SelectSteps, ready, here, Typed, TypeOK
  <2>2. Before(shape, l + 1) = done \union here
    BY <1>2
  <2>3. \A s \in here : ss[s] # "Pending"
    BY <1>10
  <2> QED
    BY <1>1, <1>9, <1>10, <1>11, <2>1, <2>2, <2>3 DEF LevelOf, blocked
<1>13. CASE ready # {}
  <2>1. level'[r] = l /\ pc'[r] = "execute"
    BY <1>1, <1>13 DEF SelectSteps, ready, here, Typed, TypeOK
  <2> QED
    BY <1>1, <1>9, <1>10, <1>11, <2>1 DEF LevelOf, blocked, done, here
<1> QED
  BY <1>12, <1>13

LEMMA JoinKeepsLevel ==
  ASSUME Typed, NEW r \in Runs, LevelOf(r, pc[r], level[r], status[r]), JoinSteps(r)
  PROVE  LevelOf(r, pc'[r], level'[r], status'[r])
<1> DEFINE shape == depends_on[r]
           l == level[r]
           old == status[r]
           done == Before(shape, l)
           here == Level(shape, l)
           tasks == {s \in here : old[s] = "Running"}
           blocked(st, s) == \E d \in shape[s] : d \notin Steps \/ st[d] # "Completed"
<1>1. PICK outcome \in [tasks -> {"Completed", "Failed", "Running"}] :
        LET ss == [s \in Steps |-> IF s \in DOMAIN outcome THEN outcome[s] ELSE old[s]]
        IN  status' = [status EXCEPT ![r] = ss]
  BY DEF JoinSteps
<1> DEFINE ss == [s \in Steps |-> IF s \in DOMAIN outcome THEN outcome[s] ELSE old[s]]
<1>2. /\ pc[r] = "execute" /\ l \in 0 .. Last /\ status'[r] = ss
      /\ level'[r] = l + 1 /\ pc'[r] = "select"
  BY <1>1, LastNat DEF JoinSteps, Typed, TypeOK, LevelBound
<1>3. /\ done \subseteq Before(shape, l + 1) /\ Before(shape, l + 1) \subseteq Steps
      /\ here = Before(shape, l + 1) \ done
  BY <1>2, Levels
<1>4. /\ \A s \in done : old[s] # "Pending" /\ (old[s] = "Skipped" <=> blocked(old, s))
      /\ \A s \in here : old[s] \in {"Running", "Skipped"} /\ (old[s] = "Skipped" <=> blocked(old, s))
      /\ \A s \in Steps \ (done \union here) : old[s] = "Pending"
  BY <1>2, <1>3 DEF LevelOf
<1>5. \A s \in done : shape[s] \subseteq done
  BY <1>2, BeforeClosed
<1>6. \A s \in here : IF l < Last THEN shape[s] \subseteq done
                      ELSE \E d \in shape[s] : d \notin Steps \/ d \in here
  BY <1>2, <1>3, Levels
<1> HIDE DEF here, done
<1>7. /\ \A s \in Steps \ tasks : ss[s] = old[s]
      /\ \A s \in tasks : ss[s] \in {"Completed", "Failed", "Running"}
  BY <1>3
<1> HIDE DEF ss
<1>8. \A s \in done : blocked(ss, s) <=> blocked(old, s)
  <2>1. \A d \in done : ss[d] = old[d]
    BY <1>3, <1>7
  <2> QED
    BY <1>5, <2>1
<1>9. \A s \in here : blocked(ss, s) <=> blocked(old, s)
  <2>1. CASE l < Last
    <3>1. \A d \in done : ss[d] = old[d]
      BY <1>3, <1>7
    <3> QED
      BY <1>6, <2>1, <3>1
  <2>2. CASE ~(l < Last)
    <3>1. \A s \in here : blocked(old, s)
      BY <1>4, <1>6, <2>2
    <3>2. tasks = {}
      BY <1>4, <3>1
    <3>3. \A s \in Steps : ss[s] = old[s]
      BY <1>7, <3>2
    <3> QED
      BY <3>3
  <2> QED
    BY <2>1, <2>2
<1> HIDE DEF blocked
<1>10. \A s \in done : ss[s] # "Pending" /\ (ss[s] = "Skipped" <=> blocked(ss, s))
  BY <1>3, <1>4, <1>7, <1>8
<1>11. \A s \in here : ss[s] # "Pending" /\ (ss[s] = "Skipped" <=> blocked(ss, s))
  BY <1>3, <1>4, <1>7, <1>9
<1>12. \A s \in Steps \ (done \union here) : ss[s] = "Pending"
  BY <1>4, <1>7
<1>13. Before(shape, l + 1) = done \union here
  BY <1>3
<1> QED
  BY <1>2, <1>10, <1>11, <1>12, <1>13 DEF LevelOf, blocked

LEMMA LevelNext == Typed /\ LevelInv /\ [Next]_vars => LevelInv'
<1> SUFFICES ASSUME Typed, LevelInv, [Next]_vars PROVE LevelInv'
  OBVIOUS
<1>1. ASSUME UNCHANGED <<pc, depends_on, level, status>>
      PROVE  LevelInv'
  BY <1>1 DEF LevelInv, LevelOf
<1>2. ASSUME NEW r \in Runs, RunStep(r)
      PROVE  LevelInv'
  <2>1. ASSUME NEW q \in Runs, q # r
        PROVE  LevelOf(q, pc'[q], level'[q], status'[q])
    BY <1>2, <2>1, RunChanges DEF LevelInv, Typed
  <2>2. LevelOf(r, pc'[r], level'[r], status'[r])
    <3>1. LevelOf(r, pc[r], level[r], status[r])
      BY DEF LevelInv
    <3>2. CASE StartPlan(r)
      <4>1. pc[r] = "new" /\ pc'[r] = "select" /\ level'[r] = level[r] /\ status'[r] = status[r]
        BY <3>2 DEF StartPlan, Typed, TypeOK
      <4> QED
        BY <3>1, <4>1 DEF LevelOf
    <3>3. CASE EndPlan(r)
      <4>1. /\ pc[r] = "select" /\ pc'[r] = "end" /\ level[r] = Last + 1
            /\ level'[r] = level[r] /\ status'[r] = status[r]
        BY <3>3 DEF EndPlan, Typed, TypeOK
      <4> QED
        BY <3>1, <4>1 DEF LevelOf
    <3> QED
      BY <1>2, <3>1, <3>2, <3>3, SelectKeepsLevel, JoinKeepsLevel DEF RunStep
  <2>3. depends_on' = depends_on
    BY <1>2, RunChanges DEF Typed
  <2>4. \A q \in Runs : LevelOf(q, pc'[q], level'[q], status'[q])
    BY <2>1, <2>2
  <2> QED
    BY <2>3, <2>4 DEF LevelOf, LevelInv
<1>3. ASSUME NEW c \in Calls, CallStep(c)
      PROVE  LevelInv'
  BY <1>1, <1>3, CallChanges DEF Typed
<1> QED
  BY <1>1, <1>2, <1>3 DEF Next, vars, runVars

LEMMA EndedRight ==
  ASSUME LevelInv, NEW r \in Runs, pc[r] = "end"
  PROVE  \A s \in Steps : Right(r, s)
<1>1. Before(depends_on[r], Last + 1) = Steps
  BY Levels
<1> QED
  BY <1>1 DEF LevelInv, LevelOf, Right, Blocked

(* Whatever the steps depend on, a run that ends has decided every one:    *)
(* it skipped those, and only those, that have a dependency that did not   *)
(* complete or does not exist.  This is what the levels are computed for.  *)
THEOREM StepsAreDecided == Spec => []StepsDecided
<1>1. LevelInv => StepsDecided
  BY EndedRight DEF StepsDecided, Right, Blocked
<1> QED
  BY <1>1, TypedInit, TypedNext, LevelInit, LevelNext, PTL DEF Spec

-----------------------------------------------------------------------------
(* The store is what the runs know. *)

LEMMA StoreNext == Typed /\ StoreInv /\ [Next]_vars => StoreInv'
<1> SUFFICES ASSUME Typed, StoreInv, [Next]_vars PROVE StoreInv'
  OBVIOUS
<1> DEFINE Current(q) ==
             plans[q] # NoPlan =>
               /\ plans[q].status = "Running" <=> pc[q] # "end"
               /\ pc[q] \in {"execute", "end"} => plans[q].steps = status[q]
               /\ pc[q] = "end" => plans[q].status = PlanStatusOf(status[q])
<1>1. CASE UNCHANGED vars
  BY <1>1 DEF StoreInv, vars, runVars, storeVars, callVars
<1>2. ASSUME NEW r \in Runs, RunStep(r), NEW q \in Runs \ rerun', q # r
      PROVE  Current(q)'
  <2>1. /\ pc'[q] = pc[q] /\ status'[q] = status[q] /\ plans'[q] \in {plans[q], NoPlan}
        /\ q \notin rerun
    BY <1>2, RunChanges DEF Typed
  <2>2. Current(q)
    BY <2>1 DEF StoreInv
  <2> QED
    BY <2>1, <2>2
<1>3. ASSUME NEW r \in Runs, RunStep(r), r \notin rerun'
      PROVE  Current(r)'
  <2>1. r \notin rerun /\ Current(r)
    BY <1>3, RunChanges DEF StoreInv, Typed
  <2>2. status[r] \in StepStates /\ PlanStatusOf(status[r]) # "Running"
    BY MadePlans DEF Typed, TypeOK
  <2>3. CASE StartPlan(r)
    <3>1. plans'[r] \in {[steps |-> status[r], status |-> "Running"], NoPlan}
      BY <2>2, <2>3, MadePlans, StoredPlans DEF StartPlan, Typed
    <3>2. pc'[r] = "select"
      BY <2>3 DEF StartPlan, Typed, TypeOK
    <3> QED
      BY <3>1, <3>2
  <2>4. CASE SelectSteps(r)
    <3>1. \/ pc'[r] = "select" /\ pc[r] = "select" /\ plans' = plans
          \/ /\ pc'[r] = "execute"
             /\ plans'[r] = [steps |-> status'[r], status |-> "Running"]
      BY <2>4 DEF SelectSteps, update_plan, storeVars, Typed, TypeOK
    <3> QED
      BY <2>1, <3>1
  <2>5. CASE JoinSteps(r)
    <3>1. plans'[r].status = "Running" /\ pc'[r] = "select"
      BY <2>5 DEF JoinSteps, update_plan, Typed, TypeOK
    <3> QED
      BY <3>1
  <2>6. CASE EndPlan(r)
    <3>1. /\ plans'[r] = [steps |-> status'[r], status |-> PlanStatusOf(status'[r])]
          /\ pc'[r] = "end" /\ status'[r] = status[r]
      BY <2>6 DEF EndPlan, update_plan, Typed, TypeOK
    <3> QED
      BY <2>2, <3>1
  <2> QED
    BY <1>3, <2>3, <2>4, <2>5, <2>6 DEF RunStep
<1>4. ASSUME NEW c \in Calls, CallStep(c), NEW q \in Runs \ rerun'
      PROVE  Current(q)'
  <2>1. pc' = pc /\ status' = status /\ q \notin rerun
    BY <1>4, CallChanges DEF Typed
  <2>2. plans'[q] = plans[q]
    <3>1. CASE Continue(c)
      <4>1. c \in CallsGoing /\ q # target[c][1]
        BY <1>4, <2>1, <3>1, CallChanges DEF Typed, CallInv
      <4> QED
        BY <1>4, <3>1, <4>1, CallChanges DEF Typed
    <3>2. CASE \E r \in Runs, s \in Steps : GetPlan(c, r, s)
      BY <3>2 DEF GetPlan, storeVars
    <3> QED
      BY <1>4, <3>1, <3>2 DEF CallStep, Continue
  <2> QED
    BY <2>1, <2>2 DEF StoreInv
<1> QED
  BY <1>1, <1>2, <1>3, <1>4 DEF Next, StoreInv

(* What others read in the store is what the run knows, however often the  *)
(* plan has been evicted and put back meanwhile.                           *)
THEOREM StoreStaysCurrent == Spec => []StoreIsCurrent
<1>1. Init => StoreInv
  BY DEF Init, StoreInv
<1>2. Typed /\ LevelInv /\ StoreInv => StoreIsCurrent
  <2>. SUFFICES ASSUME Typed, LevelInv, StoreInv,
                       NEW r \in Runs \ rerun, plans[r] # NoPlan, pc[r] = "end"
                PROVE  plans[r].status = "Failed"
                         <=> \A s \in Steps : status[r][s] \notin {"Completed", "Running"}
    BY DEF StoreInv, StoreIsCurrent
  <2>1. \A s \in Steps : status[r][s] \in {"Running", "Completed", "Failed", "Skipped"}
    <3>1. status[r] \in StepStates
      BY DEF Typed, TypeOK
    <3>2. \A s \in Steps : status[r][s] # "Pending"
      BY EndedRight DEF Right
    <3> QED
      BY <3>1, <3>2 DEF StepStates
  <2>2. plans[r].status = PlanStatusOf(status[r])
    BY DEF StoreInv
  <2> QED
    BY <2>1, <2>2 DEF PlanStatusOf
<1> QED
  BY <1>1, <1>2, TypedInit, TypedNext, LevelInit, LevelNext, StoreNext, PTL DEF Spec

-----------------------------------------------------------------------------
(* Plans settle. *)

(* The calls on a plan stay when another call ends or goes on. *)
LEMMA OtherCalls ==
  ASSUME Typed, NEW c \in Calls, Continue(c), NEW r, r = target[c][1]
  PROVE  /\ \A q \in Runs : q # r => CallsOn(q)' = CallsOn(q)
         /\ c \in CallsOn(r) /\ CallsOn(r)' \subseteq CallsOn(r)
<1>1. CallStep(c)
  BY DEF CallStep, Continue
<1>2. /\ \A d \in Calls : d # c => cpc'[d] = cpc[d] /\ target'[d] = target[d]
      /\ target'[c] = target[c] \/ c \notin CallsGoing'
      /\ c \in CallsGoing
  BY <1>1, CallChanges DEF Typed
<1>3. \A d \in Calls : d # c => (d \in CallsGoing' <=> d \in CallsGoing)
  BY <1>2 DEF CallsGoing
<1>4. CallsGoing \subseteq Calls /\ CallsGoing' \subseteq Calls
  BY DEF CallsGoing
<1>5. ASSUME NEW q \in Runs, q # r
      PROVE  CallsOn(q)' = CallsOn(q)
  <2>1. c \notin CallsOn(q) /\ c \notin CallsOn(q)'
    BY <1>2, <1>5 DEF CallsOn
  <2>2. \A d \in Calls : d # c => (d \in CallsOn(q)' <=> d \in CallsOn(q))
    BY <1>2, <1>3 DEF CallsOn
  <2>3. CallsOn(q) \subseteq Calls /\ CallsOn(q)' \subseteq Calls
    BY <1>4 DEF CallsOn
  <2> QED
    BY <2>1, <2>2, <2>3
<1>6. c \in CallsOn(r)
  BY <1>2 DEF CallsOn
<1>7. CallsOn(r)' \subseteq CallsOn(r)
  BY <1>2, <1>3, <1>4, <1>6 DEF CallsOn
<1> QED
  BY <1>5, <1>6, <1>7

LEMMA RunSettles ==
  ASSUME Typed, LevelInv, NEW r \in Runs, RunStep(r), NEW q \in Runs, Settles(q)
  PROVE  Settles(q)'
<1>1. /\ UNCHANGED <<depends_on, cpc, target, copy>> /\ pc[r] # "end"
      /\ q # r => pc'[q] = pc[q] /\ plans'[q] \in {plans[q], NoPlan}
  BY RunChanges DEF Typed
<1>2. CallsOn(q)' = CallsOn(q)
  BY <1>1 DEF CallsOn, CallsGoing
<1>3. CASE q # r
  BY <1>1, <1>2, <1>3 DEF Settles
<1>4. CASE q = r
  <2>1. CallsOn(r) = {}
    BY <1>1 DEF CallsOn, Typed, CallInv
  <2>2. ASSUME pc'[r] = "end"
        PROVE  SettledPlan(plans'[r], depends_on[r])
    <3>1. EndPlan(r)
      BY <2>2 DEF RunStep, StartPlan, SelectSteps, JoinSteps, Typed, TypeOK
    <3>2. plans'[r] = [steps |-> status[r], status |-> PlanStatusOf(status[r])]
      BY <3>1 DEF EndPlan, update_plan, Typed, TypeOK
    <3>3. \A s \in Steps : Right(r, s)
      <4>1. Before(depends_on[r], Last + 1) = Steps /\ level[r] = Last + 1
        BY <3>1, Levels DEF EndPlan
      <4> QED
        BY <4>1 DEF LevelInv, LevelOf, Right, Blocked
    <3>4. PlanStatusOf(status[r]) # "Running"
      BY DEF PlanStatusOf
    <3> QED
      BY <3>2, <3>3, <3>4 DEF SettledPlan, Right, Blocked
  <2> QED
    BY <1>1, <1>2, <1>4, <2>1, <2>2 DEF Settles
<1> QED
  BY <1>3, <1>4

LEMMA GetSettles ==
  ASSUME Typed, NEW c \in Calls, NEW r \in Runs, NEW s \in Steps, GetPlan(c, r, s),
         NEW q \in Runs \ mixed', Settles(q)
  PROVE  Settles(q)'
<1>1. CallStep(c)
  BY DEF CallStep
<1>2. /\ UNCHANGED <<pc, depends_on, plans>> /\ cpc[c] = "new" /\ cpc'[c] = "read"
      /\ target'[c] = <<r, s>> /\ copy'[c] = plans[r] /\ plans[r] # NoPlan /\ pc[r] = "end"
      /\ q = r => CallsOn(r) = {}
  BY DEF GetPlan, runVars, storeVars, Typed, TypeOK
<1>3. \A d \in Calls : d # c => cpc'[d] = cpc[d] /\ target'[d] = target[d] /\ copy'[d] = copy[d]
  BY <1>1, CallChanges DEF Typed
<1>4. CallsGoing' = CallsGoing \union {c} /\ c \notin CallsGoing /\ CallsGoing \subseteq Calls
  BY <1>2, <1>3 DEF CallsGoing
<1>5. CASE q # r
  <2>1. CallsOn(q)' = CallsOn(q) /\ c \notin CallsOn(q) /\ CallsOn(q) \subseteq Calls
    BY <1>2, <1>3, <1>4, <1>5 DEF CallsOn
  <2> QED
    BY <1>2, <1>3, <2>1 DEF Settles
<1>6. CASE q = r
  <2>1. CallsOn(r)' = {c}
    BY <1>2, <1>3, <1>4, <1>6 DEF CallsOn
  <2> QED
    BY <1>2, <1>6, <2>1 DEF Settles
<1> QED
  BY <1>5, <1>6

LEMMA MarkSettles ==
  ASSUME Typed, NEW c \in Calls, NEW r \in Runs, NEW s \in Steps, target[c] = <<r, s>>,
         MarkRunning(c), Settles(r)
  PROVE  Settles(r)'
<1> DEFINE plan == [copy[c] EXCEPT !.steps[s] = "Running", !.status = "Running"]
<1>1. c \in CallsOn(r) /\ CallsOn(r)' \subseteq CallsOn(r)
  BY OtherCalls DEF Continue
<1>2. copy[c] \in Plans
  BY <1>1 DEF Typed, CallInv, CallsOn
<1>3. /\ target' = target /\ copy'[c] = plan /\ plans'[r] = plan /\ depends_on' = depends_on
      /\ StepDepsOk(copy[c].steps, depends_on[r][s])
  BY <1>2 DEF MarkRunning, update_plan, runVars, Typed, TypeOK
<1>4. /\ plan.status = "Running" /\ plan.steps[s] = "Running"
      /\ \A q \in Steps : q # s => plan.steps[q] = copy[c].steps[q]
  BY <1>2 DEF Plans, StepStates
<1> HIDE DEF plan
<1>5. SettledPlan(copy[c], depends_on[r]) /\ \A d \in CallsOn(r) : d = c
  BY <1>1 DEF Settles
<1>6. SettledPlan(plan, depends_on[r])
  BY <1>2, <1>4, <1>5 DEF SettledPlan
<1>7. \A d \in depends_on[r][s] \intersect Steps : d # s => plan.steps[d] = "Completed"
  BY <1>3, <1>4 DEF StepDepsOk
<1>8. \A d \in CallsOn(r)' : d = c
  BY <1>1, <1>5
<1>9. target'[c][1] = r /\ target'[c][2] = s
  BY <1>3
<1> QED
  BY <1>3, <1>4, <1>6, <1>7, <1>8, <1>9 DEF Settles

LEMMA FinishSettles ==
  ASSUME Typed, NEW c \in Calls, NEW r \in Runs, NEW s \in Steps, target[c] = <<r, s>>,
         FinishStep(c), Settles(r)
  PROVE  Settles(r)'
<1> DEFINE ss == copy[c].steps
           deps == depends_on[r]
<1>1. c \in CallsOn(r) /\ CallsOn(r)' \subseteq CallsOn(r) /\ c \notin CallsOn(r)'
  BY OtherCalls DEF Continue, FinishStep, EndCall, CallsOn, CallsGoing, Typed, TypeOK
<1>2. copy[c] \in Plans /\ ss \in StepStates
  BY <1>1 DEF Typed, CallInv, CallsOn, Plans
<1>3. /\ SettledPlan(copy[c], deps) /\ \A d \in CallsOn(r) : d = c
      /\ ss[s] = "Running"
      /\ \A d \in deps[s] \intersect Steps : d # s => ss[d] = "Completed"
  BY <1>1 DEF Settles, FinishStep
<1>4. PICK plan \in Plans :
        /\ update_plan(r, plan)
        /\ plan.steps \in {[ss EXCEPT ![s] = "Completed"], WithFailed(ss, s, deps)}
        /\ plan.status = "Running" => \E q \in Steps : plan.steps[q] \notin Decided
  BY Finished DEF Typed
<1>5. plans'[r] = plan /\ depends_on' = depends_on
  BY <1>4, UpdatedPlans DEF FinishStep, EndCall, runVars, Typed
<1>6. ASSUME NEW q \in Steps PROVE plan.steps[q] # "Pending"
  <2>1. ss[q] # "Pending"
    BY <1>3 DEF SettledPlan
  <2> QED
    BY <1>2, <1>4, <2>1 DEF StepStates, WithFailed
<1>7. plan.status = "Running" => \E q \in Steps : plan.steps[q] = "Running"
  <2>1. \A q \in Steps : plan.steps[q] \in {"Pending", "Running"} \union Decided
    BY <1>4 DEF Plans, StepStates, Decided
  <2> QED
    BY <1>4, <1>6, <2>1
<1>8. ASSUME NEW q \in Steps, plan.steps[q] = "Completed", NEW d \in deps[q] \intersect Steps
      PROVE  plan.steps[d] # "Failed"
  <2>1. CASE plan.steps = [ss EXCEPT ![s] = "Completed"]
    <3>1. plan.steps[s] = "Completed" /\ \A x \in Steps : x # s => plan.steps[x] = ss[x]
      BY <1>2, <2>1 DEF StepStates
    <3>2. d # s /\ q # s => ss[q] = "Completed" /\ ss[d] # "Failed"
      BY <1>3, <1>8, <3>1 DEF SettledPlan
    <3>3. d # s /\ q = s => ss[d] = "Completed"
      BY <1>3
    <3> QED
      BY <3>1, <3>2, <3>3
  <2>2. CASE plan.steps = WithFailed(ss, s, deps)
    <3>1. \A x \in Steps : plan.steps[x] = IF s \in deps[x] THEN "Skipped"
                                           ELSE IF x = s THEN "Failed" ELSE ss[x]
      BY <2>2 DEF WithFailed
    <3>2. s \notin deps[q] /\ q # s /\ ss[q] = "Completed"
      BY <1>8, <3>1
    <3>3. d # s /\ ss[d] # "Failed"
      BY <1>3, <3>2 DEF SettledPlan
    <3> QED
      BY <3>1, <3>3
  <2> QED
    BY <1>4, <2>1, <2>2
<1>9. SettledPlan(plan, deps)
  BY <1>6, <1>7, <1>8 DEF SettledPlan
<1>10. CallsOn(r)' = {}
  BY <1>1, <1>3
<1> QED
  BY <1>5, <1>9, <1>10 DEF Settles

LEMMA EndSettles ==
  ASSUME Typed, NEW c \in Calls, NEW r \in Runs, NEW s \in Steps, target[c] = <<r, s>>,
         Refuse(c) \/ StepPanics(c), Settles(r)
  PROVE  Settles(r)'
<1>1. c \in CallsOn(r) /\ CallsOn(r)' \subseteq CallsOn(r) /\ c \notin CallsOn(r)'
  BY OtherCalls DEF Continue, Refuse, StepPanics, EndCall, CallsOn, CallsGoing, Typed, TypeOK
<1>2. CallsOn(r)' = {}
  BY <1>1 DEF Settles
<1>3. UNCHANGED <<pc, depends_on, plans>>
  BY DEF Refuse, StepPanics, EndCall, runVars, storeVars
<1> QED
  BY <1>2, <1>3 DEF Settles

LEMMA SettleNext == Typed /\ LevelInv /\ SettleInv /\ [Next]_vars => SettleInv'
<1> SUFFICES ASSUME Typed, LevelInv, SettleInv, [Next]_vars PROVE SettleInv'
  OBVIOUS
<1>1. CASE UNCHANGED vars
  BY <1>1 DEF SettleInv, Settles, CallsOn, CallsGoing, vars, runVars, storeVars, callVars
<1>2. ASSUME NEW r \in Runs, RunStep(r), NEW q \in Runs \ mixed'
      PROVE  Settles(q)'
  BY <1>2, RunChanges, RunSettles DEF SettleInv, Typed
<1>3. ASSUME NEW c \in Calls, NEW r \in Runs, NEW s \in Steps, GetPlan(c, r, s),
             NEW q \in Runs \ mixed'
      PROVE  Settles(q)'
  <2>1. CallStep(c)
    BY <1>3 DEF CallStep
  <2>2. q \notin mixed
    BY <2>1, CallChanges DEF Typed
  <2> QED
    BY <1>3, <2>2, GetSettles DEF SettleInv
<1>4. ASSUME NEW c \in Calls, Continue(c), NEW q \in Runs \ mixed'
      PROVE  Settles(q)'
  <2>1. CallStep(c)
    BY <1>4 DEF CallStep, Continue
  <2>2. /\ UNCHANGED <<pc, depends_on>> /\ q \notin mixed /\ c \in CallsGoing
        /\ \A d \in Calls : d # c =>
             cpc'[d] = cpc[d] /\ target'[d] = target[d] /\ copy'[d] = copy[d]
        /\ q # target[c][1] => plans'[q] = plans[q]
    BY <1>4, <2>1, CallChanges DEF Typed
  <2>3. PICK r \in Runs, s \in Steps : target[c] = <<r, s>>
    BY <2>2 DEF Typed, CallInv
  <2>4. Settles(q)
    BY <2>2 DEF SettleInv
  <2>5. CASE q = r
    BY <1>4, <2>3, <2>4, <2>5, MarkSettles, FinishSettles, EndSettles DEF Continue
  <2>6. CASE q # r
    <3>1. CallsOn(q)' = CallsOn(q) /\ c \notin CallsOn(q) /\ CallsOn(q) \subseteq Calls
      BY <1>4, <2>3, <2>6, OtherCalls DEF CallsOn, CallsGoing
    <3>2. plans'[q] = plans[q]
      BY <2>2, <2>3, <2>6
    <3> QED
      BY <2>2, <2>4, <3>1, <3>2 DEF Settles
  <2> QED
    BY <2>5, <2>6
<1> QED
  BY <1>1, <1>2, <1>3, <1>4 DEF Next, CallStep, Continue, SettleInv

(* However often steps of a plan are run again, and whatever fails in      *)
(* between, a plan nobody works on is settled: it reads as running only if *)
(* one of its steps does, and shows no step as completed that rests on one *)
(* that failed since.                                                      *)
THEOREM PlansSettle == Spec => []PlanSettles
<1>1. Init => SettleInv
  BY DEF Init, SettleInv, Settles, CallsOn, CallsGoing
<1>2. SettleInv => PlanSettles
  BY DEF SettleInv, Settles, PlanSettles, SettledPlan
<1> QED
  BY <1>1, <1>2, TypedInit, TypedNext, LevelInit, LevelNext, SettleNext, PTL DEF Spec

-----------------------------------------------------------------------------
(* The store is a queue. *)

(* Dropping the first entries of an order without repetitions leaves the   *)
(* others.                                                                 *)
LEMMA DroppedFirst ==
  ASSUME NEW order \in Seq(Runs), NEW n \in 0 .. Len(order), Once(order)
  PROVE  LET rest == SubSeq(order, n + 1, Len(order))
         IN  /\ rest \in Seq(Runs) /\ Len(rest) = Len(order) - n
             /\ Once(rest)
             /\ Entries(rest) = Entries(order) \ {order[i] : i \in 1 .. n}
<1> DEFINE rest == SubSeq(order, n + 1, Len(order))
<1>1. Len(order) \in Nat /\ n \in Nat /\ n <= Len(order)
  OBVIOUS
<1>2. \A i \in (n + 1) .. Len(order) : order[i] \in Runs
  OBVIOUS
<1>3. /\ rest \in Seq(Runs) /\ Len(rest) = Len(order) - n
      /\ \A i \in 1 .. Len(rest) : rest[i] = order[n + i]
  <2>1. CASE n + 1 <= Len(order) + 1
    BY <1>1, <1>2, <2>1, SubSeqProperties
  <2> QED
    BY <1>1, <2>1
<1> HIDE DEF rest
<1>4. \A i \in 1 .. Len(rest) : n + i \in 1 .. Len(order)
  BY <1>1, <1>3
<1>5. Once(rest)
  <2>1. ASSUME NEW i \in 1 .. Len(rest), NEW j \in 1 .. Len(rest), rest[i] = rest[j]
        PROVE  i = j
    <3>1. order[n + i] = order[n + j] /\ n + i \in 1 .. Len(order) /\ n + j \in 1 .. Len(order)
      BY <1>3, <1>4, <2>1
    <3>2. n + i = n + j
      BY <3>1 DEF Once
    <3> QED
      BY <1>1, <3>2
  <2> QED
    BY <2>1 DEF Once
<1>6. ASSUME NEW x \in Entries(rest)
      PROVE  x \in Entries(order) /\ x \notin {order[i] : i \in 1 .. n}
  <2>1. PICK i \in 1 .. Len(rest) : x = rest[i]
    BY <1>6 DEF Entries
  <2>2. x = order[n + i] /\ n + i \in 1 .. Len(order)
    BY <1>3, <1>4, <2>1
  <2>3. ASSUME NEW j \in 1 .. n PROVE order[j] # x
    <3>1. j \in 1 .. Len(order) /\ j # n + i
      BY <1>1, <2>1
    <3> QED
      BY <2>2, <3>1 DEF Once
  <2> QED
    BY <2>2, <2>3 DEF Entries
<1>7. ASSUME NEW x \in Entries(order), x \notin {order[i] : i \in 1 .. n}
      PROVE  x \in Entries(rest)
  <2>1. PICK j \in 1 .. Len(order) : x = order[j]
    BY DEF Entries
  <2>2. j \notin 1 .. n
    BY <1>7, <2>1
  <2>3. j - n \in 1 .. Len(rest) /\ n + (j - n) = j
    BY <1>1, <1>3, <2>1, <2>2
  <2> QED
    BY <1>3, <2>1, <2>3 DEF Entries
<1> QED
  BY <1>3, <1>5, <1>6, <1>7 DEF rest

LEMMA Appended ==
  ASSUME NEW order \in Seq(Runs), NEW r \in Runs, Once(order), r \notin Entries(order)
  PROVE  LET longer == Append(order, r)
         IN  /\ longer \in Seq(Runs) /\ Len(longer) = Len(order) + 1
             /\ Once(longer) /\ Entries(longer) = Entries(order) \union {r}
             /\ order # << >> => longer[1] \in Entries(order)
             /\ order = << >> => longer[1] = r
<1> DEFINE longer == Append(order, r)
<1>1. /\ longer \in Seq(Runs) /\ Len(longer) = Len(order) + 1 /\ Len(order) \in Nat
      /\ \A i \in 1 .. Len(order) : longer[i] = order[i]
      /\ longer[Len(order) + 1] = r
  OBVIOUS
<1>2. order # << >> => Len(order) >= 1
  BY <1>1, EmptySeq
<1>3. order = << >> => Len(order) = 0
  OBVIOUS
<1> HIDE DEF longer
<1>4. Entries(longer) = Entries(order) \union {r}
  <2>1. 1 .. Len(longer) = (1 .. Len(order)) \union {Len(order) + 1}
    BY <1>1
  <2> QED
    BY <1>1, <2>1 DEF Entries
<1>5. Once(longer)
  <2>1. ASSUME NEW i \in 1 .. Len(longer), NEW j \in 1 .. Len(longer), longer[i] = longer[j]
        PROVE  i = j
    <3>1. i \in 1 .. Len(order) \/ i = Len(order) + 1
      BY <1>1
    <3>2. j \in 1 .. Len(order) \/ j = Len(order) + 1
      BY <1>1
    <3>3. \A k \in 1 .. Len(order) : longer[k] \in Entries(order)
      BY <1>1 DEF Entries
    <3> QED
      BY <1>1, <2>1, <3>1, <3>2, <3>3 DEF Once
  <2> QED
    BY <2>1 DEF Once
<1>6. order # << >> => longer[1] \in Entries(order)
  BY <1>1, <1>2 DEF Entries
<1> QED
  BY <1>1, <1>3, <1>4, <1>5, <1>6 DEF longer

(* Storing a plan while the store is a queue: it stays one, with the new   *)
(* plan in it, and the lock comes back.                                    *)
LEMMA StoredInQueue ==
  ASSUME TypeOK, NEW r \in Runs, NEW plan \in Plans, store_plan(r, plan), plans[r] = NoPlan,
         Kept(plans) = Entries(insertion_order), Cardinality(Kept(plans)) <= Capacity,
         Once(insertion_order)
  PROVE  /\ ~stuck'
         /\ Kept(plans') = Entries(insertion_order') /\ Cardinality(Kept(plans')) <= Capacity
         /\ Once(insertion_order') /\ r \in Entries(insertion_order')
<1> DEFINE order == Append(insertion_order, r)
           ps == [plans EXCEPT ![r] = plan]
<1>1. PICK n \in 0 .. Len(order) :
        /\ plans' = Evicted(ps, order, n)
        /\ insertion_order' = SubSeq(order, n + 1, Len(order))
        /\ \A m \in 0 .. Len(order) :
             Fits(Evicted(ps, order, m)) => ~stuck' /\ n <= m /\ Fits(Evicted(ps, order, n))
  BY Stored
<1>2. insertion_order \in Seq(Runs) /\ plans \in [Runs -> Plans \union {NoPlan}]
  BY DEF TypeOK
<1>3. r \notin Entries(insertion_order) /\ plan # NoPlan
  BY NoPlanAssumption DEF Kept
<1>4. /\ order \in Seq(Runs) /\ Len(order) = Len(insertion_order) + 1
      /\ Once(order) /\ Entries(order) = Entries(insertion_order) \union {r}
      /\ insertion_order # << >> => order[1] \in Entries(insertion_order)
      /\ Len(insertion_order) \in Nat /\ Len(order) \in Nat
  BY <1>2, <1>3, Appended
<1>5. Kept(ps) = Entries(order)
  BY <1>2, <1>3, <1>4 DEF Kept
<1> HIDE DEF order, ps
<1>6. ASSUME NEW m \in 0 .. Len(order)
      PROVE  Kept(Evicted(ps, order, m)) = Kept(ps) \ {order[i] : i \in 1 .. m}
  <2>1. \A q \in Runs : Evicted(ps, order, m)[q] = IF \E i \in 1 .. m : order[i] = q THEN NoPlan ELSE ps[q]
    BY DEF Evicted
  <2> QED
    BY <2>1 DEF Kept
<1>7. IsFiniteSet(Kept(plans)) /\ Cardinality(Kept(plans)) \in Nat
  <2>1. Kept(plans) \in SUBSET Runs
    BY DEF Kept
  <2> QED
    BY <2>1, FS_Subset, FS_CardinalityType, PlanAssumption
<1>8. Kept(ps) = Kept(plans) \union {r}
  BY <1>4, <1>5
<1>9. \E m \in {0, 1} : m <= Len(order) /\ Fits(Evicted(ps, order, m)) /\ (m = 1 => insertion_order # << >>)
  <2>1. CASE insertion_order = << >>
    <3>1. Kept(plans) = {}
      BY <2>1 DEF Entries
    <3>2. Kept(ps) = {r} /\ Cardinality({r}) = 1
      BY <1>8, <3>1, FS_Singleton
    <3>3. Kept(Evicted(ps, order, 0)) = {r}
      BY <1>4, <1>6, <3>2
    <3>4. 1 <= Capacity /\ 0 <= Len(order)
      BY <1>4, PlanAssumption
    <3>5. Fits(Evicted(ps, order, 0))
      BY <3>2, <3>3, <3>4 DEF Fits
    <3> QED
      BY <3>4, <3>5
  <2>2. CASE insertion_order # << >>
    <3>1. Len(order) >= 1 /\ order[1] \in Kept(plans) /\ order[1] # r
      BY <1>3, <1>4, <2>2, EmptySeq
    <3>2. Kept(Evicted(ps, order, 1)) = (Kept(plans) \union {r}) \ {order[1]}
      BY <1>4, <1>6, <1>8, <3>1
    <3>3. /\ IsFiniteSet(Kept(plans) \union {r})
          /\ Cardinality(Kept(plans) \union {r}) = Cardinality(Kept(plans)) + 1
      BY <1>3, <1>7, FS_AddElement
    <3>4. Cardinality((Kept(plans) \union {r}) \ {order[1]}) = Cardinality(Kept(plans) \union {r}) - 1
      BY <3>1, <3>3, FS_RemoveElement
    <3>5. Cardinality((Kept(plans) \union {r}) \ {order[1]}) = Cardinality(Kept(plans))
      BY <1>7, <3>3, <3>4
    <3>6. Cardinality(Kept(Evicted(ps, order, 1))) <= Capacity
      BY <3>2, <3>5
    <3> QED
      BY <2>2, <3>1, <3>6 DEF Fits
  <2> QED
    BY <2>1, <2>2
<1>10. PICK m \in {0, 1} : /\ m \in 0 .. Len(order) /\ Fits(Evicted(ps, order, m))
                           /\ m = 1 => insertion_order # << >>
  BY <1>4, <1>9
<1>11. ~stuck' /\ n \in Nat /\ n <= m /\ Fits(plans')
  BY <1>1, <1>10
<1>12. /\ Once(insertion_order')
       /\ Entries(insertion_order') = Entries(order) \ {order[i] : i \in 1 .. n}
  BY <1>1, <1>4, DroppedFirst
<1>13. Kept(plans') = Entries(insertion_order')
  BY <1>1, <1>5, <1>6, <1>12
<1>14. r \notin {order[i] : i \in 1 .. n}
  <2>1. CASE n = 0
    BY <2>1
  <2>2. CASE n # 0
    <3>1. n = 1 /\ m = 1
      BY <1>10, <1>11, <2>2
    <3>2. order[1] # r
      BY <1>3, <1>4, <1>10, <3>1
    <3> QED
      BY <3>1, <3>2
  <2> QED
    BY <2>1, <2>2
<1> QED
  BY <1>4, <1>11, <1>12, <1>13, <1>14 DEF Fits

(* A plan that is updated while it is in the store changes no place. *)
LEMMA UpdatedInQueue ==
  ASSUME TypeOK, NEW r \in Runs, NEW plan \in Plans, update_plan(r, plan), r \in Kept(plans)
  PROVE  Kept(plans') = Kept(plans) /\ UNCHANGED <<insertion_order, stuck>>
<1>1. plans'[r] = plan /\ plan # NoPlan /\ \A q \in Runs : q # r => plans'[q] = plans[q]
  BY UpdatedPlans, NoPlanAssumption
<1> QED
  BY <1>1 DEF Kept, update_plan

LEMMA QueueInit == Init => QueueInv
<1> SUFFICES ASSUME Init PROVE Alone
  BY DEF QueueInv
<1>1. Kept(plans) = {} /\ RunsGoing = {} /\ CallsGoing = {} /\ ~stuck /\ Len(insertion_order) = 0
  BY DEF Init, Kept, RunsGoing, CallsGoing
<1>2. Cardinality(Kept(plans)) = 0 /\ 0 <= Capacity
  BY <1>1, FS_EmptySet, PlanAssumption
<1>3. Entries(insertion_order) = {} /\ Once(insertion_order)
  BY <1>1 DEF Entries, Once
<1> QED
  BY <1>1, <1>2, <1>3 DEF Alone

LEMMA RunAlone ==
  ASSUME Typed, Alone, NEW r \in Runs, RunStep(r), ~overlapped'
  PROVE  Alone'
<1>1. /\ pc[r] # "end" /\ pc'[r] # "new" /\ UNCHANGED <<cpc, target>>
      /\ \A q \in Runs : q # r => pc'[q] = pc[q]
  BY RunChanges DEF Typed
<1>2. CallsGoing' = CallsGoing
  BY <1>1 DEF CallsGoing
<1>3. CASE StartPlan(r)
  <2>1. RunsGoing = {} /\ CallsGoing = {}
    BY <1>3 DEF StartPlan
  <2>2. plans[r] = NoPlan /\ [steps |-> status[r], status |-> "Running"] \in Plans
    BY <1>3, MadePlans DEF StartPlan, Typed, CallInv, TypeOK
  <2>3. /\ ~stuck'
        /\ Kept(plans') = Entries(insertion_order') /\ Cardinality(Kept(plans')) <= Capacity
        /\ Once(insertion_order') /\ r \in Entries(insertion_order')
    BY <1>3, <2>2, StoredInQueue DEF StartPlan, Typed, Alone
  <2>4. RunsGoing' \subseteq {r}
    BY <1>1, <2>1 DEF RunsGoing
  <2> QED
    BY <1>2, <2>1, <2>3, <2>4 DEF Alone
<1>4. CASE pc[r] \in {"select", "execute"}
  <2>1. r \in RunsGoing /\ RunsGoing' \subseteq RunsGoing
    BY <1>1, <1>4 DEF RunsGoing
  <2>2. \/ UNCHANGED <<plans, insertion_order, stuck>>
        \/ \E ss \in StepStates, st \in {"Running", "Failed", "Completed"} :
             update_plan(r, [steps |-> ss, status |-> st])
    <3>1. CASE SelectSteps(r)
      <4> DEFINE here  == Level(depends_on[r], level[r])
                 ready == {s \in here : DepsOk(status[r], depends_on[r][s])}
                 ss    == [s \in Steps |-> IF s \in ready THEN "Running"
                                            ELSE IF s \in here THEN "Skipped" ELSE status[r][s]]
      <4>1. ss \in StepStates
        <5> HIDE DEF ready, here
        <5> QED
          BY DEF Typed, TypeOK, StepStates
      <4>2. \/ UNCHANGED storeVars
            \/ update_plan(r, [steps |-> ss, status |-> "Running"])
        BY <3>1 DEF SelectSteps
      <4> HIDE DEF ss
      <4> QED
        BY <4>1, <4>2 DEF storeVars
    <3>2. CASE JoinSteps(r)
      <4>1. PICK ss : /\ status' = [status EXCEPT ![r] = ss]
                      /\ update_plan(r, [steps |-> ss, status |-> "Running"])
        BY <3>2 DEF JoinSteps
      <4>2. ss \in StepStates
        BY <3>2, <4>1, RunTyped DEF Typed, TypeOK, RunStep
      <4> QED
        BY <4>1, <4>2
    <3>3. CASE EndPlan(r)
      <4>1. update_plan(r, [steps |-> status[r], status |-> PlanStatusOf(status[r])])
        BY <3>3 DEF EndPlan
      <4>2. status[r] \in StepStates /\ PlanStatusOf(status[r]) \in {"Failed", "Completed"}
        BY MadePlans DEF Typed, TypeOK
      <4> QED
        BY <4>1, <4>2
    <3> QED
      BY <1>4, <3>1, <3>2, <3>3 DEF RunStep, StartPlan
  <2>3. Kept(plans') = Kept(plans) /\ UNCHANGED <<insertion_order, stuck>>
    <3>1. \A ss \in StepStates, st \in {"Running", "Failed", "Completed"} :
            [steps |-> ss, status |-> st] \in Plans
      BY DEF Plans
    <3>2. r \in Kept(plans)
      BY <2>1 DEF Alone
    <3> QED
      BY <2>2, <3>1, <3>2, UpdatedInQueue DEF Typed
  <2> QED
    BY <1>1, <1>2, <2>1, <2>3 DEF Alone
<1> QED
  BY <1>1, <1>3, <1>4 DEF RunStep, SelectSteps, JoinSteps, EndPlan

LEMMA CallAlone ==
  ASSUME Typed, Alone, NEW c \in Calls, CallStep(c), ~overlapped'
  PROVE  Alone'
<1>1. /\ UNCHANGED pc
      /\ \A d \in Calls : d # c => cpc'[d] = cpc[d] /\ target'[d] = target[d]
  BY CallChanges DEF Typed
<1>2. RunsGoing' = RunsGoing
  BY <1>1 DEF RunsGoing
<1>3. CASE \E r \in Runs, s \in Steps : GetPlan(c, r, s)
  <2>1. PICK r \in Runs, s \in Steps : GetPlan(c, r, s)
    BY <1>3
  <2>2. /\ RunsGoing = {} /\ CallsGoing = {} /\ r \in Kept(plans)
        /\ UNCHANGED <<plans, insertion_order, stuck>> /\ target'[c] = <<r, s>>
    BY <2>1 DEF GetPlan, storeVars, Kept, Typed, TypeOK
  <2>3. CallsGoing' \subseteq {c}
    BY <1>1, <2>2 DEF CallsGoing
  <2> QED
    BY <1>2, <2>2, <2>3 DEF Alone
<1>4. CASE Continue(c)
  <2>1. c \in CallsGoing /\ (target'[c] = target[c] \/ c \notin CallsGoing')
    BY <1>4, CallChanges DEF Typed
  <2>2. CallsGoing' \subseteq CallsGoing /\ \A d \in CallsGoing' : target'[d] = target[d]
    BY <1>1, <2>1 DEF CallsGoing
  <2>3. target[c][1] \in Runs /\ target[c][1] \in Kept(plans) /\ target[c][2] \in Steps /\ copy[c] \in Plans
    BY <2>1 DEF Alone, Typed, CallInv
  <2>4. \/ UNCHANGED <<plans, insertion_order, stuck>>
        \/ \E plan \in Plans : update_plan(target[c][1], plan)
    <3>1. CASE Refuse(c) \/ StepPanics(c)
      BY <3>1 DEF Refuse, StepPanics, storeVars
    <3>2. CASE MarkRunning(c)
      <4>1. [copy[c] EXCEPT !.steps[target[c][2]] = "Running", !.status = "Running"] \in Plans
        BY <2>3 DEF Plans, StepStates
      <4> QED
        BY <3>2, <4>1 DEF MarkRunning
    <3>3. CASE FinishStep(c)
      BY <3>3, Finished DEF Typed
    <3> QED
      BY <1>4, <3>1, <3>2, <3>3 DEF Continue
  <2>5. Kept(plans') = Kept(plans) /\ UNCHANGED <<insertion_order, stuck>>
    BY <2>3, <2>4, UpdatedInQueue DEF Typed
  <2> QED
    BY <1>2, <2>2, <2>5 DEF Alone
<1> QED
  BY <1>3, <1>4 DEF CallStep, Continue

LEMMA QueueNext == Typed /\ QueueInv /\ [Next]_vars => QueueInv'
<1> SUFFICES ASSUME Typed, QueueInv, [Next]_vars, ~overlapped' PROVE Alone'
  BY DEF QueueInv
<1>1. CASE UNCHANGED vars
  <2>1. Alone
    BY <1>1 DEF QueueInv, vars
  <2> QED
    BY <1>1, <2>1 DEF Alone, vars, runVars, storeVars, callVars, RunsGoing, CallsGoing, Kept, Once, Entries
<1>2. ASSUME NEW r \in Runs, RunStep(r) PROVE Alone'
  <2>1. ~overlapped
    BY <1>2 DEF RunStep, StartPlan, SelectSteps, JoinSteps, EndPlan, Typed, TypeOK
  <2> QED
    BY <1>2, <2>1, RunAlone DEF QueueInv
<1>3. ASSUME NEW c \in Calls, CallStep(c) PROVE Alone'
  <2>1. ~overlapped
    <3>1. CASE Continue(c)
      BY <1>3, <3>1, CallChanges DEF Typed
    <3>2. CASE \E r \in Runs, s \in Steps : GetPlan(c, r, s)
      BY <3>2 DEF GetPlan, Typed, TypeOK
    <3> QED
      BY <1>3, <3>1, <3>2 DEF CallStep, Continue
  <2> QED
    BY <1>3, <2>1, CallAlone DEF QueueInv
<1> QED
  BY <1>1, <1>2, <1>3 DEF Next

(* As long as no two commands overlap the store is a queue of the newest   *)
(* plans, at most Capacity of them, and store_plan always gives its lock   *)
(* back.                                                                   *)
THEOREM StoreIsQueue == Spec => []QueueWhileAlone
<1>1. QueueInv => QueueWhileAlone
  BY DEF QueueInv, Alone, QueueWhileAlone, Entries
<1> QED
  BY <1>1, TypedInit, TypedNext, QueueInit, QueueNext, PTL DEF Spec

=============================================================================
