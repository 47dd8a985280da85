------------------------- MODULE GraphAnalysesProofs -------------------------
(***************************************************************************)
(* Proofs about the analyses of a graph, for every finite graph, whatever  *)
(* the depth limits and the orders of iteration: each loop ends with what  *)
(* the definition of the analysis says.                                    *)
(***************************************************************************)
EXTENDS GraphAnalyses, FiniteSetTheorems, SequenceTheorems, WellFoundedInduction, TLAPS

(* A set of numbers that is not empty has a least one. *)
LEMMA LeastNumber ==
  ASSUME NEW S \in SUBSET Nat, S # {}
  PROVE  \E n \in S : \A m \in S : n <= m
<1>1. PICK n \in S : \A m \in S : <<m, n>> \notin OpToRel(<, Nat)
  BY NatLessThanWellFounded, WFMin
<1>2. \A m \in S : ~(m < n)
  BY <1>1 DEF OpToRel
<1>3. n \in Nat /\ \A m \in S : m \in Nat
  OBVIOUS
<1>. QED  BY <1>2, <1>3

(* Nodes are finite in number, and so is every set of them. *)
LEMMA SetOfNodes ==
  ASSUME NEW S \in SUBSET Nodes
  PROVE  IsFiniteSet(S) /\ Cardinality(S) \in Nat
BY GraphAssumption, FS_Subset, FS_CardinalityType

LEMMA FewerNodes ==
  ASSUME NEW S \in SUBSET Nodes, NEW T \in SUBSET S, NEW x \in S \ T
  PROVE  Cardinality(T) < Cardinality(S)
<1>1. IsFiniteSet(S) /\ Cardinality(S) \in Nat /\ Cardinality(T) \in Nat
  BY SetOfNodes
<1>2. Cardinality(T) <= Cardinality(S \ {x}) /\ Cardinality(S \ {x}) = Cardinality(S) - 1
  BY <1>1, FS_Subset, FS_RemoveElement
<1>. QED  BY <1>1, <1>2

-----------------------------------------------------------------------------
(* What a node reaches. *)

LEMMA ReachedClosed ==
  ASSUME NEW v
  PROVE  /\ Out(v) \subseteq Reached(v)
         /\ Closed(Reached(v))
         /\ Reached(v) \subseteq Nodes
BY DEF Reached, Closed, Out

LEMMA ReachedLeast ==
  ASSUME NEW v, NEW S \in SUBSET Nodes, Out(v) \subseteq S, Closed(S)
  PROVE  Reached(v) \subseteq S
BY DEF Reached

LEMMA ReachedOfReached ==
  ASSUME NEW v, NEW w \in Reached(v)
  PROVE  Reached(w) \subseteq Reached(v)
BY ReachedClosed, ReachedLeast DEF Closed

-----------------------------------------------------------------------------
(* What is defined on the numbers by what it is at zero and by the step    *)
(* from a number to the next.                                              *)

Iterates(g, m, F, b) ==
  \A n \in 0..m : g[n] = IF n = 0 THEN b ELSE F[g[n-1]]

LEMMA IteratesAgree ==
  ASSUME NEW F, NEW b, NEW g, NEW h, NEW m \in Nat, NEW k \in Nat,
         Iterates(g, m, F, b), Iterates(h, k, F, b)
  PROVE  \A n \in Nat : n <= m /\ n <= k => g[n] = h[n]
<1> DEFINE Bad == {n \in Nat : n <= m /\ n <= k /\ g[n] # h[n]}
<1> SUFFICES ASSUME Bad # {} PROVE FALSE
  OBVIOUS
<1>1. PICK n \in Bad : \A i \in Bad : n <= i
  BY LeastNumber
<1>2. n # 0 => n - 1 \in Nat /\ g[n-1] = h[n-1]
  BY <1>1
<1>3. n \in 0..m /\ n \in 0..k
  OBVIOUS
<1>4. /\ g[n] = IF n = 0 THEN b ELSE F[g[n-1]]
      /\ h[n] = IF n = 0 THEN b ELSE F[h[n-1]]
  BY <1>3 DEF Iterates
<1>. QED  BY <1>2, <1>4

LEMMA IteratesExist ==
  ASSUME NEW F, NEW b
  PROVE  \A m \in Nat : \E h : Iterates(h, m, F, b)
<1> DEFINE Bad == {m \in Nat : ~\E h : Iterates(h, m, F, b)}
<1> SUFFICES ASSUME Bad # {} PROVE FALSE
  OBVIOUS
<1>1. PICK m \in Bad : \A i \in Bad : m <= i
  BY LeastNumber
<1>2. m # 0
  <2>1. Iterates([n \in 0..0 |-> b], 0, F, b)
    BY DEF Iterates
  <2>. QED  BY <1>1, <2>1
<1>3. m - 1 \in Nat /\ \E h : Iterates(h, m - 1, F, b)
  BY <1>1, <1>2
<1>4. PICK h : Iterates(h, m - 1, F, b)
  BY <1>3
<1> DEFINE g == [n \in 0..m |-> IF n = m THEN F[h[m-1]] ELSE h[n]]
<1>5. ASSUME NEW n \in 0..m
      PROVE  g[n] = IF n = 0 THEN b ELSE F[g[n-1]]
  <2>1. CASE n = m
    <3>1. g[m] = F[h[m-1]] /\ g[m-1] = h[m-1]
      BY <1>2
    <3>. QED  BY <1>2, <2>1, <3>1
  <2>2. CASE n # m
    <3>1. n \in 0..(m-1) /\ g[n] = h[n]
      BY <2>2
    <3>2. n # 0 => g[n-1] = h[n-1]
      BY <3>1
    <3>. QED  BY <1>4, <3>1, <3>2 DEF Iterates
  <2>. QED  BY <2>1, <2>2
<1>6. Iterates(g, m, F, b)
  BY <1>5 DEF Iterates
<1>. QED  BY <1>1, <1>6

IsIteration(g, D, F, b) ==
  /\ g \in [Nat -> D]
  /\ g[0] = b
  /\ \A n \in Nat \ {0} : g[n] = F[g[n-1]]

LEMMA Iteration ==
  ASSUME NEW D, NEW F \in [D -> D], NEW b \in D
  PROVE  \E g : IsIteration(g, D, F, b)
<1> DEFINE A(m) == CHOOSE h : Iterates(h, m, F, b)
           g == [n \in Nat |-> A(n)[n]]
<1>1. \A m \in Nat : Iterates(A(m), m, F, b)
  BY IteratesExist
<1>2. ASSUME NEW n \in Nat, n # 0
      PROVE  A(n)[n-1] = g[n-1]
  <2>1. n - 1 \in Nat /\ Iterates(A(n), n, F, b) /\ Iterates(A(n-1), n - 1, F, b)
    BY <1>1, <1>2
  <2>2. \A i \in Nat : i <= n /\ i <= n - 1 => A(n)[i] = A(n-1)[i]
    BY <2>1, IteratesAgree
  <2>. QED  BY <2>1, <2>2
<1>3. DOMAIN g = Nat
  OBVIOUS
<1> HIDE DEF A
<1>4. ASSUME NEW n \in Nat
      PROVE  g[n] = IF n = 0 THEN b ELSE F[g[n-1]]
  <2>1. A(n)[n] = IF n = 0 THEN b ELSE F[A(n)[n-1]]
    BY <1>1 DEF Iterates
  <2>. QED  BY <1>2, <2>1
<1>5. \A n \in Nat : g[n] \in D
  <2> DEFINE Bad == {n \in Nat : g[n] \notin D}
  <2> HIDE DEF g
  <2> SUFFICES ASSUME Bad # {} PROVE FALSE
    OBVIOUS
  <2>1. PICK n \in Bad : \A i \in Bad : n <= i
    BY LeastNumber
  <2>2. n # 0
    BY <1>4
  <2>3. n - 1 \in Nat /\ g[n-1] \in D
    BY <2>1, <2>2
  <2>. QED  BY <1>4, <2>2, <2>3
<1>6. g \in [Nat -> D]
  BY <1>5
<1> HIDE DEF g
<1>7. IsIteration(g, D, F, b)
  BY <1>4, <1>6 DEF IsIteration
<1>. QED  BY <1>7

-----------------------------------------------------------------------------
(* Distances.                                                              *)

Near(d) == Within(search.seeds, Arrows, search.avoid, d)

(* The length of a shortest chain that leads to v. *)
AtDepth(v, d) == v \in Near(d) /\ \A k \in 0..(d-1) : v \notin Near(k)

SearchTypeOK ==
  /\ edges \in SUBSET (Nodes \X Nodes)
  /\ search \in Searches

(* Within goes on step by step. *)
LEMMA WithinValues ==
  ASSUME NEW S \in SUBSET Nodes, NEW arrows \in SUBSET (Nodes \X Nodes), NEW avoid
  PROVE  /\ Within(S, arrows, avoid, 0) = S
         /\ \A n \in Nat : Within(S, arrows, avoid, n + 1)
              = Within(S, arrows, avoid, n) \union (After(Within(S, arrows, avoid, n), arrows) \ avoid)
         /\ \A n \in Nat : Within(S, arrows, avoid, n) \subseteq Nodes
<1> DEFINE D == SUBSET Nodes
           F == [X \in D |-> X \union (After(X, arrows) \ avoid)]
           Equation(f) == f = [i \in Nat |-> IF i = 0 THEN S ELSE f[i-1] \union (After(f[i-1], arrows) \ avoid)]
           W == CHOOSE f : Equation(f)
<1>1. F \in [D -> D] /\ S \in D
  BY DEF After
<1> HIDE DEF F, D
<1>2. PICK g \in [Nat -> D] : g[0] = S /\ \A n \in Nat \ {0} : g[n] = F[g[n-1]]
  BY <1>1, Iteration DEF IsIteration
<1>3. \A n \in Nat : g[n] = IF n = 0 THEN S ELSE g[n-1] \union (After(g[n-1], arrows) \ avoid)
  <2> SUFFICES ASSUME NEW n \in Nat \ {0}
               PROVE  g[n] = g[n-1] \union (After(g[n-1], arrows) \ avoid)
    BY <1>2
  <2>1. n - 1 \in Nat /\ g[n-1] \in D
    BY <1>2
  <2>2. F[g[n-1]] = g[n-1] \union (After(g[n-1], arrows) \ avoid)
    BY <2>1 DEF F
  <2>. QED  BY <1>2, <2>2
<1>4. Equation(g)
  BY <1>2, <1>3
<1>5. Equation(W)
  BY <1>4
<1>6. \A n : Within(S, arrows, avoid, n) = W[n]
  BY DEF Within
<1> HIDE DEF W
<1>7. W[0] = S
  BY <1>5
<1>8. ASSUME NEW n \in Nat
      PROVE  W[n+1] = W[n] \union (After(W[n], arrows) \ avoid)
  <2>1. n + 1 \in Nat /\ n + 1 # 0 /\ (n + 1) - 1 = n
    OBVIOUS
  <2>2. W[n+1] = W[(n+1)-1] \union (After(W[(n+1)-1], arrows) \ avoid)
    BY <1>5, <2>1
  <2>. QED  BY <2>1, <2>2
<1>9. \A n \in Nat : W[n] \subseteq Nodes
  <2> DEFINE Bad == {n \in Nat : ~(W[n] \subseteq Nodes)}
  <2> SUFFICES ASSUME Bad # {} PROVE FALSE
    OBVIOUS
  <2>1. PICK n \in Bad : \A i \in Bad : n <= i
    BY LeastNumber
  <2>2. n # 0
    BY <1>7
  <2>3. n - 1 \in Nat /\ W[n-1] \subseteq Nodes /\ (n - 1) + 1 = n
    BY <2>1, <2>2
  <2>4. W[n] = W[n-1] \union (After(W[n-1], arrows) \ avoid)
    BY <1>8, <2>3
  <2>. QED  BY <2>3, <2>4 DEF After
<1>. QED  BY <1>6, <1>7, <1>8, <1>9

(* What is near: the seeds, and with a node all it leads to, except noise. *)
LEMMA NearValues ==
  ASSUME SearchTypeOK
  PROVE  /\ Near(0) = search.seeds
         /\ \A n \in Nat : \A w :
              w \in Near(n+1) <=>
                w \in Near(n) \/ (w \notin search.avoid /\ \E v \in Near(n) : w \in Adjacent(v))
         /\ \A n \in Nat : Near(n) \subseteq Nodes
<1>1. search.seeds \in SUBSET Nodes /\ search.upstream \in BOOLEAN
  BY SearchAssumption DEF SearchTypeOK
<1>2. Arrows \in SUBSET (Nodes \X Nodes)
  BY DEF Arrows, SearchTypeOK
<1>3. /\ Near(0) = search.seeds
      /\ \A n \in Nat : Near(n+1) = Near(n) \union (After(Near(n), Arrows) \ search.avoid)
      /\ \A n \in Nat : Near(n) \subseteq Nodes
  BY <1>1, <1>2, WithinValues DEF Near
<1>4. ASSUME NEW v \in Nodes, NEW w
      PROVE  w \in Adjacent(v) <=> \E f \in Arrows : f[1] = v /\ f[2] = w
  <2>1. CASE search.upstream
    <3>1. w \in Adjacent(v) <=> w \in Nodes /\ <<w, v>> \in edges
      BY <2>1 DEF Adjacent, In
    <3>2. ASSUME NEW f \in Arrows, f[1] = v, f[2] = w
          PROVE  <<w, v>> \in edges
      <4>1. PICK e \in edges : f = <<e[2], e[1]>>
        BY <2>1 DEF Arrows
      <4>2. e = <<e[1], e[2]>>
        BY DEF SearchTypeOK
      <4>. QED  BY <3>2, <4>1, <4>2
    <3>3. ASSUME <<w, v>> \in edges
          PROVE  <<v, w>> \in Arrows
      BY <2>1, <3>3 DEF Arrows
    <3>4. <<w, v>> \in edges => w \in Nodes
      BY DEF SearchTypeOK
    <3>. QED  BY <3>1, <3>2, <3>3, <3>4
  <2>2. CASE ~search.upstream
    <3>1. Arrows = edges /\ (w \in Adjacent(v) <=> w \in Nodes /\ <<v, w>> \in edges)
      BY <2>2 DEF Adjacent, Out, Arrows
    <3>2. \A f \in edges : f = <<f[1], f[2]>> /\ f[2] \in Nodes
      BY DEF SearchTypeOK
    <3>. QED  BY <3>1, <3>2
  <2>. QED  BY <2>1, <2>2
<1>5. ASSUME NEW n \in Nat, NEW w
      PROVE  w \in After(Near(n), Arrows) <=> \E v \in Near(n) : w \in Adjacent(v)
  <2>1. w \in After(Near(n), Arrows) <=> \E f \in Arrows : f[1] \in Near(n) /\ f[2] = w
    BY DEF After
  <2>. QED  BY <1>3, <1>4, <2>1
<1>. QED  BY <1>3, <1>5

LEMMA NearGrows ==
  ASSUME SearchTypeOK, NEW n \in Nat, NEW k \in 0..n
  PROVE  Near(k) \subseteq Near(n)
<1> DEFINE Bad == {m \in Nat : m >= k /\ ~(Near(k) \subseteq Near(m))}
<1> SUFFICES ASSUME Bad # {} PROVE FALSE
  OBVIOUS
<1>1. PICK m \in Bad : \A i \in Bad : m <= i
  BY LeastNumber
<1>2. m # k /\ m - 1 \in Nat /\ m - 1 >= k /\ (m - 1) + 1 = m
  BY <1>1
<1>3. Near(k) \subseteq Near(m-1)
  BY <1>1, <1>2
<1>4. Near(m-1) \subseteq Near(m)
  BY <1>2, NearValues
<1>. QED  BY <1>1, <1>3, <1>4

(* What a node of one depth is the first to lead to is a step deeper. *)
LEMMA DepthOfNew ==
  ASSUME SearchTypeOK, NEW d \in Nat, NEW v, AtDepth(v, d), NEW w \in Adjacent(v),
         w \notin search.avoid, w \notin Near(d)
  PROVE  AtDepth(w, d + 1)
<1>1. w \in Near(d+1)
  BY NearValues DEF AtDepth
<1>2. \A k \in 0..((d+1)-1) : w \notin Near(k)
  BY NearGrows
<1>. QED  BY <1>1, <1>2 DEF AtDepth

(* What has a depth is led to from one step less deep. *)
LEMMA DepthBefore ==
  ASSUME SearchTypeOK, NEW d \in Nat \ {0}, NEW w, AtDepth(w, d)
  PROVE  \E v \in Nodes : AtDepth(v, d - 1) /\ w \in Adjacent(v) /\ w \notin search.avoid
<1>1. d - 1 \in Nat /\ (d - 1) + 1 = d /\ d - 1 \in 0..(d-1)
  OBVIOUS
<1>2. w \notin Near(d-1) /\ w \in Near(d)
  BY <1>1 DEF AtDepth
<1>3. PICK v \in Near(d-1) : w \in Adjacent(v) /\ w \notin search.avoid
  BY <1>1, <1>2, NearValues
<1>4. ASSUME NEW k \in 0..((d-1)-1), v \in Near(k)
      PROVE  FALSE
  <2>1. k \in Nat /\ k + 1 \in 0..(d-1)
    BY <1>1
  <2>2. w \in Near(k+1)
    BY <1>3, <1>4, <2>1, NearValues
  <2>. QED  BY <2>1, <2>2 DEF AtDepth
<1>. QED  BY <1>1, <1>3, <1>4, NearValues DEF AtDepth

(* There are nodes of every depth up to that of any node, so none is       *)
(* deeper than there are nodes.                                            *)
LEMMA DepthBounded ==
  ASSUME SearchTypeOK, NEW d \in Nat, NEW w, AtDepth(w, d)
  PROVE  d <= Cardinality(Nodes)
<1> DEFINE Bad == {k \in Nat : k <= d /\ ~\E v \in Nodes : AtDepth(v, d - k)}
<1>1. Bad = {}
  <2> SUFFICES ASSUME Bad # {} PROVE FALSE
    OBVIOUS
  <2>1. PICK k \in Bad : \A i \in Bad : k <= i
    BY LeastNumber
  <2>2. w \in Nodes
    BY NearValues DEF AtDepth
  <2>3. k # 0
    BY <2>1, <2>2
  <2>4. k - 1 \in Nat /\ k - 1 <= d /\ d - (k - 1) \in Nat \ {0} /\ (d - (k - 1)) - 1 = d - k
    BY <2>3
  <2>5. PICK v \in Nodes : AtDepth(v, d - (k - 1))
    BY <2>1, <2>4
  <2>6. \E u \in Nodes : AtDepth(u, (d - (k - 1)) - 1)
    BY <2>4, <2>5, DepthBefore
  <2>. QED  BY <2>1, <2>4, <2>6
<1>2. ASSUME NEW k \in 0..d
      PROVE  \E v \in Nodes : AtDepth(v, k)
  <2>1. d - k \in Nat /\ d - k <= d /\ d - (d - k) = k
    OBVIOUS
  <2>2. d - k \notin Bad
    BY <1>1
  <2>. QED  BY <2>1, <2>2
<1> DEFINE f == [k \in 0..d |-> CHOOSE v \in Nodes : AtDepth(v, k)]
<1>3. f \in [0..d -> Nodes] /\ \A k \in 0..d : AtDepth(f[k], k)
  BY <1>2
<1> HIDE DEF f
<1>4. ASSUME NEW i \in 0..d, NEW j \in 0..d, f[i] = f[j]
      PROVE  i = j
  <2>1. \A a, b \in 0..d : a < b => ~(AtDepth(f[a], a) /\ AtDepth(f[a], b))
    <3> SUFFICES ASSUME NEW a \in 0..d, NEW b \in 0..d, a < b, AtDepth(f[a], a), AtDepth(f[a], b)
                 PROVE  FALSE
      OBVIOUS
    <3>1. a \in 0..(b-1)
      OBVIOUS
    <3>. QED  BY <3>1 DEF AtDepth
  <2>2. AtDepth(f[i], i) /\ AtDepth(f[i], j) /\ AtDepth(f[j], i)
    BY <1>3, <1>4
  <2>3. ~(i < j) /\ ~(j < i)
    BY <1>3, <1>4, <2>1, <2>2
  <2>. QED  BY <2>3
<1>5. f \in Injection(0..d, Nodes)
  BY <1>3, <1>4 DEF Injection, IsInjective
<1>6. Cardinality(0..d) <= Cardinality(Nodes) /\ Cardinality(0..d) = d + 1
  BY <1>5, GraphAssumption, FS_Injection, FS_Interval
<1>. QED  BY <1>6, SetOfNodes

-----------------------------------------------------------------------------
(* ImpactAnalysis.                                                         *)

Searching == running \in {"bfs_impact", "find_path"}

Items == [node : Nodes, depth : Nat]

(* The queue holds nodes with their depth, nearest first and none a step   *)
(* deeper than the one that is popped next.                                *)
QueueInv(q, s) ==
  /\ q \in Seq(Items)
  /\ s \in SUBSET Nodes
  /\ \A i \in 1..Len(q) : /\ q[i].node \in s
                          /\ q[i].depth <= search.limit
                          /\ AtDepth(q[i].node, q[i].depth)
  /\ \A i, j \in 1..Len(q) :
       i <= j => q[i].depth <= q[j].depth /\ q[j].depth <= q[i].depth + 1

(* What was seen is in the queue, or was gone on from, or is at the limit. *)
SeenInv(q, s) ==
  /\ search.seeds \subseteq s
  /\ \A v \in s : \/ \E i \in 1..Len(q) : q[i].node = v
                  \/ Adjacent(v) \subseteq s \union search.avoid
                  \/ \A k \in 0..(search.limit-1) : v \notin Near(k)

DepthsInv ==
  /\ search.goal = NoGoal /\ answer = <<>>
  /\ DOMAIN depths = seen \ search.seeds
  /\ \A w \in DOMAIN depths : depths[w] \in 1..search.limit /\ AtDepth(w, depths[w])

(* A node was found from one that is a step nearer. *)
ParentInv(par, s) ==
  /\ par \in [s \ search.seeds -> s]
  /\ \A w \in s \ search.seeds :
       /\ w \in Out(par[w])
       /\ \E d \in 0..(search.limit-1) : AtDepth(par[w], d) /\ AtDepth(w, d + 1)

ShortestPath ==
  /\ search.goal \subseteq Near(search.limit)
  /\ {answer[1]} = search.seeds /\ {Last(answer)} = search.goal
  /\ \A i \in 1..(Len(answer) - 1) : answer[i+1] \in Out(answer[i])
  /\ \A d \in 0..(Len(answer) - 2) : ~(search.goal \subseteq Near(d))

PathInv ==
  /\ search.goal # NoGoal
  /\ ParentInv(parent, seen)
  /\ answer = <<>> => search.goal \intersect seen = {}
  /\ answer # <<>> => ShortestPath

SearchInv ==
  Searching =>
    /\ SearchTypeOK
    /\ QueueInv(queue, seen)
    /\ SeenInv(queue, seen)
    /\ running = "bfs_impact" => DepthsInv
    /\ running = "find_path" => PathInv

(* The elements of a set in some order. *)
LEMMA OrderOfSet ==
  ASSUME NEW S \in SUBSET Nodes, NEW order \in SetToSeqs(S)
  PROVE  /\ order \in Seq(S) /\ Len(order) \in Nat
         /\ \A i \in 1..Len(order) : order[i] \in S
         /\ \A w \in S : \E i \in 1..Len(order) : order[i] = w
<1> DEFINE n == Cardinality(S)
<1>1. n \in Nat /\ IsFiniteSet(S)
  BY SetOfNodes
<1>2. order \in [1..n -> S] /\ \A i, j \in 1..n : i # j => order[i] # order[j]
  BY DEF SetToSeqs
<1>3. order \in Seq(S) /\ Len(order) = n
  BY <1>1, <1>2
<1>4. order \in Injection(1..n, S)
  BY <1>2 DEF Injection, IsInjective
<1>5. Cardinality(1..n) = n
  BY <1>1, FS_Interval
<1>6. order \in Surjection(1..n, S)
  BY <1>1, <1>4, <1>5, FS_Injection
<1>. QED  BY <1>1, <1>2, <1>3, <1>6 DEF Surjection

(* r is q without its head and with the nodes of S, of depth d, behind. *)
Behind(r, q, S, d) ==
  LET m == Len(q) - 1 IN
  /\ r \in Seq(Items) /\ m \in Nat /\ Len(r) \in Nat /\ m <= Len(r)
  /\ \A i \in 1..m : r[i] = q[i+1]
  /\ \A i \in (m+1)..Len(r) : r[i].node \in S /\ r[i].depth = d
  /\ \A w \in S : \E i \in 1..Len(r) : r[i].node = w

LEMMA QueuedAfter ==
  ASSUME NEW q \in Seq(Items), q # <<>>, NEW S \in SUBSET Nodes,
         NEW order \in SetToSeqs(S), NEW d \in Nat
  PROVE  Behind(Tail(q) \o Queued(order, d), q, S, d)
<1> DEFINE new == Queued(order, d)
           t == Tail(q)
           r == t \o new
           m == Len(q) - 1
           k == Len(order)
<1>1. /\ order \in Seq(S) /\ k \in Nat
      /\ \A i \in 1..k : order[i] \in S
      /\ \A w \in S : \E i \in 1..k : order[i] = w
  BY OrderOfSet
<1>2. /\ new \in Seq(Items) /\ Len(new) = k
      /\ \A i \in 1..k : new[i].node = order[i] /\ new[i].depth = d
  <2>1. \A i \in 1..k : [node |-> order[i], depth |-> d] \in Items
    BY <1>1 DEF Items
  <2>2. new = [i \in 1..k |-> [node |-> order[i], depth |-> d]]
    BY DEF Queued
  <2>3. new \in [1..k -> Items]
    BY <2>1, <2>2
  <2>4. \A i \in 1..k : new[i].node = order[i] /\ new[i].depth = d
    BY <2>2
  <2> HIDE DEF new, k
  <2>5. new \in Seq(Items) /\ Len(new) = k
    BY <1>1, <2>3
  <2>. QED  BY <2>4, <2>5
<1>3. t \in Seq(Items) /\ Len(t) = m /\ m \in Nat /\ \A i \in 1..m : t[i] = q[i+1]
  BY HeadTailProperties, EmptySeq
<1> HIDE DEF new, t, m, k
<1>4. /\ r \in Seq(Items) /\ Len(r) = m + k
      /\ \A i \in 1..(m+k) : r[i] = IF i <= m THEN t[i] ELSE new[i-m]
  <2>1. new \in Seq(Items) /\ t \in Seq(Items) /\ Len(t) = m /\ Len(new) = k
    BY <1>2, <1>3
  <2>2. /\ t \o new \in Seq(Items) /\ Len(t \o new) = Len(t) + Len(new)
        /\ \A i \in 1..(Len(t) + Len(new)) :
             (t \o new)[i] = IF i <= Len(t) THEN t[i] ELSE new[i - Len(t)]
    BY <2>1, ConcatProperties
  <2>. QED  BY <2>1, <2>2
<1> HIDE DEF r
<1>5. ASSUME NEW i \in 1..m
      PROVE  r[i] = q[i+1]
  <2>1. i \in 1..(m+k) /\ i <= m
    BY <1>1, <1>3
  <2>. QED  BY <1>3, <1>4, <2>1
<1>6. ASSUME NEW i \in (m+1)..Len(r)
      PROVE  r[i].node \in S /\ r[i].depth = d
  <2>1. i \in 1..(m+k) /\ ~(i <= m) /\ i - m \in 1..k
    BY <1>1, <1>3, <1>4
  <2>. QED  BY <1>1, <1>2, <1>4, <2>1
<1>7. ASSUME NEW w \in S
      PROVE  \E i \in 1..Len(r) : r[i].node = w
  <2>1. PICK i \in 1..k : order[i] = w
    BY <1>1
  <2>2. i + m \in 1..(m+k) /\ ~(i + m <= m) /\ (i + m) - m = i
    BY <1>1, <1>3
  <2>. QED  BY <1>2, <1>4, <2>1, <2>2
<1>8. r \in Seq(Items) /\ m \in Nat /\ Len(r) \in Nat /\ m <= Len(r)
  BY <1>1, <1>3, <1>4
<1>9. Behind(r, q, S, d)
  BY <1>5, <1>6, <1>7, <1>8 DEF Behind, m
<1>. QED  BY <1>9 DEF r, t, new

(* What is as near as what is popped next was seen. *)
LEMMA NearIsSeen ==
  ASSUME SearchTypeOK, NEW q, NEW s, QueueInv(q, s), SeenInv(q, s),
         NEW d \in Nat, d <= search.limit, \A i \in 1..Len(q) : d <= q[i].depth
  PROVE  Near(d) \subseteq s
<1> DEFINE Bad == {k \in Nat : k <= d /\ ~(Near(k) \subseteq s)}
<1> SUFFICES ASSUME Bad # {} PROVE FALSE
  OBVIOUS
<1>1. PICK k \in Bad : \A i \in Bad : k <= i
  BY LeastNumber
<1>2. k # 0
  BY <1>1, NearValues DEF SeenInv
<1>3. k - 1 \in Nat /\ k - 1 <= d /\ (k - 1) + 1 = k
  BY <1>2
<1>4. Near(k-1) \subseteq s
  BY <1>1, <1>3
<1>5. PICK u \in Near(k) : u \notin s
  BY <1>1
<1>6. PICK v \in Near(k-1) : u \in Adjacent(v) /\ u \notin search.avoid
  BY <1>3, <1>4, <1>5, NearValues
<1>7. CASE \E i \in 1..Len(q) : q[i].node = v
  <2>1. PICK i \in 1..Len(q) : q[i].node = v
    BY <1>7
  <2>2. q[i].depth \in Nat
    <3>1. q[i] \in Items
      BY ElementOfSeq DEF QueueInv
    <3>. QED  BY <3>1 DEF Items
  <2>3. k - 1 \in 0..(q[i].depth - 1)
    BY <1>3, <2>2
  <2>. QED  BY <1>6, <2>1, <2>3 DEF QueueInv, AtDepth
<1>8. CASE Adjacent(v) \subseteq s \union search.avoid
  BY <1>5, <1>6, <1>8
<1>9. CASE \A j \in 0..(search.limit-1) : v \notin Near(j)
  <2>1. search.limit \in Nat
    BY SearchAssumption DEF SearchTypeOK
  <2>2. k - 1 \in 0..(search.limit-1)
    BY <1>3, <2>1
  <2>. QED  BY <1>6, <1>9, <2>2
<1>. QED  BY <1>4, <1>7, <1>8, <1>9 DEF SeenInv

(* The queue and what was seen when the head of q is popped and the nodes  *)
(* of S are new.                                                           *)
Advanced(r, q, s, S) ==
  /\ QueueInv(r, s \union S)
  /\ SeenInv(r, s \union S)
  /\ S \subseteq Nodes \ s
  /\ \A w \in S : AtDepth(w, q[1].depth + 1)

(* Popping the head and putting in what it is the first to lead to, or     *)
(* nothing if it is at the limit, keeps the order of the queue.            *)
LEMMA QueueAdvances ==
  ASSUME SearchTypeOK, NEW q, NEW s, QueueInv(q, s), SeenInv(q, s), q # <<>>,
         NEW S, NEW order \in SetToSeqs(S),
         \/ q[1].depth >= search.limit /\ S = {}
         \/ q[1].depth < search.limit /\ S = Adjacent(q[1].node) \ (s \union search.avoid)
  PROVE  Advanced(Tail(q) \o Queued(order, q[1].depth + 1), q, s, S)
<1> DEFINE d == q[1].depth
           r == Tail(q) \o Queued(order, d + 1)
           m == Len(q) - 1
<1>1. search.limit \in Nat /\ search.seeds \in SUBSET Nodes
  BY SearchAssumption DEF SearchTypeOK
<1>2. q \in Seq(Items) /\ s \in SUBSET Nodes /\ Len(q) \in Nat \ {0} /\ 1 \in 1..Len(q)
  BY EmptySeq DEF QueueInv
<1>3. \A i \in 1..Len(q) : q[i] \in Items /\ q[i].node \in Nodes /\ q[i].depth \in Nat
  <2>1. \A i \in 1..Len(q) : q[i] \in Items
    BY <1>2, ElementOfSeq
  <2>. QED  BY <2>1 DEF Items
<1>4. /\ d \in Nat /\ d + 1 \in Nat /\ d <= search.limit /\ AtDepth(q[1].node, d)
      /\ \A i \in 1..Len(q) : d <= q[i].depth /\ q[i].depth <= d + 1
  BY <1>2, <1>3 DEF QueueInv
<1>5. /\ S \subseteq Nodes \ s /\ S \in SUBSET Nodes
      /\ d < search.limit => S = Adjacent(q[1].node) \ (s \union search.avoid)
  <2>1. Adjacent(q[1].node) \subseteq Nodes
    BY DEF Adjacent, In, Out
  <2>2. ~(d < search.limit /\ d >= search.limit)
    BY <1>1, <1>4
  <2>. QED  BY <2>1, <2>2
<1>6. Near(d) \subseteq s
  BY <1>4, NearIsSeen
<1>7. ASSUME NEW w \in S
      PROVE  AtDepth(w, d + 1) /\ d + 1 <= search.limit
  BY <1>1, <1>4, <1>5, <1>6, <1>7, DepthOfNew
<1>8. /\ r \in Seq(Items) /\ m \in Nat /\ Len(r) \in Nat /\ m <= Len(r)
      /\ \A i \in 1..m : r[i] = q[i+1]
      /\ \A i \in (m+1)..Len(r) : r[i].node \in S /\ r[i].depth = d + 1
      /\ \A w \in S : \E i \in 1..Len(r) : r[i].node = w
  <2>1. Behind(r, q, S, d + 1)
    BY <1>2, <1>4, <1>5, QueuedAfter
  <2> HIDE DEF r, d
  <2>. QED  BY <2>1 DEF Behind
<1> HIDE DEF r, d
<1>9. \A i \in 1..m : i + 1 \in 1..Len(q)
  BY <1>2
<1>10. \A i \in 1..Len(r) : i \in 1..m \/ i \in (m+1)..Len(r)
  BY <1>8
<1>11. QueueInv(r, s \union S)
  <2>1. ASSUME NEW i \in 1..Len(r)
        PROVE  /\ r[i].node \in s \union S
               /\ r[i].depth <= search.limit
               /\ AtDepth(r[i].node, r[i].depth)
               /\ d <= r[i].depth /\ r[i].depth <= d + 1 /\ r[i].depth \in Nat
    <3>1. CASE i \in 1..m
      <4>1. r[i] = q[i+1] /\ i + 1 \in 1..Len(q)
        BY <1>8, <1>9, <3>1
      <4>. QED  BY <1>3, <1>4, <4>1 DEF QueueInv
    <3>2. CASE i \in (m+1)..Len(r)
      <4>1. r[i].node \in S /\ r[i].depth = d + 1
        BY <1>8, <3>2
      <4>. QED  BY <1>4, <1>7, <4>1
    <3>. QED  BY <1>10, <3>1, <3>2
  <2>2. ASSUME NEW i \in 1..Len(r), NEW j \in 1..Len(r), i <= j
        PROVE  r[i].depth <= r[j].depth /\ r[j].depth <= r[i].depth + 1
    <3>1. CASE j \in 1..m
      <4>1. /\ r[i] = q[i+1] /\ i + 1 \in 1..Len(q)
            /\ r[j] = q[j+1] /\ j + 1 \in 1..Len(q) /\ i + 1 <= j + 1
        BY <1>8, <1>9, <2>2, <3>1
      <4>. QED  BY <4>1 DEF QueueInv
    <3>2. CASE j \in (m+1)..Len(r)
      BY <1>4, <1>8, <2>1, <3>2
    <3>. QED  BY <1>10, <3>1, <3>2
  <2>. QED  BY <1>2, <1>5, <1>8, <2>1, <2>2 DEF QueueInv
<1>12. SeenInv(r, s \union S)
  <2>1. search.seeds \subseteq s \union S
    BY DEF SeenInv
  <2>2. ASSUME NEW v \in s \union S
        PROVE  \/ \E i \in 1..Len(r) : r[i].node = v
               \/ Adjacent(v) \subseteq (s \union S) \union search.avoid
               \/ \A k \in 0..(search.limit-1) : v \notin Near(k)
    <3>1. CASE v \in S
      BY <1>8, <3>1
    <3>2. CASE v = q[1].node
      <4>1. CASE d < search.limit
        BY <1>5, <3>2, <4>1
      <4>2. CASE d >= search.limit
        BY <1>1, <1>4, <3>2, <4>2 DEF AtDepth
      <4>. QED  BY <1>1, <1>4, <4>1, <4>2
    <3>3. CASE \E i \in 1..Len(q) : q[i].node = v /\ i # 1
      <4>1. PICK i \in 1..Len(q) : q[i].node = v /\ i # 1
        BY <3>3
      <4>2. i - 1 \in 1..m /\ (i - 1) + 1 = i /\ i - 1 \in 1..Len(r)
        BY <1>8, <4>1
      <4>3. r[i-1] = q[i]
        BY <1>8, <4>2
      <4>. QED  BY <4>1, <4>2, <4>3
    <3>4. CASE v \in s /\ ~\E i \in 1..Len(q) : q[i].node = v
      BY <3>4 DEF SeenInv
    <3>. QED  BY <3>1, <3>2, <3>3, <3>4
  <2>. QED  BY <2>1, <2>2 DEF SeenInv
<1>. QED  BY <1>5, <1>7, <1>11, <1>12 DEF r, d, Advanced

(* The graph and the arguments stay what they are. *)
LEMMA SearchUnmoved ==
  ASSUME UNCHANGED graphVars, search' = search, SearchTypeOK,
         QueueInv(queue', seen'), SeenInv(queue', seen')
  PROVE  SearchTypeOK' /\ QueueInv(queue, seen)' /\ SeenInv(queue, seen)'
<1>1. edges' = edges
  BY DEF graphVars
<1>2. SearchTypeOK'
  BY <1>1 DEF SearchTypeOK
<1>3. QueueInv(queue, seen)'
  BY <1>1 DEF QueueInv, AtDepth, Near, Arrows
<1>4. SeenInv(queue, seen)'
  BY <1>1 DEF SeenInv, Near, Arrows, Adjacent, In, Out
<1>. QED  BY <1>2, <1>3, <1>4

LEMMA PopBeyondKeeps ==
  ASSUME SearchInv, Searching, PopBeyond, UNCHANGED graphVars
  PROVE  SearchInv'
<1>1. SearchTypeOK /\ QueueInv(queue, seen) /\ SeenInv(queue, seen) /\ queue # <<>>
  BY DEF SearchInv, PopBeyond
<1>2. queue \in Seq(Items) /\ Head(queue) = queue[1]
  BY <1>1 DEF QueueInv
<1>3. <<>> \in SetToSeqs({})
  BY FS_EmptySet DEF SetToSeqs
<1>4. queue[1].depth >= search.limit
  BY <1>2 DEF PopBeyond, Beyond
<1> DEFINE r == Tail(queue) \o Queued(<<>>, queue[1].depth + 1)
<1>5. QueueInv(r, seen \union {}) /\ SeenInv(r, seen \union {})
  BY <1>1, <1>3, <1>4, QueueAdvances DEF Advanced
<1>6. r = Tail(queue)
  <2>1. Queued(<<>>, queue[1].depth + 1) = <<>>
    BY DEF Queued
  <2>. QED  BY <1>1, <1>2, <2>1, HeadTailProperties, ConcatEmptySeq
<1>7. seen \union {} = seen
  OBVIOUS
<1>8. QueueInv(queue', seen') /\ SeenInv(queue', seen')
  BY <1>5, <1>6, <1>7 DEF PopBeyond
<1>9. /\ search' = search /\ edges' = edges /\ running' = running /\ seen' = seen
      /\ depths' = depths /\ parent' = parent /\ answer' = answer
  BY DEF PopBeyond, graphVars
<1>10. SearchTypeOK' /\ QueueInv(queue, seen)' /\ SeenInv(queue, seen)'
  BY <1>1, <1>8, <1>9, SearchUnmoved
<1>11. DepthsInv => DepthsInv'
  BY <1>9 DEF DepthsInv, AtDepth, Near, Arrows
<1>12. PathInv => PathInv'
  <2>1. ParentInv(parent, seen) => ParentInv(parent, seen)'
    BY <1>9 DEF ParentInv, AtDepth, Near, Arrows, Out
  <2>2. ShortestPath => ShortestPath'
    BY <1>9 DEF ShortestPath, Near, Arrows, Out
  <2>. QED  BY <1>9, <2>1, <2>2 DEF PathInv
<1>. QED  BY <1>9, <1>10, <1>11, <1>12 DEF SearchInv, Searching

LEMMA PopImpactKeeps ==
  ASSUME SearchInv, PopImpact, UNCHANGED graphVars
  PROVE  SearchInv'
<1>1. /\ Searching /\ running = "bfs_impact" /\ queue # <<>>
      /\ SearchTypeOK /\ QueueInv(queue, seen) /\ SeenInv(queue, seen) /\ DepthsInv
  BY DEF SearchInv, Searching, PopImpact
<1>2. queue \in Seq(Items) /\ Head(queue) = queue[1]
  BY <1>1 DEF QueueInv
<1> DEFINE v == queue[1].node
           d == queue[1].depth
<1>3. d \in Nat /\ d <= search.limit /\ search.limit \in Nat
  <2>1. 1 \in 1..Len(queue)
    BY <1>1, <1>2, EmptySeq
  <2>2. queue[1] \in Items
    BY <1>2, <2>1, ElementOfSeq
  <2>. QED  BY <1>1, <2>1, <2>2, SearchAssumption DEF QueueInv, Items, SearchTypeOK
<1>4. d < search.limit
  BY <1>2, <1>3 DEF PopImpact, Beyond
<1>5. PICK order \in SetToSeqs(New(v)) : queue' = Tail(queue) \o Queued(order, d + 1)
  BY <1>2 DEF PopImpact
<1>6. /\ search' = search /\ edges' = edges /\ running' = running /\ answer' = answer
      /\ seen' = seen \union New(v)
      /\ depths' = [w \in DOMAIN depths \union New(v) |-> IF w \in New(v) THEN d + 1 ELSE depths[w]]
  BY <1>2 DEF PopImpact, graphVars
<1>7. /\ QueueInv(queue', seen') /\ SeenInv(queue', seen')
      /\ New(v) \subseteq Nodes \ seen
      /\ \A w \in New(v) : AtDepth(w, d + 1)
  <2>1. New(v) = Adjacent(v) \ (seen \union search.avoid)
    BY DEF New
  <2>2. Advanced(Tail(queue) \o Queued(order, d + 1), queue, seen, New(v))
    BY <1>1, <1>4, <2>1, QueueAdvances
  <2>. QED  BY <1>5, <1>6, <2>2 DEF Advanced
<1>8. SearchTypeOK' /\ QueueInv(queue, seen)' /\ SeenInv(queue, seen)'
  BY <1>1, <1>6, <1>7, SearchUnmoved
<1>9. DepthsInv'
  <2>1. DOMAIN depths' = New(v) \union DOMAIN depths
    BY <1>6
  <2>2. DOMAIN depths' = seen' \ search.seeds
    BY <1>1, <1>6, <1>7, <2>1 DEF DepthsInv, SeenInv
  <2>3. ASSUME NEW w \in DOMAIN depths'
        PROVE  depths'[w] \in 1..search.limit /\ AtDepth(w, depths'[w])
    <3>1. CASE w \in New(v)
      <4>1. depths'[w] = d + 1
        BY <1>6, <3>1
      <4>. QED  BY <1>3, <1>4, <1>7, <3>1, <4>1
    <3>2. CASE w \notin New(v)
      <4>1. w \in DOMAIN depths /\ depths'[w] = depths[w]
        BY <1>6, <2>1, <3>2
      <4>. QED  BY <1>1, <4>1 DEF DepthsInv
    <3>. QED  BY <3>1, <3>2
  <2>. QED  BY <1>1, <1>6, <2>2, <2>3 DEF DepthsInv, AtDepth, Near, Arrows
<1>. QED  BY <1>1, <1>6, <1>8, <1>9 DEF SearchInv, Searching

(* A part of a path to g, of n steps, that begins where the depth is n     *)
(* less than that of g.                                                    *)
PathTo(p, s, g, n, d) ==
  /\ p \in Seq(Nodes) /\ Len(p) = n + 1 /\ p[n+1] = g
  /\ p[1] \in s /\ AtDepth(p[1], d)
  /\ \A i \in 1..n : p[i+1] \in Out(p[i])

(* The walk over the parents goes back to a seed and stops there.          *)
LEMMA WalkFindsPath ==
  ASSUME SearchTypeOK, NEW par, NEW s \in SUBSET Nodes, ParentInv(par, s),
         NEW g \in s, NEW d \in Nat, AtDepth(g, d)
  PROVE  PathTo(Walk(par, g), s, g, d, 0)
<1> DEFINE D == Seq(Nodes)
           Longer(path) == IF path[1] \in DOMAIN par THEN <<par[path[1]]>> \o path ELSE path
           F == [path \in D |-> IF path # <<>> THEN Longer(path) ELSE path]
           Equation(f) == f = [n \in Nat |-> IF n = 0 THEN <<g>> ELSE Longer(f[n-1])]
           W == CHOOSE f : Equation(f)
<1>1. DOMAIN par = s \ search.seeds /\ \A u \in DOMAIN par : par[u] \in Nodes
  BY DEF ParentInv
<1>2. ASSUME NEW path \in D, path # <<>>
      PROVE  Longer(path) \in D /\ Longer(path) # <<>>
  <2>1. CASE path[1] \in DOMAIN par
    <3>1. <<par[path[1]]>> \in Seq(Nodes)
      BY <1>1, <2>1
    <3>. QED  BY <1>2, <2>1, <3>1, ConcatProperties, ConcatEqualIffEmpty
  <2>2. CASE path[1] \notin DOMAIN par
    BY <1>2, <2>2
  <2>. QED  BY <2>1, <2>2
<1>3. F \in [D -> D] /\ <<g>> \in D
  BY <1>2
<1> HIDE DEF F, D, Longer
<1>4. PICK h \in [Nat -> D] : h[0] = <<g>> /\ \A n \in Nat \ {0} : h[n] = F[h[n-1]]
  <2> DEFINE b == <<g>>
  <2>1. b \in D
    BY <1>3
  <2> HIDE DEF b
  <2>2. \E h : IsIteration(h, D, F, b)
    BY <1>3, <2>1, Iteration
  <2>. QED  BY <2>2 DEF b, IsIteration
<1>5. \A n \in Nat : h[n] # <<>>
  <2> DEFINE Bad == {n \in Nat : h[n] = <<>>}
  <2> SUFFICES ASSUME Bad # {} PROVE FALSE
    OBVIOUS
  <2>1. PICK n \in Bad : \A i \in Bad : n <= i
    BY LeastNumber
  <2>2. n # 0
    <3>1. <<g>> # <<>>
      OBVIOUS
    <3>. QED  BY <1>4, <3>1
  <2>3. n - 1 \in Nat /\ h[n-1] # <<>> /\ h[n-1] \in D
    BY <1>4, <2>1, <2>2
  <2>4. h[n] = Longer(h[n-1])
    BY <1>4, <2>2, <2>3 DEF F
  <2>. QED  BY <1>2, <2>3, <2>4
<1>6. \A n \in Nat : h[n] = IF n = 0 THEN <<g>> ELSE Longer(h[n-1])
  <2> SUFFICES ASSUME NEW n \in Nat \ {0} PROVE h[n] = Longer(h[n-1])
    BY <1>4
  <2>1. n - 1 \in Nat /\ h[n-1] \in D /\ h[n-1] # <<>>
    BY <1>4, <1>5
  <2>. QED  BY <1>4, <2>1 DEF F
<1>7. Equation(h)
  BY <1>4, <1>6
<1>8. Equation(W)
  BY <1>7
<1>9. Walk(par, g) = W[Cardinality(Nodes)]
  BY DEF Walk, Longer
<1> HIDE DEF W
<1>10. W[0] = <<g>> /\ \A n \in Nat : W[n+1] = Longer(W[n])
  <2>1. \A n \in Nat : n + 1 \in Nat /\ n + 1 # 0 /\ (n + 1) - 1 = n
    OBVIOUS
  <2>. QED  BY <1>8, <2>1
<1>11. \A n \in 0..d : PathTo(W[n], s, g, n, d - n)
  <2> DEFINE Bad == {n \in Nat : n <= d /\ ~PathTo(W[n], s, g, n, d - n)}
  <2> SUFFICES ASSUME Bad # {} PROVE FALSE
    OBVIOUS
  <2>1. PICK n \in Bad : \A i \in Bad : n <= i
    BY LeastNumber
  <2>2. n # 0
    <3>1. g \in Nodes /\ d - 0 = d
      OBVIOUS
    <3>2. PathTo(<<g>>, s, g, 0, d)
      BY <3>1 DEF PathTo
    <3>. QED  BY <1>10, <2>1, <3>1, <3>2
  <2> DEFINE k == n - 1
             p == W[k]
             u == par[p[1]]
  <2>3. k \in Nat /\ k <= d /\ k + 1 = n /\ d - k \in Nat \ {0} /\ (d - k) - 1 = d - n
    BY <2>2
  <2>4. PathTo(p, s, g, k, d - k)
    BY <2>1, <2>3
  <2>5. p[1] \in s \ search.seeds
    <3>1. 0 \in 0..((d - k) - 1)
      BY <2>3
    <3>2. AtDepth(p[1], d - k) /\ p[1] \in s
      BY <2>4 DEF PathTo
    <3>3. p[1] \notin Near(0)
      BY <3>1, <3>2 DEF AtDepth
    <3>. QED  BY <3>2, <3>3, NearValues
  <2>6. W[n] = <<u>> \o p /\ u \in s /\ p[1] \in Out(u)
    BY <1>1, <1>10, <2>3, <2>5 DEF Longer, ParentInv
  <2>7. AtDepth(u, d - n)
    <3>1. PICK e \in 0..(search.limit-1) : AtDepth(u, e) /\ AtDepth(p[1], e + 1)
      BY <2>5 DEF ParentInv
    <3>2. AtDepth(p[1], d - k)
      BY <2>4 DEF PathTo
    <3>3. \A i, j \in Nat : i < j => i \in 0..(j-1)
      OBVIOUS
    <3>4. ~(e + 1 < d - k) /\ ~(d - k < e + 1)
      BY <2>3, <3>1, <3>2, <3>3 DEF AtDepth
    <3>5. e = d - n
      BY <2>3, <3>4
    <3>. QED  BY <3>1, <3>5
  <2>8. p \in Seq(Nodes) /\ Len(p) = n /\ <<u>> \in Seq(Nodes) /\ Len(<<u>>) = 1
    BY <2>3, <2>4, <2>6 DEF PathTo
  <2> HIDE DEF p, u, k
  <2> DEFINE r == <<u>> \o p
  <2>9. /\ r \in Seq(Nodes) /\ Len(r) = 1 + n
        /\ \A i \in 1..(1 + n) : r[i] = IF i <= 1 THEN <<u>>[i] ELSE p[i-1]
    BY <2>8, ConcatProperties
  <2> HIDE DEF r
  <2>10. r[1] = u /\ r[n+1] = g
    <3>1. 1 \in 1..(1+n) /\ n + 1 \in 1..(1+n) /\ ~(n + 1 <= 1) /\ (n + 1) - 1 = n
      BY <2>2
    <3>2. p[n] = g
      BY <2>3, <2>4 DEF PathTo
    <3>. QED  BY <2>9, <3>1, <3>2
  <2>11. ASSUME NEW i \in 1..n
         PROVE  r[i+1] \in Out(r[i])
    <3>1. i + 1 \in 1..(1+n) /\ i \in 1..(1+n) /\ ~(i + 1 <= 1) /\ (i + 1) - 1 = i
      BY <2>3
    <3>2. r[i+1] = p[i]
      BY <2>9, <3>1
    <3>3. CASE i = 1
      BY <2>6, <2>10, <3>2, <3>3
    <3>4. CASE i # 1
      <4>1. i - 1 \in 1..k /\ (i - 1) + 1 = i /\ ~(i <= 1)
        BY <2>3, <3>4
      <4>2. r[i] = p[i-1]
        BY <2>9, <3>1, <4>1
      <4>. QED  BY <2>4, <3>2, <4>1, <4>2 DEF PathTo
    <3>. QED  BY <3>3, <3>4
  <2>12. PathTo(r, s, g, n, d - n)
    BY <2>3, <2>6, <2>7, <2>9, <2>10, <2>11 DEF PathTo
  <2>. QED  BY <2>1, <2>6, <2>12 DEF r
<1>12. \A n \in Nat : n >= d => W[n] = W[d]
  <2>1. Longer(W[d]) = W[d]
    <3>1. PathTo(W[d], s, g, d, 0)
      BY <1>11
    <3>2. W[d][1] \in search.seeds
      BY <3>1, NearValues DEF PathTo, AtDepth
    <3>. QED  BY <1>1, <3>2 DEF Longer
  <2> DEFINE Bad == {n \in Nat : n >= d /\ W[n] # W[d]}
  <2> SUFFICES ASSUME Bad # {} PROVE FALSE
    OBVIOUS
  <2>2. PICK n \in Bad : \A i \in Bad : n <= i
    BY LeastNumber
  <2>3. n - 1 \in Nat /\ n - 1 >= d /\ (n - 1) + 1 = n
    BY <2>2
  <2>4. W[n-1] = W[d]
    BY <2>2, <2>3
  <2>. QED  BY <1>10, <2>1, <2>2, <2>3, <2>4
<1>13. d <= Cardinality(Nodes) /\ Cardinality(Nodes) \in Nat
  BY DepthBounded, SetOfNodes
<1>14. PathTo(W[d], s, g, d, 0)
  BY <1>11
<1>. QED  BY <1>9, <1>12, <1>13, <1>14

LEMMA PathArguments ==
  ASSUME SearchTypeOK, search.goal # NoGoal
  PROVE  /\ \E v, w \in Nodes : search.seeds = {v} /\ search.goal = {w}
         /\ \A u : Adjacent(u) = Out(u)
BY SearchAssumption DEF SearchTypeOK, Adjacent

LEMMA PopPathKeeps ==
  ASSUME SearchInv, PopPath, UNCHANGED graphVars
  PROVE  SearchInv'
<1>1. /\ Searching /\ running = "find_path" /\ queue # <<>>
      /\ SearchTypeOK /\ QueueInv(queue, seen) /\ SeenInv(queue, seen) /\ PathInv
  BY DEF SearchInv, Searching, PopPath
<1>2. queue \in Seq(Items) /\ Head(queue) = queue[1]
  BY <1>1 DEF QueueInv
<1> DEFINE v == queue[1].node
           d == queue[1].depth
<1>3. d \in Nat /\ d <= search.limit /\ search.limit \in Nat /\ v \in seen /\ AtDepth(v, d)
  <2>1. 1 \in 1..Len(queue)
    BY <1>1, <1>2, EmptySeq
  <2>2. queue[1] \in Items
    BY <1>2, <2>1, ElementOfSeq
  <2>. QED  BY <1>1, <2>1, <2>2, SearchAssumption DEF QueueInv, Items, SearchTypeOK
<1>4. d < search.limit /\ answer = <<>>
  BY <1>2, <1>3 DEF PopPath, Beyond
<1>5. PICK order \in SetToSeqs(New(v)) : queue' = Tail(queue) \o Queued(order, d + 1)
  BY <1>2 DEF PopPath
<1>6. /\ search' = search /\ edges' = edges /\ running' = running
      /\ seen' = seen \union New(v)
      /\ parent' = [w \in DOMAIN parent \union New(v) |-> IF w \in New(v) THEN v ELSE parent[w]]
      /\ answer' = IF search.goal \subseteq New(v)
                   THEN Walk(parent', CHOOSE g \in search.goal : TRUE) ELSE <<>>
  BY <1>2 DEF PopPath, graphVars
<1>7. /\ QueueInv(queue', seen') /\ SeenInv(queue', seen')
      /\ New(v) \subseteq Nodes \ seen
      /\ \A w \in New(v) : AtDepth(w, d + 1)
  <2>1. New(v) = Adjacent(v) \ (seen \union search.avoid)
    BY DEF New
  <2>2. Advanced(Tail(queue) \o Queued(order, d + 1), queue, seen, New(v))
    BY <1>1, <1>4, <2>1, QueueAdvances
  <2>. QED  BY <1>5, <1>6, <2>2 DEF Advanced
<1>8. SearchTypeOK' /\ QueueInv(queue, seen)' /\ SeenInv(queue, seen)'
  BY <1>1, <1>6, <1>7, SearchUnmoved
<1>9. PICK v0, g \in Nodes : search.seeds = {v0} /\ search.goal = {g}
  BY <1>1, PathArguments DEF PathInv
<1>10. New(v) \subseteq Out(v)
  BY <1>1, PathArguments DEF PathInv, New
<1> HIDE DEF v, d
<1>11. ParentInv(parent', seen')
  <2>1. DOMAIN parent = seen \ search.seeds /\ search.seeds \subseteq seen
    BY <1>1 DEF PathInv, ParentInv, SeenInv
  <2>2. DOMAIN parent \union New(v) = seen' \ search.seeds
    BY <1>6, <1>7, <2>1
  <2>3. \A w \in New(v) : parent'[w] = v
    BY <1>6
  <2>4. \A w \in DOMAIN parent \ New(v) : parent'[w] = parent[w]
    BY <1>6
  <2>5. \A w \in DOMAIN parent : parent[w] \in seen
    BY <1>1 DEF PathInv, ParentInv
  <2>6. parent' \in [seen' \ search.seeds -> seen']
    BY <1>3, <1>6, <2>2, <2>5
  <2>7. ASSUME NEW w \in seen' \ search.seeds
        PROVE  /\ w \in Out(parent'[w])
               /\ \E e \in 0..(search.limit-1) : AtDepth(parent'[w], e) /\ AtDepth(w, e + 1)
    <3>1. CASE w \in New(v)
      <4>1. d \in 0..(search.limit-1)
        BY <1>3, <1>4
      <4>. QED  BY <1>3, <1>7, <1>10, <2>3, <3>1, <4>1
    <3>2. CASE w \notin New(v)
      <4>1. w \in DOMAIN parent /\ parent'[w] = parent[w]
        BY <2>2, <2>4, <3>2
      <4>. QED  BY <1>1, <2>1, <4>1 DEF PathInv, ParentInv
    <3>. QED  BY <3>1, <3>2
  <2>. QED  BY <2>6, <2>7 DEF ParentInv
<1>12. PathInv'
  <2>1. ParentInv(parent, seen)'
    <3>1. search' = search /\ edges' = edges
      BY <1>6
    <3>. QED  BY <1>11, <3>1 DEF ParentInv, AtDepth, Near, Arrows, Out
  <2>2. CASE g \in New(v)
    <3>1. (CHOOSE u \in search.goal : TRUE) = g /\ search.goal \subseteq New(v)
      BY <1>9, <2>2
    <3>2. answer' = Walk(parent', g)
      BY <1>6, <3>1
    <3>3. d + 1 \in Nat /\ AtDepth(g, d + 1) /\ g \in seen' /\ seen' \in SUBSET Nodes
      BY <1>3, <1>6, <1>7, <2>2 DEF QueueInv
    <3>4. PathTo(answer', seen', g, d + 1, 0)
      BY <1>1, <1>11, <3>2, <3>3, WalkFindsPath
    <3>5. answer' # <<>> /\ Len(answer') = (d + 1) + 1 /\ Last(answer') = g
      BY <1>3, <3>4 DEF PathTo, Last
    <3>6. {answer'[1]} = search.seeds
      BY <1>1, <1>9, <3>4, NearValues DEF PathTo, AtDepth
    <3>7. search.goal \subseteq Near(search.limit)
      <4>1. d + 1 \in 0..search.limit
        BY <1>3, <1>4
      <4>2. Near(d+1) \subseteq Near(search.limit)
        BY <1>1, <1>3, <4>1, NearGrows
      <4>. QED  BY <1>9, <3>3, <4>2 DEF AtDepth
    <3>8. \A i \in 1..(Len(answer')-1) : answer'[i+1] \in Out(answer'[i])
      BY <1>3, <3>4, <3>5 DEF PathTo
    <3>9. \A e \in 0..(Len(answer')-2) : ~(search.goal \subseteq Near(e))
      <4>1. Len(answer') - 2 = (d + 1) - 1
        BY <1>3, <3>5
      <4>. QED  BY <1>9, <3>3, <4>1 DEF AtDepth
    <3>10. ShortestPath'
      BY <1>6, <1>9, <3>5, <3>6, <3>7, <3>8, <3>9 DEF ShortestPath, Near, Arrows, Out
    <3>. QED  BY <1>1, <1>6, <2>1, <3>5, <3>10 DEF PathInv
  <2>3. CASE g \notin New(v)
    <3>1. answer' = <<>>
      BY <1>6, <1>9, <2>3
    <3>2. search.goal \intersect seen' = {}
      BY <1>1, <1>4, <1>6, <1>9, <2>3 DEF PathInv
    <3>. QED  BY <1>1, <1>6, <2>1, <3>1, <3>2 DEF PathInv
  <2>. QED  BY <2>2, <2>3
<1>. QED  BY <1>1, <1>6, <1>8, <1>12 DEF SearchInv, Searching

(* In the beginning the seeds are in the queue. *)
LEMMA InitSearch == Init => SearchInv
<1> SUFFICES ASSUME Init, Searching PROVE SearchInv
  BY DEF SearchInv
<1>1. PICK s \in Searches : ImpactInit(s) /\ (running = "bfs_impact" => s \in Impacts)
                                          /\ (running = "find_path" => s \in Paths)
  BY DEF Init
<1>2. search = s /\ seen = s.seeds /\ depths = <<>> /\ parent = <<>>
  BY <1>1 DEF ImpactInit
<1>3. SearchTypeOK
  BY <1>2, GraphAssumption DEF SearchTypeOK, Init
<1>4. s.seeds \in SUBSET Nodes /\ search.limit \in Nat
  BY <1>2, SearchAssumption
<1>5. PICK order \in SetToSeqs(s.seeds) :
        queue = [i \in 1..Len(order) |-> [node |-> order[i], depth |-> 0]]
  BY <1>1 DEF ImpactInit
<1>6. /\ Len(order) \in Nat /\ \A i \in 1..Len(order) : order[i] \in s.seeds
      /\ \A w \in s.seeds : \E i \in 1..Len(order) : order[i] = w
  BY <1>4, OrderOfSet
<1> DEFINE n == Len(order)
<1> HIDE DEF n
<1>7. queue = [i \in 1..n |-> [node |-> order[i], depth |-> 0]] /\ n \in Nat
  BY <1>5, <1>6 DEF n
<1>8. queue \in Seq(Items) /\ Len(queue) = n
  <2>1. queue \in [1..n -> Items]
    BY <1>4, <1>6, <1>7 DEF Items, n
  <2>2. queue \in Seq(Items)
    BY <1>7, <2>1
  <2>. QED  BY <1>7, <2>1, <2>2, LenProperties
<1>9. \A v \in s.seeds : AtDepth(v, 0)
  BY <1>2, <1>3, NearValues DEF AtDepth
<1>10. QueueInv(queue, seen)
  <2>1. ASSUME NEW i \in 1..n
        PROVE  queue[i].node \in s.seeds /\ queue[i].depth = 0
    BY <1>6, <1>7 DEF n
  <2>. QED  BY <1>2, <1>4, <1>8, <1>9, <2>1 DEF QueueInv
<1>11. SeenInv(queue, seen)
  <2>1. \A w \in s.seeds : \E i \in 1..n : queue[i].node = w
    BY <1>6, <1>7 DEF n
  <2>. QED  BY <1>2, <1>8, <2>1 DEF SeenInv
<1>12. ASSUME running = "bfs_impact" PROVE DepthsInv
  <2>1. s.goal = NoGoal
    BY <1>1, <1>12 DEF Impacts
  <2>2. answer = <<>>
    BY <1>1, <2>1 DEF ImpactInit
  <2>3. DOMAIN depths = {}
    BY <1>2
  <2>. QED  BY <1>2, <2>1, <2>2, <2>3 DEF DepthsInv
<1>13. ASSUME running = "find_path" PROVE PathInv
  <2>1. search.goal # NoGoal
    BY <1>1, <1>2, <1>13 DEF Paths
  <2>2. PICK v, g \in Nodes : search.seeds = {v} /\ search.goal = {g}
    BY <1>3, <2>1, PathArguments
  <2>3. ParentInv(parent, seen)
    <3>1. seen \ search.seeds = {}
      BY <1>2
    <3>2. parent \in [{} -> seen]
      BY <1>2
    <3>. QED  BY <3>1, <3>2 DEF ParentInv
  <2>4. CASE g = v
    <3>1. answer = SetToSeq({v})
      BY <1>1, <1>2, <2>1, <2>2, <2>4 DEF ImpactInit
    <3>2. answer = <<v>>
      <4>1. Cardinality({v}) = 1
        BY FS_Singleton
      <4>2. <<v>> \in [1..1 -> {v}] /\ IsInjective(<<v>>)
        BY DEF IsInjective
      <4>3. answer \in [1..1 -> {v}]
        BY <3>1, <4>1, <4>2 DEF SetToSeq
      <4>. QED  BY <4>3
    <3>3. answer # <<>> /\ Len(answer) = 1 /\ Last(answer) = v /\ answer[1] = v
      BY <3>2 DEF Last
    <3>4. v \in Near(search.limit)
      <4>1. 0 \in 0..search.limit
        BY <1>4
      <4>. QED  BY <1>3, <1>4, <2>2, <4>1, NearValues, NearGrows
    <3>5. ShortestPath
      BY <2>2, <2>4, <3>3, <3>4 DEF ShortestPath
    <3>. QED  BY <2>1, <2>3, <3>3, <3>5 DEF PathInv
  <2>5. CASE g # v
    <3>1. answer = <<>>
      BY <1>1, <1>2, <2>2, <2>5 DEF ImpactInit
    <3>. QED  BY <1>2, <2>1, <2>2, <2>3, <2>5, <3>1 DEF PathInv
  <2>. QED  BY <2>4, <2>5
<1>. QED  BY <1>3, <1>10, <1>11, <1>12, <1>13 DEF SearchInv

(* The other analyses leave the searches alone. *)
LEMMA SearchInvKept ==
  ASSUME SearchInv, UNCHANGED graphVars, UNCHANGED impactVars
  PROVE  SearchInv'
<1>1. /\ search' = search /\ edges' = edges /\ running' = running /\ seen' = seen
      /\ queue' = queue /\ depths' = depths /\ parent' = parent /\ answer' = answer
  BY DEF graphVars, impactVars
<1>2. SearchTypeOK => SearchTypeOK'
  BY <1>1 DEF SearchTypeOK
<1>3. QueueInv(queue, seen) => QueueInv(queue, seen)'
  BY <1>1 DEF QueueInv, AtDepth, Near, Arrows
<1>4. SeenInv(queue, seen) => SeenInv(queue, seen)'
  BY <1>1 DEF SeenInv, Near, Arrows, Adjacent, In, Out
<1>5. DepthsInv => DepthsInv'
  BY <1>1 DEF DepthsInv, AtDepth, Near, Arrows
<1>6. PathInv => PathInv'
  <2>1. ParentInv(parent, seen) => ParentInv(parent, seen)'
    BY <1>1 DEF ParentInv, AtDepth, Near, Arrows, Out
  <2>2. ShortestPath => ShortestPath'
    BY <1>1 DEF ShortestPath, Near, Arrows, Out
  <2>. QED  BY <1>1, <2>1, <2>2 DEF PathInv
<1>. QED  BY <1>1, <1>2, <1>3, <1>4, <1>5, <1>6 DEF SearchInv, Searching

LEMMA NextSearch == SearchInv /\ [Next]_allVars => SearchInv'
<1> SUFFICES ASSUME SearchInv, [Next]_allVars PROVE SearchInv'
  OBVIOUS
<1>1. CASE Next /\ ImpactStep
  BY <1>1, PopBeyondKeeps, PopImpactKeeps, PopPathKeeps DEF Next, ImpactStep, Searching
<1>2. CASE UNCHANGED graphVars /\ UNCHANGED impactVars
  BY <1>2, SearchInvKept
<1>. QED  BY <1>1, <1>2 DEF Next, allVars

(* When the queue is empty everything within the limit was seen.           *)
LEMMA SearchIsComplete ==
  ASSUME SearchInv
  PROVE  NearestFirst
<1> SUFFICES ASSUME Searching, SearchDone PROVE NearestFirst
  BY DEF NearestFirst, Searching
<1>1. SearchTypeOK /\ QueueInv(queue, seen) /\ SeenInv(queue, seen)
  BY DEF SearchInv
<1>2. search.limit \in Nat
  BY <1>1, SearchAssumption DEF SearchTypeOK
<1>3. queue = <<>> => Near(search.limit) \subseteq seen
  <2> SUFFICES ASSUME queue = <<>> PROVE Near(search.limit) \subseteq seen
    OBVIOUS
  <2>1. Len(queue) = 0
    OBVIOUS
  <2>2. \A i \in 1..Len(queue) : search.limit <= queue[i].depth
    BY <2>1
  <2>. QED  BY <1>1, <1>2, <2>2, NearIsSeen
<1>4. CASE running = "bfs_impact"
  <2>1. DepthsInv /\ queue = <<>>
    BY <1>4 DEF SearchInv, DepthsInv, SearchDone
  <2>2. ASSUME NEW w \in DOMAIN depths
        PROVE  w \in Near(search.limit) /\ w \in Near(depths[w]) \ Near(depths[w] - 1)
    <3>1. depths[w] \in 1..search.limit /\ AtDepth(w, depths[w])
      BY <2>1 DEF DepthsInv
    <3>2. depths[w] \in 0..search.limit /\ depths[w] - 1 \in 0..(depths[w] - 1)
      BY <1>2, <3>1
    <3>. QED  BY <1>1, <1>2, <3>1, <3>2, NearGrows DEF AtDepth
  <2>3. DOMAIN depths = Near(search.limit) \ search.seeds
    BY <1>3, <2>1, <2>2 DEF DepthsInv
  <2>. QED  BY <1>4, <2>2, <2>3 DEF NearestFirst, Near
<1>5. CASE running = "find_path"
  <2>1. PathInv
    BY <1>5 DEF SearchInv
  <2>2. PICK v, g \in Nodes : search.seeds = {v} /\ search.goal = {g}
    BY <1>1, <2>1, PathArguments DEF PathInv
  <2>3. CASE answer = <<>>
    <3>1. ~(search.goal \subseteq Near(search.limit))
      BY <1>3, <2>1, <2>2, <2>3 DEF PathInv, SearchDone
    <3>. QED  BY <1>5, <2>3, <3>1 DEF NearestFirst, Near
  <2>4. CASE answer # <<>>
    BY <1>5, <2>1, <2>4 DEF PathInv, ShortestPath, NearestFirst, Near
  <2>. QED  BY <2>3, <2>4
<1>. QED  BY <1>4, <1>5 DEF Searching

(* bfs_impact reports what a chain of relationships within the limit leads *)
(* to, at the length of a shortest one; find_path finds a shortest path,   *)
(* if there is one within the limit, and no path if there is none.         *)
THEOREM SearchCorrect == Spec => []NearestFirst
BY InitSearch, NextSearch, SearchIsComplete, PTL DEF Spec

-----------------------------------------------------------------------------
(* detect_circular_dependencies.                                           *)

Detecting == running = "detect_circular_dependencies"

Calls == [node : Nodes, left : SUBSET Nodes]

(* The files whose call has returned. *)
Finished(fr, vis) == vis \ {fr[i].node : i \in 1..Len(fr)}

HasCycle(v, found) == \E c \in found : ToSet(c) \subseteq Component(v)

(* The calls in progress are a path without a node twice. *)
TrailInv(fr, vis) ==
  /\ fr \in Seq(Calls) /\ vis \in SUBSET Nodes
  /\ \A i \in 1..Len(fr) : fr[i].node \in vis /\ fr[i].left \subseteq Out(fr[i].node)
  /\ \A i \in 1..Len(fr) : i < Len(fr) => fr[i+1].node \in Out(fr[i].node)
  /\ \A i, j \in 1..Len(fr) : i < j =>
       fr[i].node # fr[j].node /\ fr[j].node \in Reached(fr[i].node)

FoundInv(found) ==
  \A c \in found : \A i \in 1..Len(c) : c[(i % Len(c)) + 1] \in Out(c[i])

(* A neighbor in the same component was finished when it was looked at, or *)
(* is the next call, or closed a cycle.                                    *)
LookedInv(fr, fin, found) ==
  \A i \in 1..Len(fr) : \A w \in Out(fr[i].node) \ fr[i].left :
    w \in Component(fr[i].node) \ {fr[i].node} =>
      \/ w \in fin
      \/ i < Len(fr) /\ w = fr[i+1].node
      \/ HasCycle(fr[i].node, found)

(* As long as no cycle of a component is found, its finished files are in  *)
(* an order without cycles.                                                *)
FinishedInv(fin, found) ==
  /\ \A u \in fin : ~HasCycle(u, found) => Out(u) \intersect Component(u) \subseteq fin \union {u}
  /\ \A v \in Nodes : ~HasCycle(v, found) =>
       \A X \in SUBSET (fin \intersect Component(v)) :
         X # {} => \E x \in X : Out(x) \intersect X \subseteq {x}

DetectInv ==
  Detecting =>
    /\ TrailInv(frames, visited)
    /\ FoundInv(circular)
    /\ LookedInv(frames, Finished(frames, visited), circular)
    /\ FinishedInv(Finished(frames, visited), circular)

(* Nodes of one component have the same component. *)
LEMMA SameComponent ==
  ASSUME NEW v, NEW w \in Component(v)
  PROVE  Component(w) = Component(v)
<1>1. CASE w = v
  BY <1>1
<1>2. CASE w \in Reached(v) /\ v \in Reached(w)
  <2>1. Reached(w) \subseteq Reached(v) /\ Reached(v) \subseteq Reached(w)
    BY <1>2, ReachedOfReached
  <2>2. v \in Reached(v) /\ w \in Reached(w)
    BY <1>2, <2>1
  <2>3. \A u : w \in Reached(u) <=> v \in Reached(u)
    BY <1>2, <2>1, <2>2, ReachedOfReached
  <2>. QED  BY <1>2, <2>1, <2>2, <2>3 DEF Component
<1>. QED  BY <1>1, <1>2 DEF Component

LEMMA MoreFound ==
  ASSUME NEW found, NEW more, NEW v, HasCycle(v, found)
  PROVE  HasCycle(v, found \union more)
BY DEF HasCycle

(* The path from one of two nodes of a component to the other is within    *)
(* it, and closes a cycle if the other leads to the first.                 *)
LEMMA BackEdgeIsCycle ==
  ASSUME TrailInv(frames, visited), FoundInv(circular), NEW w, frames # <<>>,
         w \in Out(frames[Len(frames)].node)
  PROVE  /\ FoundInv(circular \union BackEdge(w))
         /\ \A j \in 1..(Len(frames) - 1) : frames[j].node = w =>
              HasCycle(frames[Len(frames)].node, circular \union BackEdge(w))
<1> DEFINE n == Len(frames)
           N(i) == frames[i].node
           part(j) == SubSeq(Path, j, n)
<1>0. w \in Out(N(n))
  OBVIOUS
<1>1. n \in Nat \ {0}
  BY EmptySeq DEF TrailInv
<1>2. Path = [i \in 1..n |-> N(i)] /\ \A i \in 1..n : N(i) \in Nodes
  BY DEF Path, TrailInv
<1>3. Path \in Seq(Nodes) /\ Len(Path) = n
  <2>1. Path \in [1..n -> Nodes]
    BY <1>2
  <2> HIDE DEF n
  <2>. QED  BY <1>1, <2>1
<1>4. BackEdge(w) = {part(j) : j \in {i \in 1..(n-1) : N(i) = w}}
  <2>1. \A i \in 1..(n-1) : Path[i] = N(i)
    BY <1>1, <1>2
  <2>. QED  BY <1>3, <2>1 DEF BackEdge
<1> HIDE DEF n
<1>5. ASSUME NEW j \in 1..(n-1)
      PROVE  /\ Len(part(j)) = n - j + 1
             /\ \A i \in 1..(n-j+1) : part(j)[i] = N(j+i-1) /\ j + i - 1 \in j..n
             /\ ToSet(part(j)) = {N(i) : i \in j..n}
  <2> DEFINE c == part(j)
  <2>1. j \in Int /\ n \in Int /\ j <= n /\ \A i \in j..n : Path[i] \in Nodes /\ Path[i] = N(i) /\ i \in 1..n
    BY <1>1, <1>2
  <2>2. /\ c \in Seq(Nodes) /\ Len(c) = n - j + 1
        /\ \A i \in 1..(n-j+1) : c[i] = Path[j+i-1]
    BY <2>1, SubSeqProperties
  <2>3. \A i \in 1..(n-j+1) : j + i - 1 \in j..n
    BY <1>1
  <2>4. \A i \in 1..(n-j+1) : c[i] = N(j+i-1)
    BY <2>1, <2>2, <2>3
  <2>5. DOMAIN c = 1..(n-j+1)
    BY <2>2, LenProperties
  <2>6. \A i \in j..n : i - j + 1 \in 1..(n-j+1) /\ j + (i - j + 1) - 1 = i
    BY <1>1
  <2> HIDE DEF c, N
  <2>7. ToSet(c) = {N(i) : i \in j..n}
    BY <2>3, <2>4, <2>5, <2>6 DEF ToSet
  <2>. QED  BY <2>2, <2>3, <2>4, <2>7 DEF c
<1> HIDE DEF part
<1>6. ASSUME NEW j \in 1..(n-1), N(j) = w, NEW i \in 1..Len(part(j))
      PROVE  part(j)[(i % Len(part(j))) + 1] \in Out(part(j)[i])
  <2> DEFINE m == n - j + 1
  <2>1. m \in Nat \ {0} /\ i \in 1..m
    BY <1>1, <1>5
  <2>2. CASE i < m
    <3>1. i % m = i /\ i + 1 \in 1..m /\ j + (i + 1) - 1 = (j + i - 1) + 1
          /\ j + i - 1 \in 1..n /\ j + i - 1 < n
      BY <1>1, <2>1, <2>2
    <3>2. part(j)[i] = N(j+i-1) /\ part(j)[i+1] = N((j+i-1)+1)
      BY <1>5, <2>1, <3>1
    <3>3. N((j+i-1)+1) \in Out(N(j+i-1))
      BY <3>1 DEF TrailInv, n
    <3>. QED  BY <1>5, <3>1, <3>2, <3>3
  <2>3. CASE i = m
    <3>1. i % m = 0 /\ 1 \in 1..m /\ j + 1 - 1 = j /\ j + m - 1 = n
      BY <1>1, <2>1, <2>3
    <3>2. part(j)[i] = N(n) /\ part(j)[1] = N(j)
      BY <1>5, <2>1, <2>3, <3>1
    <3>3. (i % m) + 1 = 1 /\ Len(part(j)) = m
      BY <1>5, <3>1
    <3>. QED  BY <1>0, <1>6, <3>2, <3>3
  <2>. QED  BY <2>1, <2>2, <2>3
<1>7. FoundInv(circular \union BackEdge(w))
  <2> HIDE DEF N
  <2>. QED  BY <1>4, <1>6 DEF FoundInv
<1>8. ASSUME NEW j \in 1..(n-1), N(j) = w
      PROVE  HasCycle(N(n), circular \union BackEdge(w))
  <2>1. part(j) \in BackEdge(w)
    BY <1>4, <1>8
  <2>2. ASSUME NEW i \in j..n
        PROVE  N(i) \in Component(N(n))
    <3>1. w \in Reached(N(n)) /\ Closed(Reached(N(n)))
      BY ReachedClosed DEF n
    <3>2. i \in 1..n /\ n \in 1..n /\ (i = j \/ j < i) /\ (i = n \/ i < n)
      BY <1>1
    <3>3. i = j \/ N(i) \in Reached(N(j))
      BY <3>2 DEF TrailInv, n
    <3>4. N(i) \in Reached(N(n))
      BY <1>8, <3>1, <3>3, ReachedOfReached
    <3>5. i = n \/ N(n) \in Reached(N(i))
      BY <3>2 DEF TrailInv, n
    <3>. QED  BY <3>4, <3>5 DEF Component
  <2>3. ToSet(part(j)) \subseteq Component(N(n))
    <3>1. ToSet(part(j)) = {N(i) : i \in j..n}
      BY <1>5
    <3> HIDE DEF N
    <3>. QED  BY <2>2, <3>1
  <2>. QED  BY <2>1, <2>3 DEF HasCycle
<1>. QED  BY <1>7, <1>8 DEF n

(* The steps.                                                              *)

LEMMA DetectUnmoved ==
  ASSUME UNCHANGED graphVars, Detecting,
         TrailInv(frames', visited'), FoundInv(circular'),
         LookedInv(frames', Finished(frames', visited'), circular'),
         FinishedInv(Finished(frames', visited'), circular')
  PROVE  DetectInv'
<1>1. edges' = edges
  BY DEF graphVars
<1>2. TrailInv(frames, visited)'
  BY <1>1 DEF TrailInv, Reached, Closed, Out
<1>3. FoundInv(circular)'
  BY <1>1 DEF FoundInv, Out
<1>4. \A v : Component(v)' = Component(v) /\ Out(v)' = Out(v)
  BY <1>1 DEF Component, Reached, Closed, Out
<1>5. LookedInv(frames, Finished(frames, visited), circular)'
  BY <1>4 DEF LookedInv, Finished, HasCycle
<1>6. FinishedInv(Finished(frames, visited), circular)'
  BY <1>4 DEF FinishedInv, Finished, HasCycle
<1>. QED  BY <1>2, <1>3, <1>5, <1>6 DEF DetectInv

LEMMA StartFileKeeps ==
  ASSUME DetectInv, NEW v \in Nodes, StartFile(v), UNCHANGED graphVars
  PROVE  DetectInv'
<1>1. /\ Detecting /\ frames = <<>> /\ v \notin visited
      /\ TrailInv(frames, visited) /\ FoundInv(circular)
      /\ FinishedInv(Finished(frames, visited), circular)
  BY DEF DetectInv, Detecting, StartFile
<1> DEFINE first == [node |-> v, left |-> Out(v)]
<1>2. /\ frames' = <<first>> /\ Len(frames') = 1 /\ frames'[1] = first
      /\ visited' = visited \union {v} /\ circular' = circular
  BY DEF StartFile
<1>3. Finished(frames', visited') = Finished(frames, visited)
  BY <1>1, <1>2 DEF Finished
<1>4. TrailInv(frames', visited')
  <2>1. first \in Calls
    BY DEF Calls, Out
  <2>2. frames' \in Seq(Calls)
    BY <1>2, <2>1
  <2>3. visited' \in SUBSET Nodes
    BY <1>1, <1>2 DEF TrailInv
  <2>. QED  BY <1>2, <2>2, <2>3 DEF TrailInv
<1>5. LookedInv(frames', Finished(frames', visited'), circular')
  BY <1>2 DEF LookedInv
<1>. QED  BY <1>1, <1>2, <1>3, <1>4, <1>5, DetectUnmoved

(* The call on top has looked at w. *)
LEMMA Looked ==
  ASSUME NEW fr \in Seq(Calls), fr # <<>>, NEW w
  PROVE  LET n    == Len(fr)
             rest == [fr EXCEPT ![n].left = @ \ {w}]
         IN  /\ n \in Nat \ {0} /\ Last(fr) = fr[n]
             /\ rest \in Seq(Calls) /\ Len(rest) = n
             /\ \A i \in 1..n : /\ rest[i].node = fr[i].node
                               /\ rest[i].left = IF i = n THEN fr[i].left \ {w} ELSE fr[i].left
<1> DEFINE n == Len(fr)
           rest == [fr EXCEPT ![n].left = @ \ {w}]
<1>1. n \in Nat \ {0} /\ Last(fr) = fr[n] /\ n \in 1..n
  BY EmptySeq DEF Last
<1>2. \A i \in 1..n : fr[i] \in Calls
  BY ElementOfSeq
<1>3. fr[n] \in Calls /\ [fr[n] EXCEPT !.left = @ \ {w}] \in Calls
  BY <1>1, <1>2 DEF Calls
<1>4. rest = [fr EXCEPT ![n] = [fr[n] EXCEPT !.left = @ \ {w}]]
  OBVIOUS
<1>5. /\ rest \in Seq(Calls) /\ Len(rest) = n
      /\ \A i \in 1..n : rest[i] = IF i = n THEN [fr[n] EXCEPT !.left = @ \ {w}] ELSE fr[i]
  BY <1>1, <1>3, <1>4, ExceptSeq
<1> HIDE DEF rest
<1>6. \A i \in 1..n : /\ rest[i].node = fr[i].node
                     /\ rest[i].left = IF i = n THEN fr[i].left \ {w} ELSE fr[i].left
  BY <1>2, <1>5 DEF Calls
<1>. QED  BY <1>1, <1>5, <1>6 DEF rest

LEMMA CallNeighborKeeps ==
  ASSUME DetectInv, NEW w \in Nodes, Neighbor(w), w \notin visited, UNCHANGED graphVars
  PROVE  DetectInv'
<1>1. /\ Detecting /\ frames # <<>>
      /\ TrailInv(frames, visited) /\ FoundInv(circular)
      /\ LookedInv(frames, Finished(frames, visited), circular)
      /\ FinishedInv(Finished(frames, visited), circular)
  BY DEF DetectInv, Detecting, Neighbor
<1> DEFINE n == Len(frames)
           rest == [frames EXCEPT ![n].left = @ \ {w}]
           call == [node |-> w, left |-> Out(w)]
<1>2. frames \in Seq(Calls)
  BY <1>1 DEF TrailInv
<1>3. /\ n \in Nat \ {0} /\ Last(frames) = frames[n]
      /\ rest \in Seq(Calls) /\ Len(rest) = n
      /\ \A i \in 1..n : /\ rest[i].node = frames[i].node
                        /\ rest[i].left = IF i = n THEN frames[i].left \ {w} ELSE frames[i].left
  BY <1>1, <1>2, Looked
<1>4. /\ frames' = Append(rest, call) /\ visited' = visited \union {w} /\ circular' = circular
      /\ w \in frames[n].left
  BY <1>3 DEF Neighbor
<1>5. call \in Calls /\ call.node = w /\ call.left = Out(w)
  BY DEF Calls, Out
<1> HIDE DEF rest, n, call
<1>6. /\ frames' \in Seq(Calls) /\ Len(frames') = n + 1 /\ frames'[n+1] = call
      /\ \A i \in 1..n : frames'[i] = rest[i]
  BY <1>3, <1>4, <1>5, AppendProperties
<1>7. \A i \in 1..(n+1) : i = n + 1 \/ i \in 1..n
  BY <1>3
<1>8. \A i \in 1..n : frames'[i].node = frames[i].node /\ i \in 1..(n+1) /\ i + 1 \in 1..(n+1)
  <2>1. \A i \in 1..n : i \in 1..(n+1) /\ i + 1 \in 1..(n+1)
    BY <1>3
  <2>. QED  BY <1>3, <1>6, <2>1
<1>9. n + 1 \in 1..(n+1) /\ n \in 1..n /\ n < n + 1
  BY <1>3
<1>10. w \in Out(frames[n].node)
  BY <1>1, <1>4, <1>9 DEF TrailInv, n
<1>11. \A i \in 1..n : frames[i].node # w /\ frames[i].node \in visited
  BY <1>1 DEF TrailInv, n
<1>12. Finished(frames', visited') = Finished(frames, visited)
  <2>1. {frames'[i].node : i \in 1..(n+1)} = {frames[i].node : i \in 1..n} \union {w}
    BY <1>5, <1>6, <1>7, <1>8, <1>9
  <2>. QED  BY <1>4, <1>6, <2>1 DEF Finished, n
<1>13. TrailInv(frames', visited')
  <2>1. visited' \in SUBSET Nodes
    BY <1>1, <1>4 DEF TrailInv
  <2>2. ASSUME NEW i \in 1..(n+1)
        PROVE  frames'[i].node \in visited' /\ frames'[i].left \subseteq Out(frames'[i].node)
    <3>1. CASE i = n + 1
      BY <1>4, <1>5, <1>6, <3>1
    <3>2. CASE i \in 1..n
      <4>1. frames[i].node \in visited /\ frames[i].left \subseteq Out(frames[i].node)
        BY <1>1, <3>2 DEF TrailInv, n
      <4>2. frames'[i].node = frames[i].node /\ frames'[i].left \subseteq frames[i].left
        BY <1>3, <1>6, <3>2
      <4>. QED  BY <1>4, <4>1, <4>2
    <3>. QED  BY <1>7, <3>1, <3>2
  <2>3. ASSUME NEW i \in 1..(n+1), i < n + 1
        PROVE  frames'[i+1].node \in Out(frames'[i].node)
    <3>1. CASE i = n
      BY <1>5, <1>6, <1>8, <1>9, <1>10, <3>1
    <3>2. CASE i < n
      <4>1. i \in 1..n /\ i + 1 \in 1..n
        BY <1>3, <3>2
      <4>. QED  BY <1>1, <1>8, <3>2, <4>1 DEF TrailInv, n
    <3>. QED  BY <1>3, <2>3, <3>1, <3>2
  <2>4. ASSUME NEW i \in 1..(n+1), NEW j \in 1..(n+1), i < j
        PROVE  frames'[i].node # frames'[j].node /\ frames'[j].node \in Reached(frames'[i].node)
    <3>1. i \in 1..n /\ frames'[i].node = frames[i].node
      BY <1>3, <1>8, <2>4
    <3>2. CASE j = n + 1
      <4>1. frames'[j].node = w
        BY <1>5, <1>6, <3>2
      <4>2. w \in Reached(frames[n].node)
        BY <1>10, ReachedClosed
      <4>3. i = n \/ frames[n].node \in Reached(frames[i].node)
        <5>1. i = n \/ i < n
          BY <1>3, <3>1
        <5>. QED  BY <1>1, <1>9, <3>1, <5>1 DEF TrailInv, n
      <4>. QED  BY <1>11, <3>1, <4>1, <4>2, <4>3, ReachedOfReached
    <3>3. CASE j \in 1..n
      BY <1>1, <1>8, <2>4, <3>1, <3>3 DEF TrailInv, n
    <3>. QED  BY <1>7, <3>2, <3>3
  <2>. QED  BY <1>6, <2>1, <2>2, <2>3, <2>4 DEF TrailInv
<1>14. LookedInv(frames', Finished(frames', visited'), circular')
  <2> SUFFICES ASSUME NEW i \in 1..(n+1), NEW u \in Out(frames'[i].node) \ frames'[i].left,
                      u \in Component(frames'[i].node) \ {frames'[i].node}
               PROVE  \/ u \in Finished(frames, visited)
                      \/ i < n + 1 /\ u = frames'[i+1].node
                      \/ HasCycle(frames'[i].node, circular)
    BY <1>4, <1>6, <1>12 DEF LookedInv
  <2>1. i \in 1..n
    BY <1>5, <1>6, <1>7
  <2>2. CASE i = n /\ u = w
    BY <1>5, <1>6, <1>9, <2>2
  <2>3. CASE ~(i = n /\ u = w)
    <3>1. u \in Out(frames[i].node) \ frames[i].left
      BY <1>3, <1>6, <1>8, <2>1, <2>3
    <3>2. \/ u \in Finished(frames, visited)
          \/ i < n /\ u = frames[i+1].node
          \/ HasCycle(frames[i].node, circular)
      BY <1>1, <1>8, <2>1, <3>1 DEF LookedInv, n
    <3>3. i < n => i + 1 \in 1..n /\ i < n + 1
      BY <1>3, <2>1
    <3>. QED  BY <1>8, <2>1, <3>2, <3>3
  <2>. QED  BY <2>2, <2>3
<1>. QED  BY <1>1, <1>4, <1>12, <1>13, <1>14, DetectUnmoved

LEMMA SkipNeighborKeeps ==
  ASSUME DetectInv, NEW w \in Nodes, Neighbor(w), w \in visited, UNCHANGED graphVars
  PROVE  DetectInv'
<1>1. /\ Detecting /\ frames # <<>>
      /\ TrailInv(frames, visited) /\ FoundInv(circular)
      /\ LookedInv(frames, Finished(frames, visited), circular)
      /\ FinishedInv(Finished(frames, visited), circular)
  BY DEF DetectInv, Detecting, Neighbor
<1> DEFINE n == Len(frames)
           rest == [frames EXCEPT ![n].left = @ \ {w}]
<1>2. frames \in Seq(Calls)
  BY <1>1 DEF TrailInv
<1>3. /\ n \in Nat \ {0} /\ Last(frames) = frames[n]
      /\ rest \in Seq(Calls) /\ Len(rest) = n
      /\ \A i \in 1..n : /\ rest[i].node = frames[i].node
                        /\ rest[i].left = IF i = n THEN frames[i].left \ {w} ELSE frames[i].left
  BY <1>1, <1>2, Looked
<1>4. /\ frames' = rest /\ visited' = visited /\ circular' = circular \union BackEdge(w)
      /\ w \in frames[n].left
  BY <1>3 DEF Neighbor
<1> HIDE DEF rest, n
<1>5. n \in 1..n /\ \A i \in 1..n : i < n => i + 1 \in 1..n
  BY <1>3
<1>6. w \in Out(frames[n].node)
  BY <1>1, <1>4, <1>5 DEF TrailInv, n
<1>7. /\ FoundInv(circular')
      /\ \A j \in 1..(n-1) : frames[j].node = w => HasCycle(frames[n].node, circular')
  <2>1. /\ FoundInv(circular \union BackEdge(w))
        /\ \A j \in 1..(Len(frames) - 1) : frames[j].node = w =>
             HasCycle(frames[Len(frames)].node, circular \union BackEdge(w))
    <3>1. w \in Out(frames[Len(frames)].node)
      BY <1>6 DEF n
    <3>. QED  BY <1>1, <3>1, BackEdgeIsCycle
  <2>. QED  BY <1>4, <2>1 DEF n
<1>8. \A v : HasCycle(v, circular) => HasCycle(v, circular')
  BY <1>4, MoreFound
<1>9. Finished(frames', visited') = Finished(frames, visited)
  <2>1. {rest[i].node : i \in 1..n} = {frames[i].node : i \in 1..n}
    <3>1. \A i \in 1..n : rest[i].node = frames[i].node
      BY <1>3
    <3>. QED  BY <3>1
  <2>2. Len(frames') = n
    BY <1>3, <1>4
  <2>. QED  BY <1>4, <2>1, <2>2 DEF Finished, n
<1>10. TrailInv(frames', visited')
  <2>1. \A i \in 1..n : rest[i].node \in visited /\ rest[i].left \subseteq Out(rest[i].node)
    BY <1>1, <1>3 DEF TrailInv, n
  <2>2. \A i \in 1..n : i < n => rest[i+1].node \in Out(rest[i].node)
    BY <1>1, <1>3, <1>5 DEF TrailInv, n
  <2>3. \A i, j \in 1..n : i < j =>
          rest[i].node # rest[j].node /\ rest[j].node \in Reached(rest[i].node)
    BY <1>1, <1>3 DEF TrailInv, n
  <2>4. visited' \in SUBSET Nodes
    BY <1>1, <1>4 DEF TrailInv
  <2>. QED  BY <1>3, <1>4, <2>1, <2>2, <2>3, <2>4 DEF TrailInv
<1>11. LookedInv(frames', Finished(frames', visited'), circular')
  <2> SUFFICES ASSUME NEW i \in 1..n, NEW u \in Out(frames[i].node) \ rest[i].left,
                      u \in Component(frames[i].node) \ {frames[i].node}
               PROVE  \/ u \in Finished(frames, visited)
                      \/ i < n /\ u = frames[i+1].node
                      \/ HasCycle(frames[i].node, circular')
    BY <1>3, <1>4, <1>5, <1>9 DEF LookedInv
  <2>1. CASE i = n /\ u = w
    <3>1. CASE \E j \in 1..n : frames[j].node = w
      <4>1. PICK j \in 1..n : frames[j].node = w
        BY <3>1
      <4>2. j \in 1..(n-1)
        <5>1. j # n
          BY <2>1, <4>1
        <5>. QED  BY <1>3, <5>1
      <4>. QED  BY <1>7, <2>1, <4>1, <4>2
    <3>2. CASE ~\E j \in 1..n : frames[j].node = w
      BY <2>1, <3>2 DEF Finished, n
    <3>. QED  BY <3>1, <3>2
  <2>2. CASE ~(i = n /\ u = w)
    <3>1. u \in Out(frames[i].node) \ frames[i].left
      BY <1>3, <2>2
    <3>. QED  BY <1>1, <1>8, <3>1 DEF LookedInv, n
  <2>. QED  BY <2>1, <2>2
<1>12. FinishedInv(Finished(frames', visited'), circular')
  BY <1>1, <1>8, <1>9 DEF FinishedInv
<1>. QED  BY <1>1, <1>7, <1>10, <1>11, <1>12, DetectUnmoved

(* A call that returns looked at every neighbor.                           *)
LEMMA ReturnKeeps ==
  ASSUME DetectInv, Return, UNCHANGED graphVars
  PROVE  DetectInv'
<1>1. /\ Detecting /\ frames # <<>>
      /\ TrailInv(frames, visited) /\ FoundInv(circular)
      /\ LookedInv(frames, Finished(frames, visited), circular)
      /\ FinishedInv(Finished(frames, visited), circular)
  BY DEF DetectInv, Detecting, Return
<1> DEFINE n == Len(frames)
           u == frames[n].node
           old == Finished(frames, visited)
           fin == Finished(frames', visited')
<1>2. n \in Nat \ {0} /\ Last(frames) = frames[n]
  BY <1>1, EmptySeq DEF TrailInv, Last
<1>3. \A i \in 1..(n-1) : i \in 1..n /\ i < n /\ i + 1 \in 1..n
  BY <1>2
<1>4. /\ frames' \in Seq(Calls) /\ Len(frames') = n - 1
      /\ \A i \in 1..(n-1) : frames'[i] = frames[i]
  <2>1. frames' = SubSeq(frames, 1, n - 1)
    BY DEF Return, Front
  <2>2. \A i \in 1..(n-1) : frames[i] \in Calls
    BY <1>1, <1>3, ElementOfSeq DEF TrailInv
  <2>3. 1 \in Int /\ n - 1 \in Int /\ (1 <= n - 1 => (n - 1) - 1 + 1 = n - 1) /\ (~(1 <= n - 1) => n - 1 = 0)
    <3> HIDE DEF n
    <3>. QED  BY <1>2
  <2>4. \A i \in 1..((n-1)-1+1) : frames'[i] = frames[1+i-1]
    BY <2>1, <2>2, <2>3, SubSeqProperties
  <2>5. \A i \in 1..(n-1) : i \in 1..((n-1)-1+1) /\ 1 + i - 1 = i
    BY <1>2
  <2>6. frames' \in Seq(Calls) /\ Len(frames') = n - 1
    BY <2>1, <2>2, <2>3, SubSeqProperties
  <2>. QED  BY <2>4, <2>5, <2>6
<1>5. visited' = visited /\ circular' = circular /\ frames[n].left = {}
  BY <1>2 DEF Return
<1>6. n \in 1..n /\ u \in visited /\ u \in Nodes
  BY <1>1, <1>2 DEF TrailInv
<1> HIDE DEF n
<1>7. u \notin old /\ fin = old \union {u}
  <2>1. \A i \in 1..(n-1) : frames[i].node # u
    BY <1>1, <1>3, <1>6 DEF TrailInv, n
  <2>2. \A i \in 1..n : i = n \/ i \in 1..(n-1)
    BY <1>2
  <2>3. {frames[i].node : i \in 1..n} = {frames'[i].node : i \in 1..(n-1)} \union {u}
    BY <1>3, <1>4, <1>6, <2>2
  <2>4. u \notin {frames'[i].node : i \in 1..(n-1)}
    BY <1>4, <2>1
  <2>. QED  BY <1>4, <1>5, <1>6, <2>3, <2>4 DEF Finished, n
<1>8. TrailInv(frames', visited')
  <2> DEFINE N(i) == frames'[i].node
  <2>1. \A i \in 1..(n-1) : N(i) \in visited /\ frames'[i].left \subseteq Out(N(i))
    BY <1>1, <1>3, <1>4 DEF TrailInv, n
  <2>2. \A i \in 1..(n-1) : i < n - 1 => N(i+1) \in Out(N(i))
    <3>1. \A i \in 1..(n-1) : i < n - 1 => i + 1 \in 1..(n-1)
      BY <1>2
    <3>. QED  BY <1>1, <1>3, <1>4, <3>1 DEF TrailInv, n
  <2>3. \A i, j \in 1..(n-1) : i < j => N(i) # N(j) /\ N(j) \in Reached(N(i))
    BY <1>1, <1>3, <1>4 DEF TrailInv, n
  <2>4. visited' \in SUBSET Nodes
    BY <1>1, <1>5 DEF TrailInv
  <2>. QED  BY <1>4, <1>5, <2>1, <2>2, <2>3, <2>4 DEF TrailInv
<1>9. LookedInv(frames', fin, circular')
  <2> SUFFICES ASSUME NEW i \in 1..(n-1), NEW w \in Out(frames[i].node) \ frames[i].left,
                      w \in Component(frames[i].node) \ {frames[i].node}
               PROVE  \/ w \in fin
                      \/ i < n - 1 /\ w = frames'[i+1].node
                      \/ HasCycle(frames[i].node, circular)
    BY <1>4, <1>5 DEF LookedInv
  <2>1. \/ w \in old
        \/ w = frames[i+1].node
        \/ HasCycle(frames[i].node, circular)
    BY <1>1, <1>3 DEF LookedInv, n
  <2>2. CASE i = n - 1
    <3>1. i + 1 = n
      BY <1>2, <2>2
    <3>. QED  BY <1>7, <2>1, <3>1
  <2>3. CASE i # n - 1
    <3>1. i + 1 \in 1..(n-1) /\ i < n - 1
      BY <1>2, <2>3
    <3>. QED  BY <1>4, <1>7, <2>1, <3>1
  <2>. QED  BY <2>2, <2>3
<1>10. ~HasCycle(u, circular) => Out(u) \intersect Component(u) \subseteq old \union {u}
  BY <1>1, <1>5, <1>6 DEF LookedInv, n
<1> HIDE DEF u, old, fin
<1>11. FinishedInv(fin, circular')
  <2>1. ASSUME NEW v \in fin, ~HasCycle(v, circular)
        PROVE  Out(v) \intersect Component(v) \subseteq fin \union {v}
    BY <1>1, <1>7, <1>10, <2>1 DEF FinishedInv, old
  <2>2. ASSUME NEW v \in Nodes, ~HasCycle(v, circular),
               NEW X \in SUBSET (fin \intersect Component(v)), X # {}
        PROVE  \E x \in X : Out(x) \intersect X \subseteq {x}
    <3>1. CASE u \notin X
      <4>1. X \in SUBSET (old \intersect Component(v))
        BY <1>7, <3>1
      <4>. QED  BY <1>1, <2>2, <4>1 DEF FinishedInv, old
    <3>2. CASE X = {u}
      BY <3>2
    <3>3. CASE u \in X /\ X # {u}
      <4>1. X \ {u} \in SUBSET (old \intersect Component(v)) /\ X \ {u} # {}
        BY <1>7, <3>3
      <4>2. PICK x \in X \ {u} : Out(x) \intersect (X \ {u}) \subseteq {x}
        <5>1. \A Y \in SUBSET (old \intersect Component(v)) :
                Y # {} => \E x \in Y : Out(x) \intersect Y \subseteq {x}
          BY <1>1, <2>2 DEF FinishedInv, old
        <5>. QED  BY <4>1, <5>1
      <4>3. x \in old /\ Component(x) = Component(v) /\ u \in Component(x)
        BY <3>3, <4>1, <4>2, SameComponent
      <4>4. ~HasCycle(x, circular)
        BY <2>2, <4>3 DEF HasCycle
      <4>5. Out(x) \intersect Component(x) \subseteq old \union {x}
        BY <1>1, <4>3, <4>4 DEF FinishedInv, old
      <4>6. u \notin Out(x)
        BY <1>7, <4>2, <4>3, <4>5
      <4>. QED  BY <4>2, <4>6
    <3>. QED  BY <3>1, <3>2, <3>3
  <2>. QED  BY <1>5, <2>1, <2>2 DEF FinishedInv
<1>. QED  BY <1>1, <1>5, <1>8, <1>9, <1>11, DetectUnmoved DEF fin

LEMMA InitDetect == Init => DetectInv
<1> SUFFICES ASSUME Init PROVE DetectInv
  OBVIOUS
<1>1. frames = <<>> /\ Len(frames) = 0 /\ visited = {} /\ circular = {}
  BY DEF Init, CycleInit
<1>2. TrailInv(frames, visited)
  BY <1>1, EmptySeq DEF TrailInv
<1>3. Finished(frames, visited) = {}
  BY <1>1 DEF Finished
<1>. QED  BY <1>1, <1>2, <1>3 DEF DetectInv, FoundInv, LookedInv, FinishedInv

(* The other analyses leave the search alone. *)
LEMMA DetectInvKept ==
  ASSUME DetectInv, UNCHANGED graphVars, UNCHANGED dfsVars
  PROVE  DetectInv'
<1>1. frames' = frames /\ visited' = visited /\ circular' = circular /\ running' = running
  BY DEF graphVars, dfsVars
<1>2. CASE Detecting
  BY <1>1, <1>2, DetectUnmoved DEF DetectInv
<1>3. CASE ~Detecting
  BY <1>1, <1>3 DEF DetectInv, Detecting
<1>. QED  BY <1>2, <1>3

LEMMA NextDetect == DetectInv /\ [Next]_allVars => DetectInv'
<1> SUFFICES ASSUME DetectInv, [Next]_allVars PROVE DetectInv'
  OBVIOUS
<1>1. CASE UNCHANGED graphVars /\ \E v \in Nodes : StartFile(v) \/ Neighbor(v)
  BY <1>1, StartFileKeeps, CallNeighborKeeps, SkipNeighborKeeps
<1>2. CASE UNCHANGED graphVars /\ Return
  BY <1>2, ReturnKeeps
<1>3. CASE UNCHANGED graphVars /\ UNCHANGED dfsVars
  BY <1>3, DetectInvKept
<1>4. CASE Next /\ (NextRoot \/ EnterNode \/ ResumeNode)
  BY <1>3, <1>4 DEF Next, NextRoot, EnterNode, ResumeNode
<1>. QED  BY <1>1, <1>2, <1>3, <1>4 DEF Next, CycleStep, allVars, cycleVars

(* In a component of two nodes or more, each leads to another of them.     *)
LEMMA ComponentGoesOn ==
  ASSUME NEW v \in Nodes, NEW w \in Component(v), w # v, NEW x \in Component(v)
  PROVE  \E y \in Out(x) \intersect Component(v) : y # x
<1>1. \A a, b \in Component(v) : a # b => a \in Reached(b)
  BY SameComponent DEF Component
<1>2. PICK y \in Component(v) : y # x
  BY DEF Component
<1>3. y \in Reached(x) /\ x \in Reached(y)
  BY <1>1, <1>2
<1> SUFFICES ASSUME Out(x) \intersect Component(v) \subseteq {x} PROVE FALSE
  OBVIOUS
<1> DEFINE S == {x} \union {u \in Nodes : x \notin Reached(u)}
<1>4. Out(x) \subseteq S
  <2> SUFFICES ASSUME NEW u \in Out(x), u # x, x \in Reached(u) PROVE FALSE
    BY DEF Out
  <2>1. u \in Component(x)
    BY ReachedClosed DEF Component
  <2>. QED  BY <2>1, SameComponent
<1>5. Closed(S)
  <2> SUFFICES ASSUME NEW u \in Nodes, x \notin Reached(u), NEW t \in Out(u)
               PROVE  t \in S
    BY <1>4 DEF Closed
  <2>1. t \in Reached(u) /\ t \in Nodes
    BY ReachedClosed DEF Out
  <2>. QED  BY <2>1, ReachedOfReached
<1>6. x \in Nodes
  BY ReachedClosed DEF Component
<1>7. Reached(x) \subseteq S
  BY <1>4, <1>5, <1>6, ReachedLeast
<1>. QED  BY <1>2, <1>3, <1>7

(* When every file is finished, a component in which no cycle was found    *)
(* has an order without cycles, so it is one node.                         *)
LEMMA DetectIsComplete ==
  ASSUME DetectInv
  PROVE  CircularFound
<1> SUFFICES ASSUME CircularDone PROVE CircularFound
  BY DEF CircularFound
<1>1. /\ frames = <<>> /\ FoundInv(circular)
      /\ FinishedInv(Finished(frames, visited), circular)
  BY DEF DetectInv, Detecting, CircularDone
<1>2. Finished(frames, visited) = visited
  BY <1>1 DEF Finished
<1>3. ASSUME NEW v \in Nodes, Cardinality(Component(v)) >= 2
      PROVE  HasCycle(v, circular)
  <2>1. v \in Component(v) /\ Component(v) \in SUBSET Nodes
    BY ReachedClosed DEF Component
  <2>2. PICK w \in Component(v) : w # v
    <3>1. Component(v) # {v}
      BY <1>3, FS_Singleton
    <3>. QED  BY <2>1, <3>1
  <2>3. \A x \in Component(v) : \E y \in Out(x) \intersect Component(v) : y # x
    BY <2>2, ComponentGoesOn
  <2>4. Component(v) \subseteq visited
    BY <2>1, <2>3 DEF CircularDone
  <2> SUFFICES ASSUME ~HasCycle(v, circular) PROVE FALSE
    OBVIOUS
  <2>5. \A X \in SUBSET (visited \intersect Component(v)) :
          X # {} => \E x \in X : Out(x) \intersect X \subseteq {x}
    BY <1>1, <1>2 DEF FinishedInv
  <2>6. PICK x \in Component(v) : Out(x) \intersect Component(v) \subseteq {x}
    BY <2>1, <2>4, <2>5
  <2>. QED  BY <2>3, <2>6
<1>. QED  BY <1>1, <1>3 DEF CircularFound, FoundInv, HasCycle

(* detect_circular_dependencies reports a cycle within every component of  *)
(* two files or more, although it looks at every file once and in any      *)
(* order, and reports nothing that is not a cycle.                         *)
THEOREM CircularCorrect == Spec => []CircularFound
BY InitDetect, NextDetect, DetectIsComplete, PTL DEF Spec

-----------------------------------------------------------------------------
(* find_cycles.  The invariants are about the values of the variables, so  *)
(* that a step is a relation between two lists of values.                  *)

Finding == running = "find_cycles"

(* The nodes on the path from the root to the node that is entered next:   *)
(* those still to be resumed.                                              *)
Opened(wk) == {wk[i].node : i \in {j \in 1..Len(wk) : wk[j].item = "Resume"}}

(* The nodes of the components found so far. *)
Popped(sc) == UNION {ToSet(scc) : scc \in ToSet(sc)}

Leads(v, w) == w = v \/ w \in Reached(v)

WorkItems == [item : {"Enter", "Resume"}, node : Nodes]

(* A node to be resumed leads to all that is to be done before, and has an *)
(* edge to what comes next.  What is above it on the stack is above it in  *)
(* the work list, and was entered later.                                   *)
WorkInv(wk, idx, on) ==
  /\ wk \in Seq(WorkItems)
  /\ \A i, j \in 1..Len(wk) : i < j /\ wk[i].item = "Resume" =>
       /\ wk[j].node # wk[i].node
       /\ wk[j].node \in Reached(wk[i].node)
       /\ wk[j].node \in on => idx[wk[i].node] < idx[wk[j].node]
       /\ (\A k \in (i+1)..(j-1) : wk[k].item # "Resume") => wk[j].node \in Out(wk[i].node)

NumberInv(n, idx, low) ==
  /\ n \in Nat
  /\ DOMAIN idx \in SUBSET Nodes
  /\ idx \in [DOMAIN idx -> Nat] /\ low \in [DOMAIN idx -> Nat]
  /\ \A v \in DOMAIN idx : idx[v] < n /\ low[v] <= idx[v]

(* The stack above the topmost x is what was entered after x; an x that is *)
(* there twice is not going to be popped.                                  *)
IsTop(t, x, st, idx, low) ==
  /\ st[t] = x
  /\ \A i \in 1..Len(st) : i < t => st[i] = x \/ idx[st[i]] < idx[x]
  /\ \A i \in 1..Len(st) : i > t => idx[st[i]] > idx[x]
  /\ \A i \in 1..(t-1) : st[i] = x => low[x] < idx[x]

StackInv(st, on, idx, low, open) ==
  /\ st \in Seq(Nodes)
  /\ on = {st[i] : i \in 1..Len(st)} /\ on \subseteq DOMAIN idx /\ open \subseteq on
  /\ \A x \in open : \E t \in 1..Len(st) : IsTop(t, x, st, idx, low)

(* What is on the stack is led to by the open nodes that were entered      *)
(* before it, and leads back to one of them.                               *)
ForthInv(on, idx, open) ==
  \A w \in on, x \in open : idx[x] <= idx[w] => Leads(x, w)

BackInv(on, idx, open) ==
  \A w \in on : \E x \in open : idx[x] <= idx[w] /\ Leads(w, x)

(* A lowlink below an open node is a way to an open node before that one.  *)
LowInv(on, idx, low, open) ==
  \A w \in on, x \in open : low[w] < idx[x] =>
    \E p \in open : idx[p] < idx[x] /\ Leads(w, p)

(* The lowlink of an open node is the one it got when it was entered.      *)
EntryInv(on, idx, low, open) ==
  \A y \in open :
    /\ \A z \in Out(y) \intersect on : idx[z] < idx[y] => low[y] <= idx[z]
    /\ \A x \in open : idx[x] <= idx[y] /\ low[y] < idx[x] =>
         \E z \in Out(y) \intersect on : idx[z] < idx[x]

(* The lowlink of c is below x, or will be when c, entered again, is       *)
(* resumed in the next step.                                               *)
LowBelow(c, x, wk, on, idx, low) ==
  \/ low[c] < idx[x]
  \/ /\ wk # <<>> /\ wk[Len(wk)] = Resume(c)
     /\ \E d \in (Out(c) \intersect on) \ {c} : low[d] < idx[x]

(* A node that is entered again gets the lowlink back from its neighbors.  *)
AgainInv(wk, on, idx, low, open) ==
  \A c \in on \ open, x \in open : idx[x] < idx[c] /\ low[c] < idx[x] =>
    \E z \in (Out(c) \intersect on) \ {c} : idx[z] < idx[x] \/ LowBelow(z, x, wk, on, idx, low)

(* What was resumed since y was entered, up to the next open node.         *)
Segment(y, on, idx, open) ==
  {w \in on : idx[y] < idx[w] /\ \A x \in open : ~(idx[y] < idx[x] /\ idx[x] <= idx[w])}

(* If there is an edge from there to below an open x, y learns it from the *)
(* lowlink of a neighbor.                                                  *)
SegmentInv(wk, on, idx, low, open) ==
  \A x, y \in open : idx[x] <= idx[y] =>
    \A w \in Segment(y, on, idx, open) : \A z \in Out(w) \intersect on : idx[z] < idx[x] =>
      \E c \in Out(y) \intersect on : idx[y] < idx[c] /\ LowBelow(c, x, wk, on, idx, low)

(* Nothing an entered node has an edge to is forgotten. *)
EnteredInv(wk, idx) ==
  \A v \in DOMAIN idx : \A z \in Out(v) \ DOMAIN idx :
    \E i, j \in 1..Len(wk) : i < j /\ wk[i] = Resume(v) /\ wk[j] = Enter(z)

(* Nothing leads out of what was popped; if a node of it is entered again  *)
(* it is popped again in the next step.                                    *)
PoppedInv(wk, idx, low, on, gone) ==
  /\ gone \union on = DOMAIN idx
  /\ \A v \in gone : Out(v) \subseteq gone
  /\ \A v \in gone \intersect on : wk # <<>> /\ wk[Len(wk)] = Resume(v) /\ low[v] = idx[v]

(* Every node that was popped was popped with its whole component once,    *)
(* and never with a node of another.                                       *)
ComponentsInv(sc) ==
  /\ sc \in Seq(Seq(Nodes))
  /\ \A v \in Popped(sc) : \E scc \in ToSet(sc) : ToSet(scc) = Component(v)
  /\ \A scc \in ToSet(sc) :
       /\ scc # <<>>
       /\ \E v \in ToSet(scc) : /\ ToSet(scc) \subseteq Component(v)
                                /\ Len(scc) >= 2 => v \in Reached(v)

FindInv(wk, n, idx, low, st, on, gone) ==
  /\ WorkInv(wk, idx, on)
  /\ NumberInv(n, idx, low)
  /\ StackInv(st, on, idx, low, Opened(wk))
  /\ ForthInv(on, idx, Opened(wk)) /\ BackInv(on, idx, Opened(wk))
  /\ LowInv(on, idx, low, Opened(wk)) /\ EntryInv(on, idx, low, Opened(wk))
  /\ AgainInv(wk, on, idx, low, Opened(wk)) /\ SegmentInv(wk, on, idx, low, Opened(wk))
  /\ EnteredInv(wk, idx) /\ PoppedInv(wk, idx, low, on, gone)

TarjanInv ==
  Finding =>
    /\ FindInv(work, counter, indices, lowlinks, stack, onStack, Popped(sccs))
    /\ ComponentsInv(sccs)

(* Ways along the edges. *)
LEMMA LeadsOn ==
  ASSUME NEW u, NEW v, NEW w, Leads(u, v), Leads(v, w)
  PROVE  Leads(u, w)
BY ReachedOfReached DEF Leads

LEMMA LeadsOut ==
  ASSUME NEW u, NEW v \in Out(u), NEW w, Leads(v, w)
  PROVE  Leads(u, w) /\ w \in Reached(u)
BY ReachedClosed, ReachedOfReached DEF Leads

(* A way out of v starts with an edge to another node. *)
LEMMA FirstStep ==
  ASSUME NEW v \in Nodes, NEW w, Leads(v, w), w # v
  PROVE  \E z \in Out(v) \ {v} : Leads(z, w)
<1> DEFINE S == {v} \union {u \in Nodes : \E z \in Out(v) \ {v} : Leads(z, u)}
<1>1. Out(v) \subseteq S
  BY DEF Out, Leads
<1>2. Closed(S)
  <2> SUFFICES ASSUME NEW u \in Nodes, NEW z \in Out(v) \ {v}, Leads(z, u), NEW t \in Out(u)
               PROVE  t \in S
    BY <1>1 DEF Closed
  <2>1. Leads(z, t)
    BY LeadsOut, LeadsOn DEF Leads
  <2>. QED  BY <2>1 DEF Out
<1>3. Reached(v) \subseteq S
  BY <1>1, <1>2, ReachedLeast
<1>. QED  BY <1>3 DEF Leads

(* What a set that nothing leads out of leads to. *)
LEMMA LeadsWithin ==
  ASSUME NEW S \in SUBSET Nodes, \A u \in S : Out(u) \subseteq S,
         NEW v \in S, NEW w, Leads(v, w)
  PROVE  w \in S
<1>1. Out(v) \subseteq S /\ Closed(S)
  BY DEF Closed
<1>2. Reached(v) \subseteq S
  BY <1>1, ReachedLeast
<1>. QED  BY <1>2 DEF Leads

LEMMA LowestOf ==
  ASSUME NEW S \in SUBSET Nat, S # {}
  PROVE  Lowest(S) \in S /\ \A x \in S : Lowest(S) <= x
BY LeastNumber DEF Lowest

-----------------------------------------------------------------------------
(* A node is entered.                                                      *)

(* wk2 is wk with the item on top replaced by the resumption of v and what *)
(* it leads to that was not entered.                                       *)
Entering(v, wk, wk2, idx) ==
  /\ wk2 \in Seq(WorkItems) /\ Len(wk) <= Len(wk2)
  /\ \A i \in 1..(Len(wk)-1) : wk2[i] = wk[i]
  /\ wk2[Len(wk)] = Resume(v)
  /\ \A i \in (Len(wk)+1)..Len(wk2) :
       \E u \in Out(v) \ (DOMAIN idx \union {v}) : wk2[i] = Enter(u)
  /\ \A u \in Out(v) \ (DOMAIN idx \union {v}) :
       \E i \in (Len(wk)+1)..Len(wk2) : wk2[i] = Enter(u)

LEMMA EnterKeeps ==
  ASSUME NEW wk, NEW n, NEW idx, NEW low, NEW st, NEW on, NEW gone,
         FindInv(wk, n, idx, low, st, on, gone),
         NEW v \in Nodes, wk # <<>>, wk[Len(wk)] = Enter(v),
         NEW wk2, Entering(v, wk, wk2, idx),
         NEW idx2, idx2 = With(idx, v, n),
         NEW L, NEW low2, low2 = With(low, v, L),
         \A w \in (Out(v) \intersect (on \union {v})) \union {v} : L <= idx2[w],
         \E w \in (Out(v) \intersect (on \union {v})) \union {v} : L = idx2[w]
  PROVE  FindInv(wk2, n + 1, idx2, low2, Append(st, v), on \union {v}, gone)
<1> DEFINE m == Len(wk)
           open == Opened(wk)
           open2 == Opened(wk2)
           on2 == on \union {v}
           st2 == Append(st, v)
<1>1. /\ WorkInv(wk, idx, on) /\ NumberInv(n, idx, low) /\ StackInv(st, on, idx, low, open)
      /\ ForthInv(on, idx, open) /\ BackInv(on, idx, open)
      /\ LowInv(on, idx, low, open) /\ EntryInv(on, idx, low, open)
      /\ AgainInv(wk, on, idx, low, open) /\ SegmentInv(wk, on, idx, low, open)
      /\ EnteredInv(wk, idx) /\ PoppedInv(wk, idx, low, on, gone)
  BY DEF FindInv
<1>2. /\ m \in Nat \ {0} /\ wk \in Seq(WorkItems)
      /\ \A i \in 1..m : wk[i].item \in {"Enter", "Resume"} /\ wk[i].node \in Nodes
      /\ wk[m].item = "Enter" /\ wk[m].node = v
  <2>1. wk \in Seq(WorkItems)
    BY <1>1 DEF WorkInv
  <2>2. m \in Nat \ {0}
    BY <2>1, EmptySeq
  <2>3. \A i \in 1..m : wk[i] \in WorkItems
    BY <2>1
  <2>. QED  BY <2>1, <2>2, <2>3 DEF WorkItems, Enter
(* The values after the step. *)
<1>3. /\ DOMAIN idx2 = DOMAIN idx \union {v} /\ idx2[v] = n
      /\ \A w \in DOMAIN idx : w # v => idx2[w] = idx[w]
      /\ low2[v] = L
      /\ \A w \in DOMAIN idx : w # v => low2[w] = low[w]
      /\ DOMAIN low2 = DOMAIN idx \union {v}
  BY <1>1 DEF With, NumberInv
<1>4. /\ n \in Nat /\ DOMAIN idx \in SUBSET Nodes /\ on \subseteq DOMAIN idx
      /\ \A w \in DOMAIN idx : idx[w] \in Nat /\ low[w] \in Nat /\ idx[w] < n /\ low[w] <= idx[w]
  BY <1>1 DEF NumberInv, StackInv
<1>5. \A w \in DOMAIN idx2 : idx2[w] \in Nat /\ idx2[w] <= n
  BY <1>3, <1>4
<1>6. /\ Len(wk2) \in Nat /\ m <= Len(wk2)
      /\ \A i \in 1..(m-1) : wk2[i] = wk[i]
      /\ wk2[m].item = "Resume" /\ wk2[m].node = v
      /\ \A i \in (m+1)..Len(wk2) : wk2[i].item = "Enter" /\ wk2[i].node \in Out(v)
                                    /\ wk2[i].node \notin DOMAIN idx2
  <2>1. Len(wk2) \in Nat /\ m <= Len(wk2) /\ \A i \in 1..(m-1) : wk2[i] = wk[i]
    BY DEF Entering
  <2>2. wk2[m].item = "Resume" /\ wk2[m].node = v
    BY DEF Entering, Resume
  <2>3. ASSUME NEW i \in (m+1)..Len(wk2)
        PROVE  wk2[i].item = "Enter" /\ wk2[i].node \in Out(v) /\ wk2[i].node \notin DOMAIN idx2
    <3>1. PICK u \in Out(v) \ (DOMAIN idx \union {v}) : wk2[i] = Enter(u)
      BY DEF Entering
    <3>. QED  BY <1>3, <3>1 DEF Enter
  <2>. QED  BY <2>1, <2>2, <2>3
<1>7. /\ open2 = open \union {v}
      /\ \A x \in open : x \in on /\ x # v /\ v \in Reached(x) /\ (v \in on => idx[x] < idx[v])
  <2>1. \A x \in open : \E i \in 1..(m-1) : wk[i].item = "Resume" /\ wk[i].node = x
    BY <1>2 DEF Opened
  <2>2. \A x \in open : \E i \in 1..(m-1) : wk2[i].item = "Resume" /\ wk2[i].node = x
    BY <1>6, <2>1
  <2>3. ASSUME NEW x \in open2 PROVE x \in open \union {v}
    <3>1. PICK i \in 1..Len(wk2) : wk2[i].item = "Resume" /\ wk2[i].node = x
      BY DEF Opened
    <3>2. i <= m
      BY <1>2, <1>6, <3>1
    <3>3. CASE i = m
      BY <1>6, <3>1, <3>3
    <3>4. CASE i < m
      BY <1>2, <1>6, <3>1, <3>4 DEF Opened
    <3>. QED  BY <1>2, <3>2, <3>3, <3>4
  <2>4. open \union {v} \subseteq open2
    BY <1>2, <1>6, <2>2 DEF Opened
  <2>5. open2 = open \union {v}
    BY <2>3, <2>4
  <2>6. \A i \in 1..(m-1) : i \in 1..m /\ i < m /\ m \in 1..m
    BY <1>2
  <2>7. \A x \in open : x # v /\ v \in Reached(x) /\ (v \in on => idx[x] < idx[v])
    BY <1>1, <1>2, <2>1, <2>6 DEF WorkInv
  <2>. QED  BY <1>1, <2>5, <2>7 DEF StackInv
<1>8. v \notin open /\ \A x \in open : idx2[x] = idx[x] /\ low2[x] = low[x] /\ x \in DOMAIN idx
                                       /\ idx2[x] < n
  BY <1>3, <1>4, <1>7
<1>9. gone \intersect on = {}
  BY <1>1, <1>2 DEF PoppedInv, Resume
<1>10. v \in DOMAIN idx => Out(v) \subseteq DOMAIN idx
  <2>1. \A i \in 1..m : wk[i] # Resume(v)
    BY <1>2, <1>8 DEF Opened, Resume
  <2>. QED  BY <1>1, <2>1 DEF EnteredInv
<1>11. /\ L \in Nat /\ L <= n
       /\ \A z \in Out(v) \intersect on : L <= idx2[z]
       /\ L = n \/ \E z \in Out(v) \intersect on : z # v /\ L = idx[z]
  <2>1. PICK w \in (Out(v) \intersect on2) \union {v} : L = idx2[w]
    OBVIOUS
  <2>2. w \in DOMAIN idx2
    BY <1>3, <1>4
  <2>3. L \in Nat /\ L <= n
    BY <1>5, <2>1, <2>2
  <2>4. L = n \/ \E z \in Out(v) \intersect on : z # v /\ L = idx[z]
    BY <1>3, <1>4, <2>1
  <2>. QED  BY <2>3, <2>4
(* A node that is entered again before it is popped has a neighbor on the  *)
(* stack.                                                                  *)
<1>12. v \in on => L < n
  <2> SUFFICES ASSUME v \in on PROVE L < n
    OBVIOUS
  <2>1. PICK x \in open : Leads(v, x)
    BY <1>1 DEF BackInv
  <2>2. PICK z \in Out(v) \ {v} : Leads(z, x)
    BY <1>7, <2>1, FirstStep
  <2>3. z \in DOMAIN idx
    BY <1>4, <1>10
  <2>4. z \notin gone
    <3> SUFFICES ASSUME z \in gone PROVE FALSE
      OBVIOUS
    <3>1. gone \in SUBSET Nodes /\ \A u \in gone : Out(u) \subseteq gone
      BY <1>1, <1>4 DEF PoppedInv
    <3>2. x \in gone
      BY <2>2, <3>1, LeadsWithin
    <3>. QED  BY <1>7, <1>9, <3>2
  <2>5. z \in on
    BY <1>1, <2>3, <2>4 DEF PoppedInv
  <2>6. L <= idx2[z] /\ idx2[z] = idx[z] /\ idx[z] < n
    BY <1>3, <1>4, <1>11, <2>2, <2>3, <2>5
  <2>. QED  BY <1>4, <1>11, <2>3, <2>6
<1> HIDE DEF m, open, open2, on2, st2
<1>13. NumberInv(n + 1, idx2, low2)
  <2>1. idx2 \in [DOMAIN idx2 -> Nat] /\ low2 \in [DOMAIN idx2 -> Nat]
    <3>1. \A w \in DOMAIN idx2 : idx2[w] \in Nat /\ low2[w] \in Nat
      BY <1>3, <1>4, <1>11
    <3>. QED  BY <1>3, <3>1 DEF With
  <2>2. \A w \in DOMAIN idx2 : idx2[w] < n + 1 /\ low2[w] <= idx2[w]
    BY <1>3, <1>4, <1>11
  <2>. QED  BY <1>3, <1>4, <2>1, <2>2 DEF NumberInv
<1>14. StackInv(st2, on2, idx2, low2, open2)
  <2>1. /\ st \in Seq(Nodes) /\ Len(st) \in Nat
        /\ on = {st[i] : i \in 1..Len(st)} /\ \A i \in 1..Len(st) : st[i] \in on
    BY <1>1 DEF StackInv
  <2>2. /\ st2 \in Seq(Nodes) /\ Len(st2) = Len(st) + 1 /\ st2[Len(st) + 1] = v
        /\ \A i \in 1..Len(st) : st2[i] = st[i]
    BY <2>1 DEF st2
  <2>3. on2 = {st2[i] : i \in 1..Len(st2)} /\ on2 \subseteq DOMAIN idx2 /\ open2 \subseteq on2
    <3>1. \A i \in 1..Len(st2) : st2[i] \in on2
      BY <2>1, <2>2 DEF on2
    <3>2. \A i \in 1..Len(st) : i \in 1..Len(st2)
      BY <2>1, <2>2
    <3>3. Len(st) + 1 \in 1..Len(st2)
      BY <2>1, <2>2
    <3>4. \A x \in on2 : \E i \in 1..Len(st2) : st2[i] = x
      BY <2>1, <2>2, <3>2, <3>3 DEF on2
    <3>5. on2 = {st2[i] : i \in 1..Len(st2)}
      BY <3>1, <3>4
    <3>6. on2 \subseteq DOMAIN idx2 /\ open2 \subseteq on2
      BY <1>3, <1>4, <1>7 DEF on2
    <3>. QED  BY <3>5, <3>6
  <2>4. ASSUME NEW x \in open
        PROVE  \E t \in 1..Len(st2) : IsTop(t, x, st2, idx2, low2)
    <3>1. PICK t \in 1..Len(st) : IsTop(t, x, st, idx, low)
      BY <1>1 DEF StackInv
    <3>2. \A i \in 1..Len(st) : st[i] = v => i > t
      <4> SUFFICES ASSUME NEW i \in 1..Len(st), st[i] = v PROVE i > t
        OBVIOUS
      <4>1. v # x /\ idx[x] < idx[v] /\ idx[x] \in Nat /\ idx[v] \in Nat
        BY <1>4, <1>7, <2>1
      <4>2. i # t /\ ~(i < t)
        BY <3>1, <4>1 DEF IsTop
      <4>. QED  BY <2>1, <4>2
    <3>3. st2[t] = x
      BY <2>2, <3>1 DEF IsTop
    <3>4. \A i \in 1..Len(st2) : i < t => st2[i] = x \/ idx2[st2[i]] < idx2[x]
      <4> SUFFICES ASSUME NEW i \in 1..Len(st2), i < t PROVE st2[i] = x \/ idx2[st2[i]] < idx2[x]
        OBVIOUS
      <4>1. i \in 1..Len(st) /\ st2[i] = st[i] /\ st[i] # v
        BY <2>1, <2>2, <3>2
      <4>2. st[i] = x \/ idx[st[i]] < idx[x]
        BY <3>1, <4>1 DEF IsTop
      <4>. QED  BY <1>3, <1>4, <1>8, <2>1, <4>1, <4>2
    <3>5. \A i \in 1..Len(st2) : i > t => idx2[st2[i]] > idx2[x]
      <4> SUFFICES ASSUME NEW i \in 1..Len(st2), i > t PROVE idx2[st2[i]] > idx2[x]
        OBVIOUS
      <4>1. CASE st2[i] = v
        BY <1>3, <1>4, <1>8, <4>1
      <4>2. CASE st2[i] # v
        <5>1. i \in 1..Len(st) /\ st2[i] = st[i]
          <6>1. i # Len(st) + 1
            BY <2>2, <4>2
          <6>2. \A k \in Nat : \A j \in 1..(k + 1) : j # k + 1 => j \in 1..k
            OBVIOUS
          <6>. QED  BY <2>1, <2>2, <6>1, <6>2
        <5>2. idx[st[i]] > idx[x] /\ st[i] \in DOMAIN idx
          BY <1>4, <2>1, <3>1, <5>1 DEF IsTop
        <5>. QED  BY <1>3, <1>8, <4>2, <5>1, <5>2
      <4>. QED  BY <4>1, <4>2
    <3>6. \A i \in 1..(t-1) : st2[i] = x => low2[x] < idx2[x]
      <4>1. \A i \in 1..(t-1) : st[i] = x => low[x] < idx[x]
        BY <3>1 DEF IsTop
      <4>2. \A i \in 1..(t-1) : st2[i] = st[i]
        BY <2>1, <2>2
      <4>. QED  BY <1>8, <4>1, <4>2
    <3>. QED  BY <2>1, <2>2, <3>3, <3>4, <3>5, <3>6 DEF IsTop
  <2>5. IsTop(Len(st2), v, st2, idx2, low2)
    <3>0. /\ \A i \in 1..Len(st2) : i < Len(st2) => i \in 1..Len(st)
          /\ \A i \in 1..(Len(st2)-1) : i \in 1..Len(st)
      BY <2>1, <2>2
    <3>1. \A i \in 1..Len(st2) : i < Len(st2) => st2[i] = v \/ idx2[st2[i]] < idx2[v]
      BY <1>3, <1>4, <2>1, <2>2, <3>0
    <3>2. \A i \in 1..(Len(st2)-1) : st2[i] = v => low2[v] < idx2[v]
      BY <1>3, <1>12, <2>1, <2>2, <3>0
    <3>. QED  BY <2>1, <2>2, <3>1, <3>2 DEF IsTop
  <2>. QED  BY <1>7, <2>1, <2>2, <2>3, <2>4, <2>5 DEF StackInv
<1>15. ForthInv(on2, idx2, open2)
  <2> SUFFICES ASSUME NEW w \in on2, NEW x \in open2, idx2[x] <= idx2[w] PROVE Leads(x, w)
    BY DEF ForthInv
  <2>1. CASE w = v
    BY <1>7, <2>1 DEF Leads
  <2>2. CASE w # v
    <3>1. w \in on /\ idx2[w] = idx[w] /\ idx[w] < n /\ idx[w] \in Nat
      BY <1>3, <1>4, <2>2 DEF on2
    <3>2. x \in open
      BY <1>3, <1>4, <1>7, <3>1
    <3>. QED  BY <1>1, <1>8, <3>1, <3>2 DEF ForthInv
  <2>. QED  BY <2>1, <2>2
<1>16. BackInv(on2, idx2, open2)
  <2> SUFFICES ASSUME NEW w \in on2 PROVE \E x \in open2 : idx2[x] <= idx2[w] /\ Leads(w, x)
    BY DEF BackInv
  <2>1. CASE w = v
    BY <1>3, <1>4, <1>7, <2>1 DEF Leads
  <2>2. CASE w # v
    <3>1. w \in on /\ idx2[w] = idx[w]
      BY <1>3, <1>4, <2>2 DEF on2
    <3>2. PICK x \in open : idx[x] <= idx[w] /\ Leads(w, x)
      BY <1>1, <3>1 DEF BackInv
    <3>. QED  BY <1>7, <1>8, <3>1, <3>2
  <2>. QED  BY <2>1, <2>2
<1>17. LowInv(on2, idx2, low2, open2)
  <2> SUFFICES ASSUME NEW w \in on2, NEW x \in open2, low2[w] < idx2[x]
               PROVE  \E p \in open2 : idx2[p] < idx2[x] /\ Leads(w, p)
    BY DEF LowInv
  <2>1. CASE w # v /\ x = v
    <3>1. w \in on
      BY <2>1 DEF on2
    <3>2. PICK p \in open : Leads(w, p)
      BY <1>1, <3>1 DEF BackInv
    <3>. QED  BY <1>3, <1>7, <1>8, <2>1, <3>2
  <2>2. CASE w # v /\ x # v
    <3>1. w \in on /\ x \in open /\ low2[w] = low[w] /\ idx2[x] = idx[x]
      BY <1>3, <1>4, <1>7, <1>8, <2>2 DEF on2
    <3>2. PICK p \in open : idx[p] < idx[x] /\ Leads(w, p)
      BY <1>1, <3>1 DEF LowInv
    <3>. QED  BY <1>7, <1>8, <3>1, <3>2
  <2>3. CASE w = v
    <3>1. idx2[x] <= n /\ idx2[x] \in Nat
      BY <1>3, <1>4, <1>7, <1>8
    <3>2. PICK z \in Out(v) \intersect on : L = idx[z]
      BY <1>3, <1>4, <1>11, <2>3, <3>1
    <3>3. PICK p \in open : idx[p] <= idx[z] /\ Leads(z, p)
      BY <1>1, <3>2 DEF BackInv
    <3>4. Leads(v, p)
      BY <3>2, <3>3, LeadsOut
    <3>5. idx2[p] = idx[p] /\ idx[p] \in Nat /\ idx[z] \in Nat /\ p \in open2
      BY <1>4, <1>7, <1>8, <3>2
    <3>. QED  BY <1>3, <2>3, <3>1, <3>2, <3>3, <3>4, <3>5
  <2>. QED  BY <2>1, <2>2, <2>3
<1>18. EntryInv(on2, idx2, low2, open2)
  <2>1. ASSUME NEW z \in Out(v) \intersect on2 PROVE L <= idx2[z]
    BY DEF on2
  <2>2. ASSUME NEW x \in open2, L < idx2[x]
        PROVE  \E z \in Out(v) \intersect on2 : idx2[z] < idx2[x]
    <3>1. idx2[x] <= n /\ idx2[x] \in Nat
      BY <1>3, <1>4, <1>7, <1>8
    <3>2. PICK z \in Out(v) \intersect on : z # v /\ L = idx[z]
      BY <1>4, <1>11, <2>2, <3>1
    <3>. QED  BY <1>3, <1>4, <2>2, <3>2 DEF on2
  <2>3. ASSUME NEW y \in open, NEW z \in Out(y) \intersect on2, idx2[z] < idx2[y]
        PROVE  low2[y] <= idx2[z]
    <3>1. z # v
      BY <1>3, <1>4, <1>8, <2>3
    <3>2. z \in on /\ idx2[z] = idx[z]
      BY <1>3, <1>4, <3>1 DEF on2
    <3>. QED  BY <1>1, <1>8, <2>3, <3>2 DEF EntryInv
  <2>4. ASSUME NEW y \in open, NEW x \in open2, idx2[x] <= idx2[y], low2[y] < idx2[x]
        PROVE  \E z \in Out(y) \intersect on2 : idx2[z] < idx2[x]
    <3>1. x \in open
      BY <1>3, <1>4, <1>7, <1>8, <2>4
    <3>2. PICK z \in Out(y) \intersect on : idx[z] < idx[x]
      BY <1>1, <1>8, <2>4, <3>1 DEF EntryInv
    <3>3. z # v
      BY <1>4, <1>7, <3>1, <3>2
    <3>. QED  BY <1>3, <1>4, <1>8, <3>1, <3>2, <3>3 DEF on2
  <2>. QED  BY <1>3, <1>7, <2>1, <2>2, <2>3, <2>4 DEF EntryInv
(* A lowlink below x, of a node other than those of the path, stays below, *)
(* or will be again.                                                       *)
<1>19. ASSUME NEW x \in open, NEW c \in on, low[c] < idx[x]
       PROVE  LowBelow(c, x, wk2, on2, idx2, low2)
  <2>1. CASE c # v
    BY <1>3, <1>4, <1>8, <1>19, <2>1 DEF LowBelow
  <2>2. CASE c = v
    <3>1. idx[x] < idx[v] /\ v \in DOMAIN idx
      BY <1>4, <1>7, <2>2
    <3>2. PICK z \in (Out(v) \intersect on) \ {v} :
             idx[z] < idx[x] \/ LowBelow(z, x, wk, on, idx, low)
      BY <1>1, <1>8, <1>19, <2>2, <3>1 DEF AgainInv
    <3>3. CASE idx[z] < idx[x]
      <4>1. L <= idx2[z] /\ idx2[z] = idx[z] /\ idx[z] \in Nat /\ idx[x] \in Nat
        BY <1>3, <1>4, <1>8, <1>11, <3>2
      <4>. QED  BY <1>3, <1>8, <1>11, <2>2, <3>3, <4>1 DEF LowBelow
    <3>4. CASE low[z] < idx[x]
      <4>1. Len(wk2) = m
        <5>1. \A i \in (m+1)..Len(wk2) : FALSE
          BY <1>3, <1>6, <1>10, <3>1
        <5>. QED  BY <1>2, <1>6, <5>1
      <4>2. wk2[m] = Resume(v) /\ wk2 # <<>>
        BY <1>2, <4>1 DEF Entering, m
      <4>3. z \in (Out(v) \intersect on2) \ {v} /\ low2[z] < idx2[x]
        BY <1>3, <1>4, <1>8, <3>2, <3>4 DEF on2
      <4>. QED  BY <2>2, <4>1, <4>2, <4>3 DEF LowBelow
    <3>. QED  BY <1>2, <3>2, <3>3, <3>4 DEF LowBelow, Resume, m
  <2>. QED  BY <2>1, <2>2
<1>20. \A c \in on, x \in open : LowBelow(c, x, wk, on, idx, low) => low[c] < idx[x]
  BY <1>2 DEF LowBelow, Resume, m
<1>21. AgainInv(wk2, on2, idx2, low2, open2)
  <2> SUFFICES ASSUME NEW c \in on2 \ open2, NEW x \in open2,
                      idx2[x] < idx2[c], low2[c] < idx2[x]
               PROVE  \E z \in (Out(c) \intersect on2) \ {c} :
                        idx2[z] < idx2[x] \/ LowBelow(z, x, wk2, on2, idx2, low2)
    BY DEF AgainInv
  <2>1. c \in on \ open /\ c # v /\ idx2[c] = idx[c] /\ low2[c] = low[c]
    BY <1>3, <1>4, <1>7 DEF on2
  <2>2. x \in open
    BY <1>3, <1>4, <1>7, <2>1
  <2>3. PICK z \in (Out(c) \intersect on) \ {c} :
          idx[z] < idx[x] \/ LowBelow(z, x, wk, on, idx, low)
    BY <1>1, <1>8, <2>1, <2>2 DEF AgainInv
  <2>4. z \in (Out(c) \intersect on2) \ {c}
    BY DEF on2
  <2>5. CASE idx[z] < idx[x]
    <3>1. z # v
      BY <1>4, <1>7, <2>2, <2>5
    <3>. QED  BY <1>3, <1>4, <1>8, <2>2, <2>4, <2>5, <3>1
  <2>6. CASE low[z] < idx[x]
    <3>1. LowBelow(z, x, wk2, on2, idx2, low2)
      BY <1>8, <1>19, <2>2, <2>6
    <3>. QED  BY <2>4, <3>1
  <2>. QED  BY <1>20, <2>2, <2>3, <2>5, <2>6
<1>22. SegmentInv(wk2, on2, idx2, low2, open2)
  <2> SUFFICES ASSUME NEW x \in open2, NEW y \in open2, idx2[x] <= idx2[y],
                      NEW w \in Segment(y, on2, idx2, open2),
                      NEW z \in Out(w) \intersect on2, idx2[z] < idx2[x]
               PROVE  \E c \in Out(y) \intersect on2 :
                        idx2[y] < idx2[c] /\ LowBelow(c, x, wk2, on2, idx2, low2)
    BY DEF SegmentInv
  <2>1. w \in on2 /\ idx2[y] < idx2[w] /\ w \in DOMAIN idx2
    BY <1>3, <1>4 DEF Segment, on2
  <2>2. y # v
    BY <1>3, <1>4, <1>5, <2>1
  <2>3. y \in open /\ x \in open
    BY <1>3, <1>4, <1>7, <1>8, <2>2
  <2>4. w # v
    BY <1>3, <1>4, <1>7, <1>8, <2>1, <2>3 DEF Segment
  <2>5. w \in Segment(y, on, idx, open)
    BY <1>3, <1>4, <1>7, <1>8, <2>1, <2>3, <2>4 DEF Segment, on2
  <2>6. z # v
    BY <1>3, <1>4, <1>8, <2>3
  <2>7. z \in Out(w) \intersect on /\ idx[z] < idx[x]
    BY <1>3, <1>4, <1>8, <2>3, <2>6 DEF on2
  <2>8. PICK c \in Out(y) \intersect on : idx[y] < idx[c] /\ LowBelow(c, x, wk, on, idx, low)
    BY <1>1, <1>8, <2>3, <2>5, <2>7 DEF SegmentInv
  <2>9. LowBelow(c, x, wk2, on2, idx2, low2)
    BY <1>8, <1>19, <1>20, <2>3, <2>8
  <2>10. idx2[y] < idx2[c]
    BY <1>3, <1>4, <1>8, <2>3, <2>8
  <2>. QED  BY <2>8, <2>9, <2>10 DEF on2
<1>23. EnteredInv(wk2, idx2)
  <2> SUFFICES ASSUME NEW u \in DOMAIN idx2, NEW z \in Out(u) \ DOMAIN idx2
               PROVE  \E i, j \in 1..Len(wk2) : i < j /\ wk2[i] = Resume(u) /\ wk2[j] = Enter(z)
    BY DEF EnteredInv
  <2>1. CASE u = v
    <3>1. PICK j \in (m+1)..Len(wk2) : wk2[j] = Enter(z)
      BY <1>3, <2>1 DEF Entering, m
    <3>2. wk2[m] = Resume(u) /\ m \in 1..Len(wk2) /\ j \in 1..Len(wk2) /\ m < j
      BY <1>2, <1>6, <2>1, <3>1 DEF Entering, m
    <3>. QED  BY <3>1, <3>2
  <2>2. CASE u # v
    <3>1. PICK i \in 1..m, j \in 1..m : i < j /\ wk[i] = Resume(u) /\ wk[j] = Enter(z)
      BY <1>1, <1>3, <2>2 DEF EnteredInv, m
    <3>2. j # m
      BY <1>2, <1>3, <3>1 DEF Enter
    <3>. QED  BY <1>2, <1>6, <3>1, <3>2
  <2>. QED  BY <2>1, <2>2
<1>24. PoppedInv(wk2, idx2, low2, on2, gone)
  <2>1. gone \union on2 = DOMAIN idx2 /\ \A u \in gone : Out(u) \subseteq gone
    BY <1>1, <1>3 DEF PoppedInv, on2
  <2>2. ASSUME NEW u \in gone \intersect on2
        PROVE  wk2 # <<>> /\ wk2[Len(wk2)] = Resume(u) /\ low2[u] = idx2[u]
    <3>1. u = v /\ Out(v) \subseteq gone /\ v \in DOMAIN idx
      BY <1>1, <1>9 DEF on2, PoppedInv
    <3>2. Len(wk2) = m
      <4>1. \A i \in (m+1)..Len(wk2) : FALSE
        BY <1>3, <1>6, <1>10, <3>1
      <4>. QED  BY <1>2, <1>6, <4>1
    <3>3. wk2[m] = Resume(v) /\ wk2 # <<>>
      BY <1>2, <3>2 DEF Entering, m
    <3>4. L = n
      BY <1>9, <1>11, <3>1
    <3>. QED  BY <1>3, <3>1, <3>2, <3>3, <3>4
  <2>. QED  BY <2>1, <2>2 DEF PoppedInv
<1>25. WorkInv(wk2, idx2, on2)
  <2>1. wk2 \in Seq(WorkItems)
    BY DEF Entering
  <2>2. \A u \in Out(v) : u \in Reached(v)
    BY ReachedClosed
  <2> SUFFICES ASSUME NEW i \in 1..Len(wk2), NEW j \in 1..Len(wk2), i < j,
                      wk2[i].item = "Resume"
               PROVE  /\ wk2[j].node # wk2[i].node
                      /\ wk2[j].node \in Reached(wk2[i].node)
                      /\ wk2[j].node \in on2 => idx2[wk2[i].node] < idx2[wk2[j].node]
                      /\ (\A k \in (i+1)..(j-1) : wk2[k].item # "Resume") =>
                           wk2[j].node \in Out(wk2[i].node)
    BY <2>1 DEF WorkInv
  <2>3. CASE j <= m
    <3>1. /\ i \in 1..(m-1) /\ i \in 1..m /\ j \in 1..m /\ wk2[i] = wk[i]
          /\ wk2[j].node = wk[j].node /\ wk[i].item = "Resume"
      BY <1>2, <1>6, <2>3
    <3>2. wk[i].node \in open
      BY <1>2, <3>1 DEF Opened, open, m
    <3>3. /\ wk[j].node # wk[i].node
          /\ wk[j].node \in Reached(wk[i].node)
          /\ wk[j].node \in on => idx[wk[i].node] < idx[wk[j].node]
          /\ (\A k \in (i+1)..(j-1) : wk[k].item # "Resume") => wk[j].node \in Out(wk[i].node)
      BY <1>1, <3>1 DEF WorkInv, m
    <3>4. wk[j].node \in on2 => idx2[wk[i].node] < idx2[wk[j].node]
      BY <1>3, <1>4, <1>8, <3>2, <3>3 DEF on2
    <3>5. \A k \in (i+1)..(j-1) : wk2[k] = wk[k]
      BY <1>2, <1>6, <2>3
    <3>. QED  BY <3>1, <3>3, <3>4, <3>5
  <2>4. CASE j > m
    <3>1. i <= m
      BY <1>2, <1>6
    <3>2. /\ wk2[j].node \in Out(v) /\ wk2[j].node \notin DOMAIN idx2 /\ wk2[j].node \in Reached(v)
      BY <1>2, <1>6, <2>2, <2>4
    <3>3. wk2[j].node \notin on2
      BY <1>3, <1>4, <3>2 DEF on2
    <3>4. CASE i = m
      BY <1>3, <1>6, <3>2, <3>3, <3>4
    <3>5. CASE i < m
      <4>1. wk2[i] = wk[i] /\ i \in 1..m
        BY <1>2, <1>6, <3>5
      <4>2. wk[i].node \in open
        BY <1>2, <4>1 DEF Opened, open, m
      <4>3. wk2[j].node \in Reached(wk2[i].node) /\ wk2[j].node # wk2[i].node
        BY <1>3, <1>7, <1>8, <3>2, <4>1, <4>2, ReachedOfReached
      <4>4. m \in (i+1)..(j-1) /\ wk2[m].item = "Resume"
        BY <1>2, <1>6, <2>4, <3>5
      <4>. QED  BY <3>3, <4>3, <4>4
    <3>. QED  BY <1>2, <3>1, <3>4, <3>5
  <2>. QED  BY <1>2, <2>3, <2>4
<1>. QED  BY <1>13, <1>14, <1>15, <1>16, <1>17, <1>18, <1>21, <1>22, <1>23, <1>24, <1>25
          DEF FindInv, open2, on2, st2

-----------------------------------------------------------------------------
(* A node is resumed: it stays on the stack, or is popped with all above.  *)

Remaining(v, on, idx) == {w \in on : idx[w] < idx[v]}

Taken(v, on, idx) == {w \in on : idx[v] <= idx[w]}

(* The node on top of the work list is the one that was entered last.      *)
LEMMA LastOpened ==
  ASSUME NEW wk, NEW idx, NEW on, NEW v, WorkInv(wk, idx, on), Opened(wk) \subseteq on,
         wk # <<>>, wk[Len(wk)] = Resume(v)
  PROVE  /\ Len(wk) \in Nat \ {0} /\ v \in Opened(wk)
         /\ \A i \in 1..(Len(wk)-1) : wk[i].item = "Resume" =>
              wk[i].node # v /\ idx[wk[i].node] < idx[v]
         /\ \A x \in Opened(wk) : x = v \/ idx[x] < idx[v]
<1> DEFINE m == Len(wk)
<1>1. m \in Nat \ {0} /\ wk[m].item = "Resume" /\ wk[m].node = v
  BY EmptySeq DEF WorkInv, Resume
<1>2. v \in Opened(wk)
  BY <1>1 DEF Opened
<1>3. \A i \in 1..(m-1) : i \in 1..m /\ i < m /\ m \in 1..m
  BY <1>1
<1>4. ASSUME NEW i \in 1..(m-1), wk[i].item = "Resume"
      PROVE  wk[i].node # v /\ idx[wk[i].node] < idx[v]
  BY <1>1, <1>2, <1>3, <1>4 DEF WorkInv
<1>5. ASSUME NEW x \in Opened(wk), x # v PROVE idx[x] < idx[v]
  <2>1. PICK i \in 1..m : wk[i].item = "Resume" /\ wk[i].node = x
    BY DEF Opened
  <2>2. i \in 1..(m-1)
    BY <1>1, <1>5, <2>1
  <2>. QED  BY <1>4, <2>1, <2>2
<1>. QED  BY <1>1, <1>2, <1>4, <1>5

(* The nodes above the topmost v of the stack, and v, are those that were  *)
(* entered since.                                                          *)
LEMMA TopTaken ==
  ASSUME NEW st \in Seq(Nodes), NEW idx, NEW low, NEW v, NEW t \in 1..Len(st),
         IsTop(t, v, st, idx, low), idx[v] \in Nat, ~(low[v] < idx[v]),
         \A i \in 1..Len(st) : idx[st[i]] \in Nat
  PROVE  \A i \in 1..Len(st) : i < t <=> idx[st[i]] < idx[v]
<1> SUFFICES ASSUME NEW i \in 1..Len(st) PROVE i < t <=> idx[st[i]] < idx[v]
  OBVIOUS
<1>1. Len(st) \in Nat /\ idx[st[i]] \in Nat
  OBVIOUS
<1>2. CASE i < t
  <2>1. st[i] # v
    BY <1>1, <1>2 DEF IsTop
  <2>. QED  BY <1>2, <2>1 DEF IsTop
<1>3. CASE i >= t
  <2>1. st[i] = v \/ idx[st[i]] > idx[v]
    BY <1>1, <1>3 DEF IsTop
  <2>. QED  BY <1>1, <1>3, <2>1
<1>. QED  BY <1>1, <1>2, <1>3

(* wk2 and low2 are wk without the v on top of it, which is resumed, and   *)
(* low with the lowlink v gets.                                            *)
Resuming(v, L, wk, wk2, low, low2, on) ==
  /\ v \in Nodes /\ wk # <<>> /\ wk[Len(wk)] = Resume(v)
  /\ wk2 \in Seq(WorkItems) /\ Len(wk2) = Len(wk) - 1
  /\ \A i \in 1..Len(wk2) : wk2[i] = wk[i]
  /\ low2 = With(low, v, L)
  /\ \A w \in (Out(v) \intersect on) \union {v} : L <= low[w]
  /\ \E w \in (Out(v) \intersect on) \union {v} : L = low[w]

LEMMA ResumeKeeps ==
  ASSUME NEW wk, NEW n, NEW idx, NEW low, NEW st, NEW on, NEW gone,
         FindInv(wk, n, idx, low, st, on, gone),
         NEW v, NEW L, NEW wk2, NEW low2, Resuming(v, L, wk, wk2, low, low2, on)
  PROVE  /\ L # idx[v] => FindInv(wk2, n, idx, low2, st, on, gone)
         /\ L = idx[v] => \A t \in 1..Len(st) : IsTop(t, v, st, idx, low) =>
              FindInv(wk2, n, idx, low2, SubSeq(st, 1, t - 1), Remaining(v, on, idx),
                      gone \union Taken(v, on, idx))
<1>0. /\ v \in Nodes /\ wk # <<>> /\ wk[Len(wk)] = Resume(v)
      /\ wk2 \in Seq(WorkItems) /\ Len(wk2) = Len(wk) - 1
      /\ \A i \in 1..Len(wk2) : wk2[i] = wk[i]
      /\ low2 = With(low, v, L)
      /\ \A w \in (Out(v) \intersect on) \union {v} : L <= low[w]
      /\ \E w \in (Out(v) \intersect on) \union {v} : L = low[w]
  BY DEF Resuming
<1> USE <1>0
<1> DEFINE m == Len(wk)
           open == Opened(wk)
           open2 == Opened(wk2)
<1>1. /\ WorkInv(wk, idx, on) /\ NumberInv(n, idx, low) /\ StackInv(st, on, idx, low, open)
      /\ ForthInv(on, idx, open) /\ BackInv(on, idx, open)
      /\ LowInv(on, idx, low, open) /\ EntryInv(on, idx, low, open)
      /\ AgainInv(wk, on, idx, low, open) /\ SegmentInv(wk, on, idx, low, open)
      /\ EnteredInv(wk, idx) /\ PoppedInv(wk, idx, low, on, gone)
  BY DEF FindInv
<1>2. /\ m \in Nat \ {0} /\ wk \in Seq(WorkItems)
      /\ wk[m].item = "Resume" /\ wk[m].node = v
      /\ Len(wk2) = m - 1 /\ \A i \in 1..(m-1) : wk2[i] = wk[i]
  <2>1. wk \in Seq(WorkItems)
    BY <1>1 DEF WorkInv
  <2>. QED  BY <2>1, EmptySeq DEF Resume
<1>3. /\ n \in Nat /\ DOMAIN idx \in SUBSET Nodes /\ on \subseteq DOMAIN idx /\ open \subseteq on
      /\ \A w \in DOMAIN idx : idx[w] \in Nat /\ low[w] \in Nat /\ idx[w] < n /\ low[w] <= idx[w]
  BY <1>1 DEF NumberInv, StackInv
<1>4. /\ v \in open /\ v \in on /\ v \in DOMAIN idx
      /\ open2 = open \ {v}
      /\ \A x \in open2 : idx[x] < idx[v]
      /\ \A x \in open : idx[x] <= idx[v]
  <2>1. /\ v \in open
        /\ \A k \in 1..(m-1) : wk[k].item = "Resume" => wk[k].node # v /\ idx[wk[k].node] < idx[v]
        /\ \A x \in open : x = v \/ idx[x] < idx[v]
    BY <1>1, <1>3, LastOpened
  <2>3. ASSUME NEW x \in open2 PROVE x \in open /\ x # v /\ idx[x] < idx[v]
    <3>1. PICK k \in 1..(m-1) : wk[k].item = "Resume" /\ wk[k].node = x
      BY <1>2 DEF Opened
    <3>2. k \in 1..m
      BY <1>2
    <3>. QED  BY <2>1, <3>1, <3>2 DEF Opened
  <2>4. ASSUME NEW x \in open, x # v PROVE x \in open2
    <3>1. PICK i \in 1..m : wk[i].item = "Resume" /\ wk[i].node = x
      BY DEF Opened
    <3>2. i \in 1..(m-1)
      BY <1>2, <2>4, <3>1
    <3>. QED  BY <1>2, <3>1, <3>2 DEF Opened
  <2>5. \A x \in open : idx[x] <= idx[v]
    BY <1>3, <2>1
  <2>. QED  BY <1>3, <2>1, <2>3, <2>4, <2>5
<1>5. /\ low2[v] = L /\ DOMAIN low2 = DOMAIN idx
      /\ \A w \in DOMAIN idx : w # v => low2[w] = low[w]
  BY <1>1, <1>4 DEF With, NumberInv
<1>6. /\ L \in Nat /\ L <= low[v] /\ L <= idx[v]
      /\ \A w \in Out(v) \intersect on : L <= low[w]
      /\ L = low[v] \/ \E w \in Out(v) \intersect on : w # v /\ L = low[w]
  BY <1>3, <1>4
<1>7. \A c \in on : c # v => \A x \in open : LowBelow(c, x, wk, on, idx, low) => low[c] < idx[x]
  BY <1>2 DEF LowBelow, Resume, m
(* What is below an open x makes the new lowlink of v so.                  *)
<1>8. ASSUME NEW x \in open, LowBelow(v, x, wk, on, idx, low) PROVE L < idx[x]
  <2>1. idx[x] \in Nat /\ low[v] \in Nat /\ \A d \in on : low[d] \in Nat
    BY <1>3, <1>4
  <2>2. low[v] < idx[x] \/ \E d \in Out(v) \intersect on : low[d] < idx[x]
    BY <1>8 DEF LowBelow
  <2>. QED  BY <1>6, <2>1, <2>2
<1>9. \A w \in on : idx[w] = idx[v] => w = v
  <2> SUFFICES ASSUME NEW w \in on, idx[w] = idx[v] PROVE w = v
    OBVIOUS
  <2>1. PICK t \in 1..Len(st) : IsTop(t, v, st, idx, low)
    BY <1>1, <1>4 DEF StackInv
  <2>2. PICK i \in 1..Len(st) : w = st[i]
    BY <1>1 DEF StackInv
  <2>3. Len(st) \in Nat /\ idx[w] \in Nat
    BY <1>1, <1>3 DEF StackInv
  <2>4. CASE i = t
    BY <2>1, <2>2, <2>4 DEF IsTop
  <2>5. CASE i < t
    BY <2>1, <2>2, <2>3, <2>5 DEF IsTop
  <2>6. CASE i > t
    BY <2>1, <2>2, <2>3, <2>6 DEF IsTop
  <2>. QED  BY <2>3, <2>4, <2>5, <2>6
(* An edge from what was entered since v to below an open x is known to v. *)
<1>10. ASSUME NEW x \in open, NEW w \in Taken(v, on, idx), NEW z \in Out(w) \intersect on,
              idx[z] < idx[x]
       PROVE  L < idx[x]
  <2>1. idx[x] \in Nat /\ idx[z] \in Nat /\ idx[v] \in Nat /\ low[v] \in Nat /\ idx[x] <= idx[v]
        /\ w \in on /\ idx[w] \in Nat /\ idx[v] <= idx[w]
    BY <1>3, <1>4 DEF Taken
  <2>2. CASE w = v
    <3>1. low[v] <= idx[z]
      BY <1>1, <1>4, <1>10, <2>1, <2>2 DEF EntryInv
    <3>. QED  BY <1>6, <1>10, <2>1, <3>1
  <2>3. CASE w # v
    <3>1. w \in Segment(v, on, idx, open)
      BY <1>3, <1>4, <1>9, <2>1, <2>3 DEF Segment
    <3>2. PICK c \in Out(v) \intersect on : idx[v] < idx[c] /\ LowBelow(c, x, wk, on, idx, low)
      BY <1>1, <1>4, <1>10, <2>1, <3>1 DEF SegmentInv
    <3>3. low[c] < idx[x] /\ low[c] \in Nat
      BY <1>3, <1>7, <2>1, <3>2
    <3>. QED  BY <1>6, <2>1, <3>2, <3>3
  <2>. QED  BY <2>2, <2>3
<1> HIDE DEF m, open, open2
<1>11. NumberInv(n, idx, low2)
  <2>1. \A w \in DOMAIN idx : low2[w] \in Nat /\ low2[w] <= idx[w]
    BY <1>3, <1>5, <1>6
  <2>2. low2 \in [DOMAIN idx -> Nat]
    BY <1>5, <2>1 DEF With
  <2>. QED  BY <1>1, <2>1, <2>2 DEF NumberInv
<1>12. ASSUME NEW on2 \in SUBSET on PROVE WorkInv(wk2, idx, on2)
  <2> SUFFICES ASSUME NEW i \in 1..Len(wk2), NEW j \in 1..Len(wk2), i < j, wk2[i].item = "Resume"
               PROVE  /\ wk2[j].node # wk2[i].node
                      /\ wk2[j].node \in Reached(wk2[i].node)
                      /\ wk2[j].node \in on2 => idx[wk2[i].node] < idx[wk2[j].node]
                      /\ (\A k \in (i+1)..(j-1) : wk2[k].item # "Resume")
                           => wk2[j].node \in Out(wk2[i].node)
    BY DEF WorkInv
  <2>1. i \in 1..m /\ j \in 1..m /\ wk2[i] = wk[i] /\ wk2[j] = wk[j]
    BY <1>2
  <2>2. \A k \in (i+1)..(j-1) : wk2[k] = wk[k]
    BY <1>2
  <2>3. /\ wk[j].node # wk[i].node /\ wk[j].node \in Reached(wk[i].node)
        /\ wk[j].node \in on => idx[wk[i].node] < idx[wk[j].node]
        /\ (\A k \in (i+1)..(j-1) : wk[k].item # "Resume") => wk[j].node \in Out(wk[i].node)
    BY <1>1, <2>1 DEF WorkInv, m
  <2>. QED  BY <2>1, <2>2, <2>3
<1>13. EnteredInv(wk2, idx)
  <2> SUFFICES ASSUME NEW u \in DOMAIN idx, NEW z \in Out(u) \ DOMAIN idx
               PROVE  \E i, j \in 1..Len(wk2) : i < j /\ wk2[i] = Resume(u) /\ wk2[j] = Enter(z)
    BY DEF EnteredInv
  <2>1. PICK i \in 1..m, j \in 1..m : i < j /\ wk[i] = Resume(u) /\ wk[j] = Enter(z)
    BY <1>1 DEF EnteredInv, m
  <2>2. j # m
    BY <1>2, <2>1 DEF Enter
  <2>3. i \in 1..Len(wk2) /\ j \in 1..Len(wk2)
    BY <1>2, <2>1, <2>2
  <2>. QED  BY <1>2, <2>1, <2>3
<1>14. ASSUME NEW u \in Taken(v, on, idx) PROVE Out(u) \subseteq DOMAIN idx
  <2> SUFFICES ASSUME NEW z \in Out(u) \ DOMAIN idx PROVE FALSE
    OBVIOUS
  <2>1. u \in on /\ u \in DOMAIN idx /\ idx[v] <= idx[u] /\ idx[v] \in Nat /\ idx[u] \in Nat
    BY <1>3, <1>4 DEF Taken
  <2>2. PICK i \in 1..Len(wk2), j \in 1..Len(wk2) : wk2[i] = Resume(u)
    BY <1>13, <2>1 DEF EnteredInv
  <2>3. u \in open2
    BY <2>2 DEF Opened, Resume, open2
  <2>. QED  BY <1>3, <1>4, <2>1, <2>3
(* v stays on the stack: its lowlink is below it. *)
<1>20. ASSUME L # idx[v] PROVE FindInv(wk2, n, idx, low2, st, on, gone)
  <2>1. L < idx[v] /\ idx[v] \in Nat
    BY <1>3, <1>4, <1>6, <1>20
  <2>2. PICK p \in open2 : idx[p] < idx[v] /\ Leads(v, p)
    <3>1. PICK c \in (Out(v) \intersect on) \union {v} : L = low[c]
      BY <1>6
    <3>2. PICK p \in open : idx[p] < idx[v] /\ Leads(c, p)
      BY <1>1, <1>4, <2>1, <3>1 DEF LowInv
    <3>3. Leads(v, p)
      BY <3>1, <3>2, LeadsOut
    <3>. QED  BY <1>4, <2>1, <3>2, <3>3
  <2>3. gone \intersect on = {}
    <3>1. \A u \in gone \intersect on : u = v /\ low[u] = idx[u]
      <4> SUFFICES ASSUME NEW u \in gone \intersect on PROVE u = v /\ low[u] = idx[u]
        OBVIOUS
      <4>1. wk[m] = Resume(u) /\ low[u] = idx[u]
        BY <1>1 DEF PoppedInv, m
      <4>. QED  BY <1>2, <4>1 DEF Resume
    <3>2. v \in gone => Out(v) \subseteq gone
      BY <1>1 DEF PoppedInv
    <3>. QED  BY <1>6, <1>20, <3>1, <3>2
  <2>4. StackInv(st, on, idx, low2, open2)
    <3>1. ASSUME NEW x \in open2 PROVE \E t \in 1..Len(st) : IsTop(t, x, st, idx, low2)
      <4>1. PICK t \in 1..Len(st) : IsTop(t, x, st, idx, low)
        BY <1>1, <1>4 DEF StackInv
      <4>2. low2[x] = low[x]
        BY <1>3, <1>4, <1>5
      <4>. QED  BY <4>1, <4>2 DEF IsTop
    <3>. QED  BY <1>1, <1>4, <3>1 DEF StackInv
  <2>5. ForthInv(on, idx, open2)
    BY <1>1, <1>4 DEF ForthInv
  <2>6. BackInv(on, idx, open2)
    <3> SUFFICES ASSUME NEW w \in on PROVE \E x \in open2 : idx[x] <= idx[w] /\ Leads(w, x)
      BY DEF BackInv
    <3>1. PICK x \in open : idx[x] <= idx[w] /\ Leads(w, x)
      BY <1>1 DEF BackInv
    <3>2. CASE x = v
      <4>1. Leads(w, p)
        BY <2>2, <3>1, <3>2, LeadsOn
      <4>2. idx[p] <= idx[w]
        BY <1>3, <1>4, <2>2, <3>1, <3>2
      <4>. QED  BY <4>1, <4>2
    <3>. QED  BY <1>4, <3>1, <3>2
  <2>7. LowInv(on, idx, low2, open2)
    <3> SUFFICES ASSUME NEW w \in on, NEW x \in open2, low2[w] < idx[x]
                 PROVE  \E q \in open2 : idx[q] < idx[x] /\ Leads(w, q)
      BY DEF LowInv
    <3>1. \A q \in open : idx[q] < idx[x] => q \in open2
      BY <1>3, <1>4
    <3>2. CASE w # v
      BY <1>1, <1>3, <1>4, <1>5, <3>1, <3>2 DEF LowInv
    <3>3. CASE w = v
      <4>1. PICK c \in (Out(v) \intersect on) \union {v} : L = low[c]
        BY <1>6
      <4>2. PICK q \in open : idx[q] < idx[x] /\ Leads(c, q)
        BY <1>1, <1>4, <1>5, <3>3, <4>1 DEF LowInv
      <4>3. Leads(v, q)
        BY <4>1, <4>2, LeadsOut
      <4>. QED  BY <3>1, <3>3, <4>2, <4>3
    <3>. QED  BY <3>2, <3>3
  <2>8. EntryInv(on, idx, low2, open2)
    <3>1. \A y \in open2 : y \in open /\ low2[y] = low[y]
      BY <1>3, <1>4, <1>5
    <3>. QED  BY <1>1, <3>1 DEF EntryInv
  <2>9. ASSUME NEW z \in on, NEW x \in open2, LowBelow(z, x, wk, on, idx, low)
        PROVE  LowBelow(z, x, wk2, on, idx, low2)
    <3>1. low2[z] < idx[x]
      BY <1>3, <1>4, <1>5, <1>7, <1>8, <2>9
    <3>. QED  BY <3>1 DEF LowBelow
  <2>10. AgainInv(wk2, on, idx, low2, open2)
    <3> SUFFICES ASSUME NEW c \in on \ open2, NEW x \in open2, idx[x] < idx[c], low2[c] < idx[x]
                 PROVE  \E z \in (Out(c) \intersect on) \ {c} :
                          idx[z] < idx[x] \/ LowBelow(z, x, wk2, on, idx, low2)
      BY DEF AgainInv
    <3>1. CASE c # v
      <4>1. c \in on \ open /\ low[c] < idx[x] /\ x \in open
        BY <1>3, <1>4, <1>5, <3>1
      <4>2. PICK z \in (Out(c) \intersect on) \ {c} :
              idx[z] < idx[x] \/ LowBelow(z, x, wk, on, idx, low)
        BY <1>1, <4>1 DEF AgainInv
      <4>. QED  BY <2>9, <4>2
    <3>2. CASE c = v /\ L = low[v]
      <4>1. PICK z \in Out(v) \intersect on : idx[z] < idx[x]
        BY <1>1, <1>4, <1>5, <3>2 DEF EntryInv
      <4>2. z # v
        BY <1>3, <1>4, <4>1
      <4>. QED  BY <3>2, <4>1, <4>2
    <3>3. CASE c = v /\ L # low[v]
      <4>1. PICK z \in Out(v) \intersect on : z # v /\ L = low[z]
        BY <1>6, <3>3
      <4>2. low2[z] < idx[x]
        BY <1>3, <1>5, <3>3, <4>1
      <4>. QED  BY <3>3, <4>1, <4>2 DEF LowBelow
    <3>. QED  BY <3>1, <3>2, <3>3
  <2>11. SegmentInv(wk2, on, idx, low2, open2)
    <3> SUFFICES ASSUME NEW x \in open2, NEW y \in open2, idx[x] <= idx[y],
                        NEW w \in Segment(y, on, idx, open2),
                        NEW z \in Out(w) \intersect on, idx[z] < idx[x]
                 PROVE  \E c \in Out(y) \intersect on :
                          idx[y] < idx[c] /\ LowBelow(c, x, wk2, on, idx, low2)
      BY DEF SegmentInv
    <3>1. x \in open /\ y \in open /\ idx[y] < idx[v]
      BY <1>4
    <3>2. CASE w \in Segment(y, on, idx, open)
      <4>1. PICK c \in Out(y) \intersect on : idx[y] < idx[c] /\ LowBelow(c, x, wk, on, idx, low)
        BY <1>1, <3>1, <3>2 DEF SegmentInv
      <4>. QED  BY <2>9, <4>1
    <3>3. CASE w \notin Segment(y, on, idx, open)
      <4>1. w \in on /\ idx[v] <= idx[w]
        BY <1>4, <3>3 DEF Segment
      <4>2. \A q \in open2 : ~(idx[y] < idx[q])
        <5>1. \A q \in open2 : idx[q] <= idx[w]
          BY <1>3, <1>4, <4>1
        <5>. QED  BY <5>1 DEF Segment
      <4>3. v \in Out(y)
        <5>1. PICK i \in 1..Len(wk2) : wk2[i].item = "Resume" /\ wk2[i].node = y
          BY DEF Opened, open2
        <5>2. i \in 1..m /\ i < m /\ m \in 1..m /\ wk[i].item = "Resume" /\ wk[i].node = y
          BY <1>2, <5>1
        <5>3. ASSUME NEW k \in (i+1)..(m-1), wk[k].item = "Resume" PROVE FALSE
          <6>1. k \in 1..m /\ i < k /\ k \in 1..Len(wk2) /\ wk2[k] = wk[k]
            BY <1>2, <5>2
          <6>2. wk[k].node \in open2
            BY <5>3, <6>1 DEF Opened, open2
          <6>3. wk[k].node \in on
            BY <1>3, <1>4, <6>2
          <6>4. idx[y] < idx[wk[k].node]
            BY <1>1, <5>2, <6>1, <6>3 DEF WorkInv, m
          <6>. QED  BY <4>2, <6>2, <6>4
        <5>. QED  BY <1>1, <1>2, <5>2, <5>3 DEF WorkInv, m
      <4>4. L < idx[x]
        <5>1. w \in Taken(v, on, idx)
          BY <4>1 DEF Taken
        <5>. QED  BY <1>10, <3>1, <5>1
      <4>5. LowBelow(v, x, wk2, on, idx, low2)
        BY <1>5, <4>4 DEF LowBelow
      <4>. QED  BY <1>4, <3>1, <4>3, <4>5
    <3>. QED  BY <3>2, <3>3
  <2>12. PoppedInv(wk2, idx, low2, on, gone)
    BY <1>1, <2>3 DEF PoppedInv
  <2>. QED  BY <1>11, <1>12, <1>13, <2>4, <2>5, <2>6, <2>7, <2>8, <2>10, <2>11, <2>12
            DEF FindInv, open2
(* v is popped with all above it on the stack, which nothing leads out of. *)
<1>30. ASSUME L = idx[v], NEW t \in 1..Len(st), IsTop(t, v, st, idx, low)
       PROVE  FindInv(wk2, n, idx, low2, SubSeq(st, 1, t - 1), Remaining(v, on, idx),
                      gone \union Taken(v, on, idx))
  <2> DEFINE rem == Remaining(v, on, idx)
             gone2 == gone \union Taken(v, on, idx)
             st2 == SubSeq(st, 1, t - 1)
  <2>1. /\ rem \subseteq on /\ open2 \subseteq rem
        /\ \A w \in on : w \in rem <=> idx[w] < idx[v]
        /\ \A w \in on : w \in rem <=> w \notin Taken(v, on, idx)
        /\ \A w \in rem : w # v /\ low2[w] = low[w]
        /\ Taken(v, on, idx) \subseteq on
    BY <1>3, <1>4, <1>5 DEF Remaining, Taken
  <2>2. /\ st \in Seq(Nodes) /\ Len(st) \in Nat /\ on = {st[i] : i \in 1..Len(st)}
        /\ st2 \in Seq(Nodes) /\ Len(st2) = t - 1 /\ \A i \in 1..(t-1) : st2[i] = st[i]
    BY <1>1 DEF StackInv
  <2>3. \A i \in 1..Len(st) : st[i] \in rem <=> i < t
    <3>1. \A i \in 1..Len(st) : st[i] \in on /\ idx[st[i]] \in Nat
      BY <1>3, <2>2
    <3>2. ~(low[v] < idx[v]) /\ idx[v] \in Nat
      BY <1>3, <1>4, <1>6, <1>30
    <3>3. \A i \in 1..Len(st) : i < t <=> idx[st[i]] < idx[v]
      BY <1>30, <2>2, <3>1, <3>2, TopTaken
    <3>. QED  BY <2>1, <3>1, <3>3
  <2>4. gone \intersect rem = {}
    <3>1. ASSUME NEW u \in gone \intersect on PROVE u = v
      <4>1. wk[m] = Resume(u)
        BY <1>1 DEF PoppedInv, m
      <4>. QED  BY <1>2, <4>1 DEF Resume
    <3>. QED  BY <2>1, <3>1
  <2>5. gone2 \union rem = DOMAIN idx /\ gone2 \intersect rem = {}
    <3>1. gone \union on = DOMAIN idx
      BY <1>1 DEF PoppedInv
    <3>. QED  BY <2>1, <2>4, <3>1
  <2>6. \A u \in gone2 : Out(u) \subseteq gone2
    <3>1. ASSUME NEW u \in gone PROVE Out(u) \subseteq gone2
      BY <1>1 DEF PoppedInv
    <3>2. ASSUME NEW u \in Taken(v, on, idx), NEW z \in Out(u) PROVE z \in gone2
      <4>1. z \in gone2 \/ z \in rem
        BY <1>14, <2>5
      <4>2. z \in rem => L < idx[v]
        BY <1>4, <1>10, <2>1
      <4>. QED  BY <1>3, <1>4, <1>30, <4>1, <4>2
    <3>. QED  BY <3>1, <3>2
  <2>7. ASSUME NEW u \in gone2, NEW x \in rem, Leads(u, x) PROVE FALSE
    <3>1. gone2 \in SUBSET Nodes
      BY <1>3, <2>5
    <3>. QED  BY <2>5, <2>6, <2>7, <3>1, LeadsWithin
  <2> HIDE DEF rem, gone2, st2
  <2>8. ASSUME NEW x \in open2, NEW z \in on, LowBelow(z, x, wk, on, idx, low)
        PROVE  z \in rem /\ LowBelow(z, x, wk2, rem, idx, low2)
    <3>1. idx[x] < idx[v] /\ x \in open /\ idx[x] \in Nat /\ idx[v] \in Nat
      BY <1>3, <1>4
    <3>2. z # v
      BY <1>8, <1>30, <2>8, <3>1
    <3>3. low[z] < idx[x]
      BY <1>7, <2>8, <3>1, <3>2
    <3>4. PICK p \in open : idx[p] < idx[x] /\ Leads(z, p)
      BY <1>1, <3>1, <3>3 DEF LowInv
    <3>5. p \in open2
      BY <1>3, <1>4, <3>1, <3>4
    <3>6. z \in rem
      BY <2>1, <2>7, <3>4, <3>5 DEF gone2
    <3>. QED  BY <2>1, <3>3, <3>6 DEF LowBelow
  <2>9. StackInv(st2, rem, idx, low2, open2)
    <3>1. rem = {st2[i] : i \in 1..Len(st2)}
      <4>1. \A i \in 1..(t-1) : i \in 1..Len(st) /\ i < t /\ st2[i] = st[i]
        <5>1. \A k \in Nat : \A j \in 1..k : \A i \in 1..(j-1) : i \in 1..k /\ i < j
          OBVIOUS
        <5>. QED  BY <2>2, <5>1
      <4>2. ASSUME NEW w \in rem PROVE \E i \in 1..(t-1) : w = st2[i]
        <5>1. PICK i \in 1..Len(st) : w = st[i]
          BY <2>1, <2>2
        <5>2. i \in 1..(t-1)
          BY <2>2, <2>3, <5>1
        <5>. QED  BY <2>2, <5>1, <5>2
      <4>3. \A i \in 1..(t-1) : st2[i] \in rem
        BY <2>3, <4>1
      <4>. QED  BY <2>2, <4>2, <4>3
    <3>2. ASSUME NEW x \in open2 PROVE \E s \in 1..Len(st2) : IsTop(s, x, st2, idx, low2)
      <4>1. PICK s \in 1..Len(st) : IsTop(s, x, st, idx, low)
        BY <1>1, <1>4 DEF StackInv
      <4>2. s < t
        BY <2>1, <2>3, <4>1 DEF IsTop
      <4>3. s \in 1..Len(st2) /\ Len(st2) = t - 1 /\ \A i \in 1..Len(st2) : i \in 1..Len(st) /\ st2[i] = st[i]
        BY <2>2, <4>2
      <4>4. low2[x] = low[x]
        BY <2>1
      <4>5. st2[s] = x
        BY <4>1, <4>3 DEF IsTop
      <4>6. \A i \in 1..Len(st2) : i < s => st2[i] = x \/ idx[st2[i]] < idx[x]
        BY <4>1, <4>3 DEF IsTop
      <4>7. \A i \in 1..Len(st2) : i > s => idx[st2[i]] > idx[x]
        BY <4>1, <4>3 DEF IsTop
      <4>8. \A i \in 1..(s-1) : st2[i] = x => low2[x] < idx[x]
        <5>1. \A i \in 1..(s-1) : st2[i] = st[i]
          BY <2>2, <4>2
        <5>2. \A i \in 1..(s-1) : st[i] = x => low[x] < idx[x]
          BY <4>1 DEF IsTop
        <5>. QED  BY <4>4, <5>1, <5>2
      <4>. QED  BY <4>3, <4>5, <4>6, <4>7, <4>8 DEF IsTop
    <3>. QED  BY <1>3, <2>1, <2>2, <3>1, <3>2 DEF StackInv
  <2>10. ForthInv(rem, idx, open2)
    BY <1>1, <1>4, <2>1 DEF ForthInv
  <2>11. BackInv(rem, idx, open2)
    <3> SUFFICES ASSUME NEW w \in rem PROVE \E x \in open2 : idx[x] <= idx[w] /\ Leads(w, x)
      BY DEF BackInv
    <3>1. PICK x \in open : idx[x] <= idx[w] /\ Leads(w, x)
      BY <1>1, <2>1 DEF BackInv
    <3>2. x # v
      BY <1>3, <1>4, <2>1, <3>1
    <3>. QED  BY <1>4, <3>1, <3>2
  <2>12. LowInv(rem, idx, low2, open2)
    <3> SUFFICES ASSUME NEW w \in rem, NEW x \in open2, low2[w] < idx[x]
                 PROVE  \E p \in open2 : idx[p] < idx[x] /\ Leads(w, p)
      BY DEF LowInv
    <3>1. PICK p \in open : idx[p] < idx[x] /\ Leads(w, p)
      BY <1>1, <1>4, <2>1 DEF LowInv
    <3>2. p # v
      BY <1>3, <1>4, <3>1
    <3>. QED  BY <1>4, <3>1, <3>2
  <2>13. \A x \in open2 : \A z \in on : idx[z] < idx[x] => z \in rem
    BY <1>3, <1>4, <2>1
  <2>14. EntryInv(rem, idx, low2, open2)
    <3>1. \A y \in open2 : y \in open /\ low2[y] = low[y]
      BY <1>4, <2>1
    <3>. QED  BY <1>1, <2>1, <2>13, <3>1 DEF EntryInv
  <2>15. AgainInv(wk2, rem, idx, low2, open2)
    <3> SUFFICES ASSUME NEW c \in rem \ open2, NEW x \in open2, idx[x] < idx[c], low2[c] < idx[x]
                 PROVE  \E z \in (Out(c) \intersect rem) \ {c} :
                          idx[z] < idx[x] \/ LowBelow(z, x, wk2, rem, idx, low2)
      BY DEF AgainInv
    <3>1. c \in on \ open /\ low[c] < idx[x] /\ x \in open
      BY <1>4, <2>1
    <3>2. PICK z \in (Out(c) \intersect on) \ {c} :
            idx[z] < idx[x] \/ LowBelow(z, x, wk, on, idx, low)
      BY <1>1, <3>1 DEF AgainInv
    <3>. QED  BY <2>8, <2>13, <3>2
  <2>16. SegmentInv(wk2, rem, idx, low2, open2)
    <3> SUFFICES ASSUME NEW x \in open2, NEW y \in open2, idx[x] <= idx[y],
                        NEW w \in Segment(y, rem, idx, open2),
                        NEW z \in Out(w) \intersect rem, idx[z] < idx[x]
                 PROVE  \E c \in Out(y) \intersect rem :
                          idx[y] < idx[c] /\ LowBelow(c, x, wk2, rem, idx, low2)
      BY DEF SegmentInv
    <3>1. w \in on /\ w \in rem /\ idx[y] < idx[w]
      BY <2>1 DEF Segment
    <3>2. ~(idx[v] <= idx[w])
      BY <1>3, <1>4, <2>1, <3>1
    <3>3. w \in Segment(y, on, idx, open)
      BY <1>4, <3>1, <3>2 DEF Segment
    <3>4. PICK c \in Out(y) \intersect on : idx[y] < idx[c] /\ LowBelow(c, x, wk, on, idx, low)
      BY <1>1, <1>4, <2>1, <3>3 DEF SegmentInv
    <3>. QED  BY <2>8, <3>4
  <2>17. PoppedInv(wk2, idx, low2, rem, gone2)
    BY <2>5, <2>6 DEF PoppedInv
  <2>. QED  BY <1>11, <1>12, <1>13, <2>1, <2>9, <2>10, <2>11, <2>12, <2>14, <2>15, <2>16, <2>17
            DEF FindInv, open2, rem, gone2, st2
<1>. QED  BY <1>20, <1>30

(* What is popped with v is the component of v, or v alone when it was     *)
(* popped with its component before.                                       *)
LEMMA PopComponents ==
  ASSUME NEW wk, NEW n, NEW idx, NEW low, NEW st, NEW on, NEW sc, ComponentsInv(sc),
         FindInv(wk, n, idx, low, st, on, Popped(sc)),
         NEW v \in Nodes, wk # <<>>, wk[Len(wk)] = Resume(v), ~(low[v] < idx[v]),
         \A u \in Popped(sc) \union Taken(v, on, idx) :
           Out(u) \subseteq Popped(sc) \union Taken(v, on, idx),
         NEW t \in 1..Len(st), IsTop(t, v, st, idx, low),
         NEW scc, scc = Reverse(SubSeq(st, t, Len(st)))
  PROVE  /\ ToSet(SubSeq(st, t, Len(st))) = Taken(v, on, idx)
         /\ ComponentsInv(Append(sc, scc))
         /\ Popped(Append(sc, scc)) = Popped(sc) \union Taken(v, on, idx)
<1> DEFINE gone == Popped(sc)
           taken == Taken(v, on, idx)
           part == SubSeq(st, t, Len(st))
           open == Opened(wk)
<1>1. /\ WorkInv(wk, idx, on) /\ NumberInv(n, idx, low) /\ StackInv(st, on, idx, low, open)
      /\ ForthInv(on, idx, open) /\ BackInv(on, idx, open) /\ PoppedInv(wk, idx, low, on, gone)
  BY DEF FindInv
<1>2. /\ st \in Seq(Nodes) /\ Len(st) \in Nat
      /\ on = {st[i] : i \in 1..Len(st)} /\ on \subseteq DOMAIN idx /\ open \subseteq on
      /\ DOMAIN idx \in SUBSET Nodes /\ \A w \in DOMAIN idx : idx[w] \in Nat
  BY <1>1 DEF StackInv, NumberInv
<1>3. /\ v \in open /\ v \in on /\ idx[v] \in Nat
      /\ \A x \in open : x = v \/ idx[x] < idx[v]
  BY <1>1, <1>2, LastOpened
<1>4. \A w \in gone \intersect on : w = v
  <2> SUFFICES ASSUME NEW w \in gone \intersect on PROVE w = v
    OBVIOUS
  <2>1. wk[Len(wk)] = Resume(w)
    BY <1>1 DEF PoppedInv
  <2>. QED  BY <2>1 DEF Resume
<1>5. \A u \in gone : Out(u) \subseteq gone
  BY <1>1 DEF PoppedInv
<1>6. gone \in SUBSET Nodes /\ gone \union taken \in SUBSET Nodes /\ taken \subseteq on
      /\ \A w \in on : w \in taken <=> idx[v] <= idx[w]
  BY <1>1, <1>2 DEF PoppedInv, Taken
(* The list. *)
<1>7. \A i \in 1..Len(st) : st[i] \in taken <=> t <= i
  <2>1. \A i \in 1..Len(st) : i < t <=> idx[st[i]] < idx[v]
    BY <1>2, <1>3, TopTaken
  <2>2. \A i \in 1..Len(st) : st[i] \in on /\ idx[st[i]] \in Nat
    BY <1>2
  <2>3. \A i \in 1..Len(st) : st[i] \in taken <=> idx[v] <= idx[st[i]]
    BY <1>6, <2>2
  <2> HIDE DEF taken
  <2>4. ASSUME NEW i \in 1..Len(st) PROVE st[i] \in taken <=> t <= i
    <3>1. idx[st[i]] \in Nat /\ idx[v] \in Nat /\ i \in Int /\ t \in Int
      BY <1>2, <1>3, <2>2
    <3>. QED  BY <2>1, <2>3, <3>1
  <2>. QED  BY <2>4
<1> HIDE DEF gone, taken, open
<1>8. /\ part \in Seq(Nodes) /\ Len(part) = Len(st) - t + 1
      /\ \A i \in 1..Len(part) : part[i] = st[t + i - 1]
  <2>1. \A i \in t..Len(st) : st[i] \in Nodes
    BY <1>2
  <2>. QED  BY <1>2, <2>1, SubSeqProperties
<1> HIDE DEF part
<1>9. ToSet(part) = taken
  <2>1. DOMAIN part = 1..Len(part)
    BY <1>8
  <2>2. \A i \in 1..Len(part) : part[i] \in taken
    BY <1>2, <1>7, <1>8
  <2>3. ASSUME NEW w \in taken PROVE \E i \in 1..Len(part) : w = part[i]
    <3>1. PICK i \in 1..Len(st) : w = st[i]
      BY <1>2, <1>6
    <3>2. i - t + 1 \in 1..Len(part) /\ t + (i - t + 1) - 1 = i
      BY <1>2, <1>7, <1>8, <3>1
    <3>. QED  BY <1>8, <3>1, <3>2
  <2>. QED  BY <2>1, <2>2, <2>3 DEF ToSet
<1>10. scc \in Seq(Nodes) /\ Len(scc) = Len(part) /\ ToSet(scc) = taken
  <2>1. scc = [i \in 1..Len(part) |-> part[(Len(part) - i) + 1]]
    BY DEF Reverse, part
  <2>2. Len(part) \in Nat /\ DOMAIN part = 1..Len(part) /\ \A i \in 1..Len(part) : part[i] \in Nodes
    BY <1>8
  <2>3. \A i \in 1..Len(part) : (Len(part) - i) + 1 \in 1..Len(part)
                                /\ (Len(part) - ((Len(part) - i) + 1)) + 1 = i
    BY <2>2
  <2>4. scc \in [1..Len(part) -> Nodes] /\ DOMAIN scc = 1..Len(part)
    BY <2>1, <2>2, <2>3
  <2>5. scc \in Seq(Nodes) /\ Len(scc) = Len(part)
    BY <2>2, <2>4
  <2>6. \A i \in 1..Len(part) : part[i] = scc[(Len(part) - i) + 1]
    BY <2>1, <2>3
  <2>7. \A i \in 1..Len(part) : scc[i] = part[(Len(part) - i) + 1]
    BY <2>1
  <2>8. ToSet(scc) = ToSet(part)
    <3>1. ASSUME NEW w \in ToSet(part) PROVE w \in ToSet(scc)
      <4>1. PICK i \in 1..Len(part) : w = part[i]
        BY <2>2 DEF ToSet
      <4>. QED  BY <2>3, <2>4, <2>6, <4>1 DEF ToSet
    <3>2. ASSUME NEW w \in ToSet(scc) PROVE w \in ToSet(part)
      <4>1. PICK i \in 1..Len(part) : w = scc[i]
        BY <2>4 DEF ToSet
      <4>. QED  BY <2>2, <2>3, <2>7, <4>1 DEF ToSet
    <3>. QED  BY <3>1, <3>2
  <2>. QED  BY <1>9, <2>5, <2>8
(* Its nodes. *)
<1>11. v \notin gone => taken = Component(v)
  <2> SUFFICES ASSUME v \notin gone PROVE taken = Component(v)
    OBVIOUS
  <2>1. v \in taken
    BY <1>3, <1>6
  <2>2. ASSUME NEW w \in Component(v) PROVE w \in taken
    <3>1. Leads(v, w) /\ Leads(w, v)
      BY DEF Component, Leads
    <3>2. w \in gone \union taken
      BY <1>6, <2>1, <3>1, LeadsWithin DEF gone, taken
    <3>3. w \notin gone
      BY <1>5, <1>6, <3>1, LeadsWithin
    <3>. QED  BY <3>2, <3>3
  <2>3. ASSUME NEW w \in taken PROVE w \in Component(v)
    <3>1. w \in on /\ idx[v] <= idx[w]
      BY <1>6
    <3>2. Leads(v, w)
      BY <1>1, <1>3, <3>1 DEF ForthInv
    <3>3. PICK x \in open : Leads(w, x)
      BY <1>1, <3>1 DEF BackInv
    <3>4. x \in gone \union taken
      BY <1>6, <3>3, LeadsWithin DEF gone, taken
    <3>5. x = v
      BY <1>2, <1>3, <1>4, <1>6, <3>4
    <3>. QED  BY <3>2, <3>3, <3>5 DEF Leads, Component
  <2>. QED  BY <2>2, <2>3
<1>12. v \in gone => taken = {v}
  <2> SUFFICES ASSUME v \in gone, NEW w \in taken PROVE w = v
    BY <1>3, <1>6
  <2>1. Leads(v, w)
    BY <1>1, <1>3, <1>6 DEF ForthInv
  <2>2. w \in gone
    BY <1>5, <1>6, <2>1, LeadsWithin
  <2>. QED  BY <1>4, <1>6, <2>2
<1>13. v \in taken /\ taken \subseteq Component(v)
  BY <1>3, <1>6, <1>11, <1>12 DEF Component
(* The list after those before. *)
<1>14. /\ sc \in Seq(Seq(Nodes)) /\ Append(sc, scc) \in Seq(Seq(Nodes))
       /\ ToSet(Append(sc, scc)) = ToSet(sc) \union {scc}
  <2>1. sc \in Seq(Seq(Nodes))
    BY DEF ComponentsInv
  <2>2. /\ DOMAIN sc = 1..Len(sc) /\ Len(sc) \in Nat
        /\ DOMAIN Append(sc, scc) = 1..(Len(sc) + 1)
        /\ \A i \in 1..Len(sc) : Append(sc, scc)[i] = sc[i]
        /\ Append(sc, scc)[Len(sc) + 1] = scc
    BY <1>10, <2>1
  <2>3. \A i \in 1..(Len(sc) + 1) : i \in 1..Len(sc) \/ i = Len(sc) + 1
    BY <2>2
  <2>4. \A i \in 1..Len(sc) : i \in 1..(Len(sc) + 1)
    BY <2>2
  <2>5. Len(sc) + 1 \in 1..(Len(sc) + 1)
    BY <2>2
  <2>6. Append(sc, scc) \in Seq(Seq(Nodes))
    BY <1>10, <2>1
  <2> DEFINE after == Append(sc, scc)
  <2>7. ToSet(sc) = {sc[i] : i \in 1..Len(sc)} /\ ToSet(after) = {after[i] : i \in 1..(Len(sc) + 1)}
    BY <2>2 DEF ToSet
  <2> HIDE DEF after
  <2>8. after[Len(sc) + 1] = scc /\ \A i \in 1..Len(sc) : after[i] = sc[i]
    BY <2>2 DEF after
  <2>9. ToSet(after) = ToSet(sc) \union {scc}
    BY <2>3, <2>4, <2>5, <2>7, <2>8
  <2>. QED  BY <2>1, <2>6, <2>9 DEF after
<1>15. Popped(Append(sc, scc)) = gone \union taken
  BY <1>10, <1>14 DEF Popped, gone
<1>16. ComponentsInv(Append(sc, scc))
  <2>1. ASSUME NEW u \in gone \union taken
        PROVE  \E c \in ToSet(sc) \union {scc} : ToSet(c) = Component(u)
    <3>1. CASE u \in gone
      BY <3>1 DEF ComponentsInv, gone
    <3>2. CASE u \notin gone
      BY <1>10, <1>11, <1>12, <3>2, SameComponent
    <3>. QED  BY <3>1, <3>2
  <2>2. scc # <<>>
    BY <1>10, <1>13, EmptySeq DEF ToSet
  <2>3. Len(scc) >= 2 => v \in Reached(v)
    <3> SUFFICES ASSUME Len(scc) >= 2 PROVE v \in Reached(v)
      OBVIOUS
    <3>1. t + 1 \in 1..Len(st)
      BY <1>2, <1>8, <1>10
    <3>2. st[t+1] # v /\ st[t+1] \in taken
      BY <1>2, <1>3, <1>7, <3>1 DEF IsTop
    <3>3. st[t+1] \in Reached(v) /\ v \in Reached(st[t+1])
      BY <1>13, <3>2 DEF Component
    <3>. QED  BY <3>3, ReachedOfReached
  <2>4. \A c \in ToSet(sc) : /\ c # <<>>
                             /\ \E u \in ToSet(c) : /\ ToSet(c) \subseteq Component(u)
                                                    /\ Len(c) >= 2 => u \in Reached(u)
    BY DEF ComponentsInv
  <2>. QED  BY <1>10, <1>13, <1>14, <1>15, <2>1, <2>2, <2>3, <2>4 DEF ComponentsInv
<1>. QED  BY <1>9, <1>15, <1>16 DEF gone, taken, part

-----------------------------------------------------------------------------
(* The steps of find_cycles.                                               *)

LEMMA TarjanUnmoved ==
  ASSUME UNCHANGED graphVars,
         FindInv(work', counter', indices', lowlinks', stack', onStack', Popped(sccs')),
         ComponentsInv(sccs')
  PROVE  TarjanInv'
<1>1. edges' = edges
  BY DEF graphVars
<1>2. \A v : Out(v)' = Out(v) /\ Reached(v)' = Reached(v)
  BY <1>1 DEF Reached, Closed, Out
<1>3. \A v : Component(v)' = Component(v)
  BY <1>2 DEF Component
<1>4. /\ WorkInv(work, indices, onStack)'
      /\ NumberInv(counter, indices, lowlinks)'
      /\ StackInv(stack, onStack, indices, lowlinks, Opened(work))'
  BY <1>2 DEF FindInv, WorkInv, NumberInv, StackInv, IsTop, Opened
<1>5. /\ ForthInv(onStack, indices, Opened(work))'
      /\ BackInv(onStack, indices, Opened(work))'
      /\ LowInv(onStack, indices, lowlinks, Opened(work))'
  BY <1>2 DEF FindInv, ForthInv, BackInv, LowInv, Leads, Opened
<1>6. EntryInv(onStack, indices, lowlinks, Opened(work))'
  BY <1>2 DEF FindInv, EntryInv, Opened
<1>7. AgainInv(work, onStack, indices, lowlinks, Opened(work))'
  BY <1>2 DEF FindInv, AgainInv, LowBelow, Opened
<1>8. SegmentInv(work, onStack, indices, lowlinks, Opened(work))'
  BY <1>2 DEF FindInv, SegmentInv, Segment, LowBelow, Opened
<1>9. EnteredInv(work, indices)' /\ PoppedInv(work, indices, lowlinks, onStack, Popped(sccs))'
  BY <1>2 DEF FindInv, EnteredInv, PoppedInv, Popped
<1>10. ComponentsInv(sccs)'
  BY <1>2, <1>3 DEF ComponentsInv, Popped
<1>. QED  BY <1>4, <1>5, <1>6, <1>7, <1>8, <1>9, <1>10 DEF TarjanInv, FindInv

(* Nothing is on the stack when the work list is empty. *)
LEMMA NothingOpen ==
  ASSUME NEW n, NEW idx, NEW low, NEW st, NEW on, NEW gone, FindInv(<<>>, n, idx, low, st, on, gone)
  PROVE  Opened(<<>>) = {} /\ on = {} /\ gone = DOMAIN idx
         /\ \A v \in DOMAIN idx : Out(v) \subseteq DOMAIN idx
<1>1. Opened(<<>>) = {}
  BY DEF Opened
<1>2. on = {}
  BY <1>1 DEF FindInv, BackInv
<1>3. gone = DOMAIN idx
  BY <1>2 DEF FindInv, PoppedInv
<1>4. \A v \in DOMAIN idx : Out(v) \subseteq DOMAIN idx
  BY <1>3 DEF FindInv, PoppedInv
<1>. QED  BY <1>1, <1>2, <1>3, <1>4

LEMMA NextRootKeeps ==
  ASSUME TarjanInv, UNCHANGED graphVars, NextRoot
  PROVE  TarjanInv'
<1> DEFINE gone == Popped(sccs)
           v == Lowest(Nodes \ Entered)
<1>1. /\ FindInv(<<>>, counter, indices, lowlinks, stack, onStack, gone) /\ ComponentsInv(sccs)
      /\ work' = <<Enter(v)>> /\ DOMAIN indices # Nodes
      /\ counter' = counter /\ indices' = indices /\ lowlinks' = lowlinks
      /\ stack' = stack /\ onStack' = onStack /\ sccs' = sccs
  BY DEF TarjanInv, NextRoot, Finding, Entered
<1>2. /\ onStack = {} /\ gone = DOMAIN indices /\ DOMAIN indices \in SUBSET Nodes
      /\ \A u \in DOMAIN indices : Out(u) \subseteq DOMAIN indices
  BY <1>1, NothingOpen DEF FindInv, NumberInv
<1>3. v \in Nodes
  <2>1. Nodes \ Entered \in SUBSET Nat /\ Nodes \ Entered # {}
    BY <1>1, <1>2, GraphAssumption DEF Entered
  <2>. QED  BY <2>1, LowestOf
<1> HIDE DEF v, gone
<1> DEFINE wk == <<Enter(v)>>
<1>4. Len(wk) = 1 /\ wk[1] = Enter(v) /\ wk \in Seq(WorkItems) /\ wk # <<>> /\ wk[1].item = "Enter"
  BY <1>3 DEF WorkItems, Enter
<1> HIDE DEF wk
<1>5. Opened(wk) = {} /\ Opened(<<>>) = {}
  BY <1>4 DEF Opened
<1>6. WorkInv(wk, indices, onStack)
  BY <1>4 DEF WorkInv
<1>7. AgainInv(wk, onStack, indices, lowlinks, {}) /\ SegmentInv(wk, onStack, indices, lowlinks, {})
      /\ EnteredInv(wk, indices) /\ PoppedInv(wk, indices, lowlinks, onStack, gone)
  BY <1>2 DEF AgainInv, SegmentInv, EnteredInv, PoppedInv
<1>8. FindInv(wk, counter, indices, lowlinks, stack, onStack, gone)
  BY <1>1, <1>5, <1>6, <1>7 DEF FindInv
<1>. QED  BY <1>1, <1>8, TarjanUnmoved DEF wk, gone

LEMMA FrontOf ==
  ASSUME NEW S, NEW s \in Seq(S), s # <<>>
  PROVE  /\ Front(s) \in Seq(S) /\ Len(Front(s)) = Len(s) - 1
         /\ \A i \in 1..(Len(s)-1) : Front(s)[i] = s[i]
<1>1. Len(s) \in Nat \ {0}
  BY EmptySeq
<1> DEFINE n == Len(s) - 1
<1>3. n \in Nat /\ \A i \in 1..n : s[i] \in S
  BY <1>1
<1> HIDE DEF n
<1>4. /\ SubSeq(s, 1, n) \in Seq(S) /\ Len(SubSeq(s, 1, n)) = IF 1 <= n THEN n-1+1 ELSE 0
      /\ \A i \in 1..n-1+1 : SubSeq(s, 1, n)[i] = s[1+i-1]
  BY <1>3, SubSeqProperties
<1>5. Len(SubSeq(s, 1, n)) = n /\ \A i \in 1..n : SubSeq(s, 1, n)[i] = s[i]
  BY <1>3, <1>4
<1>. QED  BY <1>4, <1>5 DEF Front, n

LEMMA Joined ==
  ASSUME NEW S, NEW a \in Seq(S), NEW b \in Seq(S)
  PROVE  /\ a \o b \in Seq(S) /\ Len(a \o b) = Len(a) + Len(b)
         /\ \A i \in 1..Len(a) : (a \o b)[i] = a[i]
         /\ \A i \in 1..Len(b) : (a \o b)[Len(a) + i] = b[i]
OBVIOUS

LEMMA EnterNodeKeeps ==
  ASSUME TarjanInv, UNCHANGED graphVars, EnterNode
  PROVE  TarjanInv'
<1> DEFINE gone == Popped(sccs)
           v == Last(work).node
           m == Len(work)
           unvisited == Out(v) \ (DOMAIN indices \union {v})
           near == (Out(v) \intersect (onStack \union {v})) \union {v}
           numbers == {indices'[w] : w \in near}
           L == Lowest(numbers)
<1>1. /\ FindInv(work, counter, indices, lowlinks, stack, onStack, gone) /\ ComponentsInv(sccs)
      /\ work # <<>> /\ work[m].item = "Enter"
      /\ counter' = counter + 1 /\ indices' = With(indices, v, counter)
      /\ stack' = Append(stack, v) /\ onStack' = onStack \union {v} /\ sccs' = sccs
      /\ lowlinks' = With(lowlinks, v, L)
  BY DEF TarjanInv, EnterNode, Finding, Last
<1>2. PICK scheduled \in Schedules(unvisited) :
        work' = Append(Front(work), Resume(v)) \o [i \in 1..Len(scheduled) |-> Enter(scheduled[i])]
  BY DEF EnterNode, Entered
<1>3. /\ work \in Seq(WorkItems) /\ m \in Nat \ {0} /\ v \in Nodes /\ work[m] = Enter(v)
  <2>1. work \in Seq(WorkItems)
    BY <1>1 DEF FindInv, WorkInv
  <2>2. m \in Nat \ {0}
    BY <1>1, <2>1, EmptySeq
  <2>3. work[m] \in WorkItems /\ v = work[m].node
    BY <2>1, <2>2 DEF Last
  <2>. QED  BY <1>1, <2>1, <2>2, <2>3 DEF WorkItems, Enter
<1>4. /\ counter \in Nat /\ onStack \subseteq DOMAIN indices
      /\ \A w \in DOMAIN indices : indices[w] \in Nat
  BY <1>1 DEF FindInv, NumberInv, StackInv
<1>5. numbers \in SUBSET Nat /\ numbers # {}
  BY <1>1, <1>4 DEF With
<1> HIDE DEF L
<1>6. L \in numbers /\ \A x \in numbers : L <= x
  BY <1>5, LowestOf DEF L
(* The work list. *)
<1>7. Entering(v, work, work', indices)
  <2> HIDE DEF m, v
  <2> DEFINE F == Front(work)
             A == Append(F, Resume(v))
             E == [i \in 1..Len(scheduled) |-> Enter(scheduled[i])]
  <2>1. /\ F \in Seq(WorkItems) /\ Len(F) = m - 1 /\ \A i \in 1..(m-1) : F[i] = work[i]
    BY <1>1, <1>3, FrontOf DEF m
  <2>2. Resume(v) \in WorkItems
    BY <1>3 DEF Resume, WorkItems
  <2>3. A \in Seq(WorkItems) /\ Len(A) = m /\ A[m] = Resume(v) /\ \A i \in 1..(m-1) : A[i] = work[i]
    <3> HIDE DEF F
    <3>. QED  BY <1>3, <2>1, <2>2
  <2>4. /\ Len(scheduled) \in Nat /\ scheduled \in Seq(unvisited) /\ ToSet(scheduled) = unvisited
        /\ DOMAIN scheduled = 1..Len(scheduled)
    <3>1. scheduled \in BoundedSeq(unvisited, MaxParallel * Cardinality(unvisited))
          /\ ToSet(scheduled) = unvisited
      BY <1>2 DEF Schedules
    <3>2. unvisited \in SUBSET Nodes
      BY DEF Out
    <3>3. MaxParallel * Cardinality(unvisited) \in Nat
      <4>1. Cardinality(unvisited) \in Nat
        BY <3>2, SetOfNodes
      <4>. QED  BY <4>1, GraphAssumption
    <3>4. PICK k \in 0..(MaxParallel * Cardinality(unvisited)) : scheduled \in [1..k -> unvisited]
      BY <3>1 DEF BoundedSeq, SeqOf
    <3>5. k \in Nat
      BY <3>3, <3>4
    <3> HIDE DEF unvisited
    <3>6. scheduled \in Seq(unvisited) /\ DOMAIN scheduled = 1..k
      BY <3>4, <3>5
    <3>. QED  BY <3>1, <3>6
  <2>5. \A i \in 1..Len(scheduled) : scheduled[i] \in unvisited
    BY <2>4
  <2>6. \A u \in unvisited : \E i \in 1..Len(scheduled) : scheduled[i] = u
    BY <2>4 DEF ToSet
  <2>7. \A u \in unvisited : Enter(u) \in WorkItems
    BY DEF Enter, WorkItems, Out
  <2> HIDE DEF unvisited
  <2>8. E \in Seq(WorkItems) /\ Len(E) = Len(scheduled)
    <3>1. E \in [1..Len(scheduled) -> WorkItems] /\ DOMAIN E = 1..Len(scheduled)
      BY <2>5, <2>7
    <3>. QED  BY <2>4, <3>1
  <2>9. \A i \in 1..Len(scheduled) : E[i] = Enter(scheduled[i])
    OBVIOUS
  <2> HIDE DEF A, E
  <2>10. /\ work' = A \o E /\ work' \in Seq(WorkItems) /\ Len(work') = m + Len(scheduled)
         /\ \A i \in 1..m : work'[i] = A[i]
         /\ \A i \in 1..Len(scheduled) : work'[m + i] = E[i]
    <3>1. work' = A \o E
      BY <1>2 DEF A, E
    <3>2. /\ A \o E \in Seq(WorkItems) /\ Len(A \o E) = Len(A) + Len(E)
          /\ \A i \in 1..Len(A) : (A \o E)[i] = A[i]
          /\ \A i \in 1..Len(E) : (A \o E)[Len(A) + i] = E[i]
      <4>1. A \in Seq(WorkItems) /\ E \in Seq(WorkItems)
        BY <2>3, <2>8
      <4>2. A \o E \in Seq(WorkItems) /\ Len(A \o E) = Len(A) + Len(E)
        BY <4>1, Joined
      <4>3. \A i \in 1..Len(A) : (A \o E)[i] = A[i]
        BY <4>1, Joined
      <4>4. \A i \in 1..Len(E) : (A \o E)[Len(A) + i] = E[i]
        BY <4>1, Joined
      <4>. QED  BY <4>2, <4>3, <4>4
    <3>. QED  BY <2>3, <2>8, <3>1, <3>2
  <2>11. \A i \in (m+1)..Len(work') : i - m \in 1..Len(scheduled) /\ m + (i - m) = i
    BY <1>3, <2>4, <2>10
  <2>12. \A i \in 1..Len(scheduled) : m + i \in (m+1)..Len(work')
    BY <1>3, <2>4, <2>10
  <2>13. \A i \in (m+1)..Len(work') : \E u \in unvisited : work'[i] = Enter(u)
    BY <2>5, <2>9, <2>10, <2>11
  <2>14. ASSUME NEW u \in unvisited PROVE \E i \in (m+1)..Len(work') : work'[i] = Enter(u)
    <3>1. PICK i \in 1..Len(scheduled) : scheduled[i] = u
      BY <2>6
    <3>2. work'[m + i] = Enter(u)
      BY <2>9, <2>10, <3>1
    <3>. QED  BY <2>12, <3>2
  <2>15. m <= Len(work') /\ work'[m] = Resume(v) /\ \A i \in 1..(m-1) : work'[i] = work[i]
    BY <1>3, <2>3, <2>4, <2>10
  <2>. QED  BY <2>10, <2>13, <2>14, <2>15 DEF Entering, m, unvisited
<1>8. FindInv(work', counter + 1, indices', lowlinks', Append(stack, v), onStack \union {v}, gone)
  <2> HIDE DEF v, gone
  <2>1. work[Len(work)] = Enter(v)
    BY <1>3
  <2>2. /\ \A w \in (Out(v) \intersect (onStack \union {v})) \union {v} : L <= indices'[w]
        /\ \E w \in (Out(v) \intersect (onStack \union {v})) \union {v} : L = indices'[w]
    BY <1>6
  <2>. QED  BY <1>1, <1>3, <1>7, <2>1, <2>2, EnterKeeps
<1>. QED  BY <1>1, <1>8, TarjanUnmoved DEF gone

LEMMA ResumeNodeKeeps ==
  ASSUME TarjanInv, UNCHANGED graphVars, ResumeNode
  PROVE  TarjanInv'
<1> DEFINE gone == Popped(sccs)
           v == Last(work).node
           m == Len(work)
           numbers == {lowlinks[w] : w \in (Out(v) \intersect onStack) \union {v}}
           L == Lowest(numbers)
           t == TopOf(v)
           part == SubSeq(stack, t, Len(stack))
           taken == Taken(v, onStack, indices)
<1>1. /\ FindInv(work, counter, indices, lowlinks, stack, onStack, gone) /\ ComponentsInv(sccs)
      /\ work # <<>> /\ work[m].item = "Resume"
      /\ counter' = counter /\ indices' = indices
      /\ lowlinks' = With(lowlinks, v, L)
      /\ work' = Front(work)
  BY DEF TarjanInv, ResumeNode, Finding, Last, LowOf
<1>2. /\ L = indices[v] => /\ sccs' = Append(sccs, Reverse(part))
                           /\ stack' = SubSeq(stack, 1, t - 1)
                           /\ onStack' = onStack \ ToSet(part)
      /\ L # indices[v] => sccs' = sccs /\ stack' = stack /\ onStack' = onStack
  BY DEF ResumeNode, LowOf
<1>3. /\ work \in Seq(WorkItems) /\ m \in Nat \ {0} /\ v \in Nodes /\ work[m] = Resume(v)
  <2>1. work \in Seq(WorkItems)
    BY <1>1 DEF FindInv, WorkInv
  <2>2. m \in Nat \ {0}
    BY <1>1, <2>1, EmptySeq
  <2>3. work[m] \in WorkItems /\ v = work[m].node
    BY <2>1, <2>2 DEF Last
  <2>. QED  BY <1>1, <2>1, <2>2, <2>3 DEF WorkItems, Resume
<1> HIDE DEF v
<1>4. /\ work' \in Seq(WorkItems) /\ Len(work') = m - 1
      /\ \A i \in 1..Len(work') : work'[i] = work[i]
  BY <1>1, <1>3, FrontOf
<1>5. /\ v \in Opened(work) /\ v \in onStack /\ onStack \subseteq DOMAIN indices
      /\ \A w \in DOMAIN indices : indices[w] \in Nat /\ lowlinks[w] \in Nat
  BY <1>1, <1>3, LastOpened DEF FindInv, NumberInv, StackInv
<1>6. L \in numbers /\ \A x \in numbers : L <= x
  <2>1. numbers \in SUBSET Nat /\ numbers # {}
    BY <1>5
  <2> HIDE DEF numbers
  <2>. QED  BY <2>1, LowestOf
<1> HIDE DEF L, gone, t, part, taken
<1>7. /\ L # indices[v] => FindInv(work', counter, indices, lowlinks', stack, onStack, gone)
      /\ L = indices[v] => \A s \in 1..Len(stack) : IsTop(s, v, stack, indices, lowlinks) =>
           FindInv(work', counter, indices, lowlinks', SubSeq(stack, 1, s - 1),
                   Remaining(v, onStack, indices), gone \union taken)
  <2>1. Resuming(v, L, work, work', lowlinks, lowlinks', onStack)
    <3>1. /\ \A w \in (Out(v) \intersect onStack) \union {v} : L <= lowlinks[w]
          /\ \E w \in (Out(v) \intersect onStack) \union {v} : L = lowlinks[w]
      BY <1>6
    <3>2. work[Len(work)] = Resume(v) /\ Len(work') = Len(work) - 1
      BY <1>3, <1>4
    <3>. QED  BY <1>1, <1>3, <1>4, <3>1, <3>2 DEF Resuming
  <2> HIDE DEF m, numbers
  <2>. QED  BY <1>1, <2>1, ResumeKeeps DEF taken
<1>8. CASE L # indices[v]
  BY <1>1, <1>2, <1>7, <1>8, TarjanUnmoved DEF gone
<1>9. CASE L = indices[v]
  <2>1. PICK s \in 1..Len(stack) : IsTop(s, v, stack, indices, lowlinks)
    BY <1>1, <1>5 DEF FindInv, StackInv
  <2>2. stack \in Seq(Nodes) /\ Len(stack) \in Nat /\ \A i \in 1..Len(stack) : stack[i] \in onStack
    BY <1>1 DEF FindInv, StackInv
  <2>3. s = t
    <3>1. \A j \in (s+1)..Len(stack) : stack[j] # v
      <4> SUFFICES ASSUME NEW j \in (s+1)..Len(stack), stack[j] = v PROVE FALSE
        OBVIOUS
      <4>1. j \in 1..Len(stack) /\ j > s
        BY <2>2
      <4>. QED  BY <1>5, <2>1, <4>1 DEF IsTop
    <3>2. stack[s] = v
      BY <2>1 DEF IsTop
    <3>3. t \in 1..Len(stack) /\ stack[t] = v /\ \A j \in (t+1)..Len(stack) : stack[j] # v
      BY <3>1, <3>2 DEF TopOf, t
    <3>4. ~(s < t) /\ ~(t < s)
      BY <2>2, <3>1, <3>2, <3>3
    <3>. QED  BY <2>2, <3>3, <3>4
  <2>4. FindInv(work', counter, indices, lowlinks', SubSeq(stack, 1, t - 1),
                Remaining(v, onStack, indices), gone \union taken)
    BY <1>7, <1>9, <2>1, <2>3
  <2>5. \A u \in gone \union taken : Out(u) \subseteq gone \union taken
    BY <2>4 DEF FindInv, PoppedInv
  <2>6. ~(lowlinks[v] < indices[v])
    <3>1. L <= lowlinks[v]
      BY <1>6
    <3>. QED  BY <1>5, <1>9, <3>1
  <2>7. /\ ToSet(part) = taken /\ ComponentsInv(sccs') /\ Popped(sccs') = gone \union taken
    <3>1. work[Len(work)] = Resume(v) /\ sccs' = Append(sccs, Reverse(part))
      BY <1>2, <1>3, <1>9
    <3> HIDE DEF m, numbers
    <3>. QED  BY <1>1, <1>3, <2>1, <2>3, <2>5, <2>6, <3>1, PopComponents DEF gone, taken, part
  <2>8. onStack' = Remaining(v, onStack, indices)
    <3>1. \A w \in onStack : ~(indices[v] <= indices[w]) <=> indices[w] < indices[v]
      BY <1>5
    <3>. QED  BY <1>2, <1>9, <2>7, <3>1 DEF Remaining, Taken, taken
  <2>. QED  BY <1>1, <1>2, <1>9, <2>4, <2>7, <2>8, TarjanUnmoved
<1>. QED  BY <1>8, <1>9

LEMMA InitTarjan == Init => TarjanInv
<1> SUFFICES ASSUME Init PROVE TarjanInv
  OBVIOUS
<1>1. /\ work = <<>> /\ counter = 0 /\ indices = <<>> /\ lowlinks = <<>>
      /\ stack = <<>> /\ onStack = {} /\ sccs = <<>>
  BY DEF Init, CycleInit
<1>2. Len(<<>>) = 0 /\ DOMAIN <<>> = {} /\ <<>> \in [{} -> Nat]
  OBVIOUS
<1>3. Opened(<<>>) = {} /\ Popped(<<>>) = {} /\ ToSet(<<>>) = {}
  BY <1>2 DEF Opened, Popped, ToSet
<1>4. WorkInv(<<>>, <<>>, {}) /\ NumberInv(0, <<>>, <<>>) /\ StackInv(<<>>, {}, <<>>, <<>>, {})
  BY <1>2 DEF WorkInv, NumberInv, StackInv
<1>5. FindInv(<<>>, 0, <<>>, <<>>, <<>>, {}, {})
  BY <1>2, <1>3, <1>4 DEF FindInv, ForthInv, BackInv, LowInv, EntryInv, AgainInv, SegmentInv,
     EnteredInv, PoppedInv
<1>6. ComponentsInv(<<>>)
  BY <1>3 DEF ComponentsInv
<1>. QED  BY <1>1, <1>3, <1>5, <1>6 DEF TarjanInv

LEMMA NextTarjan == TarjanInv /\ [Next]_allVars => TarjanInv'
<1> SUFFICES ASSUME TarjanInv, [Next]_allVars PROVE TarjanInv'
  OBVIOUS
<1>1. CASE UNCHANGED graphVars /\ (NextRoot \/ EnterNode \/ ResumeNode)
  BY <1>1, NextRootKeeps, EnterNodeKeeps, ResumeNodeKeeps
<1>2. CASE UNCHANGED graphVars /\ UNCHANGED tarjanVars
  <2>1. /\ work' = work /\ counter' = counter /\ indices' = indices /\ lowlinks' = lowlinks
        /\ stack' = stack /\ onStack' = onStack /\ sccs' = sccs /\ running' = running
    BY <1>2 DEF graphVars, tarjanVars
  <2>2. CASE Finding
    BY <1>2, <2>1, <2>2, TarjanUnmoved DEF TarjanInv
  <2>3. CASE ~Finding
    BY <2>1, <2>3 DEF TarjanInv, Finding
  <2>. QED  BY <2>2, <2>3
<1>3. CASE Next /\ ((\E v \in Nodes : StartFile(v) \/ Neighbor(v)) \/ Return)
  BY <1>2, <1>3 DEF Next, StartFile, Neighbor, Return
<1>. QED  BY <1>1, <1>2, <1>3 DEF Next, CycleStep, allVars, cycleVars

(* When all is popped every node is, with its component.                   *)
LEMMA FindIsComplete ==
  ASSUME TarjanInv
  PROVE  CyclesAreComponents
<1> DEFINE reported == {ToSet(scc) : scc \in Cycles}
           components == {Component(v) : v \in {u \in Nodes : u \in Reached(u)}}
<1> SUFFICES ASSUME CyclesFound
             PROVE  /\ components \subseteq reported
                    /\ \A c \in reported : \E d \in components : c \subseteq d
  BY DEF CyclesAreComponents
<1>1. FindInv(<<>>, counter, indices, lowlinks, stack, onStack, Popped(sccs)) /\ ComponentsInv(sccs)
  BY DEF TarjanInv, CyclesFound, Finding
<1>2. Popped(sccs) = Nodes
  BY <1>1, NothingOpen DEF CyclesFound, Entered
<1>3. \A scc \in ToSet(sccs) : scc \in Seq(Nodes)
  BY <1>1 DEF ComponentsInv, ToSet
<1>4. ASSUME NEW v \in Nodes, v \in Reached(v) PROVE Component(v) \in reported
  <2>1. PICK scc \in ToSet(sccs) : ToSet(scc) = Component(v)
    BY <1>1, <1>2 DEF ComponentsInv
  <2>2. scc \in Seq(Nodes) /\ Len(scc) \in Nat /\ DOMAIN scc = 1..Len(scc) /\ scc # <<>>
    BY <1>1, <1>3, <2>1 DEF ComponentsInv
  <2>3. Len(scc) \in Nat \ {0}
    BY <2>2, EmptySeq
  <2>4. IsCycle(scc)
    <3>0. Len(scc) = 1 \/ Len(scc) >= 2
      <4>1. \A k \in Nat \ {0} : k = 1 \/ k >= 2
        OBVIOUS
      <4>. QED  BY <2>3, <4>1
    <3> SUFFICES ASSUME Len(scc) = 1 PROVE scc[1] \in Out(scc[1])
      BY <3>0 DEF IsCycle
    <3>1. scc[1] = v /\ Component(v) = {v}
      <4>1. ToSet(scc) = {scc[1]}
        BY <2>2 DEF ToSet
      <4>2. v \in Component(v)
        BY DEF Component
      <4>. QED  BY <2>1, <4>1, <4>2
    <3>2. CASE v \notin Out(v)
      <4>1. PICK z \in Out(v) : z # v /\ Leads(z, v)
        <5>1. PICK z \in Out(v) : Leads(z, v)
          <6> SUFFICES ASSUME \A z \in Out(v) : ~Leads(z, v) PROVE FALSE
            OBVIOUS
          <6> DEFINE S == {u \in Nodes : ~Leads(u, v)}
          <6>1. Out(v) \subseteq S
            BY DEF Out
          <6>2. Closed(S)
            <7> SUFFICES ASSUME NEW u \in Nodes, ~Leads(u, v), NEW t \in Out(u) PROVE t \in S
              BY DEF Closed
            <7>. QED  BY LeadsOut DEF Out
          <6>3. Reached(v) \subseteq S
            BY <6>1, <6>2, ReachedLeast
          <6>. QED  BY <1>4, <6>3 DEF Leads
        <5>. QED  BY <3>2, <5>1
      <4>2. z \in Component(v)
        BY <4>1, ReachedClosed DEF Leads, Component
      <4>. QED  BY <3>1, <4>1, <4>2
    <3>. QED  BY <3>1, <3>2
  <2>. QED  BY <2>1, <2>4 DEF Cycles
<1>5. ASSUME NEW scc \in Cycles PROVE \E d \in components : ToSet(scc) \subseteq d
  <2>1. scc \in ToSet(sccs) /\ IsCycle(scc) /\ scc # <<>> /\ scc \in Seq(Nodes)
    BY <1>1, <1>3 DEF Cycles, ComponentsInv
  <2>2. PICK v \in ToSet(scc) : ToSet(scc) \subseteq Component(v) /\ (Len(scc) >= 2 => v \in Reached(v))
    BY <1>1, <2>1 DEF ComponentsInv
  <2>3. Len(scc) \in Nat \ {0} /\ DOMAIN scc = 1..Len(scc) /\ v \in Nodes
    BY <2>1, <2>2, EmptySeq DEF ToSet
  <2>4. v \in Reached(v)
    <3>1. CASE Len(scc) >= 2
      BY <2>2, <3>1
    <3>2. CASE ~(Len(scc) >= 2)
      <4>1. Len(scc) = 1 /\ scc[1] \in Out(scc[1])
        BY <2>1, <2>3, <3>2 DEF IsCycle
      <4>2. v = scc[1]
        BY <2>2, <2>3, <4>1 DEF ToSet
      <4>. QED  BY <4>1, <4>2, ReachedClosed
    <3>. QED  BY <3>1, <3>2
  <2>. QED  BY <2>2, <2>3, <2>4
<1>. QED  BY <1>4, <1>5

(* find_cycles reports every strongly connected component of two nodes or  *)
(* more and every node with an edge to itself, although nodes are entered  *)
(* again, with new numbers, and nothing that is not part of one.           *)
THEOREM CyclesCorrect == Spec => []CyclesAreComponents
BY InitTarjan, NextTarjan, FindIsComplete, PTL DEF Spec

-----------------------------------------------------------------------------
(* Sums over sets of nodes, whatever the order they are added up in.       *)

SumOf(g, S) == FoldFunctionOnSet(+, 0, g, S)

First(T) == CHOOSE x \in T : TRUE

(* h is the sum of g for the subsets of S. *)
Sums(h, g, S) ==
  \A T \in SUBSET S : h[T] = IF T = {} THEN 0 ELSE g[First(T)] + h[T \ {First(T)}]

LEMMA SmallestSet ==
  ASSUME NEW B \in SUBSET SUBSET Nodes, B # {}
  PROVE  \E S \in B : \A T \in B : Cardinality(S) <= Cardinality(T)
<1>1. \A S \in B : Cardinality(S) \in Nat
  BY SetOfNodes
<1> DEFINE Sizes == {Cardinality(S) : S \in B}
<1>2. PICK n \in Sizes : \A m \in Sizes : n <= m
  <2>1. Sizes \in SUBSET Nat /\ Sizes # {}
    BY <1>1
  <2>. QED  BY <2>1, LeastNumber
<1>. QED  BY <1>2

LEMMA WithoutOne ==
  ASSUME NEW S \in SUBSET Nodes, NEW x \in S
  PROVE  /\ S \ {x} \in SUBSET Nodes
         /\ Cardinality(S) \in Nat \ {0} /\ Cardinality(S \ {x}) = Cardinality(S) - 1
<1>1. IsFiniteSet(S) /\ Cardinality(S) \in Nat
  BY SetOfNodes
<1>2. Cardinality(S \ {x}) = Cardinality(S) - 1 /\ Cardinality(S) # 0
  BY <1>1, FS_RemoveElement, FS_EmptySet
<1>. QED  BY <1>1, <1>2

LEMMA FirstOf ==
  ASSUME NEW T, T # {}
  PROVE  First(T) \in T
BY DEF First

LEMMA SumsExist ==
  ASSUME NEW g \in [Nodes -> Int]
  PROVE  \E h \in [SUBSET Nodes -> Int] : Sums(h, g, Nodes)
<1> DEFINE D == [SUBSET Nodes -> Int]
           Next1(h) == [T \in SUBSET Nodes |-> IF T = {} THEN 0 ELSE g[First(T)] + h[T \ {First(T)}]]
           F == [h \in D |-> Next1(h)]
           b == [T \in SUBSET Nodes |-> 0]
<1>1. ASSUME NEW h \in D PROVE Next1(h) \in D
  <2> SUFFICES ASSUME NEW T \in SUBSET Nodes, T # {}
               PROVE  g[First(T)] + h[T \ {First(T)}] \in Int
    OBVIOUS
  <2>1. First(T) \in Nodes /\ T \ {First(T)} \in SUBSET Nodes
    BY FirstOf
  <2>2. g[First(T)] \in Int /\ h[T \ {First(T)}] \in Int
    BY <2>1
  <2>. QED  BY <2>2
<1>2. F \in [D -> D] /\ b \in D
  <2>1. F \in [D -> D]
    <3> HIDE DEF D, Next1
    <3>. QED  BY <1>1
  <2>2. b \in D
    OBVIOUS
  <2>. QED  BY <2>1, <2>2
<1>3. \A h \in D : F[h] = Next1(h)
  OBVIOUS
<1> HIDE DEF F, D, b
<1>4. PICK i : IsIteration(i, D, F, b)
  BY <1>2, Iteration
<1>5. /\ \A n \in Nat : i[n] \in D
      /\ i[0] = b
      /\ \A n \in Nat \ {0} : i[n] = Next1(i[n-1])
  <2>1. \A n \in Nat \ {0} : n - 1 \in Nat
    OBVIOUS
  <2>. QED  BY <1>3, <1>4, <2>1 DEF IsIteration
<1> DEFINE h == [T \in SUBSET Nodes |-> i[Cardinality(T)][T]]
<1>6. h \in [SUBSET Nodes -> Int]
  BY <1>5, SetOfNodes DEF D
<1>7. h[{}] = 0
  BY <1>5, FS_EmptySet DEF b
<1>8. ASSUME NEW T \in SUBSET Nodes, T # {}
      PROVE  h[T] = g[First(T)] + h[T \ {First(T)}]
  <2> DEFINE n == Cardinality(T)
             R == T \ {First(T)}
  <2>1. R \in SUBSET Nodes /\ n \in Nat \ {0} /\ Cardinality(R) = n - 1
    BY <1>8, FirstOf, WithoutOne
  <2>2. h[T] = i[n][T] /\ h[R] = i[n-1][R]
    BY <2>1
  <2>3. i[n] = Next1(i[n-1])
    BY <1>5, <2>1
  <2> HIDE DEF h, n
  <2>. QED  BY <1>8, <2>2, <2>3
<1> HIDE DEF h
<1>. QED  BY <1>6, <1>7, <1>8 DEF Sums

LEMMA SumsAgree ==
  ASSUME NEW S \in SUBSET Nodes, NEW g, NEW h, NEW k, Sums(h, g, S), Sums(k, g, S)
  PROVE  h[S] = k[S]
<1> DEFINE B == {T \in SUBSET S : h[T] # k[T]}
<1> SUFFICES ASSUME B # {} PROVE FALSE
  OBVIOUS
<1>1. PICK T \in B : \A U \in B : Cardinality(T) <= Cardinality(U)
  BY SmallestSet
<1> DEFINE R == T \ {First(T)}
<1>2. T # {}
  BY DEF Sums
<1>3. R \in SUBSET S /\ Cardinality(R) < Cardinality(T) /\ Cardinality(R) \in Nat /\ Cardinality(T) \in Nat
  BY <1>2, FirstOf, WithoutOne, SetOfNodes
<1>4. h[R] = k[R]
  <2> HIDE DEF R
  <2>1. R \notin B
    BY <1>1, <1>3
  <2>. QED  BY <1>3, <2>1
<1>5. h[T] = g[First(T)] + h[R] /\ k[T] = g[First(T)] + k[R]
  BY <1>2 DEF Sums
<1>. QED  BY <1>4, <1>5

(* The library's fold is that sum. *)
LEMMA SumValues ==
  ASSUME NEW g \in [Nodes -> Int]
  PROVE  \E h \in [SUBSET Nodes -> Int] :
           Sums(h, g, Nodes) /\ \A S \in SUBSET Nodes : SumOf(g, S) = h[S]
<1>1. PICK h \in [SUBSET Nodes -> Int] : Sums(h, g, Nodes)
  BY SumsExist
<1>2. ASSUME NEW S \in SUBSET Nodes PROVE SumOf(g, S) = h[S]
  <2> DEFINE Equation(t) == t = [s \in SUBSET S |-> IF s = {} THEN 0
                                ELSE g[CHOOSE x \in s : TRUE] + t[s \ {CHOOSE x \in s : TRUE}]]
             k == [T \in SUBSET S |-> h[T]]
             t == CHOOSE u : Equation(u)
  <2>1. Equation(k)
    <3>1. \A T \in SUBSET S : T # {} => T \ {First(T)} \in SUBSET S
      OBVIOUS
    <3>2. \A T \in SUBSET S : k[T] = IF T = {} THEN 0 ELSE g[First(T)] + k[T \ {First(T)}]
      BY <1>1, <3>1 DEF Sums
    <3>3. k = [T \in SUBSET S |-> k[T]]
      OBVIOUS
    <3> HIDE DEF k
    <3>. QED  BY <3>2, <3>3 DEF First
  <2>2. Equation(t)
    BY <2>1
  <2>3. SumOf(g, S) = t[S]
    BY DEF SumOf, FoldFunctionOnSet, MapThenFoldSet
  <2> HIDE DEF t
  <2>4. Sums(t, g, S)
    BY <2>2 DEF Sums, First
  <2>5. Sums(h, g, S)
    BY <1>1 DEF Sums
  <2>. QED  BY <2>3, <2>4, <2>5, SumsAgree
<1>. QED  BY <1>1, <1>2

(* What the sums are: nothing to add, one node more, the same terms.       *)
LEMMA SumOfNone ==
  ASSUME NEW g \in [Nodes -> Int]
  PROVE  SumOf(g, {}) = 0
<1>1. PICK h \in [SUBSET Nodes -> Int] :
        Sums(h, g, Nodes) /\ \A S \in SUBSET Nodes : SumOf(g, S) = h[S]
  BY SumValues
<1>. QED  BY <1>1 DEF Sums

LEMMA SumType ==
  ASSUME NEW g \in [Nodes -> Int], NEW S \in SUBSET Nodes
  PROVE  SumOf(g, S) \in Int
BY SumValues

LEMMA SumFirst ==
  ASSUME NEW g \in [Nodes -> Int], NEW S \in SUBSET Nodes, S # {}
  PROVE  SumOf(g, S) = g[First(S)] + SumOf(g, S \ {First(S)})
<1>1. PICK h \in [SUBSET Nodes -> Int] :
        Sums(h, g, Nodes) /\ \A T \in SUBSET Nodes : SumOf(g, T) = h[T]
  BY SumValues
<1>2. S \ {First(S)} \in SUBSET Nodes
  OBVIOUS
<1>. QED  BY <1>1, <1>2 DEF Sums

LEMMA SumWithout ==
  ASSUME NEW g \in [Nodes -> Int], NEW S \in SUBSET Nodes, NEW y \in S
  PROVE  SumOf(g, S) = g[y] + SumOf(g, S \ {y})
<1> DEFINE B == {T \in SUBSET Nodes :
                   \E x \in T : SumOf(g, T) # g[x] + SumOf(g, T \ {x})}
<1> SUFFICES ASSUME B # {} PROVE FALSE
  OBVIOUS
<1>1. PICK T \in B : \A U \in B : Cardinality(T) <= Cardinality(U)
  BY SmallestSet
<1>2. PICK x \in T : SumOf(g, T) # g[x] + SumOf(g, T \ {x})
  BY <1>1
<1>3. PICK f : f = First(T)
  OBVIOUS
<1>4. /\ f \in T /\ T \in SUBSET Nodes
      /\ SumOf(g, T) = g[f] + SumOf(g, T \ {f})
  BY <1>2, <1>3, FirstOf, SumFirst
<1>5. x # f
  BY <1>2, <1>4
<1>6. T \ {f} \in SUBSET Nodes /\ Cardinality(T \ {f}) < Cardinality(T)
      /\ Cardinality(T) \in Nat /\ Cardinality(T \ {f}) \in Nat
  BY <1>4, WithoutOne, SetOfNodes
<1>7. T \ {x} \in SUBSET Nodes /\ Cardinality(T \ {x}) < Cardinality(T)
      /\ Cardinality(T \ {x}) \in Nat
  BY <1>4, WithoutOne, SetOfNodes
<1>8. T \ {f} \notin B /\ T \ {x} \notin B
  <2> HIDE DEF B
  <2>. QED  BY <1>1, <1>6, <1>7
<1>9. SumOf(g, T \ {f}) = g[x] + SumOf(g, (T \ {f}) \ {x})
  BY <1>2, <1>5, <1>6, <1>8
<1>10. SumOf(g, T \ {x}) = g[f] + SumOf(g, (T \ {x}) \ {f})
  BY <1>4, <1>5, <1>7, <1>8
<1>11. (T \ {f}) \ {x} = (T \ {x}) \ {f} /\ (T \ {x}) \ {f} \in SUBSET Nodes
  BY <1>4
<1>12. /\ g[x] \in Int /\ g[f] \in Int
       /\ SumOf(g, (T \ {x}) \ {f}) \in Int
  BY <1>2, <1>4, <1>11, SumType
<1>13. SumOf(g, T) = g[f] + (g[x] + SumOf(g, (T \ {x}) \ {f}))
  BY <1>4, <1>9, <1>11
<1>14. \A i, j, n \in Int : i + (j + n) = j + (i + n)
  OBVIOUS
<1>15. SumOf(g, T) = g[x] + SumOf(g, T \ {x})
  BY <1>10, <1>12, <1>13, <1>14
<1>. QED  BY <1>2, <1>15

LEMMA SumWith ==
  ASSUME NEW g \in [Nodes -> Int], NEW R \in SUBSET Nodes, NEW y \in Nodes, y \notin R
  PROVE  SumOf(g, R \union {y}) = g[y] + SumOf(g, R)
<1>1. R \union {y} \in SUBSET Nodes /\ y \in R \union {y} /\ (R \union {y}) \ {y} = R
  OBVIOUS
<1>2. SumOf(g, R \union {y}) = g[y] + SumOf(g, (R \union {y}) \ {y})
  BY <1>1, SumWithout
<1>. QED  BY <1>1, <1>2

LEMMA SumEqual ==
  ASSUME NEW g \in [Nodes -> Int], NEW k \in [Nodes -> Int], NEW S \in SUBSET Nodes,
         \A x \in S : g[x] = k[x]
  PROVE  SumOf(g, S) = SumOf(k, S)
<1> DEFINE B == {T \in SUBSET S : SumOf(g, T) # SumOf(k, T)}
<1> SUFFICES ASSUME B # {} PROVE FALSE
  OBVIOUS
<1>1. B \in SUBSET SUBSET Nodes
  OBVIOUS
<1>2. PICK T \in B : \A U \in B : Cardinality(T) <= Cardinality(U)
  BY <1>1, SmallestSet
<1>3. T \in SUBSET S /\ T \in SUBSET Nodes /\ SumOf(g, T) # SumOf(k, T)
  OBVIOUS
<1>4. T # {}
  BY <1>3, SumOfNone
<1>5. PICK y : y \in T
  BY <1>4
<1>6. T \ {y} \in SUBSET S /\ Cardinality(T \ {y}) < Cardinality(T)
      /\ Cardinality(T) \in Nat /\ Cardinality(T \ {y}) \in Nat
  BY <1>3, <1>5, WithoutOne, SetOfNodes
<1>7. T \ {y} \notin B
  <2> HIDE DEF B
  <2>. QED  BY <1>2, <1>6
<1>8. SumOf(g, T \ {y}) = SumOf(k, T \ {y})
  BY <1>6, <1>7
<1>9. g[y] = k[y]
  BY <1>3, <1>5
<1>. QED  BY <1>3, <1>5, <1>8, <1>9, SumWithout

(* Two terms of a sum that change, and by how much it does. *)
DifferByTwo(g, k, a, b) ==
  SumOf(k, Nodes) - SumOf(g, Nodes) = (k[a] - g[a]) + (k[b] - g[b])

LEMMA SumOfTwo ==
  ASSUME NEW g \in [Nodes -> Int], NEW k \in [Nodes -> Int],
         NEW a \in Nodes, NEW b \in Nodes, a # b,
         \A x \in Nodes \ {a, b} : g[x] = k[x]
  PROVE  DifferByTwo(g, k, a, b)
<1> DEFINE R == (Nodes \ {a}) \ {b}
<1>1. SumOf(g, Nodes) = g[a] + SumOf(g, Nodes \ {a}) /\ SumOf(k, Nodes) = k[a] + SumOf(k, Nodes \ {a})
  BY SumWithout
<1>2. SumOf(g, Nodes \ {a}) = g[b] + SumOf(g, R) /\ SumOf(k, Nodes \ {a}) = k[b] + SumOf(k, R)
  BY SumWithout
<1>3. SumOf(g, R) = SumOf(k, R)
  BY SumEqual
<1>4. /\ SumOf(g, R) \in Int /\ SumOf(g, Nodes) \in Int /\ SumOf(k, Nodes) \in Int
      /\ SumOf(g, Nodes \ {a}) \in Int /\ SumOf(k, Nodes \ {a}) \in Int
  BY SumType
<1>5. g[a] \in Int /\ g[b] \in Int /\ k[a] \in Int /\ k[b] \in Int
  OBVIOUS
<1> HIDE DEF R
<1>. QED  BY <1>1, <1>2, <1>3, <1>4, <1>5 DEF DifferByTwo

-----------------------------------------------------------------------------
(* CommunityAnalysis. *)

Louvain == running = "louvain_communities"

Members(comm, c) == {v \in Nodes : comm[v] = c}

Degrees == [v \in Nodes |-> Degree(v)]

(* The pairs of neighbors within S, in both orders. *)
Pairs(S) == {p \in S \X S : p[2] \in Neighbors(p[1])}

(* What community c contributes to the modularity of a division. *)
Part(comm, c) ==
  M2 * Cardinality(Pairs(Members(comm, c)))
    - resolution * SumOf(Degrees, Members(comm, c)) * SumOf(Degrees, Members(comm, c))

Parts(comm) == [c \in Nodes |-> Part(comm, c)]

(* The sums of degrees kept by hand are those of the communities.          *)
LouvainInv ==
  Louvain =>
    /\ edgeCount \in Nat
    /\ resolution \in Nat \ {0}
    /\ community \in [Nodes -> Nodes]
    /\ nextNode \subseteq Nodes
    /\ degreeSum = [c \in Nodes |-> SumOf(Degrees, Members(community, c))]

LEMMA ModularityIsSum ==
  ASSUME NEW comm
  PROVE  Modularity(comm) = SumOf(Parts(comm), Nodes)
BY DEF Modularity, SumOf, Parts, Part, Members, Pairs, Degrees

(* Neighbors are nodes, finite in number, and neighbors of each other.     *)
LEMMA NeighborFacts ==
  ASSUME NEW v \in Nodes
  PROVE  /\ Neighbors(v) \in SUBSET Nodes
         /\ Degree(v) \in Nat
         /\ \A w \in Nodes : w \in Neighbors(v) <=> v \in Neighbors(w)
<1>1. Neighbors(v) \in SUBSET Nodes
  BY DEF Neighbors, Out, In
<1>2. \A w \in Nodes : w \in Neighbors(v) <=> v \in Neighbors(w)
  BY DEF Neighbors, Out, In
<1>. QED  BY <1>1, <1>2, SetOfNodes DEF Degree

LEMMA DegreesType == Degrees \in [Nodes -> Int]
BY NeighborFacts DEF Degrees

LEMMA PairsFinite ==
  ASSUME NEW S \in SUBSET Nodes
  PROVE  IsFiniteSet(Pairs(S)) /\ Cardinality(Pairs(S)) \in Nat
<1>1. IsFiniteSet(S \X S)
  BY SetOfNodes, FS_Product
<1>2. Pairs(S) \in SUBSET (S \X S)
  BY DEF Pairs
<1>. QED  BY <1>1, <1>2, FS_Subset, FS_CardinalityType

LEMMA DisjointUnion ==
  ASSUME NEW S, NEW T, IsFiniteSet(S), IsFiniteSet(T), S \intersect T = {}
  PROVE  /\ IsFiniteSet(S \union T)
         /\ Cardinality(S \union T) = Cardinality(S) + Cardinality(T)
         /\ Cardinality(S) \in Nat /\ Cardinality(T) \in Nat
<1>1. Cardinality(S) \in Nat /\ Cardinality(T) \in Nat
  BY FS_CardinalityType
<1>2. /\ IsFiniteSet(S \union T)
      /\ Cardinality(S \union T) = Cardinality(S) + Cardinality(T) - Cardinality(S \intersect T)
  BY FS_Union
<1>3. Cardinality(S \intersect T) = 0
  BY FS_EmptySet
<1>. QED  BY <1>1, <1>2, <1>3

(* A node counts twice for each neighbor it has among the others, and once *)
(* if it is its own.                                                       *)
Itself(v) == IF v \in Neighbors(v) THEN 1 ELSE 0

LEMMA PairsOfOne ==
  ASSUME NEW R \in SUBSET Nodes, NEW v \in Nodes, v \notin R
  PROVE  Cardinality(Pairs(R \union {v})) =
           Cardinality(Pairs(R)) + 2 * Cardinality(Neighbors(v) \intersect R) + Itself(v)
<1> DEFINE N == Neighbors(v) \intersect R
           From == {<<v, w>> : w \in N}
           To == {<<w, v>> : w \in N}
           Own == IF v \in Neighbors(v) THEN {<<v, v>>} ELSE {}
<1>1. IsFiniteSet(N) /\ Cardinality(N) \in Nat
  BY SetOfNodes
<1>2. IsFiniteSet(From) /\ Cardinality(From) = Cardinality(N)
  <2>1. [w \in N |-> <<v, w>>] \in Bijection(N, From)
    BY DEF Bijection, Injection, Surjection, IsInjective
  <2>. QED  BY <1>1, <2>1, FS_Bijection DEF ExistsBijection
<1>3. IsFiniteSet(To) /\ Cardinality(To) = Cardinality(N)
  <2>1. [w \in N |-> <<w, v>>] \in Bijection(N, To)
    BY DEF Bijection, Injection, Surjection, IsInjective
  <2>. QED  BY <1>1, <2>1, FS_Bijection DEF ExistsBijection
<1>4. IsFiniteSet(Own) /\ Cardinality(Own) = Itself(v)
  BY FS_Singleton, FS_EmptySet DEF Itself
<1>5. IsFiniteSet(Pairs(R)) /\ Cardinality(Pairs(R)) \in Nat
  BY PairsFinite
<1>6. Pairs(R \union {v}) = ((Pairs(R) \union From) \union To) \union Own
  <2>1. \A w \in R : v \in Neighbors(w) <=> w \in Neighbors(v)
    BY NeighborFacts
  <2>2. ASSUME NEW p \in Pairs(R \union {v})
        PROVE  p \in ((Pairs(R) \union From) \union To) \union Own
    <3>1. PICK x \in R \union {v}, y \in R \union {v} : p = <<x, y>> /\ y \in Neighbors(x)
      BY DEF Pairs
    <3>2. CASE x \in R /\ y \in R
      BY <3>1, <3>2 DEF Pairs
    <3>3. CASE x = v /\ y \in R
      BY <3>1, <3>3
    <3>4. CASE x \in R /\ y = v
      BY <2>1, <3>1, <3>4
    <3>5. CASE x = v /\ y = v
      BY <3>1, <3>5
    <3>. QED  BY <3>1, <3>2, <3>3, <3>4, <3>5
  <2>3. /\ Pairs(R) \subseteq Pairs(R \union {v})
        /\ From \subseteq Pairs(R \union {v})
        /\ To \subseteq Pairs(R \union {v})
        /\ Own \subseteq Pairs(R \union {v})
    BY <2>1 DEF Pairs
  <2> HIDE DEF From, To, Own
  <2>. QED  BY <2>2, <2>3
<1>7. Pairs(R) \intersect From = {} /\ (Pairs(R) \union From) \intersect To = {}
      /\ ((Pairs(R) \union From) \union To) \intersect Own = {}
  BY DEF Pairs
<1> HIDE DEF From, To, Own, N
<1>8. IsFiniteSet(Pairs(R) \union From)
      /\ Cardinality(Pairs(R) \union From) = Cardinality(Pairs(R)) + Cardinality(N)
  BY <1>1, <1>2, <1>5, <1>7, DisjointUnion
<1>9. IsFiniteSet((Pairs(R) \union From) \union To)
      /\ Cardinality((Pairs(R) \union From) \union To)
           = Cardinality(Pairs(R)) + Cardinality(N) + Cardinality(N)
  BY <1>1, <1>3, <1>5, <1>7, <1>8, DisjointUnion
<1>10. Itself(v) \in Nat
  BY DEF Itself
<1>11. Cardinality(((Pairs(R) \union From) \union To) \union Own)
         = Cardinality((Pairs(R) \union From) \union To) + Cardinality(Own)
  BY <1>4, <1>7, <1>9, DisjointUnion
<1>12. Cardinality(Pairs(R \union {v}))
         = Cardinality(Pairs(R)) + Cardinality(N) + Cardinality(N) + Itself(v)
  BY <1>4, <1>6, <1>9, <1>11
<1>. QED  BY <1>1, <1>5, <1>10, <1>12 DEF N

(* What one node adds to the part of a community, and to the modularity    *)
(* when it changes community.                                              *)
Others(comm, v, c) == Members(comm, c) \ {v}

Linked(comm, v, c) == Cardinality(Neighbors(v) \intersect Others(comm, v, c))

Rest(comm, v, c) == SumOf(Degrees, Others(comm, v, c))

(* The part of community c when v is counted in it, less its part without. *)
LEMMA PartOfOne ==
  ASSUME edgeCount \in Nat, resolution \in Nat \ {0},
         NEW comm \in [Nodes -> Nodes], NEW v \in Nodes, NEW c \in Nodes,
         NEW next \in [Nodes -> Nodes],
         comm[v] # c, next[v] = c, \A w \in Nodes \ {v} : next[w] = comm[w]
  PROVE  /\ Part(comm, c) \in Int /\ Part(next, c) \in Int
         /\ Part(next, c) - Part(comm, c) =
              M2 * (2 * Linked(comm, v, c) + Itself(v))
                - resolution * (2 * Rest(comm, v, c) * Degree(v) + Degree(v) * Degree(v))
<1> DEFINE R == Members(comm, c)
           n == Cardinality(Pairs(R))
           k == Linked(comm, v, c)
           t == SumOf(Degrees, R)
           d == Degree(v)
<1>1. R \in SUBSET Nodes /\ v \notin R /\ R = Others(comm, v, c)
  BY DEF Members, Others
<1>2. Members(next, c) = R \union {v}
  BY DEF Members
<1>3. Cardinality(Pairs(R \union {v})) = n + 2 * k + Itself(v)
  BY <1>1, PairsOfOne DEF Linked
<1>4. SumOf(Degrees, R \union {v}) = d + t
  <2>1. SumOf(Degrees, R \union {v}) = Degrees[v] + SumOf(Degrees, R)
    <3> HIDE DEF R
    <3>. QED  BY <1>1, DegreesType, SumWith
  <2>2. Degrees[v] = d
    BY DEF Degrees
  <2>. QED  BY <2>1, <2>2
<1>5. /\ n \in Int /\ k \in Int /\ t \in Int /\ d \in Int
      /\ M2 \in Int /\ Itself(v) \in Int /\ resolution \in Int
  <2>1. n \in Nat /\ t \in Int /\ d \in Nat /\ M2 \in Nat /\ Itself(v) \in Nat
    BY <1>1, PairsFinite, SumType, DegreesType, NeighborFacts DEF Itself, M2
  <2>2. k \in Nat
    BY <1>1, SetOfNodes DEF Linked
  <2>. QED  BY <2>1, <2>2
<1>6. Part(comm, c) = M2 * n - resolution * t * t
  BY DEF Part
<1>7. Part(next, c) = M2 * (n + 2 * k + Itself(v)) - resolution * (d + t) * (d + t)
  BY <1>2, <1>3, <1>4 DEF Part
<1>8. Rest(comm, v, c) = t
  BY <1>1 DEF Rest
<1> HIDE DEF n, k, t, d
<1>9. \A m, a, b, i, r, s, e \in Int :
        (m * (a + 2 * b + i) - r * (e + s) * (e + s)) - (m * a - r * s * s)
          = m * (2 * b + i) - r * (2 * s * e + e * e)
  OBVIOUS
<1>. QED  BY <1>5, <1>6, <1>7, <1>8, <1>9 DEF k, d

(* EdgesTo counts the links of v to another community, and v itself with   *)
(* those to its own.                                                       *)
LEMMA EdgesToOther ==
  ASSUME community \in [Nodes -> Nodes], NEW v \in Nodes, NEW c \in Nodes, community[v] # c
  PROVE  EdgesTo(v, c) = Linked(community, v, c)
<1>1. {w \in Neighbors(v) : community[w] = c} = Neighbors(v) \intersect Others(community, v, c)
  BY NeighborFacts DEF Others, Members
<1>. QED  BY <1>1 DEF EdgesTo, Linked

LEMMA EdgesToOwn ==
  ASSUME community \in [Nodes -> Nodes], NEW v \in Nodes
  PROVE  EdgesTo(v, community[v]) = Linked(community, v, community[v]) + Itself(v)
<1> DEFINE L == Neighbors(v) \intersect Others(community, v, community[v])
           I == Neighbors(v) \intersect {v}
<1>1. {w \in Neighbors(v) : community[w] = community[v]} = L \union I
  BY NeighborFacts DEF Others, Members
<1>2. L \intersect I = {} /\ L \in SUBSET Nodes /\ I \in SUBSET Nodes
  BY DEF Others, Members
<1>3. Cardinality(I) = Itself(v)
  BY FS_Singleton, FS_EmptySet DEF Itself
<1>4. IsFiniteSet(L) /\ IsFiniteSet(I)
  BY <1>2, SetOfNodes
<1> HIDE DEF L, I
<1>5. Cardinality(L \union I) = Cardinality(L) + Cardinality(I)
  BY <1>2, <1>4, DisjointUnion
<1>. QED  BY <1>1, <1>3, <1>5 DEF EdgesTo, Linked, L

(* The gain a move is chosen by is half of what it does to the modularity, *)
(* but for the node's link to itself, which is not lost.                   *)
LEMMA MoveGains ==
  ASSUME LouvainInv, Louvain, NEW v \in Nodes, NEW c \in Nodes, c # community[v],
         NEW next \in [Nodes -> Nodes],
         next[v] = c, \A w \in Nodes \ {v} : next[w] = community[w]
  PROVE  /\ Modularity(next) \in Int /\ Modularity(community) \in Int /\ Gain(v, c) \in Int
         /\ Modularity(next) - Modularity(community) = 2 * Gain(v, c) + 2 * M2 * Itself(v)
<1> DEFINE a == community[v]
<1>1. /\ edgeCount \in Nat /\ resolution \in Nat \ {0}
      /\ community \in [Nodes -> Nodes] /\ a \in Nodes
      /\ degreeSum = [x \in Nodes |-> SumOf(Degrees, Members(community, x))]
  BY DEF LouvainInv
<1>2. next \in [Nodes -> Nodes] /\ next[v] = c
  OBVIOUS
<1>3. /\ a # c /\ community[v] = a
      /\ \A w \in Nodes \ {v} : next[w] = community[w] /\ community[w] = next[w]
  OBVIOUS
<1>4. \A x \in Nodes : Others(next, v, x) = Others(community, v, x)
  BY <1>1 DEF Others, Members
<1>5. \A x \in Nodes : Linked(next, v, x) = Linked(community, v, x)
                       /\ Rest(next, v, x) = Rest(community, v, x)
  BY <1>4 DEF Linked, Rest
<1>6. /\ Part(community, c) \in Int /\ Part(next, c) \in Int
      /\ Part(next, c) - Part(community, c) =
           M2 * (2 * Linked(community, v, c) + Itself(v))
             - resolution * (2 * Rest(community, v, c) * Degree(v) + Degree(v) * Degree(v))
  <2>1. community[v] # c /\ \A w \in Nodes \ {v} : next[w] = community[w]
    BY <1>3
  <2> HIDE DEF a
  <2>. QED  BY <1>1, <2>1, PartOfOne
<1>7. /\ Part(community, a) \in Int /\ Part(next, a) \in Int
      /\ Part(community, a) - Part(next, a) =
           M2 * (2 * Linked(community, v, a) + Itself(v))
             - resolution * (2 * Rest(community, v, a) * Degree(v) + Degree(v) * Degree(v))
  <2>1. next[v] # a /\ \A w \in Nodes \ {v} : community[w] = next[w]
    BY <1>2, <1>3
  <2> HIDE DEF a
  <2>2. Part(community, a) \in Int /\ Part(next, a) \in Int
        /\ Part(community, a) - Part(next, a) =
             M2 * (2 * Linked(next, v, a) + Itself(v))
               - resolution * (2 * Rest(next, v, a) * Degree(v) + Degree(v) * Degree(v))
    BY <1>1, <1>3, <2>1, PartOfOne
  <2>. QED  BY <1>1, <1>5, <2>2
<1>8. ASSUME NEW x \in Nodes, x # a, x # c
      PROVE  Part(community, x) = Part(next, x)
  <2>1. Members(next, x) = Members(community, x)
    BY <1>1, <1>8 DEF Members
  <2>. QED  BY <2>1 DEF Part
<1>9. /\ Rest(community, v, c) = degreeSum[c]
      /\ Rest(community, v, a) = degreeSum[a] - Degree(v)
  <2>1. Others(community, v, c) = Members(community, c)
    BY DEF Others, Members
  <2>2. v \in Members(community, a) /\ Members(community, a) \in SUBSET Nodes
    BY DEF Members
  <2>3. SumOf(Degrees, Members(community, a)) = Degrees[v] + Rest(community, v, a)
    BY <2>2, DegreesType, SumWithout DEF Rest, Others
  <2>4. Rest(community, v, a) \in Int
    BY <2>2, DegreesType, SumType DEF Rest, Others
  <2>5. Degree(v) \in Nat /\ Degrees[v] = Degree(v)
    BY NeighborFacts DEF Degrees
  <2>. QED  BY <1>1, <2>1, <2>3, <2>4, <2>5 DEF Rest
<1>10. Gain(v, c) =
         M2 * (Linked(community, v, c) - (Linked(community, v, a) + Itself(v)))
           - resolution * Degree(v) * (Rest(community, v, c) - Rest(community, v, a))
  BY <1>1, <1>9, EdgesToOther, EdgesToOwn DEF Gain
<1>11. \A x \in Nodes : Part(community, x) \in Int /\ Part(next, x) \in Int
  <2>1. ASSUME NEW comm \in [Nodes -> Nodes], NEW x \in Nodes PROVE Part(comm, x) \in Int
    <3>1. Members(comm, x) \in SUBSET Nodes
      BY DEF Members
    <3>2. /\ Cardinality(Pairs(Members(comm, x))) \in Nat
          /\ SumOf(Degrees, Members(comm, x)) \in Int
          /\ M2 \in Nat
      BY <1>1, <3>1, PairsFinite, SumType, DegreesType DEF M2
    <3>. QED  BY <1>1, <3>2 DEF Part
  <2>. QED  BY <1>1, <1>2, <2>1
<1>12. Parts(community) \in [Nodes -> Int] /\ Parts(next) \in [Nodes -> Int]
  BY <1>11 DEF Parts
<1>13. /\ Modularity(next) \in Int /\ Modularity(community) \in Int
       /\ Modularity(next) - Modularity(community)
            = (Part(next, a) - Part(community, a)) + (Part(next, c) - Part(community, c))
  <2>0. a \in Nodes /\ a # c
    BY <1>1
  <2> HIDE DEF a
  <2>1. \A x \in Nodes \ {a, c} : Parts(community)[x] = Parts(next)[x]
    BY <1>8 DEF Parts
  <2>2. SumOf(Parts(next), Nodes) - SumOf(Parts(community), Nodes)
          = (Parts(next)[a] - Parts(community)[a]) + (Parts(next)[c] - Parts(community)[c])
    <3> DEFINE P == Parts(community)
               Q == Parts(next)
    <3>1. P \in [Nodes -> Int] /\ Q \in [Nodes -> Int]
      BY <1>12
    <3>2. \A x \in Nodes \ {a, c} : P[x] = Q[x]
      BY <2>1
    <3> HIDE DEF P, Q
    <3>3. DifferByTwo(P, Q, a, c)
      BY <2>0, <3>1, <3>2, SumOfTwo
    <3>4. SumOf(Q, Nodes) - SumOf(P, Nodes) = (Q[a] - P[a]) + (Q[c] - P[c])
      BY <3>3 DEF DifferByTwo
    <3>. QED  BY <3>4 DEF P, Q
  <2>3. SumOf(Parts(next), Nodes) \in Int /\ SumOf(Parts(community), Nodes) \in Int
    BY <1>12, SumType
  <2>4. /\ Parts(next)[a] = Part(next, a) /\ Parts(community)[a] = Part(community, a)
        /\ Parts(next)[c] = Part(next, c) /\ Parts(community)[c] = Part(community, c)
    BY <1>1 DEF Parts
  <2>. QED  BY <2>2, <2>3, <2>4, ModularityIsSum
<1> DEFINE lc == Linked(community, v, c)
           la == Linked(community, v, a)
           rc == Rest(community, v, c)
           ra == Rest(community, v, a)
<1>14. /\ lc \in Int /\ la \in Int /\ rc \in Int /\ ra \in Int
       /\ M2 \in Int /\ resolution \in Int /\ Degree(v) \in Int /\ Itself(v) \in Int
  <2>1. \A x \in Nodes : Linked(community, v, x) \in Nat /\ Rest(community, v, x) \in Int
    <3> SUFFICES ASSUME NEW x \in Nodes
                 PROVE  Linked(community, v, x) \in Nat /\ Rest(community, v, x) \in Int
      OBVIOUS
    <3>1. Others(community, v, x) \in SUBSET Nodes
      BY DEF Others, Members
    <3>. QED  BY <3>1, SetOfNodes, SumType, DegreesType DEF Linked, Rest
  <2>2. M2 \in Nat /\ Degree(v) \in Nat /\ Itself(v) \in Nat
    BY <1>1, NeighborFacts DEF Itself, M2
  <2> HIDE DEF a
  <2>. QED  BY <1>1, <2>1, <2>2
<1> HIDE DEF a, lc, la, rc, ra
<1>15. \A m, r, d, i, p, q, s, t \in Int :
         (m * (2 * p + i) - r * (2 * s * d + d * d)) - (m * (2 * q + i) - r * (2 * t * d + d * d))
           = 2 * (m * (p - (q + i)) - r * d * (s - t)) + 2 * m * i
  OBVIOUS
<1>16. (M2 * (2 * lc + Itself(v)) - resolution * (2 * rc * Degree(v) + Degree(v) * Degree(v)))
         - (M2 * (2 * la + Itself(v)) - resolution * (2 * ra * Degree(v) + Degree(v) * Degree(v)))
       = 2 * (M2 * (lc - (la + Itself(v))) - resolution * Degree(v) * (rc - ra))
         + 2 * M2 * Itself(v)
  BY <1>14, <1>15
<1>17. /\ Gain(v, c) = M2 * (lc - (la + Itself(v))) - resolution * Degree(v) * (rc - ra)
       /\ Part(next, c) - Part(community, c) =
            M2 * (2 * lc + Itself(v)) - resolution * (2 * rc * Degree(v) + Degree(v) * Degree(v))
       /\ Part(community, a) - Part(next, a) =
            M2 * (2 * la + Itself(v)) - resolution * (2 * ra * Degree(v) + Degree(v) * Degree(v))
  BY <1>6, <1>7, <1>10 DEF lc, la, rc, ra
<1>18. Gain(v, c) \in Int
  BY <1>14, <1>17
<1>19. \A A, B, C, D, X, Y \in Int :
         (D - C) + (B - A) = (B - A) - (C - D)
  OBVIOUS
<1>20. (Part(next, a) - Part(community, a)) + (Part(next, c) - Part(community, c))
         = (Part(next, c) - Part(community, c)) - (Part(community, a) - Part(next, a))
  BY <1>6, <1>7
<1>. QED  BY <1>13, <1>16, <1>17, <1>18, <1>20

LEMMA BetterGains ==
  ASSUME LouvainInv, Louvain, NEW v \in Nodes, NEW c \in Better(v)
  PROVE  c \in Nodes /\ c # community[v] /\ Gain(v, c) > 0
BY NeighborFacts DEF LouvainInv, Better

LEMMA LeastOf ==
  ASSUME NEW S \in SUBSET Nodes, S # {}
  PROVE  Least(S) \in S
<1>1. S \in SUBSET Nat
  BY GraphAssumption
<1>. QED  BY <1>1, LeastNumber DEF Least

LEMMA InitLouvain == Init => LouvainInv
<1> SUFFICES ASSUME Init, Louvain PROVE LouvainInv
  BY DEF LouvainInv
<1>1. edgeCount \in Nat
  <2>1. IsFiniteSet(Nodes \X Nodes) /\ edges \in SUBSET (Nodes \X Nodes)
    BY GraphAssumption, FS_Product DEF Init
  <2>2. Cardinality(edges) \in Nat
    BY <2>1, FS_Subset, FS_CardinalityType
  <2>3. MaxParallel * Cardinality(edges) \in Nat
    BY <2>2, GraphAssumption
  <2>. QED  BY <2>2, <2>3 DEF Init, CommunityInit
<1>2. /\ resolution \in Nat \ {0} /\ nextNode = Nodes
      /\ community = [v \in Nodes |-> v] /\ degreeSum = Degrees
  BY LouvainAssumption DEF Init, CommunityInit, Degrees
<1>3. ASSUME NEW c \in Nodes PROVE SumOf(Degrees, Members(community, c)) = Degrees[c]
  <2>1. Members(community, c) = {} \union {c}
    BY <1>2 DEF Members
  <2>2. SumOf(Degrees, {} \union {c}) = Degrees[c] + SumOf(Degrees, {})
    BY DegreesType, SumWith
  <2>3. SumOf(Degrees, {}) = 0 /\ Degrees[c] \in Int
    BY DegreesType, SumOfNone
  <2>. QED  BY <2>1, <2>2, <2>3
<1>4. degreeSum = [c \in Nodes |-> SumOf(Degrees, Members(community, c))]
  BY <1>2, <1>3, DegreesType
<1>. QED  BY <1>1, <1>2, <1>4 DEF LouvainInv

(* A move: v leaves community a, whose sum loses its degree, for c.        *)
LEMMA MoveKeepsSums ==
  ASSUME LouvainInv, Louvain, NEW v \in Nodes, NEW c \in Nodes, c # community[v],
         NEW next \in [Nodes -> Nodes],
         next[v] = c, \A w \in Nodes \ {v} : next[w] = community[w],
         NEW sums,
         sums = [x \in Nodes |-> IF x = c THEN degreeSum[x] + Degree(v)
                                ELSE IF x = community[v] THEN degreeSum[x] - Degree(v)
                                ELSE degreeSum[x]]
  PROVE  sums = [x \in Nodes |-> SumOf(Degrees, Members(next, x))]
<1>1. /\ community \in [Nodes -> Nodes]
      /\ degreeSum = [x \in Nodes |-> SumOf(Degrees, Members(community, x))]
  BY DEF LouvainInv
<1>2. PICK a \in Nodes : a = community[v]
  BY <1>1
<1>3. Degrees[v] = Degree(v) /\ Degree(v) \in Int
  BY NeighborFacts DEF Degrees
<1>4. SumOf(Degrees, Members(next, c)) = degreeSum[c] + Degree(v)
  <2>1. Members(next, c) = Members(community, c) \union {v}
    BY <1>1 DEF Members
  <2>2. Members(community, c) \in SUBSET Nodes /\ v \notin Members(community, c)
    BY DEF Members
  <2>3. SumOf(Degrees, Members(community, c)) \in Int
    BY <2>2, SumType, DegreesType
  <2>4. SumOf(Degrees, Members(community, c) \union {v})
          = Degrees[v] + SumOf(Degrees, Members(community, c))
    BY <2>2, SumWith, DegreesType
  <2>. QED  BY <1>1, <1>3, <2>1, <2>3, <2>4
<1>5. SumOf(Degrees, Members(next, a)) = degreeSum[a] - Degree(v)
  <2>1. Members(community, a) = Members(next, a) \union {v}
    BY <1>1, <1>2 DEF Members
  <2>2. Members(next, a) \in SUBSET Nodes /\ v \notin Members(next, a)
    BY <1>2 DEF Members
  <2>3. SumOf(Degrees, Members(next, a)) \in Int
    BY <2>2, SumType, DegreesType
  <2>4. SumOf(Degrees, Members(next, a) \union {v})
          = Degrees[v] + SumOf(Degrees, Members(next, a))
    BY <2>2, SumWith, DegreesType
  <2>5. degreeSum[a] = SumOf(Degrees, Members(community, a))
    BY <1>1
  <2>. QED  BY <1>3, <2>1, <2>3, <2>4, <2>5
<1>6. ASSUME NEW x \in Nodes, x # a, x # c
      PROVE  SumOf(Degrees, Members(next, x)) = degreeSum[x]
  <2>1. Members(next, x) = Members(community, x)
    BY <1>1, <1>2, <1>6 DEF Members
  <2>. QED  BY <1>1, <2>1
<1>. QED  BY <1>2, <1>4, <1>5, <1>6

LEMMA VisitNodeMoves ==
  ASSUME LouvainInv, VisitNode, UNCHANGED graphVars
  PROVE  LouvainInv' /\ (community' # community => Modularity(community') > Modularity(community))
<1> DEFINE v == Least(nextNode)
<1>1. Louvain /\ v \in Nodes /\ nextNode' \subseteq Nodes
  BY LeastOf DEF VisitNode, Running, Louvain, LouvainInv
<1>2. /\ Louvain' /\ edges' = edges /\ edgeCount' = edgeCount /\ resolution' = resolution
      /\ Degrees' = Degrees
  BY <1>1 DEF VisitNode, graphVars, Louvain, Degrees, Degree, Neighbors, Out, In
<1>3. CASE Better(v) = {}
  BY <1>1, <1>2, <1>3 DEF VisitNode, LouvainInv
<1>4. CASE Better(v) # {}
  <2>1. PICK c \in Better(v) :
          /\ community' = [community EXCEPT ![v] = c]
          /\ degreeSum' = [degreeSum EXCEPT ![community[v]] = @ - Degree(v), ![c] = @ + Degree(v)]
    BY <1>4 DEF VisitNode
  <2>2. c \in Nodes /\ c # community[v] /\ Gain(v, c) > 0
    BY <1>1, BetterGains
  <2>3. /\ community' \in [Nodes -> Nodes] /\ community'[v] = c
        /\ \A w \in Nodes \ {v} : community'[w] = community[w]
    BY <1>1, <2>1, <2>2 DEF LouvainInv
  <2> HIDE DEF v
  <2>4. degreeSum' = [x \in Nodes |-> SumOf(Degrees, Members(community', x))]
    <3>1. degreeSum' = [x \in Nodes |-> IF x = c THEN degreeSum[x] + Degree(v)
                                       ELSE IF x = community[v] THEN degreeSum[x] - Degree(v)
                                       ELSE degreeSum[x]]
      <4>1. community[v] \in Nodes /\ degreeSum = [x \in Nodes |-> degreeSum[x]]
        BY <1>1 DEF LouvainInv
      <4>. QED  BY <2>1, <2>2, <4>1
    <3>. QED  BY <1>1, <2>2, <2>3, <3>1, MoveKeepsSums
  <2>5. /\ Modularity(community') \in Int /\ Modularity(community) \in Int
        /\ Gain(v, c) \in Int
        /\ Modularity(community') - Modularity(community) = 2 * Gain(v, c) + 2 * M2 * Itself(v)
    BY <1>1, <2>2, <2>3, MoveGains
  <2>6. M2 \in Nat /\ Itself(v) \in Nat
    BY <1>1 DEF LouvainInv, Itself, M2
  <2>7. 2 * M2 * Itself(v) >= 0
    BY <2>6
  <2>. QED  BY <1>1, <1>2, <2>2, <2>3, <2>4, <2>5, <2>6, <2>7 DEF LouvainInv
<1>. QED  BY <1>3, <1>4

LEMMA NextLouvain ==
  LouvainInv /\ [Next]_allVars =>
    LouvainInv' /\ (community' # community => Modularity(community') > Modularity(community))
<1> SUFFICES ASSUME LouvainInv, [Next]_allVars
             PROVE  LouvainInv' /\ (community' # community =>
                                      Modularity(community') > Modularity(community))
  OBVIOUS
<1>1. CASE UNCHANGED graphVars /\ VisitNode
  BY <1>1, VisitNodeMoves
<1>2. CASE UNCHANGED graphVars /\ EndPass
  <2>1. Louvain => nextNode' \subseteq Nodes
    BY <1>2 DEF EndPass
  <2>2. Degrees' = Degrees
    BY <1>2 DEF graphVars, Degrees, Degree, Neighbors, Out, In
  <2>. QED  BY <1>2, <2>1, <2>2 DEF EndPass, LouvainInv, Louvain, graphVars
<1>3. CASE UNCHANGED graphVars /\ UNCHANGED communityVars
  <2>1. Degrees' = Degrees
    BY <1>3 DEF graphVars, Degrees, Degree, Neighbors, Out, In
  <2>. QED  BY <1>3, <2>1 DEF communityVars, LouvainInv, Louvain, graphVars
<1>. QED  BY <1>1, <1>2, <1>3 DEF Next, CommunityStep, allVars

(* louvain_communities moves a node only where the modularity of the whole *)
(* division grows, for every graph, its self links included, although it   *)
(* decides by sums it keeps by hand: it can never go round in circles.     *)
THEOREM LouvainCorrect == Spec => ModularityGrows
<1>1. LouvainInv /\ [Next]_allVars =>
        [community' # community => Modularity(community') > Modularity(community)]_communityVars
  BY NextLouvain
<1>. QED  BY <1>1, InitLouvain, NextLouvain, PTL DEF Spec, ModularityGrows

=============================================================================
