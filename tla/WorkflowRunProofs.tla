------------------------- MODULE WorkflowRunProofs -------------------------
(***************************************************************************)
(* The claims of WorkflowRun for every finite document: any number of      *)
(* nodes, of any kind, wired in any way.                                   *)
(*                                                                         *)
(* The planning is a matter of loops, which WorkflowGraph writes as        *)
(* recursive functions; for the prover such a function is the CHOOSEn one  *)
(* that solves its equation. That one exists (Iteration), and what holds   *)
(* of it by induction, follow from the order of the natural numbers, used  *)
(* as a fact about sets (LeastNumber, SetInduction). From there on:        *)
(*   - what is needed is the least closed set (AncestorsAreClosed, Least); *)
(*   - every round of Kahn's algorithm takes the nodes that nothing which  *)
(*     is left feeds (RoundsPeel), so its levels are in order              *)
(*     (LevelsAreInOrder) and what it leaves over is a circle              *)
(*     (CirclesAreNoticed);                                                *)
(*   - a plan that is not refused is sound (PlansAreSound), and the runner *)
(*     keeps to it (Inv, NextKeepsInv);                                    *)
(*   - so that its steps are those of DataflowRun (FlowStep).              *)
(***************************************************************************)
EXTENDS WorkflowRun, TLAPS, FiniteSetTheorems, WellFoundedInduction

-----------------------------------------------------------------------------
(* Induction over the natural numbers, as a fact about sets.               *)

LEMMA LeastNumber ==
  ASSUME NEW T, T \subseteq Nat, T # {}
  PROVE  \E x \in T : \A y \in T : x <= y
<1> DEFINE R == OpToRel(<, Nat)
<1>1. R = {ss \in Nat \X Nat : ss[1] < ss[2]}
  BY DEF OpToRel
<1>2. IsWellFoundedOn(R, Nat)
  BY NatLessThanWellFounded
<1>3. PICK x \in T : \A y \in T : ~ (<<y, x>> \in R)
  <2> HIDE DEF R
  <2> QED
    BY <1>2, WFMin
<1>4. \A y \in T : ~(y < x)
  BY <1>3, <1>1
<1> QED
  BY <1>4

LEMMA SetInduction ==
  ASSUME NEW T, 0 \in T, \A n \in Nat : n \in T => n + 1 \in T
  PROVE  Nat \subseteq T
<1>1. SUFFICES ASSUME Nat \ T # {}
               PROVE  FALSE
  OBVIOUS
<1>2. PICK x \in Nat \ T : \A y \in Nat \ T : x <= y
  BY <1>1, LeastNumber
<1>3. x # 0 /\ x - 1 \in Nat
  BY <1>2
<1>4. x - 1 \in T
  BY <1>2, <1>3
<1> QED
  BY <1>2, <1>3, <1>4

(* A function that is defined step by step exists.                         *)
Iterates(S, a, F, n) == \E f \in [0 .. n -> S] : \A k \in 0 .. n : f[k] = IF k = 0 THEN a ELSE F[f[k - 1]]

LEMMA Iteration ==
  ASSUME NEW S, NEW a \in S, NEW F \in [S -> S], NEW N \in Nat
  PROVE  Iterates(S, a, F, N)
<1> DEFINE T == {n \in Nat : \E f \in [0 .. n -> S] :
                   \A k \in 0 .. n : f[k] = IF k = 0 THEN a ELSE F[f[k - 1]]}
<1>1. 0 \in T
  <2> DEFINE f == [k \in 0 .. 0 |-> a]
  <2>1. f \in [0 .. 0 -> S] /\ \A k \in 0 .. 0 : f[k] = IF k = 0 THEN a ELSE F[f[k - 1]]
    OBVIOUS
  <2> HIDE DEF f
  <2> QED
    BY <2>1
<1>2. ASSUME NEW n \in Nat, n \in T
      PROVE  n + 1 \in T
  <2>1. PICK f \in [0 .. n -> S] : \A k \in 0 .. n : f[k] = IF k = 0 THEN a ELSE F[f[k - 1]]
    BY <1>2
  <2> DEFINE g == [k \in 0 .. n + 1 |-> IF k = n + 1 THEN F[f[n]] ELSE f[k]]
  <2>2. g \in [0 .. n + 1 -> S]
    OBVIOUS
  <2>3. \A k \in 0 .. n + 1 : g[k] = IF k = 0 THEN a ELSE F[g[k - 1]]
    <3> TAKE k \in 0 .. n + 1
    <3>1. CASE k = n + 1
      BY <3>1
    <3>2. CASE k \in 0 .. n
      <4>1. g[k] = f[k] /\ (k # 0 => g[k - 1] = f[k - 1])
        BY <3>2
      <4> QED
        BY <4>1, <3>2, <2>1
    <3> QED
      BY <3>1, <3>2
  <2> HIDE DEF g
  <2> QED
    BY <2>2, <2>3
<1>3. N \in T
  <2> HIDE DEF T
  <2> QED
    BY <1>1, <1>2, SetInduction
<1> QED
  BY <1>3 DEF Iterates

(* A growing sequence of subsets of a finite set stands still at the last. *)
Grows(U, F, f) ==
  /\ F \in [SUBSET U -> SUBSET U]
  /\ \A X \in SUBSET U : X \subseteq F[X]
  /\ f \in [0 .. Cardinality(U) -> SUBSET U]
  /\ \A k \in 1 .. Cardinality(U) : f[k] = F[f[k - 1]]

LEMMA Saturation ==
  ASSUME NEW U, IsFiniteSet(U), NEW F, NEW f, Grows(U, F, f)
  PROVE  F[f[Cardinality(U)]] = f[Cardinality(U)]
<1> SUFFICES ASSUME F \in [SUBSET U -> SUBSET U],
                    \A X \in SUBSET U : X \subseteq F[X],
                    f \in [0 .. Cardinality(U) -> SUBSET U],
                    \A k \in 1 .. Cardinality(U) : f[k] = F[f[k - 1]]
             PROVE  F[f[Cardinality(U)]] = f[Cardinality(U)]
  BY DEF Grows
<1> DEFINE N == Cardinality(U)
<1>n. N \in Nat
  BY FS_CardinalityType
<1> HIDE DEF N
<1> DEFINE T == {n \in Nat : n <= N => (F[f[n]] = f[n] \/ Cardinality(f[n]) >= n)}
<1>c. \A X \in SUBSET U : IsFiniteSet(X) /\ Cardinality(X) \in Nat /\ Cardinality(X) <= N
        /\ (Cardinality(X) = N => X = U)
  BY FS_Subset, FS_CardinalityType DEF N
<1>s. \A X, Y \in SUBSET U : X \subseteq Y /\ X # Y => Cardinality(X) < Cardinality(Y)
  <2> TAKE X, Y \in SUBSET U
  <2>1. IsFiniteSet(Y)
    BY <1>c
  <2>2. X \subseteq Y => Cardinality(X) <= Cardinality(Y) /\ (Cardinality(X) = Cardinality(Y) => X = Y)
    BY <2>1, FS_Subset
  <2> QED
    BY <2>2, <1>c
<1>1. 0 \in T
  BY <1>c, <1>n DEF N
<1>2. ASSUME NEW n \in Nat, n \in T
      PROVE  n + 1 \in T
  <2> SUFFICES ASSUME n + 1 <= N
               PROVE  F[f[n + 1]] = f[n + 1] \/ Cardinality(f[n + 1]) >= n + 1
    OBVIOUS
  <2>1. f[n] \in SUBSET U /\ f[n + 1] \in SUBSET U /\ f[n + 1] = F[f[n]]
    BY <1>n DEF N
  <2>2. CASE F[f[n]] = f[n]
    BY <2>1, <2>2
  <2>3. CASE F[f[n]] # f[n]
    <3>1. Cardinality(f[n]) >= n
      BY <2>3, <1>2, <1>n
    <3>2. Cardinality(f[n]) < Cardinality(f[n + 1])
      BY <2>1, <2>3, <1>s
    <3> QED
      BY <3>1, <3>2, <1>c, <2>1
  <2> QED
    BY <2>2, <2>3
<1>3. N \in T
  <2> HIDE DEF T
  <2> QED
    BY <1>1, <1>2, <1>n, SetInduction
<1>4. f[N] \in SUBSET U /\ F[f[N]] \in SUBSET U /\ f[N] \subseteq F[f[N]]
  BY <1>n DEF N
<1>5. CASE Cardinality(f[N]) >= N
  <2>1. Cardinality(f[N]) = N
    BY <1>5, <1>4, <1>c, <1>n
  <2>2. f[N] = U
    BY <2>1, <1>4, <1>c
  <2> QED
    BY <2>2, <1>4 DEF N
<1> QED
  BY <1>3, <1>5, <1>n DEF N

-----------------------------------------------------------------------------
(* Ancestors                                                               *)

Count == Cardinality(Nodes)

LEMMA CountIsNat == Count \in Nat
  BY NodesAreFinite, FS_CardinalityType DEF Count

LEMMA FeedersAreNodes ==
  ASSUME NEW d \in Graphs, NEW n
  PROVE  Feeders(d, n) \in SUBSET Nodes
  BY DEF Feeders, Incoming, Graphs

(* One round of the loop, as a function of what was seen before.           *)
Grow(d) == [X \in SUBSET Nodes |-> X \cup UNION {Feeders(d, n) : n \in X}]

LEMMA GrowType ==
  ASSUME NEW d \in Graphs
  PROVE  /\ Grow(d) \in [SUBSET Nodes -> SUBSET Nodes]
         /\ \A X \in SUBSET Nodes : Grow(d)[X] = X \cup UNION {Feeders(d, n) : n \in X}
  BY FeedersAreNodes DEF Grow

LEMMA AncestorsUnfold ==
  ASSUME NEW d \in Graphs, NEW T \in SUBSET Nodes
  PROVE  \E f \in [0 .. Count -> SUBSET Nodes] :
           /\ f[0] = T
           /\ \A k \in 1 .. Count : f[k] = Grow(d)[f[k - 1]]
           /\ Ancestors(d, T) = f[Count]
<1> DEFINE Step(f, k) == IF k = 0 THEN T
                         ELSE LET before == f[k - 1] IN before \cup UNION {Feeders(d, n) : n \in before}
<1> DEFINE seen == CHOOSE f : f = [k \in 0 .. Count |-> Step(f, k)]
<1>1. \E f : f = [k \in 0 .. Count |-> Step(f, k)]
  <2>1. PICK f \in [0 .. Count -> SUBSET Nodes] :
          \A k \in 0 .. Count : f[k] = IF k = 0 THEN T ELSE Grow(d)[f[k - 1]]
    <3>1. Iterates(SUBSET Nodes, T, Grow(d), Count)
      BY GrowType, CountIsNat, Iteration
    <3> QED
      BY <3>1 DEF Iterates
  <2>2. \A k \in 0 .. Count : f[k] = Step(f, k)
    <3> TAKE k \in 0 .. Count
    <3>1. k # 0 => f[k - 1] \in SUBSET Nodes
      BY CountIsNat
    <3> QED
      BY <3>1, <2>1, GrowType
  <2>3. f = [k \in 0 .. Count |-> Step(f, k)]
    <3> HIDE DEF Step
    <3> QED
      BY <2>2
  <2> QED
    BY <2>3
<1>2. seen = [k \in 0 .. Count |-> Step(seen, k)]
  <2> HIDE DEF Step
  <2> QED
    BY <1>1
<1>3. Ancestors(d, T) = seen[Count]
  BY DEF Ancestors, Count
<1> HIDE DEF seen
<1>4. seen[0] = T /\ \A k \in 1 .. Count : seen[k] = seen[k - 1] \cup UNION {Feeders(d, n) : n \in seen[k - 1]}
  BY <1>2, CountIsNat
<1> DEFINE Typed == {n \in Nat : n <= Count => seen[n] \in SUBSET Nodes}
<1>5. Count \in Typed /\ \A k \in 0 .. Count : seen[k] \in SUBSET Nodes
  <2>1. 0 \in Typed
    BY <1>4
  <2>2. ASSUME NEW n \in Nat, n \in Typed
        PROVE  n + 1 \in Typed
    <3>1. n + 1 <= Count => seen[n + 1] = seen[n] \cup UNION {Feeders(d, m) : m \in seen[n]}
      BY <1>4, CountIsNat
    <3> QED
      BY <3>1, <2>2, FeedersAreNodes, CountIsNat
  <2>3. Nat \subseteq Typed
    <3> HIDE DEF Typed
    <3> QED
      BY <2>1, <2>2, SetInduction
  <2> QED
    BY <2>3, CountIsNat
<1>6. seen \in [0 .. Count -> SUBSET Nodes]
  BY <1>2, <1>5
<1>7. \A k \in 1 .. Count : seen[k] = Grow(d)[seen[k - 1]]
  <2> TAKE k \in 1 .. Count
  <2> DEFINE X == seen[k - 1]
  <2>1. X \in SUBSET Nodes
    BY <1>5, CountIsNat
  <2>2. seen[k] = X \cup UNION {Feeders(d, n) : n \in X}
    BY <1>4
  <2> HIDE DEF X
  <2>3. Grow(d)[X] = X \cup UNION {Feeders(d, n) : n \in X}
    BY <2>1, GrowType
  <2> QED
    BY <2>2, <2>3 DEF X
<1> QED
  BY <1>3, <1>4, <1>6, <1>7

(* Everything the targets need is among their ancestors.                   *)
LEMMA AncestorsAreClosed ==
  ASSUME NEW d \in Graphs, NEW T \in SUBSET Nodes
  PROVE  /\ T \subseteq Ancestors(d, T)
         /\ Ancestors(d, T) \in SUBSET Nodes
         /\ \A n \in Ancestors(d, T) : Feeders(d, n) \subseteq Ancestors(d, T)
<1> DEFINE F == Grow(d)  A == Ancestors(d, T)
<1>1. PICK f \in [0 .. Count -> SUBSET Nodes] :
        f[0] = T /\ (\A k \in 1 .. Count : f[k] = F[f[k - 1]]) /\ A = f[Count]
  BY AncestorsUnfold
<1>2. F \in [SUBSET Nodes -> SUBSET Nodes] /\ \A X \in SUBSET Nodes : X \subseteq F[X]
  BY GrowType
<1>3. F[A] = A
  <2> HIDE DEF F, A
  <2>1. Grows(Nodes, F, f) /\ A = f[Cardinality(Nodes)]
    BY <1>1, <1>2 DEF Grows, Count
  <2> QED
    BY <2>1, NodesAreFinite, Saturation
<1>4. A \in SUBSET Nodes
  BY <1>1, CountIsNat
<1>5. T \subseteq A
  <2> DEFINE Above == {k \in Nat : k <= Count => T \subseteq f[k]}
  <2>1. 0 \in Above
    BY <1>1
  <2>2. ASSUME NEW k \in Nat, k \in Above
        PROVE  k + 1 \in Above
    <3> SUFFICES ASSUME k + 1 <= Count
                 PROVE  T \subseteq f[k + 1]
      OBVIOUS
    <3>1. f[k] \in SUBSET Nodes /\ f[k + 1] = F[f[k]] /\ T \subseteq f[k]
      BY <1>1, <2>2, CountIsNat
    <3> QED
      BY <3>1, <1>2
  <2>3. Nat \subseteq Above
    <3> HIDE DEF Above
    <3> QED
      BY <2>1, <2>2, SetInduction
  <2> QED
    BY <2>3, <1>1, CountIsNat
<1>6. \A n \in A : Feeders(d, n) \subseteq A
  <2>1. F[A] = A \cup UNION {Feeders(d, n) : n \in A}
    BY <1>4, GrowType
  <2> QED
    BY <2>1, <1>3
<1> QED
  BY <1>4, <1>5, <1>6

(* Nothing else is.                                                        *)
LEMMA AncestorsAreLeast ==
  ASSUME NEW d \in Graphs, NEW T \in SUBSET Nodes,
         NEW U, T \subseteq U, \A n \in U : Feeders(d, n) \subseteq U
  PROVE  Ancestors(d, T) \subseteq U
<1>1. PICK f \in [0 .. Count -> SUBSET Nodes] :
        f[0] = T /\ (\A k \in 1 .. Count : f[k] = Grow(d)[f[k - 1]]) /\ Ancestors(d, T) = f[Count]
  BY AncestorsUnfold
<1> DEFINE Below == {k \in Nat : k <= Count => f[k] \subseteq U}
<1>2. 0 \in Below
  BY <1>1
<1>3. ASSUME NEW k \in Nat, k \in Below
      PROVE  k + 1 \in Below
  <2> SUFFICES ASSUME k + 1 <= Count
               PROVE  f[k + 1] \subseteq U
    OBVIOUS
  <2>1. f[k] \in SUBSET Nodes /\ f[k + 1] = Grow(d)[f[k]] /\ f[k] \subseteq U
    BY <1>1, <1>3, CountIsNat
  <2>2. f[k + 1] = f[k] \cup UNION {Feeders(d, n) : n \in f[k]}
    BY <2>1, GrowType
  <2> QED
    BY <2>1, <2>2
<1>4. Nat \subseteq Below
  <2> HIDE DEF Below
  <2> QED
    BY <1>2, <1>3, SetInduction
<1> QED
  BY <1>4, <1>1, CountIsNat

LEMMA AncestorsGrow ==
  ASSUME NEW d \in Graphs, NEW T \in SUBSET Nodes, NEW S \in SUBSET Nodes, T \subseteq Ancestors(d, S)
  PROVE  Ancestors(d, T) \subseteq Ancestors(d, S)
  BY AncestorsAreClosed, AncestorsAreLeast

(* The groups share out the targets and what they need.                    *)
LEMMA GroupsAreComplete ==
  ASSUME NEW d \in Graphs, NEW T \in SUBSET Nodes
  PROVE  Ancestors(d, T) = UNION {GroupNodes(d, T, g) : g \in Groups(d, T)}
<1> DEFINE Of(g) == {t \in T : RepeatsAbove(d, t) = g}
           U == UNION {GroupNodes(d, T, g) : g \in Groups(d, T)}
<1>1. \A g : GroupNodes(d, T, g) = Ancestors(d, Of(g)) /\ Of(g) \in SUBSET Nodes
  BY DEF GroupNodes
<1>2. \A g : GroupNodes(d, T, g) \subseteq Ancestors(d, T)
  <2> TAKE g
  <2>1. Of(g) \subseteq Ancestors(d, T)
    BY AncestorsAreClosed
  <2> HIDE DEF Of
  <2> QED
    BY <1>1, <2>1, AncestorsGrow
<1>3. T \subseteq U
  <2> SUFFICES ASSUME NEW t \in T
               PROVE  t \in U
    OBVIOUS
  <2>1. RepeatsAbove(d, t) \in Groups(d, T) /\ t \in Of(RepeatsAbove(d, t))
    BY DEF Groups
  <2>2. t \in GroupNodes(d, T, RepeatsAbove(d, t))
    <3> HIDE DEF Of
    <3> QED
      BY <2>1, <1>1, AncestorsAreClosed
  <2> QED
    BY <2>1, <2>2
<1>4. \A n \in U : Feeders(d, n) \subseteq U
  <2> SUFFICES ASSUME NEW g \in Groups(d, T), NEW n \in GroupNodes(d, T, g)
               PROVE  Feeders(d, n) \subseteq GroupNodes(d, T, g)
    OBVIOUS
  <2> HIDE DEF Of
  <2> QED
    BY <1>1, AncestorsAreClosed
<1>5. Ancestors(d, T) \subseteq U
  <2> HIDE DEF U
  <2> QED
    BY <1>3, <1>4, AncestorsAreLeast
<1> QED
  BY <1>2, <1>5

-----------------------------------------------------------------------------
(* Levels                                                                  *)

(* The edges into a node from a set of nodes.                              *)
From(d, X, n) == {e \in Incoming(d, n) : e[1] \in X}

LEMMA EdgesAreFinite ==
  ASSUME NEW d \in Graphs, NEW X, NEW n
  PROVE  /\ IsFiniteSet(From(d, X, n))
         /\ Cardinality(From(d, X, n)) \in Nat
         /\ Cardinality(From(d, X, n)) = 0 <=> From(d, X, n) = {}
<1>1. IsFiniteSet(Sides)
  <2>1. Sides = ({"out"} \cup {"true"}) \cup {"false"}
    BY DEF Sides
  <2>2. IsFiniteSet({"out"}) /\ IsFiniteSet({"true"}) /\ IsFiniteSet({"false"})
    BY FS_Singleton
  <2>3. IsFiniteSet({"out"} \cup {"true"})
    BY <2>2, FS_Union
  <2>4. IsFiniteSet(({"out"} \cup {"true"}) \cup {"false"})
    BY <2>2, <2>3, FS_Union
  <2> QED
    BY <2>1, <2>4
<1>2. IsFiniteSet(Nodes \X Sides \X Nodes)
  <2> DEFINE Pairs == Nodes \X Sides
             f == [p \in Pairs \X Nodes |-> <<p[1][1], p[1][2], p[2]>>]
  <2>1. IsFiniteSet(Pairs \X Nodes)
    BY <1>1, NodesAreFinite, FS_Product
  <2>2. Nodes \X Sides \X Nodes \subseteq {f[p] : p \in Pairs \X Nodes}
    <3> SUFFICES ASSUME NEW m \in Nodes, NEW side \in Sides, NEW k \in Nodes
                 PROVE  <<m, side, k>> \in {f[p] : p \in Pairs \X Nodes}
      OBVIOUS
    <3>1. <<<<m, side>>, k>> \in Pairs \X Nodes /\ f[<<<<m, side>>, k>>] = <<m, side, k>>
      OBVIOUS
    <3> QED
      BY <3>1
  <2>3. IsFiniteSet({f[p] : p \in Pairs \X Nodes})
    <3> DEFINE D == Pairs \X Nodes
               T == {f[p] : p \in D}
    <3>1. f = [p \in D |-> f[p]]
      OBVIOUS
    <3> HIDE DEF f, D
    <3>2. f \in Surjection(D, T)
      BY <3>1 DEF Surjection
    <3> HIDE DEF T
    <3>3. IsFiniteSet(T)
      BY <2>1, <3>2, FS_Surjection DEF D
    <3> QED
      BY <3>3 DEF T, D
  <2> QED
    BY <2>2, <2>3, FS_Subset
<1>3. From(d, X, n) \subseteq Nodes \X Sides \X Nodes
  BY DEF From, Incoming, Graphs
<1>4. IsFiniteSet(From(d, X, n))
  BY <1>2, <1>3, FS_Subset
<1> QED
  BY <1>4, FS_CardinalityType, FS_EmptySet

Hits(d, S, X) == [n \in S |-> Cardinality(From(d, X, n))]

(* The rounds of Kahn's algorithm, one after another.                      *)
KahnRounds(d, S, fr, deg) ==
  /\ fr \in [1 .. Count + 1 -> SUBSET S]
  /\ deg \in [1 .. Count + 1 -> [S -> Int]]
  /\ Kahn(d, S) = fr
  /\ deg[1] = Hits(d, S, S)
  /\ fr[1] = {n \in S : deg[1][n] = 0}
  /\ \A k \in 2 .. Count + 1 :
       /\ fr[k] = {n \in S : deg[k - 1][n] > 0 /\ deg[k - 1][n] = Hits(d, S, fr[k - 1])[n]}
       /\ deg[k] = [n \in S |-> deg[k - 1][n] - Hits(d, S, fr[k - 1])[n]]

LEMMA KahnUnfold ==
  ASSUME NEW d \in Graphs, NEW S \in SUBSET Nodes
  PROVE  \E fr, deg : KahnRounds(d, S, fr, deg)
<1> DEFINE States == [frontier : SUBSET S, degree : [S -> Int]]
           Base == [frontier |-> {n \in S : Hits(d, S, S)[n] = 0}, degree |-> Hits(d, S, S)]
           After(r) == [frontier |-> Released(r.degree, Hits(d, S, r.frontier)),
                        degree |-> [n \in S |-> r.degree[n] - Hits(d, S, r.frontier)[n]]]
           Step(f, k) == IF k = 1 THEN Base ELSE After(f[k - 1])
           round == CHOOSE f : f = [k \in 1 .. Count + 1 |-> Step(f, k)]
<1>1. \A X : Hits(d, S, X) \in [S -> Int]
  BY EdgesAreFinite DEF Hits
<1>2. Base \in States
  BY <1>1
<1>3. \A r \in States : After(r) \in States
  BY <1>1 DEF Released
<1>4. \E f : f \in [1 .. Count + 1 -> States] /\ f = [k \in 1 .. Count + 1 |-> Step(f, k)]
  <2> DEFINE F == [r \in States |-> After(r)]
  <2>1. F \in [States -> States] /\ \A r \in States : F[r] = After(r)
    <3> HIDE DEF States, After
    <3> QED
      BY <1>3
  <2> HIDE DEF F
  <2>2. PICK g \in [0 .. Count -> States] : \A k \in 0 .. Count : g[k] = IF k = 0 THEN Base ELSE F[g[k - 1]]
    <3> HIDE DEF States, Base
    <3>1. Iterates(States, Base, F, Count)
      BY CountIsNat, <1>2, <2>1, Iteration
    <3> QED
      BY <3>1 DEF Iterates
  <2> DEFINE f == [k \in 1 .. Count + 1 |-> g[k - 1]]
  <2> HIDE DEF States, After, Base
  <2>3. f \in [1 .. Count + 1 -> States]
    BY CountIsNat
  <2>4. \A k \in 1 .. Count + 1 : f[k] = Step(f, k)
    <3> TAKE k \in 1 .. Count + 1
    <3>1. CASE k = 1
      BY <3>1, <2>2, CountIsNat
    <3>2. CASE k # 1
      <4>1. k - 1 \in 0 .. Count /\ k - 2 \in 0 .. Count /\ k - 1 \in 1 .. Count + 1 /\ k - 1 # 0 /\ (k - 1) - 1 = k - 2
        BY <3>2, CountIsNat
      <4>2. g[k - 1] = F[g[k - 2]] /\ g[k - 2] \in States /\ f[k - 1] = g[k - 2] /\ f[k] = g[k - 1]
        BY <4>1, <2>2
      <4> QED
        BY <4>2, <3>2, <2>1
    <3> QED
      BY <3>1, <3>2
  <2>5. f = [k \in 1 .. Count + 1 |-> Step(f, k)]
    <3> HIDE DEF Step
    <3> QED
      BY <2>4
  <2> HIDE DEF f, Step
  <2> QED
    BY <2>3, <2>5
<1>5. round = [k \in 1 .. Count + 1 |-> Step(round, k)]
  <2> HIDE DEF Step, States
  <2> QED
    BY <1>4
<1>6. Kahn(d, S) = [k \in DOMAIN round |-> round[k].frontier]
  BY DEF Kahn, Count, Hits, From
<1> HIDE DEF round
<1>7. round[1] = Base /\ \A k \in 2 .. Count + 1 : round[k] = After(round[k - 1])
  <2> HIDE DEF Base, After
  <2>1. 1 \in 1 .. Count + 1 /\ \A k \in 2 .. Count + 1 : k \in 1 .. Count + 1 /\ k # 1
    BY CountIsNat
  <2> QED
    BY <1>5, <2>1
<1>8. \A k \in 1 .. Count + 1 : round[k] \in States
  <2> DEFINE Typed == {n \in Nat : n <= Count => round[n + 1] \in States}
  <2> HIDE DEF States, Base, After
  <2>1. 0 \in Typed
    BY <1>7, <1>2
  <2>2. ASSUME NEW n \in Nat, n \in Typed
        PROVE  n + 1 \in Typed
    <3>1. n + 1 <= Count => round[(n + 1) + 1] = After(round[n + 1])
      BY <1>7, CountIsNat
    <3> QED
      BY <3>1, <2>2, <1>3, CountIsNat
  <2>3. Nat \subseteq Typed
    <3> HIDE DEF Typed
    <3> QED
      BY <2>1, <2>2, SetInduction
  <2> TAKE k \in 1 .. Count + 1
  <2>4. k - 1 \in Nat /\ k - 1 <= Count /\ (k - 1) + 1 = k
    BY CountIsNat
  <2> QED
    BY <2>3, <2>4
<1> DEFINE fr == [k \in 1 .. Count + 1 |-> round[k].frontier]
           deg == [k \in 1 .. Count + 1 |-> round[k].degree]
<1>9. Kahn(d, S) = fr
  BY <1>5, <1>6
<1>10. fr \in [1 .. Count + 1 -> SUBSET S] /\ deg \in [1 .. Count + 1 -> [S -> Int]]
  BY <1>8
<1>11. 1 \in 1 .. Count + 1 /\ \A k \in 2 .. Count + 1 : k \in 1 .. Count + 1 /\ k - 1 \in 1 .. Count + 1
  BY CountIsNat
<1>12. deg[1] = Hits(d, S, S) /\ fr[1] = {n \in S : deg[1][n] = 0}
  BY <1>7, <1>11
<1>13. \A k \in 2 .. Count + 1 :
         /\ fr[k] = {n \in S : deg[k - 1][n] > 0 /\ deg[k - 1][n] = Hits(d, S, fr[k - 1])[n]}
         /\ deg[k] = [n \in S |-> deg[k - 1][n] - Hits(d, S, fr[k - 1])[n]]
  <2> TAKE k \in 2 .. Count + 1
  <2>1. round[k] = After(round[k - 1]) /\ fr[k] = round[k].frontier /\ deg[k] = round[k].degree
        /\ fr[k - 1] = round[k - 1].frontier /\ deg[k - 1] = round[k - 1].degree /\ deg[k - 1] \in [S -> Int]
    BY <1>7, <1>10, <1>11
  <2>2. fr[k] = Released(deg[k - 1], Hits(d, S, fr[k - 1]))
        /\ deg[k] = [n \in S |-> deg[k - 1][n] - Hits(d, S, fr[k - 1])[n]]
    <3> HIDE DEF fr, deg
    <3> QED
      BY <2>1
  <2>3. Released(deg[k - 1], Hits(d, S, fr[k - 1]))
        = {n \in S : deg[k - 1][n] > 0 /\ deg[k - 1][n] = Hits(d, S, fr[k - 1])[n]}
    <3>1. DOMAIN deg[k - 1] = S
      BY <2>1
    <3> HIDE DEF deg, fr
    <3> QED
      BY <3>1 DEF Released
  <2> QED
    BY <2>2, <2>3
<1> HIDE DEF fr, deg
<1>14. KahnRounds(d, S, fr, deg)
  BY <1>9, <1>10, <1>12, <1>13 DEF KahnRounds
<1> QED
  BY <1>14

LEMMA EdgesSplit ==
  ASSUME NEW d \in Graphs, NEW X, NEW Y, Y \subseteq X, NEW n
  PROVE  Cardinality(From(d, X, n)) - Cardinality(From(d, Y, n)) = Cardinality(From(d, X \ Y, n))
<1> DEFINE A == From(d, X, n)  B == From(d, Y, n)  C == From(d, X \ Y, n)
<1>1. A = B \cup C /\ B \cap C = {}
  BY DEF From
<1>2. IsFiniteSet(B) /\ IsFiniteSet(C) /\ Cardinality(A) \in Nat /\ Cardinality(B) \in Nat /\ Cardinality(C) \in Nat
  BY EdgesAreFinite
<1> HIDE DEF A, B, C
<1>3. Cardinality(B \cup C) = Cardinality(B) + Cardinality(C) - Cardinality(B \cap C)
  BY <1>2, FS_Union
<1>4. Cardinality(B \cap C) = 0
  BY <1>1, FS_EmptySet
<1>5. Cardinality(A) - Cardinality(B) = Cardinality(C)
  BY <1>1, <1>2, <1>3, <1>4
<1> QED
  BY <1>5 DEF A, B, C

(* What is left when the rounds before k are done.                         *)
Rest(S, fr, k) == S \ UNION {fr[i] : i \in 1 .. k - 1}

(* A round takes the nodes that no node that is left feeds.                *)
Peels(d, S, fr, k) == fr[k] = {n \in Rest(S, fr, k) : From(d, Rest(S, fr, k), n) = {}}

LEMMA RoundsPeel ==
  ASSUME NEW d \in Graphs, NEW S \in SUBSET Nodes, NEW fr, NEW deg, KahnRounds(d, S, fr, deg)
  PROVE  \A k \in 1 .. Count + 1 : Peels(d, S, fr, k)
<1> DEFINE R(k) == Rest(S, fr, k)
           Peeled(k) == fr[k] = {n \in R(k) : From(d, R(k), n) = {}}
           Degrees(k) == \A n \in S : deg[k][n] = Cardinality(From(d, R(k), n))
           Past(k) == \A n \in S \ R(k + 1) : From(d, R(k), n) = {}
           Good == {k \in Nat : k + 1 <= Count + 1 => Peeled(k + 1) /\ Degrees(k + 1) /\ Past(k + 1)}
<1>1. \A k \in 1 .. Count + 1 : fr[k] \in SUBSET S /\ deg[k] \in [S -> Int]
  BY DEF KahnRounds
<1>2. R(1) = S
  BY DEF Rest
<1>3. \A k \in 1 .. Count + 1 : R(k + 1) = R(k) \ fr[k] /\ R(k) \subseteq S
  <2> TAKE k \in 1 .. Count + 1
  <2>1. 1 .. (k + 1) - 1 = 1 .. k /\ 1 .. k = (1 .. k - 1) \cup {k}
    BY CountIsNat
  <2> QED
    BY <2>1 DEF Rest
<1> HIDE DEF R
<1>4. 0 \in Good
  <2>1. 1 \in 1 .. Count + 1
    BY CountIsNat
  <2>2. Degrees(1)
    BY <1>2 DEF KahnRounds, Hits
  <2>3. Peeled(1)
    BY <1>2, <2>2, EdgesAreFinite DEF KahnRounds
  <2>4. Past(1)
    BY <1>2, <1>3, <2>1, <2>3
  <2> QED
    BY <2>2, <2>3, <2>4
<1>5. ASSUME NEW j \in Nat, j \in Good
      PROVE  j + 1 \in Good
  <2> SUFFICES ASSUME (j + 1) + 1 <= Count + 1
               PROVE  Peeled((j + 1) + 1) /\ Degrees((j + 1) + 1) /\ Past((j + 1) + 1)
    OBVIOUS
  <2> DEFINE k == j + 1
  <2>1. k \in 1 .. Count + 1 /\ k + 1 \in 2 .. Count + 1 /\ k + 1 \in 1 .. Count + 1 /\ (k + 1) - 1 = k
    BY CountIsNat
  <2>2. Peeled(k) /\ Degrees(k) /\ Past(k)
    BY <1>5, <2>1, CountIsNat
  <2> HIDE DEF k
  <2>3. R(k + 1) = R(k) \ fr[k] /\ R(k) \subseteq S /\ fr[k] \subseteq R(k) /\ R(k + 2) = R(k + 1) \ fr[k + 1]
    <3>1. (k + 1) + 1 = k + 2
      BY <2>1
    <3> QED
      BY <1>3, <2>1, <2>2, <3>1
  <2>4. /\ fr[k + 1] = {n \in S : deg[k][n] > 0 /\ deg[k][n] = Hits(d, S, fr[k])[n]}
        /\ deg[k + 1] = [n \in S |-> deg[k][n] - Hits(d, S, fr[k])[n]]
    BY <2>1 DEF KahnRounds
  <2>5. ASSUME NEW n \in S
        PROVE  /\ deg[k + 1][n] = Cardinality(From(d, R(k + 1), n))
               /\ n \in fr[k + 1] <=> From(d, R(k), n) # {} /\ From(d, R(k + 1), n) = {}
    <3>1. deg[k][n] = Cardinality(From(d, R(k), n)) /\ Hits(d, S, fr[k])[n] = Cardinality(From(d, fr[k], n))
      BY <2>2 DEF Hits
    <3>2. Cardinality(From(d, R(k), n)) - Cardinality(From(d, fr[k], n)) = Cardinality(From(d, R(k + 1), n))
      BY <2>3, EdgesSplit
    <3>3. /\ Cardinality(From(d, R(k), n)) \in Nat /\ Cardinality(From(d, fr[k], n)) \in Nat
          /\ Cardinality(From(d, R(k + 1), n)) \in Nat
          /\ Cardinality(From(d, R(k), n)) = 0 <=> From(d, R(k), n) = {}
          /\ Cardinality(From(d, R(k + 1), n)) = 0 <=> From(d, R(k + 1), n) = {}
      BY EdgesAreFinite
    <3> QED
      BY <3>1, <3>2, <3>3, <2>4
  <2>6. Degrees(k + 1)
    BY <2>5
  <2>7. Peeled(k + 1)
    <3>1. \A n \in S \ R(k + 1) : From(d, R(k), n) = {}
      BY <2>2
    <3>2. \A n \in R(k + 1) : From(d, R(k), n) # {}
      BY <2>2, <2>3
    <3> QED
      BY <3>1, <3>2, <2>5, <2>3, <2>4
  <2>8. Past(k + 1)
    <3>1. \A n : From(d, R(k + 1), n) \subseteq From(d, R(k), n)
      BY <2>3 DEF From
    <3>2. (k + 1) + 1 = k + 2
      BY <2>1
    <3> SUFFICES ASSUME NEW n \in S \ R(k + 2)
                 PROVE  From(d, R(k + 1), n) = {}
      BY <3>2
    <3>3. CASE n \in fr[k + 1]
      BY <3>3, <2>7
    <3>4. CASE n \notin R(k + 1)
      BY <3>1, <3>4, <2>2
    <3> QED
      BY <3>3, <3>4, <2>3
  <2> QED
    BY <2>6, <2>7, <2>8 DEF k
<1>6. Nat \subseteq Good
  <2> HIDE DEF Good
  <2> QED
    BY <1>4, <1>5, SetInduction
<1>7. TAKE k \in 1 .. Count + 1
<1>8. k - 1 \in Nat /\ (k - 1) + 1 = k
  BY CountIsNat
<1> QED
  BY <1>6, <1>8, CountIsNat DEF R, Peels

(* The rounds end: what is left after the last one is a circle, or nothing. *)
LEMMA RoundsEnd ==
  ASSUME NEW d \in Graphs, NEW S \in SUBSET Nodes, NEW fr, NEW deg, KahnRounds(d, S, fr, deg)
  PROVE  fr[Count + 1] = {}
<1> DEFINE R(k) == Rest(S, fr, k)
           Small == {k \in Nat : k <= Count => fr[k + 1] = {} \/ Cardinality(R(k + 1)) <= Count - k}
<1>1. \A k \in 1 .. Count + 1 : fr[k] = {n \in R(k) : From(d, R(k), n) = {}}
  <2>1. \A k \in 1 .. Count + 1 : Peels(d, S, fr, k)
    BY RoundsPeel
  <2> QED
    BY <2>1 DEF Peels
<1>2. R(1) = S
  <2>1. 1 .. 1 - 1 = {}
    OBVIOUS
  <2> QED
    BY <2>1 DEF Rest
<1>3. \A k \in 1 .. Count + 1 : R(k + 1) = R(k) \ fr[k]
  <2> TAKE k \in 1 .. Count + 1
  <2>1. 1 .. (k + 1) - 1 = 1 .. k /\ 1 .. k = (1 .. k - 1) \cup {k}
    BY CountIsNat
  <2> QED
    BY <2>1 DEF Rest
<1>4. \A k : R(k) \in SUBSET Nodes
  BY DEF Rest
<1>5. \A X \in SUBSET Nodes : IsFiniteSet(X) /\ Cardinality(X) \in Nat /\ Cardinality(X) <= Count
        /\ (Cardinality(X) = 0 <=> X = {})
  BY NodesAreFinite, FS_Subset, FS_CardinalityType, FS_EmptySet DEF Count
<1> HIDE DEF R
<1>6. 0 \in Small
  BY <1>4, <1>5, CountIsNat
<1>7. ASSUME NEW k \in Nat, k \in Small
      PROVE  k + 1 \in Small
  <2> SUFFICES ASSUME k + 1 <= Count, fr[(k + 1) + 1] # {}
               PROVE  Cardinality(R((k + 1) + 1)) <= Count - (k + 1)
    OBVIOUS
  <2>1. k + 1 \in 1 .. Count + 1 /\ (k + 1) + 1 \in 1 .. Count + 1
    BY CountIsNat
  <2>2. R((k + 1) + 1) = R(k + 1) \ fr[k + 1]
    BY <1>3, <2>1
  <2>3. fr[k + 1] # {}
    BY <1>1, <2>1, <2>2
  <2>4. PICK n \in R(k + 1) : n \notin R((k + 1) + 1)
    BY <1>1, <2>1, <2>2, <2>3
  <2>5. Cardinality(R(k + 1)) <= Count - k
    BY <1>7, <2>3, CountIsNat
  <2>6. Cardinality(R((k + 1) + 1)) <= Cardinality(R(k + 1)) /\ Cardinality(R((k + 1) + 1)) # Cardinality(R(k + 1))
    <3> DEFINE A == R(k + 1)  B == R((k + 1) + 1)
    <3>1. IsFiniteSet(A) /\ B \in SUBSET A /\ B # A
      BY <1>4, <1>5, <2>2, <2>4
    <3> HIDE DEF A, B
    <3>2. Cardinality(B) <= Cardinality(A) /\ Cardinality(B) # Cardinality(A)
      BY <3>1, FS_Subset
    <3> QED
      BY <3>2 DEF A, B
  <2> QED
    BY <2>5, <2>6, <1>4, <1>5, CountIsNat
<1>8. Nat \subseteq Small
  <2> HIDE DEF Small
  <2> QED
    BY <1>6, <1>7, SetInduction
<1>9. fr[Count + 1] = {} \/ Cardinality(R(Count + 1)) <= 0
  BY <1>8, CountIsNat
<1>10. ASSUME Cardinality(R(Count + 1)) <= 0
       PROVE  fr[Count + 1] = {}
  <2>1. R(Count + 1) = {}
    BY <1>10, <1>4, <1>5
  <2>2. Count + 1 \in 1 .. Count + 1
    BY CountIsNat
  <2> QED
    BY <2>1, <2>2, <1>1
<1> QED
  BY <1>9, <1>10

(* A number of levels, each of them new, that feed only later ones.        *)
InOrder(d, S, levels, len) ==
  /\ DOMAIN levels = 1 .. len
  /\ \A k \in 1 .. len : levels[k] \in SUBSET S /\ levels[k] # {}
  /\ \A k \in 1 .. len : \A i \in 1 .. k - 1 : levels[i] \cap levels[k] = {}
  /\ \A k \in 1 .. len : \A n \in levels[k] : \A m \in S \cap Feeders(d, n) : \E i \in 1 .. k - 1 : m \in levels[i]
  /\ HasCycle(d, S) <=> UNION {levels[k] : k \in 1 .. len} # S
  /\ \A n \in S \ UNION {levels[k] : k \in 1 .. len} :
       \E m \in S \ UNION {levels[k] : k \in 1 .. len} : m \in Feeders(d, n)

LEMMA LevelsAreInOrder ==
  ASSUME NEW d \in Graphs, NEW S \in SUBSET Nodes
  PROVE  \E len \in Nat : InOrder(d, S, Levels(d, S), len)
<1>1. PICK fr, deg : KahnRounds(d, S, fr, deg)
  BY KahnUnfold
<1> DEFINE R(k) == Rest(S, fr, k)
           Ends == {k \in Nat : k <= Count /\ fr[k + 1] = {}}
<1>2. \A k \in 1 .. Count + 1 : fr[k] = {n \in R(k) : From(d, R(k), n) = {}}
  <2>1. \A k \in 1 .. Count + 1 : Peels(d, S, fr, k)
    BY <1>1, RoundsPeel
  <2> QED
    BY <2>1 DEF Peels
<1>3. fr \in [1 .. Count + 1 -> SUBSET S] /\ Kahn(d, S) = fr
  BY <1>1 DEF KahnRounds
<1>4. PICK len \in Ends : \A k \in Ends : len <= k
  <2>1. Count \in Ends
    BY <1>1, RoundsEnd, CountIsNat
  <2>2. Ends \subseteq Nat /\ Ends # {}
    BY <2>1
  <2> HIDE DEF Ends
  <2> QED
    BY <2>2, LeastNumber
<1>5. len \in Nat /\ len <= Count /\ len + 1 \in 1 .. Count + 1 /\ fr[len + 1] = {}
  BY <1>4, CountIsNat
<1>6. \A k \in 1 .. len : k \in 1 .. Count + 1 /\ fr[k] # {}
  <2> TAKE k \in 1 .. len
  <2> HIDE DEF Ends
  <2>1. k - 1 \in Nat /\ k - 1 < len /\ k - 1 <= Count /\ (k - 1) + 1 = k
    BY <1>5, CountIsNat
  <2>2. k - 1 \notin Ends
    BY <2>1, <1>4, <1>5
  <2> QED
    BY <2>1, <2>2, <1>5, CountIsNat DEF Ends
<1>7. \A k \in 1 .. Count + 1 : R(k + 1) = R(k) \ fr[k]
  <2> TAKE k \in 1 .. Count + 1
  <2>1. 1 .. (k + 1) - 1 = 1 .. k /\ 1 .. k = (1 .. k - 1) \cup {k}
    BY CountIsNat
  <2> QED
    BY <2>1 DEF Rest
<1>8. \A k \in 1 .. Count + 1 : k > len => fr[k] = {} /\ R(k) = R(len + 1)
  <2> DEFINE Empty == {j \in Nat : (len + 1) + j <= Count + 1 => fr[(len + 1) + j] = {} /\ R((len + 1) + j) = R(len + 1)}
  <2> HIDE DEF R
  <2>1. 0 \in Empty
    BY <1>5
  <2>2. ASSUME NEW j \in Nat, j \in Empty
        PROVE  j + 1 \in Empty
    <3> SUFFICES ASSUME (len + 1) + (j + 1) <= Count + 1
                 PROVE  fr[(len + 1) + (j + 1)] = {} /\ R((len + 1) + (j + 1)) = R(len + 1)
      OBVIOUS
    <3> DEFINE k == (len + 1) + j
    <3>1. k \in 1 .. Count + 1 /\ k + 1 \in 1 .. Count + 1 /\ (len + 1) + (j + 1) = k + 1
      BY <1>5, CountIsNat
    <3>2. fr[k] = {} /\ R(k) = R(len + 1)
      BY <2>2, <3>1, CountIsNat
    <3> HIDE DEF k
    <3>3. R(k + 1) = R(len + 1)
      BY <3>1, <3>2, <1>7
    <3>4. fr[k + 1] = fr[len + 1]
      BY <3>1, <3>3, <1>2, <1>5
    <3> QED
      BY <3>1, <3>3, <3>4, <1>5
  <2>3. Nat \subseteq Empty
    <3> HIDE DEF Empty
    <3> QED
      BY <2>1, <2>2, SetInduction
  <2> TAKE k \in 1 .. Count + 1
  <2>4. k > len => k - (len + 1) \in Nat /\ (len + 1) + (k - (len + 1)) = k
    BY <1>5
  <2> QED
    BY <2>3, <2>4, CountIsNat
<1> DEFINE L == Levels(d, S)  U == UNION {L[k] : k \in 1 .. len}
<1>9. DOMAIN L = 1 .. len /\ \A k \in 1 .. len : L[k] = fr[k]
  <2>1. L = [k \in {i \in 1 .. Count + 1 : fr[i] # {}} |-> fr[k]]
    BY <1>3 DEF Levels
  <2>2. {i \in 1 .. Count + 1 : fr[i] # {}} = 1 .. len
    BY <1>5, <1>6, <1>8, CountIsNat
  <2> HIDE DEF L
  <2> QED
    BY <2>1, <2>2
<1> HIDE DEF L
<1>10. \A k \in 1 .. len : L[k] \in SUBSET S /\ L[k] # {} /\ L[k] = fr[k]
  BY <1>9, <1>6, <1>3
<1>11. \A k \in 1 .. len + 1 : R(k) = S \ UNION {L[i] : i \in 1 .. k - 1}
  <2> TAKE k \in 1 .. len + 1
  <2>1. \A i \in 1 .. k - 1 : L[i] = fr[i]
    BY <1>9, <1>5
  <2>2. UNION {L[i] : i \in 1 .. k - 1} = UNION {fr[i] : i \in 1 .. k - 1}
    BY <2>1
  <2> QED
    BY <2>2 DEF Rest
<1>12. \A k \in 1 .. len : \A i \in 1 .. k - 1 : L[i] \cap L[k] = {}
  <2> TAKE k \in 1 .. len
  <2>1. L[k] \subseteq R(k)
    BY <1>10, <1>2, <1>6
  <2>2. k \in 1 .. len + 1
    BY <1>5
  <2> QED
    BY <2>1, <2>2, <1>11
<1>13. \A X : \A n : \A m \in X \cap Feeders(d, n) : From(d, X, n) # {}
  BY DEF Feeders, From
<1>14. \A k \in 1 .. len : \A n \in L[k] : \A m \in S \cap Feeders(d, n) : \E i \in 1 .. k - 1 : m \in L[i]
  <2> TAKE k \in 1 .. len
  <2> TAKE n \in L[k]
  <2> TAKE m \in S \cap Feeders(d, n)
  <2>1. k \in 1 .. len + 1 /\ From(d, R(k), n) = {}
    BY <1>10, <1>2, <1>6, <1>5
  <2>2. m \notin R(k)
    BY <2>1, <1>13
  <2> QED
    BY <2>1, <2>2, <1>11
<1>15. R(len + 1) = S \ U
  <2>1. (len + 1) - 1 = len /\ len + 1 \in 1 .. len + 1
    BY <1>5
  <2> QED
    BY <1>11, <2>1
<1>16. \A n \in S \ U : \E m \in S \ U : m \in Feeders(d, n)
  <2> TAKE n \in S \ U
  <2>1. From(d, R(len + 1), n) # {}
    BY <1>2, <1>5, <1>15
  <2> QED
    BY <2>1, <1>15 DEF From, Feeders
<1>17. HasCycle(d, S) <=> U # S
  <2>1. HasCycle(d, S) <=> UNION {fr[k] : k \in 1 .. Count} # S
    BY <1>3 DEF HasCycle, Count
  <2>2. U = UNION {fr[k] : k \in 1 .. Count}
    <3>1. \A k \in 1 .. Count : k \notin 1 .. len => fr[k] = {}
      BY <1>5, <1>8, CountIsNat
    <3>2. \A k \in 1 .. len : k \in 1 .. Count /\ L[k] = fr[k]
      BY <1>5, <1>9, CountIsNat
    <3> QED
      BY <3>1, <3>2
  <2> QED
    BY <2>1, <2>2
<1>18. InOrder(d, S, L, len)
  BY <1>9, <1>10, <1>12, <1>14, <1>16, <1>17 DEF InOrder
<1> QED
  BY <1>18, <1>5 DEF L

(* A node that is upstream of itself.                                      *)
OnCircle(d, n) == \E e \in Outgoing(d, n) : e[3] = n \/ e[3] \in Ancestors(d, {n})

(* Kahn's algorithm leaves nodes over exactly when there is a circle.      *)
LEMMA CirclesAreNoticed ==
  ASSUME NEW d \in Graphs, NEW S \in SUBSET Nodes, \A n \in S : Feeders(d, n) \subseteq S
  PROVE  HasCycle(d, S) <=> \E n \in S : OnCircle(d, n)
<1> DEFINE L == Levels(d, S)
<1>1. PICK len \in Nat : InOrder(d, S, L, len)
  BY LevelsAreInOrder
<1> DEFINE U == UNION {L[k] : k \in 1 .. len}
           X == S \ U
           A(n) == Ancestors(d, {n})
<1>2. HasCycle(d, S) <=> U # S
  BY <1>1 DEF InOrder
<1>3. \A k \in 1 .. len : L[k] \in SUBSET S
  BY <1>1 DEF InOrder
<1>4. \A k \in 1 .. len : \A n \in L[k] : \A m \in S \cap Feeders(d, n) : \E i \in 1 .. k - 1 : m \in L[i]
  BY <1>1 DEF InOrder
<1>5. \A n \in X : \E m \in X : m \in Feeders(d, n)
  BY <1>1 DEF InOrder
<1> HIDE DEF L
<1>6. \A n \in S : n \in A(n) /\ A(n) \in SUBSET Nodes /\ \A m \in A(n) : Feeders(d, m) \subseteq A(n)
  BY AncestorsAreClosed
<1>7. ASSUME HasCycle(d, S)
      PROVE  \E n \in S : OnCircle(d, n)
  <2>1. X # {}
    BY <1>2, <1>3, <1>7
  <2> HIDE DEF X
  <2> DEFINE Sizes == {Cardinality(A(n)) : n \in X}
  <2>2. X \subseteq S
    BY DEF X
  <2>3. \A n \in X : IsFiniteSet(A(n)) /\ Cardinality(A(n)) \in Nat
    BY <1>6, <2>2, NodesAreFinite, FS_Subset, FS_CardinalityType
  <2>4. PICK n \in X : \A m \in X : Cardinality(A(n)) <= Cardinality(A(m))
    <3>1. Sizes \subseteq Nat /\ Sizes # {}
      BY <2>1, <2>3
    <3>2. PICK x \in Sizes : \A y \in Sizes : x <= y
      <4> HIDE DEF Sizes
      <4> QED
        BY <3>1, LeastNumber
    <3> QED
      BY <3>2
  <2>5. PICK m \in X : m \in Feeders(d, n)
    BY <1>5
  <2>6. A(m) \subseteq A(n)
    <3>1. {m} \subseteq A(n) /\ {m} \in SUBSET Nodes /\ {n} \in SUBSET Nodes
      BY <1>6, <2>2, <2>5
    <3> QED
      BY <3>1, AncestorsGrow
  <2>7. A(m) = A(n)
    <3> HIDE DEF A
    <3>1. Cardinality(A(m)) = Cardinality(A(n))
      <4>1. Cardinality(A(m)) <= Cardinality(A(n))
        BY <2>3, <2>6, FS_Subset
      <4> QED
        BY <4>1, <2>3, <2>4
    <3> QED
      BY <3>1, <2>3, <2>6, FS_Subset
  <2>8. n \in A(m)
    BY <1>6, <2>2, <2>7
  <2>9. \E e \in Outgoing(d, m) : e[3] = n
    BY <2>5 DEF Feeders, Incoming, Outgoing
  <2> QED
    BY <2>2, <2>8, <2>9 DEF OnCircle
<1>8. ASSUME NEW n \in S, OnCircle(d, n), ~HasCycle(d, S)
      PROVE  FALSE
  <2>1. PICK k \in 1 .. len : n \in L[k]
    BY <1>2, <1>8
  <2> DEFINE V == UNION {L[i] : i \in 1 .. k}
  <2>2. \A m \in V : Feeders(d, m) \subseteq V
    <3> SUFFICES ASSUME NEW i \in 1 .. k, NEW m \in L[i], NEW p \in Feeders(d, m)
                 PROVE  p \in V
      OBVIOUS
    <3>1. i \in 1 .. len /\ p \in S
      BY <1>3
    <3>2. PICK j \in 1 .. i - 1 : p \in L[j]
      BY <3>1, <1>4
    <3> QED
      BY <3>2
  <2>3. {n} \subseteq V
    BY <2>1
  <2>4. A(n) \subseteq V
    <3> HIDE DEF V
    <3> QED
      BY <2>2, <2>3, AncestorsAreLeast
  <2>5. PICK e \in Outgoing(d, n) : e[3] \in V
    BY <1>8, <2>3, <2>4 DEF OnCircle
  <2>6. PICK i \in 1 .. k : e[3] \in L[i]
    BY <2>5
  <2>7. n \in Feeders(d, e[3])
    BY <2>5 DEF Outgoing, Feeders, Incoming
  <2>8. PICK j \in 1 .. i - 1 : n \in L[j]
    BY <2>6, <2>7, <1>4
  <2>9. \A a \in 1 .. len : \A b \in 1 .. a - 1 : L[b] \cap L[a] = {}
    BY <1>1 DEF InOrder, L
  <2> QED
    BY <2>1, <2>8, <2>9
<1> QED
  BY <1>7, <1>8

(* What is above some targets is above one of them.                        *)
LEMMA AncestorsAreShared ==
  ASSUME NEW d \in Graphs, NEW T \in SUBSET Nodes
  PROVE  Ancestors(d, T) = UNION {Ancestors(d, {t}) : t \in T}
<1> DEFINE U == UNION {Ancestors(d, {t}) : t \in T}
<1>1. \A t \in T : {t} \in SUBSET Nodes /\ {t} \subseteq Ancestors(d, T)
  BY AncestorsAreClosed
<1>2. \A t \in T : Ancestors(d, {t}) \subseteq Ancestors(d, T)
  BY <1>1, AncestorsGrow
<1>3. \A t \in T : t \in Ancestors(d, {t}) /\ \A n \in Ancestors(d, {t}) : Feeders(d, n) \subseteq Ancestors(d, {t})
  BY <1>1, AncestorsAreClosed
<1>4. T \subseteq U /\ \A n \in U : Feeders(d, n) \subseteq U
  BY <1>3
<1>5. Ancestors(d, T) \subseteq U
  <2> HIDE DEF U
  <2> QED
    BY <1>4, AncestorsAreLeast
<1> QED
  BY <1>2, <1>5

LEMMA RemoveOne ==
  ASSUME NEW G, IsFiniteSet(G), NEW s \in SUBSET G, s # {}
  PROVE  /\ (CHOOSE r \in s : TRUE) \in s
         /\ s \ {CHOOSE r \in s : TRUE} \in SUBSET G
         /\ Cardinality(s \ {CHOOSE r \in s : TRUE}) \in Nat
         /\ Cardinality(s) = Cardinality(s \ {CHOOSE r \in s : TRUE}) + 1
<1> DEFINE x == CHOOSE r \in s : TRUE
<1>1. x \in s
  OBVIOUS
<1> HIDE DEF x
<1>2. IsFiniteSet(s) /\ Cardinality(s) \in Nat
  BY FS_Subset, FS_CardinalityType
<1>3. IsFiniteSet(s \ {x}) /\ Cardinality(s \ {x}) = Cardinality(s) - 1
  BY <1>1, <1>2, FS_RemoveElement
<1>4. Cardinality(s \ {x}) \in Nat
  BY <1>3, FS_CardinalityType
<1>5. Cardinality(s) = Cardinality(s \ {x}) + 1
  BY <1>2, <1>3
<1> QED
  BY <1>1, <1>4, <1>5 DEF x

(* Repeats that have something to hand out make at least one pass.         *)
LEMMA PassesArePositive ==
  ASSUME NEW d \in Graphs, NEW G \in SUBSET Nodes, \A r \in G : d.count[r] # 0
  PROVE  Passes(d, G) \in Nat \ {0}
<1> DEFINE P == Nat \ {0}
           Pick(s) == CHOOSE r \in s : TRUE
           Step(h, s) == IF s = {} THEN 1 ELSE d.count[Pick(s)] * h[s \ {Pick(s)}]
           iter == CHOOSE h : h = [s \in SUBSET G |-> Step(h, s)]
           Upto(h, k) == \A s \in SUBSET G : Cardinality(s) <= k => h[s] = Step(h, s)
           T == {k \in Nat : \E h \in [SUBSET G -> P] : Upto(h, k)}
<1>0. IsFiniteSet(G) /\ Cardinality(G) \in Nat
  BY NodesAreFinite, FS_Subset, FS_CardinalityType
<1>s. \A s \in SUBSET G : Cardinality(s) \in Nat /\ (Cardinality(s) = 0 <=> s = {}) /\ Cardinality(s) <= Cardinality(G)
  BY <1>0, FS_Subset, FS_CardinalityType, FS_EmptySet
<1>r. \A s \in SUBSET G : s # {} => /\ Pick(s) \in s
                                 /\ s \ {Pick(s)} \in SUBSET G
                                 /\ Cardinality(s) = Cardinality(s \ {Pick(s)}) + 1
  BY <1>0, RemoveOne
<1>c. \A r \in G : d.count[r] \in P
  BY DEF Graphs
<1>m. \A a, b \in P : a * b \in P
  OBVIOUS
<1> HIDE DEF Pick, P
<1>1. 0 \in T
  <2> DEFINE h == [s \in SUBSET G |-> 1]
  <2>1. h \in [SUBSET G -> P]
    BY DEF P
  <2>2. Upto(h, 0)
    BY <1>s
  <2> HIDE DEF h, Upto
  <2> QED
    BY <2>1, <2>2
<1>2. ASSUME NEW k \in Nat, k \in T
      PROVE  k + 1 \in T
  <2>1. PICK h \in [SUBSET G -> P] : Upto(h, k)
    BY <1>2
  <2> DEFINE g == [s \in SUBSET G |-> IF Cardinality(s) = k + 1 THEN Step(h, s) ELSE h[s]]
  <2>2. \A s \in SUBSET G : Step(h, s) \in P
    <3> TAKE s \in SUBSET G
    <3>1. CASE s = {}
      BY <3>1 DEF P
    <3>2. CASE s # {}
      BY <3>2, <1>r, <1>c, <1>m
    <3> QED
      BY <3>1, <3>2
  <2>3. g \in [SUBSET G -> P]
    BY <2>2
  <2>4. Upto(g, k + 1)
    <3> SUFFICES ASSUME NEW s \in SUBSET G, Cardinality(s) <= k + 1
                 PROVE  g[s] = Step(g, s)
      OBVIOUS
    <3>1. g[s] = Step(h, s)
      BY <2>1, <1>s
    <3>2. CASE s = {}
      BY <3>1, <3>2
    <3>3. CASE s # {}
      <4>1. s \ {Pick(s)} \in SUBSET G /\ Cardinality(s \ {Pick(s)}) <= k
        BY <3>3, <1>r, <1>s
      <4>2. g[s \ {Pick(s)}] = h[s \ {Pick(s)}]
        BY <4>1, <1>s
      <4> QED
        BY <3>1, <4>2
    <3> QED
      BY <3>2, <3>3
  <2> HIDE DEF g, Upto
  <2> QED
    BY <2>3, <2>4
<1>3. Cardinality(G) \in T
  <2>1. Nat \subseteq T
    <3> HIDE DEF T
    <3> QED
      BY <1>1, <1>2, SetInduction
  <2> QED
    BY <1>0, <2>1
<1>4. PICK h \in [SUBSET G -> P] : Upto(h, Cardinality(G))
  BY <1>3
<1>5. h = [s \in SUBSET G |-> Step(h, s)]
  <2>1. \A s \in SUBSET G : h[s] = Step(h, s)
    BY <1>4, <1>s
  <2> HIDE DEF Step
  <2> QED
    BY <2>1
<1>6. iter = [s \in SUBSET G |-> Step(iter, s)]
  <2> HIDE DEF Step
  <2> QED
    BY <1>5
<1>7. Passes(d, G) = iter[G]
  BY DEF Passes, MapThenFoldSet, Pick
<1> HIDE DEF iter
<1>8. \A s \in SUBSET G : iter[s] = Step(iter, s)
  BY <1>6
<1> DEFINE V == {k \in Nat : \A s \in SUBSET G : Cardinality(s) = k => iter[s] \in P}
<1>9. 0 \in V
  <2>1. iter[{}] = 1
    BY <1>8
  <2>2. \A s \in SUBSET G : Cardinality(s) = 0 => s = {}
    BY <1>s
  <2>3. 1 \in P
    BY DEF P
  <2> QED
    BY <2>1, <2>2, <2>3
<1>10. ASSUME NEW k \in Nat, k \in V
       PROVE  k + 1 \in V
  <2> SUFFICES ASSUME NEW s \in SUBSET G, Cardinality(s) = k + 1
               PROVE  iter[s] \in P
    OBVIOUS
  <2>1. s # {}
    BY <1>s
  <2>2. Pick(s) \in G /\ s \ {Pick(s)} \in SUBSET G /\ Cardinality(s \ {Pick(s)}) = k
    BY <2>1, <1>r, <1>s
  <2>3. iter[s \ {Pick(s)}] \in P
    BY <2>2, <1>10
  <2> QED
    BY <2>1, <2>2, <2>3, <1>8, <1>c, <1>m
<1>11. Cardinality(G) \in V
  <2>1. Nat \subseteq V
    <3> HIDE DEF V
    <3> QED
      BY <1>9, <1>10, SetInduction
  <2> QED
    BY <1>0, <2>1
<1> QED
  BY <1>7, <1>11 DEF P

-----------------------------------------------------------------------------
(* The plan                                                                *)

Last(p, g) == Cardinality(DOMAIN p[g].levels)

(* What the runner relies on in the plan of a group.                       *)
SoundFor(d, T, p, g) ==
  /\ GroupNodes(d, T, g) \in SUBSET Nodes
  /\ Last(p, g) \in Nat \ {0}
  /\ DOMAIN p[g].levels = 1 .. Last(p, g)
  /\ p[g].passes \in Nat \ {0}
  /\ \A k \in 1 .. Last(p, g) : p[g].levels[k] \in SUBSET GroupNodes(d, T, g) /\ p[g].levels[k] # {}
  /\ \A k \in 1 .. Last(p, g) : \A i \in 1 .. Last(p, g) : i # k => p[g].levels[i] \cap p[g].levels[k] = {}
  /\ \A n \in GroupNodes(d, T, g) : \E k \in 1 .. Last(p, g) : n \in p[g].levels[k]
  /\ \A k \in 1 .. Last(p, g) : \A n \in p[g].levels[k] : \A m \in Feeders(d, n) : \E i \in 1 .. k - 1 : m \in p[g].levels[i]

LEMMA GroupsAreClosed ==
  ASSUME NEW d \in Graphs, NEW T \in SUBSET Nodes, NEW g \in Groups(d, T)
  PROVE  /\ g \in SUBSET Nodes
         /\ GroupNodes(d, T, g) \in SUBSET Nodes
         /\ GroupNodes(d, T, g) # {}
         /\ \A n \in GroupNodes(d, T, g) : Feeders(d, n) \subseteq GroupNodes(d, T, g)
<1> DEFINE Of == {t \in T : RepeatsAbove(d, t) = g}
<1>1. PICK t \in T : g = RepeatsAbove(d, t)
  BY DEF Groups
<1>2. Of \in SUBSET Nodes /\ t \in Of /\ {t} \in SUBSET Nodes
  BY <1>1
<1>3. GroupNodes(d, T, g) = Ancestors(d, Of)
  BY DEF GroupNodes
<1>4. g \in SUBSET Nodes
  BY <1>1, <1>2, AncestorsAreClosed DEF RepeatsAbove
<1> HIDE DEF Of
<1> QED
  BY <1>2, <1>3, <1>4, AncestorsAreClosed

(* A plan that was not refused is sound.                                   *)
LEMMA PlansAreSound ==
  ASSUME NEW d \in Graphs, NEW T \in SUBSET Nodes, ~Refused(d, T),
         NEW g \in Groups(d, T)
  PROVE  SoundFor(d, T, PlanOf(d, T), g)
<1> DEFINE S == GroupNodes(d, T, g)  L == Levels(d, S)  p == PlanOf(d, T)
<1>1. p[g].levels = L /\ p[g].passes = Passes(d, g)
  BY DEF PlanOf
<1>2. S \in SUBSET Nodes /\ S # {} /\ g \in SUBSET Nodes /\ \A n \in S : Feeders(d, n) \subseteq S
  BY GroupsAreClosed
<1>3. ~HasCycle(d, S) /\ \A r \in g : d.count[r] # 0
  BY DEF Refused
<1> HIDE DEF S, p
<1>4. PICK len \in Nat : InOrder(d, S, L, len)
  BY <1>2, LevelsAreInOrder
<1> HIDE DEF L
<1>5. DOMAIN L = 1 .. len /\ Cardinality(1 .. len) = len
  <2>1. Cardinality(1 .. len) = IF 1 > len THEN 0 ELSE len - 1 + 1
    BY FS_Interval
  <2> QED
    BY <1>4, <2>1 DEF InOrder
<1>6. Last(p, g) = len
  BY <1>1, <1>5 DEF Last
<1>7. p[g].passes \in Nat \ {0}
  BY <1>1, <1>2, <1>3, PassesArePositive
<1>8. UNION {L[k] : k \in 1 .. len} = S
  BY <1>3, <1>4 DEF InOrder
<1>9. \A k \in 1 .. len : L[k] \in SUBSET S /\ L[k] # {}
  BY <1>4 DEF InOrder
<1>10. len # 0
  BY <1>2, <1>8
<1>11. \A k \in 1 .. len : \A i \in 1 .. len : i # k => L[i] \cap L[k] = {}
  <2>1. \A k \in 1 .. len : \A i \in 1 .. k - 1 : L[i] \cap L[k] = {}
    BY <1>4 DEF InOrder
  <2> TAKE k \in 1 .. len
  <2> TAKE i \in 1 .. len
  <2>2. CASE i < k
    BY <2>1, <2>2
  <2>3. CASE k < i
    <3>1. k \in 1 .. i - 1
      BY <2>3
    <3>2. L[k] \cap L[i] = {}
      BY <2>1, <3>1
    <3> QED
      BY <3>2
  <2> QED
    BY <2>2, <2>3
<1>12. \A n \in S : \E k \in 1 .. len : n \in L[k]
  BY <1>8
<1>13. \A k \in 1 .. len : \A n \in L[k] : \A m \in Feeders(d, n) : \E i \in 1 .. k - 1 : m \in L[i]
  <2> TAKE k \in 1 .. len
  <2> TAKE n \in L[k]
  <2> TAKE m \in Feeders(d, n)
  <2>1. m \in S \cap Feeders(d, n)
    BY <1>2, <1>9
  <2> QED
    BY <1>4, <2>1 DEF InOrder
<1> QED
  BY <1>1, <1>2, <1>5, <1>6, <1>7, <1>9, <1>10, <1>11, <1>12, <1>13 DEF SoundFor, S, p

(* What cannot be run, in terms of what the targets need.                  *)
LEMMA RefusedExactlyFor ==
  ASSUME NEW d \in Graphs, NEW T \in SUBSET Nodes
  PROVE  Refused(d, T) <=>
           \/ T = {}
           \/ \E n \in Ancestors(d, T) : OnCircle(d, n) \/ (d.kind[n] = "repeat" /\ d.count[n] = 0)
           \/ \E n \in Nodes, side \in Sides : <<n, side, n>> \in d.edges
           \/ Miswired(d, Ancestors(d, T))
           \/ \E t \in T : Passes(d, RepeatsAbove(d, t)) > MaxPasses
<1> DEFINE A == Ancestors(d, T)
<1>1. (\E e \in d.edges : e[1] = e[3]) <=> \E n \in Nodes, side \in Sides : <<n, side, n>> \in d.edges
  <2>1. \A e \in d.edges : e \in Nodes \X Sides \X Nodes /\ e = <<e[1], e[2], e[3]>>
    BY DEF Graphs
  <2>2. ASSUME NEW e \in d.edges, e[1] = e[3]
        PROVE  <<e[1], e[2], e[1]>> \in d.edges /\ e[1] \in Nodes /\ e[2] \in Sides
    BY <2>1, <2>2
  <2>3. ASSUME NEW n \in Nodes, NEW side \in Sides, <<n, side, n>> \in d.edges
        PROVE  \E e \in d.edges : e[1] = e[3]
    <3>1. <<n, side, n>>[1] = <<n, side, n>>[3]
      OBVIOUS
    <3> QED
      BY <2>3, <3>1
  <2> QED
    BY <2>2, <2>3
<1>2. (\E g \in Groups(d, T) : \E r \in g : d.count[r] = 0) <=> \E n \in A : d.kind[n] = "repeat" /\ d.count[n] = 0
  <2>1. A = UNION {Ancestors(d, {t}) : t \in T}
    BY AncestorsAreShared
  <2>2. \A t \in T : \A r : r \in RepeatsAbove(d, t) <=> r \in Ancestors(d, {t}) /\ d.kind[r] = "repeat"
    BY DEF RepeatsAbove
  <2>3. (\E g \in Groups(d, T) : \E r \in g : d.count[r] = 0) <=> \E t \in T : \E r \in RepeatsAbove(d, t) : d.count[r] = 0
    BY DEF Groups
  <2> HIDE DEF A
  <2> QED
    BY <2>1, <2>2, <2>3
<1>3. (\E g \in Groups(d, T) : Passes(d, g) > MaxPasses) <=> \E t \in T : Passes(d, RepeatsAbove(d, t)) > MaxPasses
  BY DEF Groups
<1>4. (\E g \in Groups(d, T) : HasCycle(d, GroupNodes(d, T, g))) <=> \E n \in A : OnCircle(d, n)
  <2>1. \A g \in Groups(d, T) : HasCycle(d, GroupNodes(d, T, g)) <=> \E n \in GroupNodes(d, T, g) : OnCircle(d, n)
    BY GroupsAreClosed, CirclesAreNoticed
  <2>2. A = UNION {GroupNodes(d, T, g) : g \in Groups(d, T)}
    BY GroupsAreComplete
  <2> HIDE DEF A
  <2> QED
    BY <2>1, <2>2
<1>5. Refused(d, T) <=>
        \/ T = {}
        \/ \E e \in d.edges : e[1] = e[3]
        \/ \E g \in Groups(d, T) : \E r \in g : d.count[r] = 0
        \/ \E g \in Groups(d, T) : Passes(d, g) > MaxPasses
        \/ \E g \in Groups(d, T) : HasCycle(d, GroupNodes(d, T, g))
        \/ Miswired(d, A)
  BY DEF Refused
<1> HIDE DEF A
<1>6. (\E n \in A : OnCircle(d, n) \/ (d.kind[n] = "repeat" /\ d.count[n] = 0)) <=>
        (\E n \in A : OnCircle(d, n)) \/ (\E n \in A : d.kind[n] = "repeat" /\ d.count[n] = 0)
  OBVIOUS
<1>7. Refused(d, T) <=>
        \/ T = {}
        \/ \E n \in A : OnCircle(d, n) \/ (d.kind[n] = "repeat" /\ d.count[n] = 0)
        \/ \E n \in Nodes, side \in Sides : <<n, side, n>> \in d.edges
        \/ Miswired(d, A)
        \/ \E t \in T : Passes(d, RepeatsAbove(d, t)) > MaxPasses
  BY <1>1, <1>2, <1>3, <1>4, <1>5, <1>6
<1> QED
  BY <1>7 DEF A

-----------------------------------------------------------------------------
(* The run: the inductive invariant                                        *)

Good == {"skipped", "success", "closed", "continued"}
Fates == {"unseen", "running", "skipped", "success", "closed", "error", "continued", "stopped"}
Results == {"none", "skipped", "success", "error", "stopped"}

(* The plan is the one that was checked.                                   *)
PlanInv ==
  IF status \in {"idle", "refused"} THEN plan = <<>>
  ELSE plan = PlanOf(doc, targets) /\ ~Refused(doc, targets)

Shape ==
  /\ doc \in Documents
  /\ targets \in SUBSET Nodes
  /\ status \in {"idle", "connecting", "running", "refused", "completed", "failed", "stopped"}
  /\ listed \in BOOLEAN
  /\ cancelled \in BOOLEAN
  /\ errors \in BOOLEAN
  /\ report \in [Nodes -> Results]
  /\ DOMAIN at = Plan /\ DOMAIN pass = Plan /\ DOMAIN level = Plan /\ DOMAIN node = Plan /\ DOMAIN sides = Plan
  /\ \A g \in Plan : node[g] \in [GroupNodes(doc, targets, g) -> Fates]

(* Where the task of a group stands.                                       *)
Walk(g) ==
  /\ at[g] \in {"check", "pause", "busy", "done"}
  /\ pass[g] \in 1 .. plan[g].passes
  /\ level[g] \in 1 .. Last(plan, g)
  /\ sides[g] \subseteq NodesOf(g) \X {"true", "false"}

(* The levels before the current one are decided and did not fail, those   *)
(* after it are untouched.                                                 *)
Before(g) == \A i \in 1 .. level[g] - 1 : \A n \in LevelsOf(g)[i] : node[g][n] \in Good
After(g) == \A i \in level[g] + 1 .. Last(plan, g) : \A n \in LevelsOf(g)[i] : node[g][n] = "unseen"
Current(g) ==
  /\ at[g] = "check" => \A n \in LevelsOf(g)[level[g]] : node[g][n] = "unseen"
  /\ at[g] \in {"pause", "busy"} => \A n \in LevelsOf(g)[level[g]] : node[g][n] # "unseen"

(* A task that ended early had a reason to: a Stop, or a node that failed,  *)
(* in which case the others of its level have ended as well.               *)
Broke(g) == \E n \in NodesOf(g) : node[g][n] \in {"error", "stopped"}

Ended(g) ==
  at[g] = "done" =>
    \/ cancelled
    \/ Broke(g) /\ \A n \in NodesOf(g) : node[g][n] # "running"
    \/ pass[g] = plan[g].passes /\ \A n \in NodesOf(g) : node[g][n] \in Good

(* Failures are remembered, and what is decided is in the report.          *)
Failures(g) ==
  \A n \in NodesOf(g) :
    /\ node[g][n] \in {"error", "continued"} => errors
    /\ node[g][n] = "stopped" => cancelled
    /\ node[g][n] \notin {"unseen", "running"} => report[n] # "none"

(* The nodes that were skipped are those that nothing is passed on to.     *)
Skips(g) == \A n \in NodesOf(g) : node[g][n] # "unseen" => (node[g][n] = "skipped" <=> AllClosed(g, n))

GroupInv(g) == Walk(g) /\ Before(g) /\ After(g) /\ Current(g) /\ Ended(g) /\ Failures(g) /\ Skips(g)

Reports == \A n \in Nodes : (report[n] = "error" => errors) /\ (report[n] = "stopped" => cancelled)

(* No group has begun while the run connects, and all are over when it ends. *)
(* What made it Completed stays true, as a Stop that is late changes nothing. *)
Stages ==
  /\ status = "idle" => ~listed
  /\ status = "connecting" => \A g \in Plan : at[g] = "check"
  /\ status \notin {"idle", "refused", "connecting", "running"} => \A g \in Plan : at[g] = "done"
  /\ status = "completed" =>
       /\ ~errors
       /\ \A n \in Nodes : report[n] # "stopped"
       /\ \A g \in Plan : pass[g] = plan[g].passes /\ \A n \in NodesOf(g) : node[g][n] \in {"success", "skipped", "closed"}

Inv == Shape /\ PlanInv /\ Reports /\ Stages /\ \A g \in Plan : GroupInv(g)

LEMMA RequestsAreNodes ==
  ASSUME NEW d \in Graphs, NEW T \in Requests(d)
  PROVE  T \in SUBSET Nodes
  BY DEF Requests, Leaves, LeavesDownstreamOf

LEMMA SoundPlan ==
  ASSUME Inv, NEW g \in Plan
  PROVE  /\ doc \in Graphs
         /\ status \notin {"idle", "refused"}
         /\ SoundFor(doc, targets, plan, g)
         /\ NodesOf(g) = GroupNodes(doc, targets, g)
         /\ node[g] \in [NodesOf(g) -> Fates]
<1>1. doc \in Graphs /\ targets \in SUBSET Nodes
  BY DocumentsAreGraphs DEF Inv, Shape
<1>2. status \notin {"idle", "refused"} /\ plan = PlanOf(doc, targets) /\ ~Refused(doc, targets)
  BY DEF Inv, PlanInv, Plan
<1>3. g \in Groups(doc, targets)
  BY <1>2 DEF PlanOf, Plan
<1>4. SoundFor(doc, targets, plan, g)
  BY <1>1, <1>2, <1>3, PlansAreSound
<1>5. NodesOf(g) = GroupNodes(doc, targets, g) /\ node[g] \in [NodesOf(g) -> Fates]
  BY DEF Inv, Shape, NodesOf
<1> QED
  BY <1>1, <1>2, <1>4, <1>5

(* The same, in the words of the runner.                                   *)
LEMMA SoundLevels ==
  ASSUME Inv, NEW g \in Plan
  PROVE  /\ NodesOf(g) \in SUBSET Nodes
         /\ node[g] \in [NodesOf(g) -> Fates]
         /\ Last(plan, g) \in Nat \ {0}
         /\ DOMAIN LevelsOf(g) = 1 .. Last(plan, g)
         /\ Cardinality(DOMAIN LevelsOf(g)) = Last(plan, g)
         /\ plan[g].passes \in Nat \ {0}
         /\ \A k \in 1 .. Last(plan, g) : LevelsOf(g)[k] \in SUBSET NodesOf(g) /\ LevelsOf(g)[k] # {}
         /\ \A k \in 1 .. Last(plan, g) : \A i \in 1 .. Last(plan, g) : i # k => LevelsOf(g)[i] \cap LevelsOf(g)[k] = {}
         /\ \A n \in NodesOf(g) : \E k \in 1 .. Last(plan, g) : n \in LevelsOf(g)[k]
         /\ \A k \in 1 .. Last(plan, g) : \A n \in LevelsOf(g)[k] : \A m \in Feeders(doc, n) :
              \E i \in 1 .. k - 1 : m \in LevelsOf(g)[i]
<1>1. SoundFor(doc, targets, plan, g) /\ NodesOf(g) = GroupNodes(doc, targets, g) /\ node[g] \in [NodesOf(g) -> Fates]
  BY SoundPlan
<1> QED
  BY <1>1 DEF SoundFor, LevelsOf, Last

(* What closes a node is up to its feeders.                                *)
LEMMA ClosedByFeeders ==
  ASSUME NEW g, NEW n, doc' = doc, DOMAIN node'[g] = DOMAIN node[g],
         \A m \in Feeders(doc, n) : m \in NodesOf(g) =>
            (node'[g][m] \in {"skipped", "closed"} <=> node[g][m] \in {"skipped", "closed"}),
         \A m \in Feeders(doc, n) : \A s : <<m, s>> \in sides'[g] <=> <<m, s>> \in sides[g]
  PROVE  AllClosed(g, n)' <=> AllClosed(g, n)
<1>1. Incoming(doc, n)' = Incoming(doc, n)
  BY DEF Incoming
<1>2. \A e \in Incoming(doc, n) : e[1] \in Feeders(doc, n)
  BY DEF Feeders
<1>3. \A e \in Incoming(doc, n) : EdgeActive(g, e)' <=> EdgeActive(g, e)
  BY <1>2 DEF EdgeActive, Dead, NodesOf
<1> QED
  BY <1>1, <1>3 DEF AllClosed

LEMMA OtherGroups ==
  ASSUME Inv, NEW h \in Plan, UNCHANGED <<doc, targets, plan>>,
         at'[h] = at[h], pass'[h] = pass[h], level'[h] = level[h], node'[h] = node[h], sides'[h] = sides[h],
         cancelled => cancelled', errors => errors',
         \A n \in Nodes : report[n] # "none" => report'[n] # "none"
  PROVE  GroupInv(h)'
<1>1. GroupInv(h) /\ NodesOf(h) \in SUBSET Nodes
  BY SoundLevels DEF Inv
<1>2. doc' = doc /\ plan' = plan /\ NodesOf(h)' = NodesOf(h) /\ LevelsOf(h)' = LevelsOf(h)
  BY DEF fixed, NodesOf, LevelsOf
<1>3. Walk(h)' /\ Before(h)' /\ After(h)' /\ Current(h)'
  BY <1>1, <1>2 DEF GroupInv, Walk, Before, After, Current
<1>4. Ended(h)'
  BY <1>1, <1>2 DEF GroupInv, Ended, Broke
<1>5. Failures(h)'
  BY <1>1, <1>2 DEF GroupInv, Failures
<1>6. Skips(h)'
  <2>1. \A n \in NodesOf(h) : AllClosed(h, n)' <=> AllClosed(h, n)
    BY <1>2, ClosedByFeeders
  <2> QED
    BY <1>1, <1>2, <2>1 DEF GroupInv, Skips
<1> QED
  BY <1>3, <1>4, <1>5, <1>6 DEF GroupInv

(* A task that only moves within its level.                                *)
LEMMA SameLevel ==
  ASSUME Inv, NEW g \in Plan, UNCHANGED fixed,
         pass'[g] = pass[g], level'[g] = level[g], node'[g] = node[g], sides'[g] = sides[g],
         cancelled => cancelled', errors => errors',
         \A n \in Nodes : report[n] # "none" => report'[n] # "none",
         at'[g] \in {"check", "pause", "busy", "done"}, Current(g)', Ended(g)'
  PROVE  GroupInv(g)'
<1>1. GroupInv(g) /\ NodesOf(g) \in SUBSET Nodes
  BY SoundLevels DEF Inv
<1>2. doc' = doc /\ plan' = plan /\ NodesOf(g)' = NodesOf(g) /\ LevelsOf(g)' = LevelsOf(g)
  BY DEF fixed, NodesOf, LevelsOf
<1>3. Walk(g)' /\ Before(g)' /\ After(g)'
  BY <1>1, <1>2 DEF GroupInv, Walk, Before, After
<1>4. Failures(g)'
  BY <1>1, <1>2 DEF GroupInv, Failures
<1>5. Skips(g)'
  <2>1. \A n \in NodesOf(g) : AllClosed(g, n)' <=> AllClosed(g, n)
    BY <1>2, ClosedByFeeders
  <2> QED
    BY <1>1, <1>2, <2>1 DEF GroupInv, Skips
<1> QED
  BY <1>3, <1>4, <1>5 DEF GroupInv

(* The fates of the nodes of a group once its level is decided.            *)
Decides(g, now) ==
  /\ now \in [NodesOf(g) -> Fates]
  /\ \A n \in LevelsOf(g)[level[g]] :
       /\ now[n] \in Good
       /\ now[n] = "continued" => errors
       /\ report'[n] # "none"
       /\ now[n] = "skipped" <=> AllClosed(g, n)
  /\ \A n \in NodesOf(g) \ LevelsOf(g)[level[g]] : now[n] = node[g][n]

(* The next level, the next pass or the end: each leaves the group sound.  *)
LEMMA AdvanceKeeps ==
  ASSUME Inv, NEW g \in Plan, UNCHANGED fixed, UNCHANGED errors, UNCHANGED cancelled,
         \A n \in Nodes : report[n] # "none" => report'[n] # "none",
         at[g] \in {"check", "busy"},
         NEW now, Decides(g, now), Advance(g, now)
  PROVE  GroupInv(g)' /\ node'[g] \in [NodesOf(g) -> Fates]
<1> DEFINE k == level[g]  end == Last(plan, g)  L == LevelsOf(g)  S == NodesOf(g)
<1>1. GroupInv(g)
  BY DEF Inv
<1>2. doc' = doc /\ plan' = plan /\ L' = L
  BY DEF fixed, LevelsOf
<1>3. /\ S \in SUBSET Nodes /\ node[g] \in [S -> Fates]
      /\ end \in Nat \ {0} /\ Cardinality(DOMAIN L) = end
      /\ plan[g].passes \in Nat \ {0}
      /\ \A i \in 1 .. end : L[i] \in SUBSET S /\ L[i] # {}
      /\ \A i \in 1 .. end : \A j \in 1 .. end : j # i => L[j] \cap L[i] = {}
      /\ \A n \in S : \E i \in 1 .. end : n \in L[i]
      /\ \A i \in 1 .. end : \A n \in L[i] : \A m \in Feeders(doc, n) : \E j \in 1 .. i - 1 : m \in L[j]
  BY SoundLevels
<1>4. /\ k \in 1 .. end /\ pass[g] \in 1 .. plan[g].passes /\ sides[g] \subseteq S \X {"true", "false"}
      /\ \A i \in 1 .. k - 1 : \A n \in L[i] : node[g][n] \in Good
      /\ \A i \in k + 1 .. end : \A n \in L[i] : node[g][n] = "unseen"
  BY <1>1 DEF GroupInv, Walk, Before, After
<1>5. /\ now \in [S -> Fates]
      /\ \A n \in L[k] : now[n] \in Good /\ (now[n] = "continued" => errors) /\ report'[n] # "none"
      /\ \A n \in L[k] : now[n] = "skipped" <=> AllClosed(g, n)
      /\ \A n \in S \ L[k] : now[n] = node[g][n]
  BY DEF Decides
<1>6. g \in DOMAIN at /\ g \in DOMAIN pass /\ g \in DOMAIN level /\ g \in DOMAIN node /\ g \in DOMAIN sides
  BY DEF Inv, Shape
<1>7. Advance(g, now) <=>
        IF k < end
        THEN /\ level' = [level EXCEPT ![g] = @ + 1] /\ at' = [at EXCEPT ![g] = "check"]
             /\ node' = [node EXCEPT ![g] = now] /\ UNCHANGED <<pass, sides>>
        ELSE IF pass[g] < plan[g].passes
        THEN /\ pass' = [pass EXCEPT ![g] = @ + 1] /\ level' = [level EXCEPT ![g] = 1]
             /\ at' = [at EXCEPT ![g] = "check"]
             /\ node' = [node EXCEPT ![g] = Fresh(S)] /\ sides' = [sides EXCEPT ![g] = {}]
        ELSE /\ at' = [at EXCEPT ![g] = "done"] /\ UNCHANGED <<pass, level, sides>>
             /\ node' = [node EXCEPT ![g] = now]
  BY <1>3 DEF Advance, End
<1>8. \A n \in S : now[n] \in {"error", "continued"} => errors
  BY <1>1, <1>5 DEF GroupInv, Failures, Good
<1>9. \A n \in S : now[n] = "stopped" => cancelled
  BY <1>1, <1>5 DEF GroupInv, Failures, Good
<1>10. \A n \in S : now[n] \notin {"unseen", "running"} => report'[n] # "none"
  BY <1>1, <1>3, <1>5 DEF GroupInv, Failures
<1>11. \A i \in 1 .. k : \A n \in L[i] : now[n] \in Good
  BY <1>3, <1>4, <1>5
<1>12. \A i \in k + 1 .. end : \A n \in L[i] : now[n] = "unseen"
  BY <1>3, <1>4, <1>5
(* Nobody's feeders change: those of decided nodes are decided already.    *)
<1>13. ASSUME node'[g] = now, sides'[g] = sides[g], NEW n \in S, now[n] # "unseen"
       PROVE  now[n] = "skipped" <=> AllClosed(g, n)'
  <2>1. PICK i \in 1 .. end : n \in L[i]
    BY <1>3
  <2>2. i <= k
    BY <2>1, <1>4, <1>12, <1>13
  <2>3. \A m \in Feeders(doc, n) : m \in S => now[m] = node[g][m]
    <3> TAKE m \in Feeders(doc, n)
    <3>1. PICK j \in 1 .. i - 1 : m \in L[j]
      BY <1>3, <2>1
    <3>2. j \in 1 .. end /\ j # k
      <4>1. k \in Nat /\ end \in Nat
        BY <1>3, <1>4
      <4> HIDE DEF k, end
      <4> QED
        BY <4>1, <2>1, <2>2, <3>1
    <3>3. m \notin L[k]
      BY <1>3, <1>4, <3>1, <3>2
    <3> QED
      BY <3>3, <1>5
  <2>4. DOMAIN node'[g] = DOMAIN node[g]
    BY <1>3, <1>5, <1>13
  <2>5. AllClosed(g, n)' <=> AllClosed(g, n)
    BY <1>2, <1>13, <2>3, <2>4, ClosedByFeeders
  <2>6. n \notin L[k] => (node[g][n] = "skipped" <=> AllClosed(g, n))
    BY <1>1, <1>5, <1>13 DEF GroupInv, Skips
  <2> QED
    BY <1>5, <2>5, <2>6
<1>14. CASE k < end
  <2>1. /\ level'[g] = k + 1 /\ at'[g] = "check" /\ node'[g] = now
        /\ pass'[g] = pass[g] /\ sides'[g] = sides[g]
    BY <1>6, <1>7, <1>14
  <2>2. NodesOf(g)' = S
    BY <1>5, <2>1 DEF NodesOf
  <2>3. Walk(g)'
    BY <1>2, <1>3, <1>4, <1>14, <2>1, <2>2 DEF Walk, Last
  <2>4. Before(g)'
    BY <1>2, <1>4, <1>11, <1>12, <1>14, <2>1 DEF Before, After, Current, Last
  <2>4a. After(g)'
    BY <1>2, <1>3, <1>4, <1>12, <1>14, <2>1 DEF After, Last
  <2>4b. Current(g)'
    <3>1. k + 1 \in k + 1 .. end
      BY <1>3, <1>4, <1>14
    <3> QED
      BY <1>2, <1>12, <2>1, <3>1 DEF Current
  <2>5. Ended(g)' /\ Failures(g)'
    BY <1>8, <1>9, <1>10, <2>1, <2>2 DEF Ended, Failures
  <2>6. Skips(g)'
    BY <1>13, <2>1, <2>2 DEF Skips
  <2> QED
    BY <1>5, <2>1, <2>3, <2>4, <2>4a, <2>4b, <2>5, <2>6 DEF GroupInv
<1>15. CASE ~(k < end) /\ pass[g] < plan[g].passes
  <2>1. /\ level'[g] = 1 /\ at'[g] = "check" /\ node'[g] = Fresh(S)
        /\ pass'[g] = pass[g] + 1 /\ sides'[g] = {}
    BY <1>6, <1>7, <1>15
  <2>2. NodesOf(g)' = S /\ \A n \in S : node'[g][n] = "unseen"
    BY <2>1 DEF NodesOf, Fresh
  <2>3. Walk(g)'
    BY <1>2, <1>3, <1>4, <1>15, <2>1, <2>2 DEF Walk, Last
  <2>4. Before(g)' /\ After(g)' /\ Current(g)'
    BY <1>2, <1>3, <1>4, <2>1, <2>2 DEF Before, After, Current, Last
  <2>5. Ended(g)' /\ Failures(g)' /\ Skips(g)'
    BY <2>1, <2>2 DEF Ended, Failures, Skips
  <2>6. node'[g] \in [S -> Fates]
    BY <2>1 DEF Fresh, Fates
  <2> QED
    BY <2>3, <2>4, <2>5, <2>6 DEF GroupInv
<1>16. CASE ~(k < end) /\ ~(pass[g] < plan[g].passes)
  <2>1. /\ level'[g] = k /\ at'[g] = "done" /\ node'[g] = now
        /\ pass'[g] = pass[g] /\ sides'[g] = sides[g]
    BY <1>6, <1>7, <1>16
  <2>2. NodesOf(g)' = S
    BY <1>5, <2>1 DEF NodesOf
  <2>3. Walk(g)'
    BY <1>2, <1>3, <1>4, <2>1, <2>2 DEF Walk, Last
  <2>4. Before(g)' /\ After(g)' /\ Current(g)'
    BY <1>2, <1>4, <1>11, <1>12, <2>1 DEF Before, After, Current, Last
  <2>5. Failures(g)'
    BY <1>8, <1>9, <1>10, <2>1, <2>2 DEF Failures
  <2>6. Ended(g)'
    <3>1. k = end /\ pass[g] = plan[g].passes
      BY <1>3, <1>4, <1>16
    <3>2. \A n \in S : now[n] \in Good
      BY <1>3, <1>11, <3>1
    <3> QED
      BY <1>2, <2>1, <2>2, <3>1, <3>2 DEF Ended
  <2>7. Skips(g)'
    BY <1>13, <2>1, <2>2 DEF Skips
  <2> QED
    BY <1>5, <2>1, <2>3, <2>4, <2>5, <2>6, <2>7 DEF GroupInv
<1> QED
  BY <1>14, <1>15, <1>16

LEMMA EnterLevelKeeps ==
  ASSUME Inv, NEW g \in Plan, EnterLevel(g)
  PROVE  /\ GroupInv(g)'
         /\ node'[g] \in [NodesOf(g) -> Fates]
         /\ report' \in [Nodes -> Results]
         /\ \A n \in Nodes : report'[n] \in {report[n], "skipped"}
<1> DEFINE k == level[g]  end == Last(plan, g)  L == LevelsOf(g)  S == NodesOf(g)
           ids == L[k]
           skipped == {n \in ids : AllClosed(g, n)}
           now == [n \in S |-> IF n \in skipped THEN "skipped" ELSE IF n \in ids THEN "running" ELSE node[g][n]]
<1>1. GroupInv(g) /\ at[g] = "check" /\ UNCHANGED <<fixed, status, cancelled, errors>>
  BY DEF Inv, EnterLevel
<1>2. /\ report' = [n \in Nodes |-> IF n \in skipped THEN "skipped" ELSE report[n]]
      /\ IF ids = skipped THEN Advance(g, now)
         ELSE /\ node' = [node EXCEPT ![g] = now]
              /\ \E next \in IF k > 1 THEN {"pause", "busy"} ELSE {"busy"} : at' = [at EXCEPT ![g] = next]
              /\ UNCHANGED <<pass, level, sides>>
  BY DEF EnterLevel
<1>3. doc' = doc /\ plan' = plan /\ L' = L
  BY <1>1 DEF fixed, LevelsOf
<1>4. /\ S \in SUBSET Nodes /\ node[g] \in [S -> Fates] /\ end \in Nat \ {0}
      /\ \A i \in 1 .. end : L[i] \in SUBSET S
      /\ \A i \in 1 .. end : \A j \in 1 .. end : j # i => L[j] \cap L[i] = {}
      /\ \A n \in S : \E i \in 1 .. end : n \in L[i]
      /\ \A i \in 1 .. end : \A n \in L[i] : \A m \in Feeders(doc, n) : \E j \in 1 .. i - 1 : m \in L[j]
  BY SoundLevels
<1>5. k \in 1 .. end /\ \A n \in ids : node[g][n] = "unseen"
  BY <1>1 DEF GroupInv, Walk, Current
<1>6. now \in [S -> Fates] /\ ids \subseteq S /\ skipped \subseteq ids
  BY <1>4, <1>5 DEF Fates
<1>7. \A n \in S : now[n] = IF n \in skipped THEN "skipped" ELSE IF n \in ids THEN "running" ELSE node[g][n]
  OBVIOUS
<1>8. report \in [Nodes -> Results] /\ g \in DOMAIN at /\ g \in DOMAIN node
  BY DEF Inv, Shape
<1>9. report' \in [Nodes -> Results] /\ \A n \in Nodes : report'[n] \in {report[n], "skipped"}
  BY <1>2, <1>8 DEF Results
<1>10. \A n \in skipped : report'[n] = "skipped"
  BY <1>2, <1>4, <1>6
<1>s. \A n \in ids : n \in skipped <=> AllClosed(g, n)
  OBVIOUS
<1> HIDE DEF now, skipped
<1>11. CASE ids = skipped
  <2>1. Decides(g, now)
    BY <1>6, <1>7, <1>10, <1>11, <1>s DEF Decides, Good
  <2>2. Advance(g, now)
    BY <1>2, <1>11
  <2>3. GroupInv(g)' /\ node'[g] \in [S -> Fates]
    BY <1>1, <1>9, <2>1, <2>2, AdvanceKeeps
  <2> QED
    BY <1>9, <2>3
<1>12. CASE ids # skipped
  <2>1. /\ node'[g] = now /\ at'[g] \in {"pause", "busy"}
        /\ pass' = pass /\ level' = level /\ sides' = sides
    BY <1>2, <1>8, <1>12
  <2>2. NodesOf(g)' = S
    BY <1>6, <2>1 DEF NodesOf
  <2>3. Walk(g)'
    BY <1>1, <1>3, <2>1, <2>2 DEF GroupInv, Walk
  <2>4. \A i \in 1 .. end : i # k => \A n \in L[i] : now[n] = node[g][n]
    BY <1>4, <1>5, <1>6, <1>7
  <2>5. Before(g)' /\ After(g)'
    <3>1. /\ \A i \in 1 .. k - 1 : i \in 1 .. end /\ i # k
          /\ \A i \in k + 1 .. end : i \in 1 .. end /\ i # k
      BY <1>4, <1>5
    <3> QED
      BY <1>1, <1>3, <2>1, <2>4, <3>1 DEF GroupInv, Before, After
  <2>6. Current(g)'
    BY <1>3, <1>6, <1>7, <2>1 DEF Current
  <2>7. Ended(g)'
    BY <2>1 DEF Ended
  <2>8. Failures(g)'
    <3>1. \A n \in S : now[n] \in {"skipped", "running", node[g][n]}
      BY <1>7
    <3>2. \A n \in S : now[n] = "skipped" => n \in skipped \/ node[g][n] = "skipped"
      BY <1>7
    <3>3. \A n \in S : report[n] # "none" => report'[n] # "none"
      BY <1>4, <1>9
    <3> QED
      BY <1>1, <1>10, <2>1, <2>2, <3>1, <3>2, <3>3 DEF GroupInv, Failures
  <2>9. Skips(g)'
    <3> SUFFICES ASSUME NEW n \in S, now[n] # "unseen"
                 PROVE  now[n] = "skipped" <=> AllClosed(g, n)'
      BY <2>1, <2>2 DEF Skips
    <3>1. PICK i \in 1 .. end : n \in L[i]
      BY <1>4
    <3>2. i <= k
      <4>1. CASE i \in k + 1 .. end
        <5>1. node[g][n] = "unseen"
          BY <1>1, <3>1, <4>1 DEF GroupInv, After
        <5>2. now[n] = node[g][n]
          BY <2>4, <3>1, <4>1, <1>5
        <5> QED
          BY <5>1, <5>2
      <4> QED
        BY <4>1, <1>4, <1>5
    <3>3. \A m \in Feeders(doc, n) : now[m] = node[g][m]
      <4> TAKE m \in Feeders(doc, n)
      <4>1. PICK j \in 1 .. i - 1 : m \in L[j]
        BY <1>4, <3>1
      <4>2. j \in 1 .. end /\ j # k
        BY <1>4, <1>5, <3>2, <4>1
      <4> QED
        BY <2>4, <4>1, <4>2
    <3>4. AllClosed(g, n)' <=> AllClosed(g, n)
      <4>1. DOMAIN node'[g] = DOMAIN node[g]
        BY <1>4, <1>6, <2>1
      <4> QED
        BY <1>3, <2>1, <3>3, <4>1, ClosedByFeeders
    <3>5. CASE n \in ids
      BY <1>7, <1>s, <3>4, <3>5
    <3>6. CASE n \notin ids
      <4>1. now[n] = node[g][n]
        BY <1>6, <1>7, <3>6
      <4> QED
        BY <1>1, <3>4, <4>1 DEF GroupInv, Skips
    <3> QED
      BY <3>5, <3>6
  <2> QED
    BY <1>6, <1>9, <2>1, <2>3, <2>5, <2>6, <2>7, <2>8, <2>9 DEF GroupInv
<1> QED
  BY <1>11, <1>12

LEMMA EndNodeKeeps ==
  ASSUME Inv, NEW g \in Plan, NEW n \in NodesOf(g), EndNode(g, n)
  PROVE  /\ GroupInv(g)'
         /\ node'[g] \in [NodesOf(g) -> Fates]
         /\ report' \in [Nodes -> Results]
         /\ \A m \in Nodes : m # n => report'[m] = report[m]
         /\ report'[n] # "none"
         /\ report'[n] = "error" => errors'
         /\ report'[n] = "stopped" => cancelled'
<1> DEFINE k == level[g]  end == Last(plan, g)  L == LevelsOf(g)  S == NodesOf(g)
<1>1. /\ GroupInv(g) /\ at[g] = "busy" /\ node[g][n] = "running"
      /\ UNCHANGED <<fixed, status, cancelled, at, pass, level>>
  BY DEF Inv, EndNode
<1>2. PICK outcome \in {"success", "closed", "error", "stopped"} :
        /\ outcome = "stopped" => cancelled
        /\ node' = [node EXCEPT ![g][n] = IF outcome = "error" /\ n \in doc.lenient THEN "continued" ELSE outcome]
        /\ report' = [report EXCEPT ![n] = IF outcome = "closed" THEN "success" ELSE outcome]
        /\ errors' = (errors \/ outcome = "error")
        /\ \E rows \in SUBSET {"true", "false"} : sides' = [sides EXCEPT ![g] = @ \cup ({n} \X rows)]
  BY DEF EndNode
<1>3. doc' = doc /\ plan' = plan /\ L' = L
  BY <1>1 DEF fixed, LevelsOf
<1>4. /\ S \in SUBSET Nodes /\ node[g] \in [S -> Fates] /\ end \in Nat \ {0}
      /\ \A i \in 1 .. end : L[i] \in SUBSET S
      /\ \A i \in 1 .. end : \A j \in 1 .. end : j # i => L[j] \cap L[i] = {}
      /\ \A m \in S : \E i \in 1 .. end : m \in L[i]
      /\ \A i \in 1 .. end : \A m \in L[i] : \A p \in Feeders(doc, m) : \E j \in 1 .. i - 1 : p \in L[j]
  BY SoundLevels
<1>5. k \in 1 .. end
  BY <1>1 DEF GroupInv, Walk
<1>6. report \in [Nodes -> Results] /\ g \in DOMAIN node /\ g \in DOMAIN sides
  BY DEF Inv, Shape
<1> DEFINE fate == IF outcome = "error" /\ n \in doc.lenient THEN "continued" ELSE outcome
<1>7. node'[g] = [node[g] EXCEPT ![n] = fate] /\ fate \in {"success", "closed", "error", "stopped", "continued"}
  BY <1>2, <1>6
<1>8. /\ node'[g] \in [S -> Fates] /\ node'[g][n] = fate
      /\ \A m \in S : m # n => node'[g][m] = node[g][m]
  BY <1>4, <1>7 DEF Fates
<1>9. NodesOf(g)' = S /\ DOMAIN node'[g] = DOMAIN node[g]
  BY <1>4, <1>8 DEF NodesOf
<1>10. PICK rows \in SUBSET {"true", "false"} : sides'[g] = sides[g] \cup ({n} \X rows)
  BY <1>2, <1>6
<1>11. /\ report' \in [Nodes -> Results] /\ report'[n] = (IF outcome = "closed" THEN "success" ELSE outcome)
       /\ \A m \in Nodes : m # n => report'[m] = report[m]
  BY <1>2, <1>4, <1>6 DEF Results
<1>12. /\ outcome = "error" => errors'
       /\ errors => errors'
       /\ outcome = "stopped" => cancelled'
       /\ cancelled' = cancelled
  BY <1>1, <1>2
<1>13. n \in L[k]
  <2>1. PICK i \in 1 .. end : n \in L[i]
    BY <1>4
  <2>2. i \notin 1 .. k - 1
    BY <1>1, <2>1 DEF GroupInv, Before, Good
  <2>3. i \notin k + 1 .. end
    BY <1>1, <2>1 DEF GroupInv, After
  <2>4. i = k
    BY <1>4, <1>5, <2>2, <2>3
  <2> QED
    BY <2>1, <2>4
<1>14. Walk(g)'
  BY <1>1, <1>3, <1>9, <1>10 DEF GroupInv, Walk
<1>15. Before(g)' /\ After(g)'
  <2>1. \A i \in 1 .. end : i # k => \A m \in L[i] : node'[g][m] = node[g][m]
    BY <1>4, <1>5, <1>8, <1>13
  <2>2. /\ \A i \in 1 .. k - 1 : i \in 1 .. end /\ i # k
        /\ \A i \in k + 1 .. end : i \in 1 .. end /\ i # k
    BY <1>4, <1>5
  <2> QED
    BY <1>1, <1>3, <2>1, <2>2 DEF GroupInv, Before, After
<1>16. Current(g)' /\ Ended(g)'
  <2>1. \A m \in L[k] : node'[g][m] # "unseen"
    BY <1>1, <1>4, <1>5, <1>7, <1>8 DEF GroupInv, Current
  <2> QED
    BY <1>1, <1>3, <2>1 DEF Current, Ended
<1>17. Failures(g)'
  <2>1. ASSUME NEW m \in S
        PROVE  /\ node'[g][m] \in {"error", "continued"} => errors'
               /\ node'[g][m] = "stopped" => cancelled'
               /\ node'[g][m] \notin {"unseen", "running"} => report'[m] # "none"
    <3>1. CASE m = n
      BY <1>2, <1>8, <1>11, <1>12, <3>1
    <3>2. CASE m # n
      BY <1>1, <1>4, <1>8, <1>11, <1>12, <3>2 DEF GroupInv, Failures
    <3> QED
      BY <3>1, <3>2
  <2> QED
    BY <1>9, <2>1 DEF Failures
<1>18. Skips(g)'
  <2> SUFFICES ASSUME NEW m \in S, node'[g][m] # "unseen"
               PROVE  node'[g][m] = "skipped" <=> AllClosed(g, m)'
    BY <1>9 DEF Skips
  <2>1. PICK i \in 1 .. end : m \in L[i]
    BY <1>4
  <2>2. i <= k
    <3>1. CASE i \in k + 1 .. end
      <4>1. m # n
        BY <1>4, <1>5, <1>13, <2>1, <3>1
      <4> QED
        BY <1>1, <1>8, <2>1, <3>1, <4>1 DEF GroupInv, After
    <3> QED
      BY <3>1, <1>4, <1>5
  <2>3. \A p \in Feeders(doc, m) : p # n
    <3> TAKE p \in Feeders(doc, m)
    <3>1. PICK j \in 1 .. i - 1 : p \in L[j]
      BY <1>4, <2>1
    <3>2. j \in 1 .. end /\ j # k
      BY <1>4, <1>5, <2>2, <3>1
    <3> QED
      BY <1>4, <1>5, <1>13, <3>1, <3>2
  <2>4. \A p \in Feeders(doc, m) : \A s : <<p, s>> \in sides'[g] <=> <<p, s>> \in sides[g]
    BY <1>10, <2>3
  <2>5. AllClosed(g, m)' <=> AllClosed(g, m)
    BY <1>3, <1>8, <1>9, <2>3, <2>4, ClosedByFeeders
  <2>6. node[g][m] = "skipped" <=> AllClosed(g, m)
    BY <1>1, <1>8, <2>3 DEF GroupInv, Skips
  <2>7. node'[g][m] = "skipped" <=> node[g][m] = "skipped"
    BY <1>1, <1>7, <1>8
  <2> QED
    BY <2>5, <2>6, <2>7
<1> QED
  BY <1>2, <1>8, <1>11, <1>12, <1>14, <1>15, <1>16, <1>17, <1>18 DEF GroupInv

LEMMA LeaveLevelKeeps ==
  ASSUME Inv, NEW g \in Plan, LeaveLevel(g)
  PROVE  GroupInv(g)' /\ node'[g] \in [NodesOf(g) -> Fates]
<1> DEFINE k == level[g]  L == LevelsOf(g)  S == NodesOf(g)
<1>1. /\ GroupInv(g) /\ at[g] = "busy" /\ \A n \in S : node[g][n] # "running"
      /\ UNCHANGED <<fixed, status, cancelled, errors, report>>
  BY DEF Inv, LeaveLevel, LevelIsDone
<1>2. node[g] \in [S -> Fates] /\ k \in 1 .. Last(plan, g) /\ L[k] \subseteq S /\ S \subseteq Nodes
  BY <1>1, SoundLevels DEF GroupInv, Walk
<1>3. CASE \E n \in S : node[g][n] \in {"error", "stopped"}
  <2>1. End(g) /\ UNCHANGED node
    BY <1>3 DEF LeaveLevel
  <2>2. /\ at'[g] = "done" /\ pass' = pass /\ level' = level /\ sides' = sides /\ node' = node
    BY <2>1 DEF End, Inv, Shape
  <2>3. Broke(g)' /\ \A n \in NodesOf(g)' : node'[g][n] # "running"
    BY <1>1, <1>3, <2>2 DEF Broke, NodesOf
  <2>4. Current(g)' /\ Ended(g)'
    BY <2>2, <2>3 DEF Current, Ended
  <2> QED
    BY <1>1, <1>2, <2>2, <2>4, SameLevel
<1>4. CASE \A n \in S : node[g][n] \notin {"error", "stopped"}
  <2>1. Advance(g, node[g])
    BY <1>4 DEF LeaveLevel
  <2>2. \A n \in L[k] : node[g][n] \in Good
    BY <1>1, <1>2, <1>4 DEF GroupInv, Current, Good, Fates
  <2>3. Decides(g, node[g])
    BY <1>1, <1>2, <2>2 DEF Decides, GroupInv, Failures, Skips, Good
  <2> QED
    BY <1>1, <2>1, <2>3, AdvanceKeeps
<1> QED
  BY <1>3, <1>4

(* A step of one group leaves the state of the others alone.               *)
OnlyOf(g) ==
  /\ \A h \in Plan : h # g => at'[h] = at[h] /\ pass'[h] = pass[h] /\ level'[h] = level[h]
                             /\ node'[h] = node[h] /\ sides'[h] = sides[h]
  /\ DOMAIN at' = Plan /\ DOMAIN pass' = Plan /\ DOMAIN level' = Plan /\ DOMAIN node' = Plan /\ DOMAIN sides' = Plan

LEMMA AdvanceIsOfOne ==
  ASSUME Inv, NEW g \in Plan, NEW now, Advance(g, now)
  PROVE  OnlyOf(g)
  BY DEF OnlyOf, Advance, End, Inv, Shape

(* A task that is in a level belongs to a run that runs. *)
LEMMA BusyRuns ==
  ASSUME Inv, NEW g \in Plan, at[g] \in {"pause", "busy"}
  PROVE  status = "running"
BY SoundPlan DEF Inv, Stages, Shape

GroupStep(g) ==
  /\ OnlyOf(g)
  /\ status = "running"
  /\ UNCHANGED fixed /\ UNCHANGED status /\ UNCHANGED cancelled
  /\ errors' \in BOOLEAN /\ (errors => errors')
  /\ report' \in [Nodes -> Results]
  /\ \A n \in Nodes :
       \/ report'[n] = report[n]
       \/ report'[n] # "none" /\ (report'[n] = "error" => errors') /\ (report'[n] = "stopped" => cancelled')
  /\ node'[g] \in [NodesOf(g) -> Fates]
  /\ GroupInv(g)'

LEMMA GroupStepKeepsInv ==
  ASSUME Inv, NEW g \in Plan, GroupStep(g)
  PROVE  Inv'
<1>0. /\ OnlyOf(g) /\ status = "running" /\ UNCHANGED fixed /\ UNCHANGED status /\ UNCHANGED cancelled
      /\ errors' \in BOOLEAN /\ (errors => errors') /\ report' \in [Nodes -> Results]
      /\ \A n \in Nodes :
           \/ report'[n] = report[n]
           \/ report'[n] # "none" /\ (report'[n] = "error" => errors') /\ (report'[n] = "stopped" => cancelled')
      /\ node'[g] \in [NodesOf(g) -> Fates] /\ GroupInv(g)'
  BY DEF GroupStep
<1>1. Plan' = Plan /\ doc' = doc /\ targets' = targets /\ plan' = plan
  BY <1>0 DEF fixed, Plan
<1>3. Shape'
  <2>1. \A h \in Plan : node'[h] \in [GroupNodes(doc, targets, h) -> Fates]
    BY <1>0, SoundPlan DEF Inv, Shape, OnlyOf
  <2> QED
    BY <1>0, <1>1, <2>1 DEF Shape, Inv, OnlyOf, fixed
<1>4. PlanInv'
  BY <1>0, <1>1 DEF Inv, PlanInv
<1>5. Reports' /\ Stages'
  BY <1>0, <1>1 DEF Inv, Reports, Stages
<1>6. \A h \in Plan : GroupInv(h)'
  <2> TAKE h \in Plan
  <2>1. CASE h = g
    BY <1>0, <2>1
  <2>2. CASE h # g
    BY <1>0, <1>1, <2>2, OtherGroups DEF OnlyOf
  <2> QED
    BY <2>1, <2>2
<1> QED
  BY <1>1, <1>3, <1>4, <1>5, <1>6 DEF Inv

LEMMA InitImpliesInv ==
  ASSUME Init
  PROVE  Inv
<1>1. doc \in Graphs /\ targets \in SUBSET Nodes
  BY DocumentsAreGraphs, RequestsAreNodes DEF Init
<1>2. Plan = {}
  BY DEF Init, Plan
<1>3. Shape
  <2>1. DOMAIN at = {} /\ DOMAIN pass = {} /\ DOMAIN level = {} /\ DOMAIN node = {} /\ DOMAIN sides = {}
    BY DEF Init
  <2>2. report \in [Nodes -> Results]
    BY DEF Init, Results
  <2> QED
    BY <1>1, <1>2, <2>1, <2>2 DEF Init, Shape
<1>4. PlanInv /\ Reports /\ Stages
  BY <1>2 DEF Init, PlanInv, Reports, Stages
<1> QED
  BY <1>2, <1>3, <1>4 DEF Inv

LEMMA StartKeepsInv ==
  ASSUME Inv, Start
  PROVE  Inv'
<1>1. /\ status = "idle" /\ plan = <<>> /\ Plan = {}
      /\ doc \in Graphs /\ targets \in SUBSET Nodes
      /\ UNCHANGED <<doc, targets, cancelled, errors, report>> /\ listed' \in BOOLEAN
  BY DocumentsAreGraphs DEF Start, Inv, Shape, PlanInv, Plan
<1>2. CASE Refused(doc, targets)
  <2>1. status' = "refused" /\ UNCHANGED <<plan, at, pass, level, node, sides>>
    BY <1>2 DEF Start
  <2>2. Plan' = {}
    BY <1>1, <2>1 DEF Plan
  <2>3. Shape' /\ PlanInv' /\ Reports' /\ Stages'
    BY <1>1, <2>1, <2>2 DEF Inv, Shape, PlanInv, Reports, Stages, Plan
  <2> QED
    BY <2>2, <2>3 DEF Inv
<1>3. CASE ~Refused(doc, targets)
  <2>1. /\ status' = "connecting"
        /\ plan' = PlanOf(doc, targets)
        /\ at' = [g \in Plan' |-> "check"]
        /\ pass' = [g \in Plan' |-> 1]
        /\ level' = [g \in Plan' |-> 1]
        /\ node' = [g \in Plan' |-> Fresh(GroupNodes(doc, targets, g))]
        /\ sides' = [g \in Plan' |-> {}]
    BY <1>3 DEF Start, Plan
  <2>2. Plan' = Groups(doc, targets)
    BY <2>1 DEF PlanOf, Plan
  <2>3. PlanInv' /\ Reports' /\ Stages'
    BY <1>1, <1>3, <2>1 DEF Inv, PlanInv, Reports, Stages
  <2>4. ASSUME NEW g \in Plan'
        PROVE  GroupInv(g)' /\ node'[g] \in [GroupNodes(doc, targets, g) -> Fates]
    <3> DEFINE S == GroupNodes(doc, targets, g)
    <3>1. SoundFor(doc, targets, plan', g)
      BY <1>1, <1>3, <2>1, <2>2, <2>4, PlansAreSound
    <3>2. at'[g] = "check" /\ pass'[g] = 1 /\ level'[g] = 1 /\ sides'[g] = {} /\ node'[g] = Fresh(S)
      BY <2>1, <2>4
    <3>3. NodesOf(g)' = S /\ \A n \in S : node'[g][n] = "unseen"
      BY <3>2 DEF NodesOf, Fresh
    <3>4. /\ Last(plan', g) \in Nat \ {0} /\ plan'[g].passes \in Nat \ {0}
          /\ \A k \in 1 .. Last(plan', g) : plan'[g].levels[k] \in SUBSET S
      BY <3>1 DEF SoundFor
    <3> HIDE DEF S
    <3>5. Walk(g)'
      BY <3>2, <3>3, <3>4 DEF Walk, Last
    <3>6. Before(g)' /\ After(g)' /\ Current(g)'
      BY <3>2, <3>3, <3>4 DEF Before, After, Current, LevelsOf, Last
    <3>7. Ended(g)' /\ Failures(g)' /\ Skips(g)'
      BY <3>2, <3>3 DEF Ended, Failures, Skips
    <3>8. node'[g] \in [S -> Fates]
      BY <3>2 DEF Fresh, Fates
    <3> QED
      BY <3>5, <3>6, <3>7, <3>8 DEF GroupInv, S
  <2>5. Shape'
    BY <1>1, <2>1, <2>4 DEF Inv, Shape
  <2> QED
    BY <2>3, <2>4, <2>5 DEF Inv
<1> QED
  BY <1>2, <1>3

LEMMA ConnectedKeepsInv ==
  ASSUME Inv, EnsureConnections
  PROVE  Inv'
<1>1. /\ status = "connecting" /\ status' = "running"
      /\ UNCHANGED <<doc, targets, plan, listed, cancelled, errors, at, pass, level, node, sides, report>>
  BY DEF EnsureConnections, fixed
<1>2. Plan' = Plan /\ Shape' /\ PlanInv' /\ Reports' /\ Stages'
  BY <1>1 DEF Inv, Shape, PlanInv, Reports, Stages, Plan
<1>3. \A h \in Plan : GroupInv(h)'
  BY <1>1, OtherGroups
<1> QED
  BY <1>2, <1>3 DEF Inv

LEMMA StopKeepsInv ==
  ASSUME Inv, Stop
  PROVE  Inv'
<1>1. /\ cancelled' = TRUE
      /\ UNCHANGED <<doc, targets, plan, listed, status, errors, at, pass, level, node, sides, report>>
  BY DEF Stop, fixed
<1>2. Plan' = Plan /\ Shape' /\ PlanInv' /\ Reports'
  BY <1>1 DEF Inv, Shape, PlanInv, Reports, Plan
<1>3. Stages'
  BY <1>1, <1>2 DEF Inv, Stages, NodesOf
<1>4. \A h \in Plan : GroupInv(h)'
  BY <1>1, OtherGroups
<1> QED
  BY <1>2, <1>3, <1>4 DEF Inv

LEMMA FinishKeepsInv ==
  ASSUME Inv, Finish
  PROVE  Inv'
<1>1. /\ status = "running" /\ \A g \in Plan : at[g] = "done"
      /\ status' \in {"stopped", "failed", "completed"}
      /\ status' = "completed" => ~cancelled /\ ~errors
      /\ UNCHANGED <<doc, targets, plan, listed, cancelled, errors, at, pass, level, node, sides, report>>
  BY DEF Finish, Inv, Shape, fixed
<1>2. Plan' = Plan /\ Shape' /\ PlanInv' /\ Reports'
  BY <1>1 DEF Inv, Shape, PlanInv, Reports, Plan
<1>3. \A h \in Plan : GroupInv(h)'
  BY <1>1, OtherGroups
<1>4. ASSUME ~cancelled, ~errors, NEW g \in Plan
      PROVE  pass[g] = plan[g].passes /\ \A n \in NodesOf(g) : node[g][n] \in {"success", "skipped", "closed"}
  BY <1>1, <1>4 DEF Inv, GroupInv, Ended, Broke, Failures, Good
<1>5. Stages'
  BY <1>1, <1>2, <1>4 DEF Inv, Reports, Stages, NodesOf
<1> QED
  BY <1>2, <1>3, <1>5 DEF Inv

LEMMA EndRunKeepsInv ==
  ASSUME Inv, EndRun
  PROVE  Inv'
<1>1. /\ listed' = FALSE
      /\ UNCHANGED <<doc, targets, plan, status, cancelled, errors, at, pass, level, node, sides, report>>
  BY DEF EndRun
<1>2. Plan' = Plan /\ Shape' /\ PlanInv' /\ Reports'
  BY <1>1 DEF Inv, Shape, PlanInv, Reports, Plan
<1>3. Stages'
  BY <1>1, <1>2 DEF Inv, Stages, NodesOf
<1>4. \A h \in Plan : GroupInv(h)'
  BY <1>1, OtherGroups
<1> QED
  BY <1>2, <1>3, <1>4 DEF Inv

LEMMA NextKeepsInv ==
  ASSUME Inv, [Next]_vars
  PROVE  Inv'
<1>1. CASE UNCHANGED vars
  <2>1. UNCHANGED <<doc, targets, plan, listed, status, cancelled, errors, at, pass, level, node, sides, report>>
    BY <1>1 DEF vars
  <2>2. Plan' = Plan /\ Shape' /\ PlanInv' /\ Reports'
    BY <2>1 DEF Inv, Shape, PlanInv, Reports, Plan
  <2>3. Stages'
    BY <2>1, <2>2 DEF Inv, Stages, NodesOf
  <2>4. \A h \in Plan : GroupInv(h)'
    BY <2>1, OtherGroups
  <2> QED
    BY <2>2, <2>3, <2>4 DEF Inv
<1>2. ASSUME NEW g \in Plan, NoticeStop(g)
      PROVE  Inv'
  <2>1. /\ status = "running" /\ at[g] = "check" /\ cancelled /\ End(g)
        /\ UNCHANGED <<fixed, status, cancelled, errors, node, report>>
    BY <1>2 DEF NoticeStop
  <2>2. OnlyOf(g) /\ at'[g] = "done" /\ pass' = pass /\ level' = level /\ sides' = sides
    BY <2>1 DEF End, OnlyOf, Inv, Shape
  <2>3. Current(g)' /\ Ended(g)'
    BY <2>1, <2>2 DEF Current, Ended
  <2>4. GroupInv(g)'
    BY <2>1, <2>2, <2>3, SameLevel
  <2>5. node'[g] \in [NodesOf(g) -> Fates]
    BY <2>1, SoundLevels
  <2>6. errors' \in BOOLEAN /\ report' \in [Nodes -> Results]
    BY <2>1 DEF Inv, Shape
  <2>7. GroupStep(g)
    BY <2>1, <2>2, <2>4, <2>5, <2>6 DEF GroupStep
  <2> QED
    BY <2>7, GroupStepKeepsInv
<1>3. ASSUME NEW g \in Plan, Pause(g)
      PROVE  Inv'
  <2>1. /\ at[g] = "pause"
        /\ \/ at' = [at EXCEPT ![g] = "busy"] /\ UNCHANGED <<pass, level, sides>>
           \/ cancelled /\ End(g)
        /\ UNCHANGED <<fixed, status, cancelled, errors, node, report>>
    BY <1>3 DEF Pause
  <2>2. /\ OnlyOf(g) /\ pass' = pass /\ level' = level /\ sides' = sides
        /\ at'[g] = "busy" \/ (at'[g] = "done" /\ cancelled')
    <3>1. DOMAIN at = Plan /\ DOMAIN pass = Plan /\ DOMAIN level = Plan /\ DOMAIN node = Plan /\ DOMAIN sides = Plan
      BY DEF Inv, Shape
    <3>2. CASE at' = [at EXCEPT ![g] = "busy"] /\ UNCHANGED <<pass, level, sides>>
      BY <2>1, <3>1, <3>2 DEF OnlyOf
    <3>3. CASE cancelled /\ End(g)
      BY <2>1, <3>1, <3>3 DEF OnlyOf, End
    <3>4. \/ at' = [at EXCEPT ![g] = "busy"] /\ UNCHANGED <<pass, level, sides>>
          \/ cancelled /\ End(g)
      BY <1>3 DEF Pause
    <3> QED
      BY ONLY <3>2, <3>3, <3>4
  <2>3. Current(g)' /\ Ended(g)'
    BY <2>1, <2>2 DEF Current, Ended, fixed, LevelsOf, Inv, GroupInv
  <2>4. GroupInv(g)'
    BY <2>1, <2>2, <2>3, SameLevel
  <2>5. node'[g] \in [NodesOf(g) -> Fates]
    BY <2>1, SoundLevels
  <2>6. errors' \in BOOLEAN /\ report' \in [Nodes -> Results]
    BY <2>1 DEF Inv, Shape
  <2>7. GroupStep(g)
    BY <2>1, <2>2, <2>4, <2>5, <2>6, BusyRuns DEF GroupStep
  <2> QED
    BY <2>7, GroupStepKeepsInv
<1>4. ASSUME NEW g \in Plan, EnterLevel(g)
      PROVE  Inv'
  <2>1. status = "running" /\ at[g] = "check" /\ UNCHANGED <<fixed, status, cancelled, errors>>
    BY <1>4 DEF EnterLevel
  <2>2. /\ GroupInv(g)' /\ node'[g] \in [NodesOf(g) -> Fates] /\ report' \in [Nodes -> Results]
        /\ \A n \in Nodes : report'[n] \in {report[n], "skipped"}
    BY <1>4, EnterLevelKeeps
  <2>3. OnlyOf(g)
    <3> DEFINE ids == LevelsOf(g)[level[g]]
               skipped == {n \in ids : AllClosed(g, n)}
               now == [n \in NodesOf(g) |-> IF n \in skipped THEN "skipped" ELSE IF n \in ids THEN "running" ELSE node[g][n]]
    <3>1. \/ Advance(g, now)
          \/ /\ node' = [node EXCEPT ![g] = now]
             /\ \E next \in {"pause", "busy"} : at' = [at EXCEPT ![g] = next]
             /\ UNCHANGED <<pass, level, sides>>
      BY <1>4 DEF EnterLevel
    <3> HIDE DEF now
    <3> QED
      BY <3>1, AdvanceIsOfOne DEF OnlyOf, Inv, Shape
  <2>4. errors' \in BOOLEAN
    BY <2>1 DEF Inv, Shape
  <2>7. GroupStep(g)
    BY <2>1, <2>2, <2>3, <2>4 DEF GroupStep
  <2> QED
    BY <2>7, GroupStepKeepsInv
<1>5. ASSUME NEW g \in Plan, LeaveLevel(g)
      PROVE  Inv'
  <2>1. at[g] = "busy" /\ UNCHANGED <<fixed, status, cancelled, errors, report>>
    BY <1>5 DEF LeaveLevel, LevelIsDone
  <2>2. GroupInv(g)' /\ node'[g] \in [NodesOf(g) -> Fates]
    BY <1>5, LeaveLevelKeeps
  <2>3. OnlyOf(g)
    <3>1. Advance(g, node[g]) \/ (End(g) /\ UNCHANGED node)
      BY <1>5 DEF LeaveLevel
    <3> QED
      BY <3>1, AdvanceIsOfOne DEF OnlyOf, End, Inv, Shape
  <2>4. errors' \in BOOLEAN /\ report' \in [Nodes -> Results]
    BY <2>1 DEF Inv, Shape
  <2>7. GroupStep(g)
    BY <2>1, <2>2, <2>3, <2>4, BusyRuns DEF GroupStep
  <2> QED
    BY <2>7, GroupStepKeepsInv
<1>6. ASSUME NEW g \in Plan, NEW n \in NodesOf(g), EndNode(g, n)
      PROVE  Inv'
  <2>1. /\ at[g] = "busy" /\ UNCHANGED <<fixed, status, cancelled, at, pass, level>>
        /\ errors' \in BOOLEAN /\ (errors => errors')
    BY <1>6 DEF EndNode, Inv, Shape
  <2>2. /\ GroupInv(g)' /\ node'[g] \in [NodesOf(g) -> Fates] /\ report' \in [Nodes -> Results]
        /\ \A m \in Nodes : m # n => report'[m] = report[m]
        /\ report'[n] # "none" /\ (report'[n] = "error" => errors') /\ (report'[n] = "stopped" => cancelled')
    BY <1>6, EndNodeKeeps
  <2>3. OnlyOf(g)
    <3>1. /\ \E fate : node' = [node EXCEPT ![g][n] = fate]
          /\ \E more : sides' = [sides EXCEPT ![g] = more]
      BY <1>6 DEF EndNode
    <3> QED
      BY <2>1, <3>1 DEF OnlyOf, Inv, Shape
  <2>4. \A m \in Nodes :
          \/ report'[m] = report[m]
          \/ report'[m] # "none" /\ (report'[m] = "error" => errors') /\ (report'[m] = "stopped" => cancelled')
    BY <2>2
  <2>7. GroupStep(g)
    BY <2>1, <2>2, <2>3, <2>4, BusyRuns DEF GroupStep
  <2> QED
    BY <2>7, GroupStepKeepsInv
<1> QED
  BY <1>1, <1>2, <1>3, <1>4, <1>5, <1>6, StartKeepsInv, ConnectedKeepsInv, StopKeepsInv,
     FinishKeepsInv, EndRunKeepsInv DEF Next

LEMMA Invariance == Spec => []Inv
<1>1. Init => Inv
  BY InitImpliesInv
<1>2. Inv /\ [Next]_vars => Inv'
  BY NextKeepsInv
<1> QED
  BY <1>1, <1>2, PTL DEF Spec

-----------------------------------------------------------------------------
(* What it gives                                                           *)

LEMMA InvImpliesTypeOK == Inv => TypeOK
<1> SUFFICES ASSUME Inv
             PROVE  TypeOK
  OBVIOUS
<1>1. ASSUME NEW g \in Plan
      PROVE  /\ at[g] \in {"check", "pause", "busy", "done"}
             /\ pass[g] \in 1 .. plan[g].passes
             /\ level[g] \in DOMAIN LevelsOf(g)
             /\ node[g] \in [NodesOf(g) -> Fates]
             /\ sides[g] \subseteq NodesOf(g) \X {"true", "false"}
  BY SoundLevels DEF Inv, GroupInv, Walk
<1> QED
  BY <1>1 DEF TypeOK, Inv, Shape, Fates, Results

LEMMA InvImpliesFeedersComeFirst == Inv => FeedersComeFirst
<1> SUFFICES ASSUME Inv, NEW g \in Plan, NEW n \in NodesOf(g), NEW m \in Feeders(doc, n), node[g][n] # "unseen"
             PROVE  node[g][m] \notin {"unseen", "running"}
  BY DEF FeedersComeFirst
<1> DEFINE k == level[g]  end == Last(plan, g)
<1>1. GroupInv(g) /\ k \in 1 .. end /\ end \in Nat
  BY SoundLevels DEF Inv, GroupInv, Walk
<1>2. PICK i \in 1 .. end : n \in LevelsOf(g)[i]
  BY SoundLevels
<1>3. i \notin k + 1 .. end
  BY <1>1, <1>2 DEF GroupInv, After
<1>4. PICK j \in 1 .. i - 1 : m \in LevelsOf(g)[j]
  BY <1>2, SoundLevels
<1>5. j \in 1 .. k - 1
  BY <1>1, <1>2, <1>3, <1>4
<1> QED
  BY <1>1, <1>4, <1>5 DEF GroupInv, Before, Good

LEMMA InvImpliesCompletedRunsRanEverything == Inv => CompletedRunsRanEverything
<1> SUFFICES ASSUME Inv, status = "completed"
             PROVE  /\ \A g \in Plan : pass[g] = plan[g].passes /\ \A n \in NodesOf(g) : node[g][n] \in {"success", "skipped", "closed"}
                    /\ \A n \in Ancestors(doc, targets) : report[n] \in {"success", "skipped"}
  BY DEF CompletedRunsRanEverything
<1>1. ~errors /\ (\A n \in Nodes : report[n] # "stopped") /\ \A g \in Plan : GroupInv(g)
  BY DEF Inv, Stages
<1>2. \A g \in Plan : pass[g] = plan[g].passes /\ \A n \in NodesOf(g) : node[g][n] \in {"success", "skipped", "closed"}
  BY DEF Inv, Stages
<1>3. doc \in Graphs /\ targets \in SUBSET Nodes /\ plan = PlanOf(doc, targets) /\ report \in [Nodes -> Results]
  BY DocumentsAreGraphs DEF Inv, Shape, PlanInv
<1>4. Plan = Groups(doc, targets)
  BY <1>3 DEF PlanOf, Plan
<1>5. \A n \in Ancestors(doc, targets) : \E g \in Plan : n \in NodesOf(g)
  BY <1>3, <1>4, GroupsAreComplete, SoundPlan
<1>6. \A n \in Ancestors(doc, targets) : n \in Nodes
  BY <1>3, AncestorsAreClosed
<1>7. \A n \in Ancestors(doc, targets) : report[n] # "none"
  BY <1>1, <1>2, <1>5 DEF GroupInv, Failures
<1>8. \A n \in Nodes : report[n] \notin {"error", "stopped"}
  BY <1>1 DEF Inv, Reports
<1> QED
  BY <1>2, <1>3, <1>6, <1>7, <1>8 DEF Results

LEMMA PassStep ==
  ASSUME Inv, [Next]_vars, NEW g \in Plan, pass'[g] # pass[g], NEW n \in NodesOf(g)
  PROVE  \/ node[g][n] \in {"success", "skipped", "closed", "continued"}
         \/ node[g][n] = "unseen" /\ AllClosed(g, n)
<1> DEFINE k == level[g]  end == Last(plan, g)
<1>1. GroupInv(g) /\ k \in 1 .. end /\ end \in Nat /\ Cardinality(DOMAIN LevelsOf(g)) = end
  BY SoundLevels DEF Inv, GroupInv, Walk
<1>2. PICK i \in 1 .. end : n \in LevelsOf(g)[i]
  BY SoundLevels
<1>3. status \notin {"idle", "refused"}
  BY SoundPlan
<1>4. g \in DOMAIN pass
  BY DEF Inv, Shape
<1>5. ASSUME NEW now, Advance(g, now)
      PROVE  ~(k < end)
  BY <1>1, <1>5 DEF Advance
<1>6. \/ EnterLevel(g) /\ \A m \in LevelsOf(g)[k] : AllClosed(g, m)
      \/ LeaveLevel(g) /\ \A m \in NodesOf(g) : node[g][m] \notin {"error", "stopped"}
  <2>1. CASE UNCHANGED vars
    BY <2>1 DEF vars
  <2>2. CASE Start \/ EnsureConnections \/ Stop \/ Finish \/ EndRun
    BY <2>2, <1>3 DEF Start, EnsureConnections, Stop, Finish, EndRun
  <2>3. ASSUME NEW h \in Plan, h # g, NoticeStop(h) \/ EnterLevel(h) \/ Pause(h) \/ LeaveLevel(h)
        PROVE  FALSE
    BY <2>3, AdvanceIsOfOne DEF NoticeStop, EnterLevel, Pause, LeaveLevel, End, OnlyOf
  <2>4. ASSUME NEW h \in Plan, NEW m \in NodesOf(h), EndNode(h, m)
        PROVE  FALSE
    BY <2>4 DEF EndNode
  <2>5. CASE NoticeStop(g) \/ Pause(g)
    BY <2>5 DEF NoticeStop, Pause, End
  <2>6. CASE EnterLevel(g)
    <3>1. LevelsOf(g)[k] = {m \in LevelsOf(g)[k] : AllClosed(g, m)}
      BY <2>6 DEF EnterLevel
    <3> QED
      BY <2>6, <3>1
  <2>7. CASE LeaveLevel(g)
    BY <2>7 DEF LeaveLevel, End
  <2> QED
    BY <2>1, <2>2, <2>3, <2>4, <2>5, <2>6, <2>7 DEF Next
<1>7. k = end
  <2>1. \E now : Advance(g, now)
    BY <1>6 DEF EnterLevel, LeaveLevel, End
  <2> QED
    BY <1>1, <1>5, <2>1
<1>8. CASE i # k
  BY <1>1, <1>2, <1>7, <1>8 DEF GroupInv, Before, Good
<1>9. CASE i = k
  <2>1. CASE EnterLevel(g) /\ \A m \in LevelsOf(g)[k] : AllClosed(g, m)
    BY <1>1, <1>2, <1>9, <2>1 DEF EnterLevel, GroupInv, Current
  <2>2. CASE LeaveLevel(g) /\ \A m \in NodesOf(g) : node[g][m] \notin {"error", "stopped"}
    <3>1. at[g] = "busy" /\ node[g][n] # "running" /\ node[g][n] \in Fates
      BY <2>2, SoundLevels DEF LeaveLevel, LevelIsDone
    <3>2. node[g][n] # "unseen"
      BY <1>1, <1>2, <1>9, <3>1 DEF GroupInv, Current
    <3> QED
      BY <2>2, <3>1, <3>2 DEF Fates
  <2> QED
    BY <1>6, <2>1, <2>2
<1> QED
  BY <1>8, <1>9

(* One round of the search for what is reached.                            *)
Widen(g) == [X \in SUBSET Nodes |-> X \cup {n \in NodesOf(g) : \E e \in Incoming(doc, n) : e[1] \in X /\ OpenTo(g, e)}]

LEMMA WidenType ==
  ASSUME NEW g, NodesOf(g) \in SUBSET Nodes
  PROVE  /\ Widen(g) \in [SUBSET Nodes -> SUBSET Nodes]
         /\ \A X \in SUBSET Nodes :
              Widen(g)[X] = X \cup {n \in NodesOf(g) : \E e \in Incoming(doc, n) : e[1] \in X /\ OpenTo(g, e)}
  BY DEF Widen

LEMMA ReachedUnfold ==
  ASSUME NEW g, NodesOf(g) \in SUBSET Nodes
  PROVE  \E f \in [0 .. Count -> SUBSET Nodes] :
           /\ f[0] = {n \in NodesOf(g) : Incoming(doc, n) = {}}
           /\ \A k \in 1 .. Count : f[k] = Widen(g)[f[k - 1]]
           /\ Reached(g) = f[Count]
<1> DEFINE B == {n \in NodesOf(g) : Incoming(doc, n) = {}}
           Wide(X) == X \cup {n \in NodesOf(g) : \E e \in Incoming(doc, n) : e[1] \in X /\ OpenTo(g, e)}
           Step(f, k) == IF k = 0 THEN B ELSE Wide(f[k - 1])
           reach == CHOOSE f : f = [k \in 0 .. Count |-> Step(f, k)]
<1>0. B \in SUBSET Nodes /\ \A X \in SUBSET Nodes : Wide(X) \in SUBSET Nodes /\ Widen(g)[X] = Wide(X)
  BY WidenType
<1>r. Reached(g) = reach[Count]
  BY DEF Reached, Count
<1> HIDE DEF B, Wide
<1>1. \E f : f = [k \in 0 .. Count |-> Step(f, k)]
  <2>1. PICK f \in [0 .. Count -> SUBSET Nodes] :
          \A k \in 0 .. Count : f[k] = IF k = 0 THEN B ELSE Widen(g)[f[k - 1]]
    <3>1. Iterates(SUBSET Nodes, B, Widen(g), Count)
      BY <1>0, WidenType, CountIsNat, Iteration
    <3> QED
      BY <3>1 DEF Iterates
  <2>2. \A k \in 0 .. Count : f[k] = Step(f, k)
    <3> TAKE k \in 0 .. Count
    <3>1. k # 0 => f[k - 1] \in SUBSET Nodes
      BY CountIsNat
    <3> QED
      BY <3>1, <2>1, <1>0
  <2>3. f = [k \in 0 .. Count |-> Step(f, k)]
    <3> HIDE DEF Step
    <3> QED
      BY <2>2
  <2> QED
    BY <2>3
<1>2. reach = [k \in 0 .. Count |-> Step(reach, k)]
  <2> HIDE DEF Step
  <2> QED
    BY <1>1
<1> HIDE DEF reach
<1>3. reach[0] = B /\ \A k \in 1 .. Count : reach[k] = Wide(reach[k - 1])
  BY <1>2, CountIsNat
<1> DEFINE Typed == {n \in Nat : n <= Count => reach[n] \in SUBSET Nodes}
<1>4. \A k \in 0 .. Count : reach[k] \in SUBSET Nodes
  <2>1. 0 \in Typed
    BY <1>0, <1>3
  <2>2. ASSUME NEW n \in Nat, n \in Typed
        PROVE  n + 1 \in Typed
    <3>1. n + 1 <= Count => reach[n + 1] = Wide(reach[n])
      BY <1>3, CountIsNat
    <3> QED
      BY <3>1, <2>2, <1>0, CountIsNat
  <2>3. Nat \subseteq Typed
    <3> HIDE DEF Typed
    <3> QED
      BY <2>1, <2>2, SetInduction
  <2> QED
    BY <2>3, CountIsNat
<1>5. reach \in [0 .. Count -> SUBSET Nodes]
  BY <1>2, <1>4
<1>6. \A k \in 1 .. Count : reach[k] = Widen(g)[reach[k - 1]]
  <2> TAKE k \in 1 .. Count
  <2>1. reach[k - 1] \in SUBSET Nodes
    BY <1>4, CountIsNat
  <2> QED
    BY <2>1, <1>3, <1>0
<1> QED
  BY <1>r, <1>3, <1>5, <1>6 DEF B

(* A node is reached if it has no input, or by an open edge.               *)
LEMMA ReachedByOpenEdges ==
  ASSUME NEW g, NodesOf(g) \in SUBSET Nodes, NEW n \in NodesOf(g)
  PROVE  n \in Reached(g) <=> Incoming(doc, n) = {} \/ \E e \in Incoming(doc, n) : e[1] \in Reached(g) /\ OpenTo(g, e)
<1> DEFINE F == Widen(g)  A == Reached(g)
           B == {m \in NodesOf(g) : Incoming(doc, m) = {}}
           Open(X) == {m \in NodesOf(g) : \E e \in Incoming(doc, m) : e[1] \in X /\ OpenTo(g, e)}
<1>1. PICK f \in [0 .. Count -> SUBSET Nodes] :
        f[0] = B /\ (\A k \in 1 .. Count : f[k] = F[f[k - 1]]) /\ A = f[Count]
  BY ReachedUnfold
<1>2. F \in [SUBSET Nodes -> SUBSET Nodes] /\ \A X \in SUBSET Nodes : F[X] = X \cup Open(X)
  BY WidenType
<1>i. n \in Open(A) <=> \E e \in Incoming(doc, n) : e[1] \in A /\ OpenTo(g, e)
  OBVIOUS
<1>b. n \in B <=> Incoming(doc, n) = {}
  OBVIOUS
<1>m. \A X, Y : X \subseteq Y => Open(X) \subseteq Open(Y)
  OBVIOUS
<1> HIDE DEF Open, B, A, F
<1>3. F[A] = A
  <2>1. \A X \in SUBSET Nodes : X \subseteq F[X]
    BY <1>2
  <2>2. Grows(Nodes, F, f) /\ A = f[Cardinality(Nodes)]
    BY <2>1, <1>1, <1>2 DEF Grows, Count
  <2> QED
    BY <2>2, NodesAreFinite, Saturation
<1>4. A \in SUBSET Nodes
  BY <1>1, CountIsNat
<1>5. Open(A) \subseteq A
  BY <1>2, <1>3, <1>4
<1>6. \A k \in Nat : k + 1 <= Count => f[k] \in SUBSET Nodes /\ f[k + 1] \in SUBSET Nodes /\ f[k + 1] = f[k] \cup Open(f[k])
  BY <1>1, <1>2, CountIsNat
<1>7. B \subseteq A
  <2> DEFINE Holds == {k \in Nat : k <= Count => B \subseteq f[k]}
  <2>1. 0 \in Holds
    BY <1>1
  <2>2. ASSUME NEW k \in Nat, k \in Holds
        PROVE  k + 1 \in Holds
    BY <2>2, <1>6, CountIsNat
  <2>3. Nat \subseteq Holds
    <3> HIDE DEF Holds
    <3> QED
      BY <2>1, <2>2, SetInduction
  <2> QED
    BY <2>3, <1>1, CountIsNat
<1>8. A \subseteq B \cup Open(A)
  <2> DEFINE Holds == {k \in Nat : k <= Count => f[k] \subseteq B \cup Open(f[k])}
  <2>1. 0 \in Holds
    BY <1>1
  <2>2. ASSUME NEW k \in Nat, k \in Holds
        PROVE  k + 1 \in Holds
    <3> SUFFICES ASSUME k + 1 <= Count
                 PROVE  f[k + 1] \subseteq B \cup Open(f[k + 1])
      OBVIOUS
    <3>1. f[k] \subseteq f[k + 1] /\ f[k + 1] = f[k] \cup Open(f[k]) /\ f[k] \subseteq B \cup Open(f[k])
      BY <2>2, <1>6, CountIsNat
    <3>2. Open(f[k]) \subseteq Open(f[k + 1])
      BY <3>1, <1>m
    <3> QED
      BY <3>1, <3>2
  <2>3. Nat \subseteq Holds
    <3> HIDE DEF Holds
    <3> QED
      BY <2>1, <2>2, SetInduction
  <2> QED
    BY <2>3, <1>1, CountIsNat
<1>9. n \in A <=> n \in B \/ n \in Open(A)
  BY <1>5, <1>7, <1>8
<1> QED
  BY <1>9, <1>b, <1>i DEF A

LEMMA InvImpliesOnlyWhatIsReachedRuns == Inv => OnlyWhatIsReachedRuns
<1> SUFFICES ASSUME Inv, NEW g \in Plan
             PROVE  \A n \in NodesOf(g) : node[g][n] # "unseen" => (node[g][n] # "skipped" <=> n \in Reached(g))
  BY DEF OnlyWhatIsReachedRuns
<1> DEFINE end == Last(plan, g)  L == LevelsOf(g)  S == NodesOf(g)
           Right(n) == node[g][n] # "unseen" => (node[g][n] # "skipped" <=> n \in Reached(g))
           Upto == {k \in Nat : k <= end => \A i \in 1 .. k : \A n \in L[i] : Right(n)}
<1>1. /\ S \in SUBSET Nodes /\ node[g] \in [S -> Fates] /\ end \in Nat \ {0}
      /\ \A i \in 1 .. end : L[i] \in SUBSET S
      /\ \A n \in S : \E i \in 1 .. end : n \in L[i]
      /\ \A i \in 1 .. end : \A n \in L[i] : \A m \in Feeders(doc, n) : \E j \in 1 .. i - 1 : m \in L[j]
  BY SoundLevels
<1>2. GroupInv(g) /\ FeedersComeFirst
  BY InvImpliesFeedersComeFirst DEF Inv
<1>3. ASSUME NEW n \in S, node[g][n] # "unseen", \A m \in Feeders(doc, n) : m \in S /\ Right(m)
      PROVE  Right(n)
  <2>1. \A e \in Incoming(doc, n) : e[1] \in Feeders(doc, n)
    BY DEF Feeders
  <2>2. \A m \in Feeders(doc, n) : node[g][m] \notin {"unseen", "running"}
    BY <1>2, <1>3 DEF FeedersComeFirst
  <2>3. \A e \in Incoming(doc, n) : OpenTo(g, e) => e[1] \in Reached(g)
    BY <1>3, <2>1, <2>2 DEF OpenTo
  <2>4. \A e \in Incoming(doc, n) : node[g][e[1]] \in {"success", "continued"} \/ node[g][e[1]] \in {"skipped", "closed"}
    <3> TAKE e \in Incoming(doc, n)
    <3> DEFINE m == e[1]
    <3>1. m \in S /\ node[g][m] # "unseen" /\ node[g][m] # "running" /\ m \in Feeders(doc, n)
      BY <2>1, <2>2, <1>3
    <3> HIDE DEF m
    <3>2. PICK i \in 1 .. end : n \in L[i]
      BY <1>1
    <3>3. PICK j \in 1 .. i - 1 : m \in L[j]
      BY <3>1, <3>2, <1>1
    <3>4. i \notin level[g] + 1 .. end
      BY <1>2, <1>3, <3>2 DEF GroupInv, After
    <3>5. level[g] \in 1 .. end
      BY <1>2 DEF GroupInv, Walk
    <3>6. j \in 1 .. level[g] - 1
      BY <1>1, <3>2, <3>3, <3>4, <3>5
    <3>7. node[g][m] \in Good
      BY <1>2, <3>3, <3>6 DEF GroupInv, Before
    <3> QED
      BY <3>7 DEF Good, m
  <2>5. \A e \in Incoming(doc, n) : EdgeActive(g, e) <=> OpenTo(g, e)
    BY <1>3, <2>1, <2>4 DEF EdgeActive, OpenTo, Dead
  <2>6. node[g][n] = "skipped" <=> AllClosed(g, n)
    BY <1>2, <1>3 DEF GroupInv, Skips
  <2>7. n \in Reached(g) <=> Incoming(doc, n) = {} \/ \E e \in Incoming(doc, n) : e[1] \in Reached(g) /\ OpenTo(g, e)
    BY <1>1, ReachedByOpenEdges
  <2> QED
    BY <2>3, <2>5, <2>6, <2>7 DEF AllClosed
<1> HIDE DEF Right
<1>4. \A n \in S : node[g][n] = "unseen" => Right(n)
  BY DEF Right
<1>5. 0 \in Upto
  OBVIOUS
<1>6. ASSUME NEW k \in Nat, k \in Upto
      PROVE  k + 1 \in Upto
  <2> SUFFICES ASSUME k + 1 <= end, NEW i \in 1 .. k + 1, NEW n \in L[i]
               PROVE  Right(n)
    OBVIOUS
  <2> HIDE DEF L, S, end
  <2>1. CASE i \in 1 .. k
    BY <1>1, <1>6, <2>1
  <2>2. CASE i = k + 1
    <3>1. k + 1 \in 1 .. end /\ n \in S
      BY <1>1, <2>2
    <3>2. \A m \in Feeders(doc, n) : \E j \in 1 .. k : m \in L[j] /\ j \in 1 .. end
      BY <1>1, <2>2, <3>1
    <3>3. \A m \in Feeders(doc, n) : m \in S /\ Right(m)
      BY <1>1, <1>6, <3>2
    <3> QED
      BY <1>3, <1>4, <3>1, <3>3
  <2> QED
    BY <2>1, <2>2
<1>7. Nat \subseteq Upto
  <2> HIDE DEF Upto
  <2> QED
    BY <1>5, <1>6, SetInduction
<1>8. \A n \in S : Right(n)
  BY <1>1, <1>7
<1> QED
  BY <1>8 DEF Right

LEMMA StartRefusesRightly ==
  ASSUME Inv, [Next]_vars, ~UNCHANGED vars, status = "idle"
  PROVE  status' = "refused" <=>
           LET involved == Ancestors(doc, targets) IN
             \/ targets = {}
             \/ \E n \in involved : Reaches(n, n) \/ (doc.kind[n] = "repeat" /\ doc.count[n] = 0)
             \/ \E n \in Nodes, side \in Sides : <<n, side, n>> \in doc.edges
             \/ Miswired(doc, involved)
             \/ \E t \in targets : Passes(doc, RepeatsAbove(doc, t)) > MaxPasses
<1>1. doc \in Graphs /\ targets \in SUBSET Nodes /\ Plan = {}
  BY DocumentsAreGraphs DEF Inv, Shape, PlanInv, Plan
<1>2. Start
  BY <1>1 DEF Next, EnsureConnections, Stop, Finish, EndRun, Inv, Stages
<1>3. status' = "refused" <=> Refused(doc, targets)
  BY <1>2 DEF Start
<1>4. \A n : Reaches(n, n) <=> OnCircle(doc, n)
  BY DEF Reaches, OnCircle
<1> QED
  BY <1>1, <1>3, <1>4, RefusedExactlyFor

-----------------------------------------------------------------------------
(* The run is a dataflow: every step maps to a step of DataflowRun, or to  *)
(* none.                                                                   *)

(* How the nodes of a group are seen. *)
Seen(g, n) == IF node[g][n] = "running" /\ at[g] # "busy" THEN "announced" ELSE node[g][n]

LEMMA FateOfGroup ==
  ASSUME NEW g \in Plan
  PROVE  g \in DOMAIN Fate /\ DOMAIN Fate[g] = NodesOf(g) /\ \A n \in NodesOf(g) : Fate[g][n] = Seen(g, n)
BY DEF Fate, Seen

(* A step of one group changes what is seen of that group only. *)
LEMMA FateStep ==
  ASSUME Inv, NEW g \in Plan, UNCHANGED fixed, OnlyOf(g), DOMAIN node'[g] = NodesOf(g),
         NEW now, now = [n \in NodesOf(g) |-> Seen(g, n)']
  PROVE  Fate' = [Fate EXCEPT ![g] = now]
<1>1. Plan' = Plan
  BY DEF fixed, Plan
<1>2. \A h \in Plan : h # g => NodesOf(h)' = NodesOf(h) /\ \A n \in NodesOf(h) : Seen(h, n)' = Seen(h, n)
  BY DEF OnlyOf, NodesOf, Seen
<1>3. NodesOf(g)' = NodesOf(g)
  BY DEF NodesOf
<1>4. Fate = [h \in Plan |-> [n \in NodesOf(h) |-> Seen(h, n)]]
  BY DEF Fate, Seen
<1>5. Fate' = [h \in Plan |-> [n \in NodesOf(h)' |-> Seen(h, n)']]
  BY <1>1 DEF Fate, Seen
<1>6. \A h \in Plan : h # g => [n \in NodesOf(h)' |-> Seen(h, n)'] = [n \in NodesOf(h) |-> Seen(h, n)]
  BY <1>2
<1> QED
  BY <1>3, <1>4, <1>5, <1>6

(* A step after which every node of the group is seen as before. *)
LEMMA FateStays ==
  ASSUME Inv, NEW g \in Plan, UNCHANGED fixed, OnlyOf(g), DOMAIN node'[g] = NodesOf(g),
         \A n \in NodesOf(g) : Seen(g, n)' = Seen(g, n)
  PROVE  Fate' = Fate
<1>1. Fate' = [Fate EXCEPT ![g] = [n \in NodesOf(g) |-> Seen(g, n)']]
  BY FateStep
<1>2. [n \in NodesOf(g) |-> Seen(g, n)'] = [n \in NodesOf(g) |-> Seen(g, n)]
  OBVIOUS
<1>3. Fate = [h \in Plan |-> [n \in NodesOf(h) |-> Seen(h, n)]]
  BY DEF Fate, Seen
<1> QED
  BY <1>1, <1>2, <1>3

(* The passes of a group are those of the plan. *)
LEMMA PassesOfPlan ==
  ASSUME Inv, NEW g \in Plan
  PROVE  plan[g].passes = Passes(doc, g)
BY SoundPlan DEF Inv, PlanInv, PlanOf, Plan

(* Before a level its nodes are ready, all that came before are decided, none  *)
(* of them failed, and none runs.                                              *)
LEMMA AtALevel ==
  ASSUME Inv, NEW g \in Plan, at[g] = "check"
  PROVE  /\ \A n \in NodesOf(g) : node[g][n] \in Good \cup {"unseen"} /\ Seen(g, n) = node[g][n]
         /\ LevelsOf(g)[level[g]] \subseteq Flow!Ready(g)
         /\ ~Flow!Broken(g)
         /\ \A n \in LevelsOf(g)[level[g]] : Flow!Runs(g, n) <=> ~AllClosed(g, n)
         /\ \A n \in NodesOf(g) : level[g] = Last(plan, g) => node[g][n] \in Good \/ n \in LevelsOf(g)[level[g]]
<1> DEFINE k == level[g]  end == Last(plan, g)  L == LevelsOf(g)  S == NodesOf(g)
<1>1. GroupInv(g) /\ k \in 1 .. end /\ end \in Nat
  BY SoundLevels DEF Inv, GroupInv, Walk
<1>2. /\ \A i \in 1 .. end : L[i] \in SUBSET S
      /\ \A n \in S : \E i \in 1 .. end : n \in L[i]
      /\ \A i \in 1 .. end : \A n \in L[i] : \A m \in Feeders(doc, n) : \E j \in 1 .. i - 1 : m \in L[j]
  BY SoundLevels
<1>3. \A i \in 1 .. end : \A n \in L[i] :
        /\ i < k => node[g][n] \in Good
        /\ i >= k => node[g][n] = "unseen"
  <2> TAKE i \in 1 .. end
  <2>1. CASE i < k
    BY <1>1, <2>1 DEF GroupInv, Before
  <2>2. CASE i = k
    BY <1>1, <2>2 DEF GroupInv, Current
  <2>3. CASE i > k
    BY <1>1, <2>3 DEF GroupInv, After
  <2> QED
    BY <1>1, <2>1, <2>2, <2>3
<1>4. \A n \in S : node[g][n] \in Good \cup {"unseen"} /\ Seen(g, n) = node[g][n]
  BY <1>1, <1>2, <1>3 DEF Seen, Good
<1>5. \A n \in S : k = end => node[g][n] \in Good \/ n \in L[k]
  <2> TAKE n \in S
  <2>1. PICK i \in 1 .. end : n \in L[i]
    BY <1>2
  <2> QED
    BY <1>1, <1>3, <2>1
<1>6. DOMAIN Fate[g] = S /\ \A n \in S : Fate[g][n] = node[g][n]
  BY <1>4, FateOfGroup
<1>7. ~Flow!Broken(g)
  BY <1>4, <1>6 DEF Flow!Broken, Flow!Members, Flow!Bad, Good
<1>8. ASSUME NEW n \in L[k], NEW e \in Incoming(doc, n)
      PROVE  e[1] \in S /\ node[g][e[1]] \in Good
  <2>1. e[1] \in Feeders(doc, n)
    BY DEF Feeders
  <2>2. PICK j \in 1 .. k - 1 : e[1] \in L[j]
    BY <1>1, <1>2, <2>1
  <2>3. j \in 1 .. end /\ j < k
    BY <1>1, <2>2
  <2> QED
    BY <1>2, <1>3, <2>2, <2>3
<1>9. ASSUME NEW n \in L[k]
      PROVE  n \in Flow!Ready(g)
  <2>1. n \in S /\ node[g][n] = "unseen"
    BY <1>1, <1>2, <1>3
  <2> QED
    BY <1>6, <1>8, <2>1 DEF Flow!Ready, Flow!Members, Flow!Good, Good
<1>10. ASSUME NEW n \in L[k]
       PROVE  Flow!Runs(g, n) <=> ~AllClosed(g, n)
  <2>1. ASSUME NEW e \in Incoming(doc, n)
        PROVE  Flow!Open(g, e) <=> EdgeActive(g, e)
    <3>1. e[1] \in S /\ node[g][e[1]] \in Good /\ Fate[g][e[1]] = node[g][e[1]]
      BY <1>6, <1>8
    <3>2. e[1] \in Dead(g) <=> node[g][e[1]] \in {"skipped", "closed"}
      BY <3>1 DEF Dead
    <3> QED
      BY <3>1, <3>2 DEF Flow!Open, EdgeActive, Good
  <2> QED
    BY <2>1 DEF Flow!Runs, AllClosed
<1> QED
  BY <1>4, <1>5, <1>7, <1>9, <1>10

(* Entering a level announces, launches or skips its nodes; if all are skipped *)
(* and the level is the last one, it may begin the next pass at once.          *)
LEMMA EnterLevelIsOfOne ==
  ASSUME Inv, NEW g \in Plan, EnterLevel(g)
  PROVE  OnlyOf(g)
<1> DEFINE ids == LevelsOf(g)[level[g]]
           skipped == {n \in ids : AllClosed(g, n)}
           now == [n \in NodesOf(g) |-> IF n \in skipped THEN "skipped" ELSE IF n \in ids THEN "running" ELSE node[g][n]]
<1>1. \/ Advance(g, now)
      \/ /\ node' = [node EXCEPT ![g] = now]
         /\ \E next \in {"pause", "busy"} : at' = [at EXCEPT ![g] = next]
         /\ UNCHANGED <<pass, level, sides>>
  BY DEF EnterLevel
<1> HIDE DEF now
<1> QED
  BY <1>1, AdvanceIsOfOne DEF OnlyOf, Inv, Shape

(* The three ways in which a task goes on from a level.                        *)
LEMMA AdvanceCases ==
  ASSUME Inv, NEW g \in Plan, NEW now, Advance(g, now), DOMAIN now = NodesOf(g)
  PROVE  /\ OnlyOf(g) /\ DOMAIN node'[g] = NodesOf(g)
         /\ \/ UNCHANGED <<pass, sides>> /\ node'[g] = now
            \/ /\ level[g] = Last(plan, g) /\ pass[g] < plan[g].passes
               /\ pass' = [pass EXCEPT ![g] = @ + 1] /\ sides' = [sides EXCEPT ![g] = {}]
               /\ node'[g] = Fresh(NodesOf(g))
<1>1. DOMAIN at = Plan /\ DOMAIN node = Plan
  BY DEF Inv, Shape
<1>2. OnlyOf(g)
  BY AdvanceIsOfOne
<1>3. Cardinality(DOMAIN LevelsOf(g)) = Last(plan, g) /\ Last(plan, g) \in Nat /\ level[g] \in 1 .. Last(plan, g)
  BY SoundLevels DEF Inv, GroupInv, Walk
<1>4. CASE level[g] < Last(plan, g)
  BY <1>1, <1>2, <1>3, <1>4 DEF Advance
<1>5. CASE ~(level[g] < Last(plan, g)) /\ pass[g] < plan[g].passes
  <2>1. /\ pass' = [pass EXCEPT ![g] = @ + 1] /\ sides' = [sides EXCEPT ![g] = {}]
        /\ node' = [node EXCEPT ![g] = Fresh(NodesOf(g))]
    BY <1>3, <1>5 DEF Advance
  <2>2. node'[g] = Fresh(NodesOf(g)) /\ DOMAIN node'[g] = NodesOf(g)
    BY <1>1, <2>1 DEF Fresh
  <2> QED
    BY <1>2, <1>3, <1>5, <2>1, <2>2
<1>6. CASE ~(level[g] < Last(plan, g)) /\ ~(pass[g] < plan[g].passes)
  BY <1>1, <1>2, <1>3, <1>6 DEF Advance, End
<1> QED
  BY <1>4, <1>5, <1>6

(* The next pass, when nothing of this one runs or failed: what is ready but   *)
(* not decided is closed.                                                      *)
LEMMA FlowNextPass ==
  ASSUME Inv, NEW g \in Plan, status = "running", UNCHANGED <<fixed, status, cancelled, errors>>, OnlyOf(g),
         DOMAIN node'[g] = NodesOf(g),
         pass[g] < plan[g].passes, pass' = [pass EXCEPT ![g] = @ + 1], sides' = [sides EXCEPT ![g] = {}],
         node'[g] = Fresh(NodesOf(g)),
         \A n \in NodesOf(g) : Seen(g, n) \in Good \/ (n \in Flow!Ready(g) /\ ~Flow!Runs(g, n)),
         Flow!Skip(Flow!Ready(g))
  PROVE  Flow!NextPass(g)
<1>1. Fate' = [Fate EXCEPT ![g] = [n \in NodesOf(g) |-> "unseen"]]
  <2>1. [n \in NodesOf(g) |-> Seen(g, n)'] = [n \in NodesOf(g) |-> "unseen"]
    BY DEF Seen, Fresh
  <2> QED
    BY <2>1, FateStep
<1>2. pass[g] < Passes(doc, g)
  BY PassesOfPlan
<1>3. Flow!Members(g) = NodesOf(g) /\ \A n \in NodesOf(g) : Fate[g][n] = Seen(g, n)
  BY FateOfGroup DEF Flow!Members
<1>4. Flow!Good = Good
  BY DEF Flow!Good, Good
<1> QED
  BY <1>1, <1>2, <1>3, <1>4 DEF Flow!NextPass, fixed

LEMMA FlowEnterLevel ==
  ASSUME Inv, NEW g \in Plan, EnterLevel(g)
  PROVE  Flow!Decide(g) \/ Flow!NextPass(g)
<1> DEFINE k == level[g]  end == Last(plan, g)  L == LevelsOf(g)  S == NodesOf(g)
           ids == L[k]
           skipped == {n \in ids : AllClosed(g, n)}
           now == [n \in S |-> IF n \in skipped THEN "skipped" ELSE IF n \in ids THEN "running" ELSE node[g][n]]
<1>1. /\ status = "running" /\ at[g] = "check" /\ ~cancelled
      /\ UNCHANGED <<fixed, status, cancelled, errors>>
      /\ report' = [n \in Nodes |-> IF n \in skipped THEN "skipped" ELSE report[n]]
  BY DEF EnterLevel
<1>2. IF ids = skipped THEN Advance(g, now)
      ELSE /\ node' = [node EXCEPT ![g] = now]
           /\ \E next \in {"pause", "busy"} : at' = [at EXCEPT ![g] = next]
           /\ UNCHANGED <<pass, level, sides>>
  BY DEF EnterLevel
<1>3. /\ \A n \in S : node[g][n] \in Good \cup {"unseen"} /\ Seen(g, n) = node[g][n]
      /\ ids \subseteq Flow!Ready(g)
      /\ ~Flow!Broken(g)
      /\ \A n \in ids : Flow!Runs(g, n) <=> ~AllClosed(g, n)
      /\ \A n \in S : k = end => node[g][n] \in Good \/ n \in ids
  BY <1>1, AtALevel
<1>4. /\ Flow!Members(g) = S /\ \A n \in S : Fate[g][n] = node[g][n]
  BY <1>3, FateOfGroup DEF Flow!Members
<1>5. ids \subseteq S
  BY SoundLevels DEF Inv, GroupInv, Walk
<1>6. skipped = {n \in ids : ~Flow!Runs(g, n)}
  BY <1>3
<1>7. DOMAIN now = S /\ \A n \in S : now[n] = IF n \notin ids THEN node[g][n] ELSE IF Flow!Runs(g, n) THEN "running" ELSE "skipped"
  BY <1>3, <1>5
<1>8. OnlyOf(g)
  BY EnterLevelIsOfOne
<1>9. Flow!Skip(skipped)
  BY <1>1 DEF Flow!Skip
<1>10. g \in DOMAIN node /\ g \in DOMAIN at
  BY DEF Inv, Shape
<1> HIDE DEF now, skipped, ids
<1>11. ASSUME NEW how \in {"announced", "running"}, UNCHANGED <<pass, sides>>, node'[g] = now,
              \A n \in ids : Flow!Runs(g, n) => (at'[g] = "busy" <=> how = "running")
       PROVE  Flow!Decide(g)
  <2> DEFINE then == [n \in S |-> IF n \notin ids THEN Fate[g][n] ELSE IF Flow!Runs(g, n) THEN how ELSE "skipped"]
  <2>1. \A n \in S : Seen(g, n)' = then[n]
    <3> TAKE n \in S
    <3>1. Seen(g, n)' = IF now[n] = "running" /\ at'[g] # "busy" THEN "announced" ELSE now[n]
      BY <1>11 DEF Seen
    <3>2. CASE n \notin ids
      BY <1>3, <1>4, <1>7, <3>1, <3>2 DEF Good
    <3>3. CASE n \in ids /\ Flow!Runs(g, n)
      BY <1>7, <1>11, <3>1, <3>3
    <3>4. CASE n \in ids /\ ~Flow!Runs(g, n)
      BY <1>7, <3>1, <3>4
    <3> QED
      BY <3>2, <3>3, <3>4
  <2>2. then = [n \in S |-> Seen(g, n)']
    BY <2>1
  <2> HIDE DEF then
  <2>3. Fate' = [Fate EXCEPT ![g] = then]
    BY <1>1, <1>7, <1>8, <1>11, <2>2, FateStep
  <2> QED
    BY <1>1, <1>3, <1>4, <1>6, <1>9, <1>11, <2>3 DEF Flow!Decide, fixed, then
<1>12. CASE ids # skipped
  <2>1. node'[g] = now /\ at'[g] \in {"pause", "busy"} /\ UNCHANGED <<pass, sides>>
    BY <1>2, <1>10, <1>12
  <2> QED
    BY <1>11, <2>1
<1>13. CASE ids = skipped
  <2>1. Advance(g, now)
    BY <1>2, <1>13
  <2>2. \A n \in ids : ~Flow!Runs(g, n)
    BY <1>6, <1>13
  <2>3. \/ UNCHANGED <<pass, sides>> /\ node'[g] = now
        \/ /\ k = end /\ pass[g] < plan[g].passes
           /\ pass' = [pass EXCEPT ![g] = @ + 1] /\ sides' = [sides EXCEPT ![g] = {}]
           /\ node'[g] = Fresh(S) /\ DOMAIN node'[g] = S
    BY <1>7, <2>1, AdvanceCases
  <2>4. CASE UNCHANGED <<pass, sides>> /\ node'[g] = now
    BY <1>11, <2>2, <2>4
  <2>5. CASE /\ k = end /\ pass[g] < plan[g].passes
             /\ pass' = [pass EXCEPT ![g] = @ + 1] /\ sides' = [sides EXCEPT ![g] = {}]
             /\ node'[g] = Fresh(S) /\ DOMAIN node'[g] = S
    <3>1. Flow!Ready(g) = ids
      <4>1. \A n \in Flow!Ready(g) : n \in S /\ node[g][n] = "unseen"
        BY <1>4 DEF Flow!Ready, Flow!Members
      <4> QED
        BY <1>3, <2>5, <4>1 DEF Good
    <3>2. \A n \in S : Seen(g, n) \in Good \/ (n \in Flow!Ready(g) /\ ~Flow!Runs(g, n))
      BY <1>3, <2>2, <2>5, <3>1
    <3>3. Flow!Skip(Flow!Ready(g))
      BY <1>9, <1>13, <3>1
    <3>4. Flow!NextPass(g)
      BY <1>1, <1>8, <2>5, <3>2, <3>3, FlowNextPass
    <3> QED
      BY <3>4
  <2> QED
    BY <2>3, <2>4, <2>5
<1> QED
  BY <1>12, <1>13

LEMMA FlowNoticeStop ==
  ASSUME Inv, NEW g \in Plan, NoticeStop(g)
  PROVE  UNCHANGED Flow!vars
<1>1. /\ at[g] = "check" /\ at'[g] = "done" /\ UNCHANGED <<fixed, status, cancelled, errors, node, report, pass, sides>>
      /\ OnlyOf(g)
  BY DEF NoticeStop, End, OnlyOf, Inv, Shape
<1>2. \A n \in NodesOf(g) : Seen(g, n)' = Seen(g, n)
  BY <1>1 DEF Seen
<1>3. Fate' = Fate
  BY <1>1, <1>2, FateStays DEF NodesOf
<1> QED
  BY <1>1, <1>3 DEF Flow!vars, fixed

(* When the pause is over, what was announced is launched. *)
LEMMA FlowPause ==
  ASSUME Inv, NEW g \in Plan, Pause(g)
  PROVE  Flow!Launch(g) \/ UNCHANGED Flow!vars
<1>1. /\ at[g] = "pause"
      /\ \/ at' = [at EXCEPT ![g] = "busy"] /\ UNCHANGED <<pass, level, sides>>
         \/ cancelled /\ End(g)
      /\ UNCHANGED <<fixed, status, cancelled, errors, node, report>>
  BY DEF Pause
<1>2. /\ DOMAIN at = Plan /\ DOMAIN pass = Plan /\ DOMAIN level = Plan /\ DOMAIN node = Plan /\ DOMAIN sides = Plan
      /\ node[g] \in [NodesOf(g) -> Fates]
  BY SoundLevels DEF Inv, Shape
<1>3. UNCHANGED <<pass, sides>> /\ OnlyOf(g) /\ at'[g] \in {"busy", "done"}
  BY <1>1, <1>2 DEF End, OnlyOf
<1>4. CASE at'[g] = "busy"
  <2> DEFINE then == [n \in NodesOf(g) |-> IF Fate[g][n] = "announced" THEN "running" ELSE Fate[g][n]]
  <2>1. \A n \in NodesOf(g) : Seen(g, n)' = then[n]
    BY <1>1, <1>2, <1>4, FateOfGroup DEF Seen, Fates
  <2>2. then = [n \in NodesOf(g) |-> Seen(g, n)']
    BY <2>1
  <2> HIDE DEF then
  <2>3. Fate' = [Fate EXCEPT ![g] = then]
    BY <1>1, <1>3, <2>2, FateStep DEF NodesOf
  <2>4. status = "running"
    BY <1>1, BusyRuns
  <2>5. Flow!Members(g) = NodesOf(g)
    BY FateOfGroup DEF Flow!Members
  <2> QED
    BY <1>1, <1>3, <2>3, <2>4, <2>5 DEF Flow!Launch, fixed, then
<1>5. CASE at'[g] = "done"
  <2>1. \A n \in NodesOf(g) : Seen(g, n)' = Seen(g, n)
    BY <1>1, <1>5 DEF Seen
  <2>2. Fate' = Fate
    BY <1>1, <1>3, <2>1, FateStays DEF NodesOf
  <2> QED
    BY <1>1, <1>3, <2>2 DEF Flow!vars, fixed
<1> QED
  BY <1>3, <1>4, <1>5

(* A busy group is seen as it is. *)
LEMMA FateOfBusy ==
  ASSUME Inv, NEW g \in Plan, at[g] = "busy"
  PROVE  Fate[g] = node[g]
<1>1. DOMAIN Fate[g] = NodesOf(g) /\ \A n \in NodesOf(g) : Fate[g][n] = node[g][n]
  BY FateOfGroup DEF Seen
<1>2. Fate[g] = [n \in NodesOf(g) |-> Seen(g, n)]
  BY DEF Fate, Seen
<1>3. node[g] \in [NodesOf(g) -> Fates]
  BY SoundLevels
<1> QED
  BY <1>1, <1>2, <1>3

LEMMA FlowEndNode ==
  ASSUME Inv, NEW g \in Plan, NEW n \in NodesOf(g), EndNode(g, n)
  PROVE  Flow!Conclude(g, n)
<1>1. /\ at[g] = "busy" /\ node[g][n] = "running"
      /\ UNCHANGED <<fixed, status, cancelled, at, pass, level>>
  BY DEF EndNode
<1>2. PICK outcome \in {"success", "closed", "error", "stopped"} :
        /\ outcome = "closed" => doc.kind[n] = "gate"
        /\ outcome = "stopped" => cancelled
        /\ node' = [node EXCEPT ![g][n] = IF outcome = "error" /\ n \in doc.lenient THEN "continued" ELSE outcome]
        /\ report' = [report EXCEPT ![n] = IF outcome = "closed" THEN "success" ELSE outcome]
        /\ errors' = (errors \/ outcome = "error")
        /\ \E rows \in SUBSET {"true", "false"} :
             /\ rows # {} => outcome = "success" /\ doc.kind[n] = "branch"
             /\ sides' = [sides EXCEPT ![g] = @ \cup ({n} \X rows)]
  BY DEF EndNode
<1> DEFINE fate == IF outcome = "error" /\ n \in doc.lenient THEN "continued" ELSE outcome
<1>3. /\ fate \in {"success", "closed", "error", "continued", "stopped"}
      /\ fate = "closed" => doc.kind[n] = "gate"
      /\ fate = "continued" => n \in doc.lenient
      /\ fate = "error" => n \notin doc.lenient
      /\ fate = "stopped" => cancelled
      /\ errors' = (errors \/ fate \in {"error", "continued"})
      /\ (IF outcome = "closed" THEN "success" ELSE outcome) =
           CASE fate = "closed" -> "success" [] fate = "continued" -> "error" [] OTHER -> fate
      /\ fate = "success" <=> outcome = "success"
  BY <1>2
<1>4. /\ DOMAIN at = Plan /\ DOMAIN pass = Plan /\ DOMAIN level = Plan /\ DOMAIN node = Plan /\ DOMAIN sides = Plan
      /\ node[g] \in [NodesOf(g) -> Fates]
  BY SoundLevels DEF Inv, Shape
<1>5. node' = [node EXCEPT ![g][n] = fate]
  BY <1>2
<1> HIDE DEF fate
<1>6. node'[g] = [node[g] EXCEPT ![n] = fate] /\ DOMAIN node'[g] = NodesOf(g)
  BY <1>4, <1>5 DEF NodesOf
<1>7. OnlyOf(g)
  BY <1>1, <1>2, <1>4, <1>5 DEF OnlyOf
<1>8. Fate' = [Fate EXCEPT ![g] = [Fate[g] EXCEPT ![n] = fate]]
  <2>1. Fate[g] = node[g]
    BY <1>1, FateOfBusy
  <2>2. \A m \in NodesOf(g) : Seen(g, m)' = node'[g][m]
    BY <1>1 DEF Seen
  <2>3. node'[g] = [m \in NodesOf(g) |-> Seen(g, m)']
    BY <1>4, <1>6, <2>2
  <2>4. Fate' = [Fate EXCEPT ![g] = node'[g]]
    BY <1>1, <1>6, <1>7, <2>3, FateStep
  <2> QED
    BY <1>6, <2>1, <2>4
<1>9. status = "running" /\ Fate[g][n] = "running"
  BY <1>1, BusyRuns, FateOfBusy
<1>10. PICK rows \in SUBSET {"true", "false"} :
        /\ rows # {} => fate = "success" /\ doc.kind[n] = "branch"
        /\ sides' = [sides EXCEPT ![g] = @ \cup ({n} \X rows)]
  BY <1>2, <1>3
<1>11. report' = [report EXCEPT ![n] =
          CASE fate = "closed" -> "success" [] fate = "continued" -> "error" [] OTHER -> fate]
  BY <1>2, <1>3
<1> QED
  BY <1>1, <1>3, <1>8, <1>9, <1>10, <1>11 DEF Flow!Conclude, fixed

(* Leaving a level is seen only when it begins the next pass. *)
LEMMA FlowLeaveLevel ==
  ASSUME Inv, NEW g \in Plan, LeaveLevel(g)
  PROVE  Flow!NextPass(g) \/ UNCHANGED Flow!vars
<1> DEFINE k == level[g]  end == Last(plan, g)  L == LevelsOf(g)  S == NodesOf(g)
<1>1. /\ at[g] = "busy" /\ \A n \in S : node[g][n] # "running"
      /\ UNCHANGED <<fixed, status, cancelled, errors, report>>
  BY DEF LeaveLevel, LevelIsDone
<1>2. node[g] \in [S -> Fates] /\ status = "running"
  BY <1>1, SoundLevels, BusyRuns
<1>3. ASSUME UNCHANGED <<pass, sides>>, node'[g] = node[g], OnlyOf(g)
      PROVE  UNCHANGED Flow!vars
  <2>1. \A n \in S : Seen(g, n)' = Seen(g, n)
    BY <1>1, <1>3 DEF Seen
  <2>2. Fate' = Fate
    BY <1>1, <1>3, <2>1, FateStays DEF NodesOf
  <2> QED
    BY <1>1, <1>3, <2>2 DEF Flow!vars, fixed
<1>4. CASE \E n \in S : node[g][n] \in {"error", "stopped"}
  <2>1. UNCHANGED <<node, pass, sides>> /\ OnlyOf(g)
    BY <1>4 DEF LeaveLevel, End, OnlyOf, Inv, Shape
  <2> QED
    BY <1>3, <2>1
<1>5. CASE \A n \in S : node[g][n] \notin {"error", "stopped"}
  <2>1. Advance(g, node[g])
    BY <1>5 DEF LeaveLevel
  <2>2. /\ OnlyOf(g) /\ DOMAIN node'[g] = S
        /\ \/ UNCHANGED <<pass, sides>> /\ node'[g] = node[g]
           \/ /\ k = end /\ pass[g] < plan[g].passes
              /\ pass' = [pass EXCEPT ![g] = @ + 1] /\ sides' = [sides EXCEPT ![g] = {}]
              /\ node'[g] = Fresh(S)
    BY <2>1, AdvanceCases DEF NodesOf
  <2>3. CASE UNCHANGED <<pass, sides>> /\ node'[g] = node[g]
    BY <1>3, <2>2, <2>3
  <2>4. CASE /\ k = end /\ pass[g] < plan[g].passes
             /\ pass' = [pass EXCEPT ![g] = @ + 1] /\ sides' = [sides EXCEPT ![g] = {}]
             /\ node'[g] = Fresh(S)
    <3>1. \A n \in S : node[g][n] # "unseen"
      <4> TAKE n \in S
      <4>1. GroupInv(g) /\ k \in 1 .. end /\ end \in Nat
        BY SoundLevels DEF Inv, GroupInv, Walk
      <4>2. PICK i \in 1 .. end : n \in L[i]
        BY SoundLevels
      <4>3. CASE i = k
        BY <1>1, <4>1, <4>2, <4>3 DEF GroupInv, Current
      <4>4. CASE i # k
        BY <2>4, <4>1, <4>2, <4>4 DEF GroupInv, Before, Good
      <4> QED
        BY <4>3, <4>4
    <3>2. \A n \in S : Seen(g, n) \in Good
      BY <1>1, <1>2, <1>5, <3>1 DEF Seen, Good, Fates
    <3>3. Flow!Ready(g) = {}
      BY <3>2, FateOfGroup DEF Flow!Ready, Flow!Members, Good
    <3>4. Flow!Skip(Flow!Ready(g))
      <4>1. report' = report /\ report \in [Nodes -> Results]
        BY <1>1 DEF Inv, Shape
      <4> QED
        BY <3>3, <4>1 DEF Flow!Skip
    <3> QED
      BY <1>1, <1>2, <2>2, <2>4, <3>2, <3>4, FlowNextPass
  <2> QED
    BY <2>2, <2>3, <2>4
<1> QED
  BY <1>4, <1>5

(* The plan is made and every group gets its first pass. *)
LEMMA FlowStart ==
  ASSUME Inv, Start
  PROVE  Flow!Start
<1>1. status = "idle" /\ plan = <<>> /\ UNCHANGED <<doc, targets, cancelled, errors, report>>
  BY DEF Start, Inv, PlanInv
<1>2. CASE Refused(doc, targets)
  <2>1. status' = "refused" /\ UNCHANGED <<plan, at, pass, level, node, sides>>
    BY <1>2 DEF Start
  <2>2. Fate' = Fate
    BY <2>1 DEF Fate, Plan, NodesOf
  <2> QED
    BY <1>1, <2>1, <2>2 DEF Flow!Start
<1>3. CASE ~Refused(doc, targets)
  <2> DEFINE G == Groups(doc, targets)
  <2>1. /\ status' = "connecting" /\ plan' = PlanOf(doc, targets)
        /\ at' = [g \in DOMAIN plan' |-> "check"] /\ pass' = [g \in DOMAIN plan' |-> 1]
        /\ node' = [g \in DOMAIN plan' |-> Fresh(GroupNodes(doc, targets, g))]
        /\ sides' = [g \in DOMAIN plan' |-> {}]
    BY <1>3 DEF Start
  <2>2. DOMAIN plan' = G
    BY <2>1 DEF PlanOf
  <2>3. \A g \in G : node'[g] = [n \in GroupNodes(doc, targets, g) |-> "unseen"]
    BY <2>1, <2>2 DEF Fresh
  <2>4. Fate' = [g \in G |-> [n \in GroupNodes(doc, targets, g) |-> "unseen"]]
    <3>1. Fate' = [g \in G |-> [n \in DOMAIN node'[g] |->
                     IF node'[g][n] = "running" /\ at'[g] # "busy" THEN "announced" ELSE node'[g][n]]]
      BY <2>2 DEF Fate, Plan, NodesOf
    <3>2. \A g \in G : [n \in DOMAIN node'[g] |->
                          IF node'[g][n] = "running" /\ at'[g] # "busy" THEN "announced" ELSE node'[g][n]]
                       = [n \in GroupNodes(doc, targets, g) |-> "unseen"]
      BY <2>3
    <3> QED
      BY <3>1, <3>2
  <2> QED
    BY <1>1, <2>1, <2>2, <2>4 DEF Flow!Start
<1> QED
  BY <1>2, <1>3

(* The run ends when every group is over. *)
LEMMA FlowFinish ==
  ASSUME Inv, Finish
  PROVE  Flow!Finish
<1>1. /\ status = "running" /\ \A g \in Plan : at[g] = "done"
      /\ status' = CASE cancelled -> "stopped" [] ~cancelled /\ errors -> "failed" [] OTHER -> "completed"
      /\ UNCHANGED <<fixed, cancelled, errors, at, pass, level, node, sides, report>>
  BY DEF Finish
<1>2. cancelled \in BOOLEAN /\ errors \in BOOLEAN
  BY DEF Inv, Shape
<1>3. status' = IF cancelled THEN "stopped" ELSE IF errors THEN "failed" ELSE "completed"
  BY <1>1, <1>2
<1>4. Fate' = Fate
  BY <1>1 DEF Fate, Plan, NodesOf, fixed
<1>5. ASSUME NEW g \in Plan
      PROVE  Flow!IsOver(g)
  <2>1. Flow!Members(g) = NodesOf(g) /\ \A n \in NodesOf(g) : Fate[g][n] = Seen(g, n)
    BY FateOfGroup DEF Flow!Members
  <2>2. \A n \in NodesOf(g) : Seen(g, n) # "running"
    BY <1>1 DEF Seen
  <2>3. \A n \in NodesOf(g) : node[g][n] # "running" => Seen(g, n) = node[g][n]
    BY DEF Seen
  <2>4. \/ cancelled
        \/ Broke(g)
        \/ pass[g] = plan[g].passes /\ \A n \in NodesOf(g) : node[g][n] \in Good
    BY <1>1 DEF Inv, GroupInv, Ended
  <2>5. Broke(g) => Flow!Broken(g)
    BY <2>1, <2>3 DEF Broke, Flow!Broken, Flow!Bad
  <2>6. (\A n \in NodesOf(g) : node[g][n] \in Good) => Flow!Through(g)
    BY <2>1, <2>3 DEF Flow!Through, Flow!Good, Good
  <2> QED
    BY <2>1, <2>2, <2>4, <2>5, <2>6, PassesOfPlan DEF Flow!IsOver
<1>6. DOMAIN Fate = Plan
  BY DEF Fate
<1> QED
  BY <1>1, <1>3, <1>4, <1>5, <1>6 DEF Flow!Finish, fixed

(* Every step is one of the dataflow, or is not seen. *)
LEMMA FlowStep == Inv /\ [Next]_vars => [Flow!Next]_(Flow!vars)
<1> SUFFICES ASSUME Inv, [Next]_vars
             PROVE  Flow!Next \/ UNCHANGED Flow!vars
  OBVIOUS
<1>1. CASE UNCHANGED vars
  BY <1>1 DEF vars, Flow!vars, Fate, Plan, NodesOf
<1>2. CASE Start
  BY <1>2, FlowStart DEF Flow!Next
<1>3. CASE Stop
  <2>1. /\ status # "idle" /\ cancelled' = TRUE
        /\ UNCHANGED <<fixed, status, errors, at, pass, level, node, sides, report>>
    BY <1>3 DEF Stop, Inv, Stages
  <2>2. Fate' = Fate
    BY <2>1 DEF Fate, Plan, NodesOf, fixed
  <2>3. Flow!Stop
    BY <2>1, <2>2 DEF Flow!Stop, fixed
  <2> QED
    BY <2>3 DEF Flow!Next
<1>4. CASE Finish
  BY <1>4, FlowFinish DEF Flow!Next
<1>5. ASSUME NEW g \in Plan, NoticeStop(g) \/ EnterLevel(g) \/ Pause(g) \/ LeaveLevel(g)
      PROVE  Flow!Next \/ UNCHANGED Flow!vars
  <2>1. g \in DOMAIN Fate
    BY FateOfGroup
  <2> QED
    BY <1>5, <2>1, FlowNoticeStop, FlowEnterLevel, FlowPause, FlowLeaveLevel DEF Flow!Next
<1>6. ASSUME NEW g \in Plan, NEW n \in NodesOf(g), EndNode(g, n)
      PROVE  Flow!Next
  <2>1. g \in DOMAIN Fate /\ n \in Flow!Members(g)
    BY FateOfGroup DEF Flow!Members
  <2> QED
    BY <1>6, <2>1, FlowEndNode DEF Flow!Next
<1>7. CASE EnsureConnections
  <2>1. /\ status = "connecting" /\ status' = "running"
        /\ UNCHANGED <<fixed, cancelled, errors, at, pass, level, node, sides, report>>
    BY <1>7 DEF EnsureConnections
  <2> QED
    BY <2>1 DEF Flow!vars, Fate, Plan, NodesOf, fixed
<1>8. CASE EndRun
  BY <1>8 DEF EndRun, Flow!vars, Fate, Plan, NodesOf
<1> QED
  BY <1>1, <1>2, <1>3, <1>4, <1>5, <1>6, <1>7, <1>8 DEF Next

LEMMA FlowInit == Init => Flow!Init
<1> SUFFICES ASSUME Init
             PROVE  Flow!Init
  OBVIOUS
<1>1. doc \in Documents /\ targets \in SUBSET Nodes
  BY DocumentsAreGraphs, RequestsAreNodes DEF Init
<1>2. Fate = <<>>
  <2>1. plan = <<>>
    BY DEF Init
  <2> QED
    BY <2>1 DEF Fate, Plan
<1> QED
  BY <1>1, <1>2 DEF Init, Flow!Init

-----------------------------------------------------------------------------
(* The theorems                                                            *)

(* The state has its types, for every set of documents: in particular no      *)
(* group walks past its last level or its last pass (run_group, run_pass).    *)
THEOREM Types == Spec => []TypeOK
  BY Invariance, InvImpliesTypeOK, PTL

(* No node is decided before its feeders are, whatever the document: the       *)
(* levels of Kahn's algorithm are in order (graph.rs) and the runner keeps to  *)
(* them (run_pass).                                                            *)
THEOREM Order == Spec => []FeedersComeFirst
  BY Invariance, InvImpliesFeedersComeFirst, PTL

(* A node that was decided ran exactly if an open path leads to it: that        *)
(* run_pass looks at the direct feeders only is enough.                        *)
THEOREM Reachability == Spec => []OnlyWhatIsReachedRuns
  BY Invariance, InvImpliesOnlyWhatIsReachedRuns, PTL

(* A run that reports Completed has run every pass to its end, and the report   *)
(* lists a result of everything the targets need, none of them a failure.      *)
THEOREM Completion == Spec => []CompletedRunsRanEverything
  BY Invariance, InvImpliesCompletedRunsRanEverything, PTL

(* A pass is only begun when the one before it went through without a node     *)
(* that failed for good or was stopped (run_group).                            *)
THEOREM PassesInTurn == Spec => PassesStopAtTheFirstFailure
<1>1. Inv /\ [Next]_vars =>
        [\A g \in Plan : pass'[g] # pass[g] =>
           \A n \in NodesOf(g) : \/ node[g][n] \in {"success", "skipped", "closed", "continued"}
                                 \/ node[g][n] = "unseen" /\ AllClosed(g, n)]_vars
  BY PassStep
<1> QED
  BY <1>1, Invariance, PTL DEF Spec, PassesStopAtTheFirstFailure

(* execute refuses exactly the documents that cannot be run: what is left over  *)
(* by Kahn's algorithm is a circle, and a circle is left over.                 *)
THEOREM Refusals == Spec => RefusalsAreRight
<1>1. Inv /\ [Next]_vars =>
        [status = "idle" =>
          (status' = "refused" <=>
             LET involved == Ancestors(doc, targets) IN
               \/ targets = {}
               \/ \E n \in involved : Reaches(n, n) \/ (doc.kind[n] = "repeat" /\ doc.count[n] = 0)
               \/ \E n \in Nodes, side \in Sides : <<n, side, n>> \in doc.edges
               \/ Miswired(doc, involved)
               \/ \E t \in targets : Passes(doc, RepeatsAbove(doc, t)) > MaxPasses)]_vars
  BY StartRefusesRightly
<1> QED
  BY <1>1, Invariance, PTL DEF Spec, RefusalsAreRight

(* The levels and the tasks of the groups, with their pauses and their looks   *)
(* at the token (run_group, run_pass), run every document as the dataflow that *)
(* DataflowRun describes.                                                      *)
THEOREM RunsAreDataflows == Spec => RunsAsADataflow
<1>1. Inv /\ [Next]_vars => [Flow!Next]_(Flow!vars)
  BY FlowStep
<1> QED
  BY <1>1, FlowInit, Invariance, PTL DEF Spec, RunsAsADataflow, Flow!Spec

=============================================================================
