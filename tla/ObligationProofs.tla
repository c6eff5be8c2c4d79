---------------------------- MODULE ObligationProofs ----------------------------
(***************************************************************************)
(* Proofs about the two kinds of obligations that the providers carry out  *)
(* on data: QueryRewriting, for all columns, values, criteria of any       *)
(* nesting, obligations, statements and sets of shims, and ContentFilter,  *)
(* for all documents, paths, conditions and actions.                       *)
(*                                                                         *)
(* A query is only ever narrowed, it selects rows the obligation allows,   *)
(* and what cannot be lowered is refused.  A filter takes away what its    *)
(* paths address and nothing else, and releases nothing when it could not. *)
(*                                                                         *)
(* A criterion is a tree, and what is said of all criteria is proved from  *)
(* the least deep one it would not hold of; what is said of all nodes of a *)
(* value, from the last one.  The definitions by recursion are unfolded by *)
(* one lemma each.                                                         *)
(***************************************************************************)
EXTENDS QueryRewriting, ContentFilter, SequenceTheorems, FiniteSetTheorems,
        NaturalsInduction, WellFoundedInduction, TLAPS

-----------------------------------------------------------------------------
(* Counting                                                                *)

\* A set of natural numbers has a least element.
LEMMA LeastNumber ==
    ASSUME NEW T \in SUBSET Nat, T # {}
    PROVE  \E n \in T : \A m \in T : n <= m
<1> DEFINE R == OpToRel(<, Nat)
<1>1. \A x, y \in Nat : x < y => <<x, y>> \in R
  BY DEF OpToRel
<1>2. IsWellFoundedOn(R, Nat)
  BY ONLY NatLessThanWellFounded, Zenon
<1> HIDE DEF R
<1>3. PICK n \in T : \A m \in T : ~(<<m, n>> \in R)
  BY <1>2, WFMin
<1>4. ASSUME NEW m \in T PROVE n <= m
  <2>1. m \in Nat /\ n \in Nat
    OBVIOUS
  <2>2. ~(m < n)
    BY <2>1, <1>1, <1>3
  <2> QED
    BY <2>1, <2>2
<1> QED
  BY <1>4

\* What holds of 0 and is handed on from each number to the next holds up to the bound.
LEMMA CountingUp ==
    ASSUME NEW n \in Nat, NEW P, 0 \in P,
           \A k \in 0..(n - 1) : k \in P => k + 1 \in P
    PROVE  \A k \in 0..n : k \in P
<1> SUFFICES ASSUME NEW m \in 0..n, m \notin P PROVE FALSE
  OBVIOUS
<1> DEFINE T == {k \in 0..n : k \notin P}
<1>0. T \in SUBSET Nat /\ T # {}
  OBVIOUS
<1>1. PICK k \in T : \A h \in T : k <= h
  <2> HIDE DEF T
  <2> QED
    BY <1>0, LeastNumber
<1>2. k # 0 /\ k - 1 \in 0..(n - 1)
  BY <1>1
<1>3. k - 1 \in P
  BY <1>1, <1>2
<1>4. (k - 1) + 1 \in P
  BY <1>2, <1>3
<1> QED
  BY <1>1, <1>2, <1>4

-----------------------------------------------------------------------------
(* Recursion over a criterion                                              *)

\* What f makes of the parts of a criterion.
OfChildren(f, node) == {f[child] : child \in Children(node)}

\* On criteria less deep than k, f is what Combine makes of what f makes of the parts.
Obeys(f, Combine, k) ==
    \A node \in Criteria :
        Depth[node] < k => f[node] = Combine[<<node, OfChildren(f, node)>>]

LEMMA ChildrenAreLessDeep ==
    ASSUME NEW node \in Criteria, NEW child \in Children(node)
    PROVE  child \in Criteria /\ Depth[child] \in Nat /\ Depth[node] \in Nat
             /\ Depth[child] < Depth[node]
<1>1. node.children \in Seq(Criteria)
  BY CriteriaNest
<1>2. child \in Criteria
  BY <1>1 DEF Children, ToSet
<1> QED
  BY <1>2, CriteriaNest

LEMMA Agreement ==
    ASSUME NEW Combine, NEW k \in Nat, NEW f, NEW g,
           Obeys(f, Combine, k), Obeys(g, Combine, k)
    PROVE  \A node \in Criteria : Depth[node] < k => f[node] = g[node]
<1> DEFINE Bad == {node \in Criteria : Depth[node] < k /\ f[node] # g[node]}
           T == {Depth[node] : node \in Bad}
<1> SUFFICES ASSUME Bad # {} PROVE FALSE
  OBVIOUS
<1>1. T \in SUBSET Nat /\ T # {}
  BY CriteriaNest
<1>2. PICK n \in T : \A m \in T : n <= m
  <2> HIDE DEF T
  <2> QED
    BY <1>1, LeastNumber
<1>3. PICK node \in Bad : n = Depth[node]
  BY <1>2
<1>4. ASSUME NEW child \in Children(node) PROVE f[child] = g[child]
  <2>1. child \in Criteria /\ Depth[child] < Depth[node] /\ Depth[child] < k
    BY <1>3, ChildrenAreLessDeep
  <2>2. ~(n <= Depth[child])
    BY <1>3, <2>1, ChildrenAreLessDeep
  <2> QED
    BY <1>2, <2>1, <2>2
<1>5. OfChildren(f, node) = OfChildren(g, node)
  BY <1>4 DEF OfChildren
<1> QED
  BY <1>3, <1>5 DEF Obeys

LEMMA Approximation ==
    ASSUME NEW V, NEW Combine \in [Criteria \X SUBSET V -> V], NEW k \in Nat
    PROVE  \E f \in [Criteria -> V] : Obeys(f, Combine, k)
<1> DEFINE P == {h \in Nat : \E f \in [Criteria -> V] : Obeys(f, Combine, h)}
<1>1. 0 \in P
  <2> DEFINE f == [node \in Criteria |-> Combine[<<node, {}>>]]
  <2>1. f \in [Criteria -> V]
    OBVIOUS
  <2>2. Obeys(f, Combine, 0)
    BY CriteriaNest DEF Obeys
  <2> QED
    BY <2>1, <2>2
<1>2. ASSUME NEW h \in 0..(k - 1), h \in P PROVE h + 1 \in P
  <2>1. PICK f \in [Criteria -> V] : Obeys(f, Combine, h)
    BY <1>2
  <2> DEFINE g == [node \in Criteria |-> Combine[<<node, OfChildren(f, node)>>]]
  <2>2. \A node \in Criteria : OfChildren(f, node) \in SUBSET V
    BY ChildrenAreLessDeep DEF OfChildren
  <2>3. g \in [Criteria -> V]
    BY <2>2
  <2>4. ASSUME NEW node \in Criteria, Depth[node] < h + 1
        PROVE  OfChildren(g, node) = OfChildren(f, node)
    <3>1. ASSUME NEW child \in Children(node) PROVE g[child] = f[child]
      <4>1. child \in Criteria /\ Depth[child] < h
        BY <2>4, ChildrenAreLessDeep
      <4> QED
        BY <2>1, <4>1 DEF Obeys
    <3> QED
      BY <3>1 DEF OfChildren
  <2>5. Obeys(g, Combine, h + 1)
    <3>1. \A node \in Criteria : g[node] = Combine[<<node, OfChildren(f, node)>>]
      OBVIOUS
    <3> HIDE DEF g
    <3> QED
      BY <2>4, <3>1 DEF Obeys
  <2>6. h + 1 \in Nat
    OBVIOUS
  <2> HIDE DEF g
  <2> QED
    BY <2>3, <2>5, <2>6
<1> HIDE DEF P
<1>3. \A h \in 0..k : h \in P
  BY <1>1, <1>2, CountingUp
<1> QED
  BY <1>3 DEF P

\* What a criterion is to be is determined by what its parts are to be.
LEMMA TreeRecursion ==
    ASSUME NEW V, NEW Combine \in [Criteria \X SUBSET V -> V]
    PROVE  \E f \in [Criteria -> V] :
             \A node \in Criteria : f[node] = Combine[<<node, OfChildren(f, node)>>]
<1> DEFINE approx(node) ==
             CHOOSE f : f \in [Criteria -> V] /\ Obeys(f, Combine, Depth[node] + 1)
           whole == [node \in Criteria |-> approx(node)[node]]
<1>1. ASSUME NEW node \in Criteria
      PROVE  approx(node) \in [Criteria -> V] /\ Obeys(approx(node), Combine, Depth[node] + 1)
  <2>1. Depth[node] + 1 \in Nat
    BY CriteriaNest
  <2> QED
    BY <2>1, Approximation
<1>2. \A node \in Criteria : whole[node] = approx(node)[node]
  OBVIOUS
<1>3. whole \in [Criteria -> V]
  <2> HIDE DEF approx
  <2> QED
    BY <1>1
<1> HIDE DEF whole, approx
<1>4. ASSUME NEW node \in Criteria
      PROVE  whole[node] = Combine[<<node, OfChildren(whole, node)>>]
  <2>1. ASSUME NEW child \in Children(node) PROVE whole[child] = approx(node)[child]
    <3>1. child \in Criteria /\ Depth[child] \in Nat /\ Depth[child] < Depth[node]
            /\ Depth[node] \in Nat
      BY ChildrenAreLessDeep
    <3>2. Obeys(approx(node), Combine, Depth[child] + 1)
      <4>1. \A other \in Criteria :
              Depth[other] < Depth[child] + 1 => Depth[other] < Depth[node] + 1
        BY <3>1, CriteriaNest
      <4> QED
        BY <1>1, <4>1 DEF Obeys
    <3>3. Obeys(approx(child), Combine, Depth[child] + 1)
      BY <1>1, <3>1
    <3>4. approx(child)[child] = approx(node)[child]
      BY <3>1, <3>2, <3>3, Agreement
    <3> QED
      BY <1>2, <3>1, <3>4
  <2>2. OfChildren(whole, node) = OfChildren(approx(node), node)
    BY <2>1 DEF OfChildren
  <2>3. approx(node)[node] = Combine[<<node, OfChildren(approx(node), node)>>]
    <3>1. Depth[node] < Depth[node] + 1
      BY CriteriaNest
    <3> QED
      BY <1>1, <3>1 DEF Obeys
  <2> QED
    BY <1>2, <2>2, <2>3
<1> QED
  BY <1>3, <1>4

-----------------------------------------------------------------------------
(* The definitions over a criterion, unfolded                              *)

LEMMA WithinUnfolds ==
    \A node \in Criteria :
        /\ Within(node) = {node} \cup UNION {Within(child) : child \in Children(node)}
        /\ Within(node) \in SUBSET Criteria
<1> DEFINE Def(f, n) == {n} \cup UNION {f[child] : child \in Children(n)}
           Is(f) == f = [n \in Criteria |-> Def(f, n)]
           V == SUBSET Criteria
           Combine == [p \in Criteria \X SUBSET V |-> {p[1]} \cup UNION p[2]]
<1>1. Combine \in [Criteria \X SUBSET V -> V]
  OBVIOUS
<1>2. PICK f \in [Criteria -> V] :
        \A n \in Criteria : f[n] = Combine[<<n, OfChildren(f, n)>>]
  <2> HIDE DEF V, Combine
  <2> QED
    BY <1>1, TreeRecursion
<1>3. ASSUME NEW n \in Criteria PROVE f[n] = Def(f, n)
  <2>1. <<n, OfChildren(f, n)>> \in Criteria \X SUBSET V
    BY ChildrenAreLessDeep DEF OfChildren
  <2>2. Combine[<<n, OfChildren(f, n)>>] = {n} \cup UNION OfChildren(f, n)
    BY <2>1
  <2> QED
    BY <1>2, <2>2 DEF OfChildren
<1>4. Is(f)
  <2> HIDE DEF Def
  <2> QED
    BY <1>2, <1>3
<1> DEFINE within == CHOOSE g : Is(g)
<1>5. Is(within)
  <2> HIDE DEF Is
  <2> QED
    BY <1>4
<1>6. \A n \in Criteria : Within(n) = within[n]
  BY DEF Within
<1> HIDE DEF within
<1>7. \A n \in Criteria : within[n] = Def(within, n)
  BY <1>5
<1>8. ASSUME NEW n \in Criteria PROVE within[n] = f[n]
  <2>1. PICK k : k = Depth[n] + 1 /\ k \in Nat /\ Depth[n] < k
    BY CriteriaNest
  <2> DEFINE C == [p \in {<<m, OfChildren(g, m)>> : m \in Criteria, g \in {f, within}} |->
                     {p[1]} \cup UNION p[2]]
  <2>2. \A g \in {f, within} : \A m \in Criteria :
          C[<<m, OfChildren(g, m)>>] = {m} \cup UNION OfChildren(g, m)
    OBVIOUS
  <2> HIDE DEF C
  <2>3. Obeys(f, C, k) /\ Obeys(within, C, k)
    BY <1>3, <1>7, <2>2 DEF Obeys, OfChildren
  <2> QED
    BY <2>1, <2>3, Agreement
<1> QED
  BY <1>2, <1>6, <1>7, <1>8, ChildrenAreLessDeep

\* What the provider makes of a criterion whose parts are lowered to these fragments.
Lowered(store, n, parts) ==
    IF n.kind = "leaf" THEN LeafOf(store, n)
    ELSE IF n.kind = "other" \/ parts = {} THEN {}
    ELSE {IF n.kind = "or" THEN UNION parts ELSE Intersection(parts)}

LEMMA LoweredType ==
    ASSUME NEW store, NEW n \in Criteria, NEW parts \in SUBSET SUBSET Rows
    PROVE  Lowered(store, n, parts) \in SUBSET SUBSET Rows
<1>1. LeafOf(store, n) \in SUBSET SUBSET Rows
  BY DEF LeafOf, MongoLeaf, SqlLeaf, DjangoLeaf, Holding, WithNull
<1>2. Intersection(parts) \in SUBSET Rows /\ UNION parts \in SUBSET Rows
  BY DEF Intersection
<1> QED
  BY <1>1, <1>2 DEF Lowered

LEMMA FragmentUnfolds ==
    ASSUME NEW store
    PROVE  \A node \in Criteria :
             Fragment(store, node) =
               Lowered(store, node, UNION {Fragment(store, child) : child \in Children(node)})
<1> DEFINE Def(f, n) ==
             LET parts == UNION {f[child] : child \in Children(n)}
             IN  IF n.kind = "leaf" THEN LeafOf(store, n)
                 ELSE IF n.kind = "other" \/ parts = {} THEN {}
                 ELSE {IF n.kind = "or" THEN UNION parts ELSE Intersection(parts)}
           Is(f) == f = [n \in Criteria |-> Def(f, n)]
           V == SUBSET SUBSET Rows
           Combine == [p \in Criteria \X SUBSET V |-> Lowered(store, p[1], UNION p[2])]
<1>0. \A f, n : Def(f, n) = Lowered(store, n, UNION OfChildren(f, n))
  BY DEF Lowered, OfChildren
<1>1. Combine \in [Criteria \X SUBSET V -> V]
  BY LoweredType
<1>2. PICK f \in [Criteria -> V] :
        \A n \in Criteria : f[n] = Combine[<<n, OfChildren(f, n)>>]
  <2> HIDE DEF V, Combine
  <2> QED
    BY <1>1, TreeRecursion
<1>3. ASSUME NEW n \in Criteria PROVE f[n] = Def(f, n)
  <2>1. <<n, OfChildren(f, n)>> \in Criteria \X SUBSET V
    BY ChildrenAreLessDeep DEF OfChildren
  <2>2. Combine[<<n, OfChildren(f, n)>>] = Lowered(store, n, UNION OfChildren(f, n))
    BY <2>1
  <2> HIDE DEF Def, Combine
  <2> QED
    BY <1>0, <1>2, <2>2
<1>4. Is(f)
  <2> HIDE DEF Def
  <2> QED
    BY <1>2, <1>3
<1> DEFINE fragment == CHOOSE g : Is(g)
<1>5. Is(fragment)
  <2> HIDE DEF Is
  <2> QED
    BY <1>4
<1>6. \A n \in Criteria : Fragment(store, n) = fragment[n]
  BY DEF Fragment
<1> HIDE DEF fragment
<1>7. \A n \in Criteria : fragment[n] = Def(fragment, n)
  BY <1>5
<1>8. ASSUME NEW n \in Criteria
      PROVE  OfChildren(fragment, n) = {Fragment(store, child) : child \in Children(n)}
  BY <1>6, ChildrenAreLessDeep DEF OfChildren
<1> HIDE DEF Def
<1> QED
  BY <1>0, <1>6, <1>7, <1>8

LEMMA LeafHoldsType ==
    ASSUME NEW row, NEW n
    PROVE  LeafHolds(row, n) \in BOOLEAN
<1>1. CASE n.op = "isNull"
  <2>1. LeafHolds(row, n) = (row[n.column] = NULL)
    BY <1>1 DEF LeafHolds
  <2> QED
    BY <2>1, Zenon
<1>2. CASE n.op = "isNotNull"
  <2>1. LeafHolds(row, n) = (row[n.column] # NULL)
    BY <1>2 DEF LeafHolds
  <2> QED
    BY <2>1, Zenon
<1>3. CASE n.op \in {"!=", "notLike"}
  <2>1. LeafHolds(row, n) = (row[n.column] \notin n.value)
    BY <1>3 DEF LeafHolds
  <2> QED
    BY <2>1, Zenon
<1>4. CASE n.op \notin {"isNull", "isNotNull", "!=", "notLike"}
  <2>1. LeafHolds(row, n) = (row[n.column] \in n.value)
    BY <1>4 DEF LeafHolds
  <2> QED
    BY <2>1
<1> QED
  BY <1>1, <1>2, <1>3, <1>4

LEMMA HoldsUnfolds ==
    ASSUME NEW row
    PROVE  \A node \in Criteria :
             /\ node.kind = "or" =>
                  (Holds(row, node) <=> \E child \in Children(node) : Holds(row, child))
             /\ node.kind = "and" =>
                  (Holds(row, node) <=> \A child \in Children(node) : Holds(row, child))
             /\ node.kind \notin {"or", "and"} => (Holds(row, node) <=> LeafHolds(row, node))
<1> DEFINE Def(f, n) ==
             IF n.kind = "or" THEN \E child \in Children(n) : f[child]
             ELSE IF n.kind = "and" THEN \A child \in Children(n) : f[child]
             ELSE LeafHolds(row, n)
           Is(f) == f = [n \in Criteria |-> Def(f, n)]
           Judges(n, said) ==
             IF n.kind = "or" THEN TRUE \in said
             ELSE IF n.kind = "and" THEN FALSE \notin said
             ELSE LeafHolds(row, n)
           V == BOOLEAN
           Combine == [p \in Criteria \X SUBSET V |-> Judges(p[1], p[2])]
<1>0. ASSUME NEW n \in Criteria, NEW f \in [Criteria -> BOOLEAN]
      PROVE  Def(f, n) = Judges(n, OfChildren(f, n))
  <2>1. \A child \in Children(n) : f[child] \in BOOLEAN
    BY ChildrenAreLessDeep
  <2>2. CASE n.kind = "or"
    <3>1. Def(f, n) = (\E child \in Children(n) : f[child])
      BY <2>2, Zenon
    <3>2. Judges(n, OfChildren(f, n)) = (TRUE \in OfChildren(f, n))
      BY <2>2, Zenon
    <3>3. (\E child \in Children(n) : f[child]) <=> TRUE \in OfChildren(f, n)
      BY <2>1 DEF OfChildren
    <3> DEFINE some  == \E child \in Children(n) : f[child]
               among == TRUE \in OfChildren(f, n)
    <3> HIDE DEF Def, Judges, some, among
    <3>4. Def(f, n) = some /\ Judges(n, OfChildren(f, n)) = among /\ (some <=> among)
      BY <3>1, <3>2, <3>3, Zenon DEF some, among
    <3>5. some \in BOOLEAN /\ among \in BOOLEAN
      BY DEF some, among
    <3> QED
      BY <3>4, <3>5
  <2>3. CASE n.kind = "and"
    <3>1. Def(f, n) = (\A child \in Children(n) : f[child])
      BY <2>3, Zenon
    <3>2. Judges(n, OfChildren(f, n)) = (FALSE \notin OfChildren(f, n))
      BY <2>3, Zenon
    <3>3. (\A child \in Children(n) : f[child]) <=> FALSE \notin OfChildren(f, n)
      BY <2>1 DEF OfChildren
    <3> HIDE DEF Def, Judges
    <3> QED
      BY <3>1, <3>2, <3>3, Zenon
  <2>4. CASE n.kind \notin {"or", "and"}
    BY <2>4 DEF LeafHolds
  <2> QED
    BY <2>2, <2>3, <2>4
<1>1. Combine \in [Criteria \X SUBSET V -> V]
  <2>1. ASSUME NEW n, NEW said PROVE Judges(n, said) \in BOOLEAN
    <3>1. CASE n.kind = "or"
      <4>1. Judges(n, said) = (TRUE \in said)
        BY <3>1, Zenon
      <4> HIDE DEF Judges
      <4> QED
        BY <4>1
    <3>2. CASE n.kind = "and"
      <4>1. Judges(n, said) = (FALSE \notin said)
        BY <3>2, Zenon
      <4> HIDE DEF Judges
      <4> QED
        BY <4>1
    <3>3. CASE n.kind \notin {"or", "and"}
      BY <3>3, LeafHoldsType
    <3> QED
      BY <3>1, <3>2, <3>3
  <2> HIDE DEF Judges
  <2> QED
    BY <2>1
<1>2. PICK f \in [Criteria -> V] :
        \A n \in Criteria : f[n] = Combine[<<n, OfChildren(f, n)>>]
  <2> HIDE DEF V, Combine
  <2> QED
    BY <1>1, TreeRecursion
<1>3. ASSUME NEW n \in Criteria PROVE f[n] = Def(f, n)
  <2>1. <<n, OfChildren(f, n)>> \in Criteria \X SUBSET BOOLEAN
    BY ChildrenAreLessDeep DEF OfChildren
  <2>2. Combine[<<n, OfChildren(f, n)>>] = Judges(n, OfChildren(f, n))
    <3> HIDE DEF Judges
    <3> QED
      BY <2>1
  <2> HIDE DEF Def, Combine, Judges
  <2> QED
    BY <1>0, <1>2, <2>2
<1>4. Is(f)
  <2> HIDE DEF Def
  <2> QED
    BY <1>2, <1>3
<1> DEFINE holds == CHOOSE g : Is(g)
<1>5. Is(holds)
  <2> HIDE DEF Is
  <2> QED
    BY <1>4
<1>6. \A n \in Criteria : Holds(row, n) = holds[n]
  BY DEF Holds
<1> HIDE DEF holds
<1>7. \A n \in Criteria : holds[n] = Def(holds, n)
  BY <1>5
<1> TAKE node \in Criteria
<1>8. \A child \in Children(node) : Holds(row, child) = holds[child]
  BY <1>6, ChildrenAreLessDeep
<1>9. CASE node.kind = "or"
  <2>1. Def(holds, node) = (\E child \in Children(node) : holds[child])
    BY <1>9, Zenon
  <2> HIDE DEF Def
  <2> QED
    BY <1>6, <1>7, <1>8, <1>9, <2>1, Zenon
<1>10. CASE node.kind = "and"
  <2>1. Def(holds, node) = (\A child \in Children(node) : holds[child])
    BY <1>10, Zenon
  <2> HIDE DEF Def
  <2> QED
    BY <1>6, <1>7, <1>8, <1>10, <2>1, Zenon
<1>11. CASE node.kind \notin {"or", "and"}
  BY <1>6, <1>7, <1>11 DEF LeafHolds
<1> QED
  BY <1>9, <1>10, <1>11

-----------------------------------------------------------------------------
(* Criteria mean what they are lowered to                                  *)

\* What holds of a criterion whenever it holds of its parts, holds of all.
LEMMA TreeInduction ==
    ASSUME NEW P, \A node \in Criteria : Children(node) \subseteq P => node \in P
    PROVE  Criteria \subseteq P
<1> DEFINE Bad == {node \in Criteria : node \notin P}
           T == {Depth[node] : node \in Bad}
<1> SUFFICES ASSUME Bad # {} PROVE FALSE
  OBVIOUS
<1>1. T \in SUBSET Nat /\ T # {}
  BY CriteriaNest
<1>2. PICK n \in T : \A m \in T : n <= m
  <2> HIDE DEF T
  <2> QED
    BY <1>1, LeastNumber
<1>3. PICK node \in Bad : n = Depth[node]
  BY <1>2
<1>4. ASSUME NEW child \in Children(node) PROVE child \in P
  <2>1. child \in Criteria /\ ~(n <= Depth[child])
    BY <1>3, ChildrenAreLessDeep
  <2> QED
    BY <1>2, <2>1
<1> QED
  BY <1>3, <1>4

\* Every store selects by a leaf only rows the leaf holds of; NULL is where they differ.
LEMMA LeafIsSound ==
    ASSUME NEW store, NEW n, NEW s \in LeafOf(store, n), NEW row \in s
    PROVE  LeafHolds(row, n)
<1>1. CASE store = "mongo"
  <2>1. s \in MongoLeaf(n)
    BY <1>1 DEF LeafOf
  <2>2. Named(n)
    BY <2>1 DEF MongoLeaf
  <2>3. CASE n.op = "isNull"
    BY <2>1, <2>2, <2>3 DEF MongoLeaf, WithNull, LeafHolds
  <2>4. CASE n.op = "isNotNull"
    BY <2>1, <2>2, <2>4 DEF MongoLeaf, WithNull, LeafHolds
  <2>5. CASE n.op = "!="
    BY <2>1, <2>2, <2>5 DEF MongoLeaf, Holding, LeafHolds
  <2>6. CASE n.op \in {"=", "in"}
    BY <2>1, <2>2, <2>6 DEF MongoLeaf, Holding, LeafHolds
  <2>7. CASE n.op \notin {"isNull", "isNotNull", "!=", "=", "in"}
    BY <2>1, <2>2, <2>7 DEF MongoLeaf
  <2> QED
    BY <2>3, <2>4, <2>5, <2>6, <2>7
<1>2. CASE store # "mongo"
  <2>1. IsRelational(n) /\ s \in {SqlLeaf(n), DjangoLeaf(n)}
    <3>1. CASE ~IsRelational(n)
      BY <1>2, <3>1, Zenon DEF LeafOf
    <3>2. CASE IsRelational(n) /\ store = "sqlalchemy"
      BY <3>2 DEF LeafOf
    <3>3. CASE IsRelational(n) /\ store # "sqlalchemy"
      BY <1>2, <3>3 DEF LeafOf
    <3> QED
      BY <3>1, <3>2, <3>3
  <2>2. CASE n.op = "isNull"
    BY <2>1, <2>2 DEF SqlLeaf, DjangoLeaf, WithNull, LeafHolds
  <2>3. CASE n.op = "isNotNull"
    BY <2>1, <2>3 DEF SqlLeaf, DjangoLeaf, WithNull, LeafHolds
  <2>4. CASE n.op \in {"!=", "notLike"}
    <3>1. s \subseteq Rows \ Holding(n)
      BY <2>1, <2>4 DEF SqlLeaf, DjangoLeaf
    <3> QED
      BY <2>4, <3>1 DEF Holding, LeafHolds
  <2>5. CASE n.op \notin {"isNull", "isNotNull", "!=", "notLike"}
    <3>1. s = Holding(n)
      BY <2>1, <2>5 DEF SqlLeaf, DjangoLeaf
    <3> QED
      BY <2>5, <3>1 DEF Holding, LeafHolds
  <2> QED
    BY <2>2, <2>3, <2>4, <2>5
<1> QED
  BY <1>1, <1>2

LEMMA PlainUnfolds ==
    ASSUME NEW store, NEW node \in Criteria, IsPlain(store, node)
    PROVE  /\ node.kind = "leaf" => LeafOf(store, node) # {}
           /\ node.kind # "other"
           /\ node.kind # "leaf" => Children(node) # {}
           /\ \A child \in Children(node) : IsPlain(store, child)
<1>1. node \in Within(node)
  BY WithinUnfolds
<1>2. \A child \in Children(node) : Within(child) \subseteq Within(node)
  BY WithinUnfolds
<1>3. \A child \in Children(node) : IsPlain(store, child)
  BY <1>2 DEF IsPlain
<1>6. CASE node.kind = "leaf"
  BY <1>1, <1>3, <1>6 DEF IsPlain
<1>4. CASE node.kind = "other"
  BY <1>1, <1>4 DEF IsPlain
<1>5. CASE node.kind \notin {"leaf", "other"}
  <2>1. node.children # <<>>
    BY <1>1, <1>5, CriteriaNest DEF IsPlain
  <2>2. node.children \in Seq(Criteria)
    BY CriteriaNest
  <2>3. node.children[1] \in Children(node)
    BY <2>1, <2>2 DEF Children, ToSet
  <2> QED
    BY <1>3, <1>5, <2>3
<1> QED
  BY <1>4, <1>5, <1>6

(* A criterion that a provider can read through and through is lowered, to *)
(* rows of which it holds, however deep it nests and whichever the store   *)
(* (_render_criterion, _render_node, _build_node).                         *)

THEOREM CriterionIsSound ==
    ASSUME NEW store, NEW node \in Criteria, IsPlain(store, node)
    PROVE  /\ Fragment(store, node) # {}
           /\ \A s \in Fragment(store, node) : \A row \in s : Holds(row, node)
<1> DEFINE Sound(n) == IsPlain(store, n) =>
             /\ Fragment(store, n) # {}
             /\ \A s \in Fragment(store, n) : \A row \in s : Holds(row, n)
           P == {n \in Criteria : Sound(n)}
<1>1. ASSUME NEW n \in Criteria, Children(n) \subseteq P, IsPlain(store, n)
      PROVE  /\ Fragment(store, n) # {}
             /\ \A s \in Fragment(store, n) : \A row \in s : Holds(row, n)
  <2> DEFINE parts == UNION {Fragment(store, child) : child \in Children(n)}
  <2>1. Fragment(store, n) = Lowered(store, n, parts)
    BY FragmentUnfolds
  <2>2. \A child \in Children(n) :
          /\ Fragment(store, child) # {}
          /\ \A s \in Fragment(store, child) : \A row \in s : Holds(row, child)
    BY <1>1, PlainUnfolds
  <2>3. CASE n.kind = "leaf"
    <3>1. Fragment(store, n) = LeafOf(store, n)
      <4> HIDE DEF parts
      <4>1. Lowered(store, n, parts) = LeafOf(store, n)
        BY <2>3, Zenon DEF Lowered
      <4> QED
        BY <2>1, <4>1
    <3>2. \A row : Holds(row, n) <=> LeafHolds(row, n)
      BY <2>3, HoldsUnfolds
    <3> QED
      BY <1>1, <2>3, <3>1, <3>2, PlainUnfolds, LeafIsSound
  <2>4. CASE n.kind = "or"
    <3>1. parts # {}
      BY <1>1, <2>2, <2>4, PlainUnfolds
    <3>2. Fragment(store, n) = {UNION parts}
      BY <2>1, <2>4, <3>1 DEF Lowered
    <3>3. ASSUME NEW row \in UNION parts PROVE Holds(row, n)
      <4>1. PICK child \in Children(n) : \E s \in Fragment(store, child) : row \in s
        OBVIOUS
      <4>2. Holds(row, child)
        BY <2>2, <4>1
      <4> QED
        BY <2>4, <4>2, HoldsUnfolds
    <3> QED
      BY <3>2, <3>3
  <2>5. CASE n.kind = "and"
    <3>1. parts # {}
      BY <1>1, <2>2, <2>5, PlainUnfolds
    <3>2. Fragment(store, n) = {Intersection(parts)}
      BY <2>1, <2>5, <3>1 DEF Lowered
    <3>3. ASSUME NEW row \in Intersection(parts), NEW child \in Children(n)
          PROVE  Holds(row, child)
      <4>1. PICK s \in Fragment(store, child) : TRUE
        BY <2>2
      <4>2. row \in s
        BY <3>3 DEF Intersection
      <4> QED
        BY <2>2, <4>2
    <3>4. \A row \in Intersection(parts) : Holds(row, n)
      BY <2>5, <3>3, HoldsUnfolds
    <3> QED
      BY <3>2, <3>4
  <2> QED
    BY <1>1, <2>3, <2>4, <2>5, PlainUnfolds, CriteriaNest
<1>2. \A n \in Criteria : Children(n) \subseteq P => n \in P
  BY <1>1
<1>3. Criteria \subseteq P
  <2> HIDE DEF P
  <2> QED
    BY <1>2, TreeInduction
<1> QED
  BY <1>3
-----------------------------------------------------------------------------
(* What the mappers leave of a query                                       *)

LEMMA NarrowedIs ==
    ASSUME NEW s \in Statement, NEW fragments
    PROVE  LET t == Narrowed(s, fragments) IN
             /\ t \in Statement
             /\ t.kind = s.kind /\ t.table = s.table /\ t.columns = s.columns
             /\ t.where \subseteq s.where
             /\ \A f \in fragments : t.where \subseteq f
BY DEF Narrowed, Intersection, Statement

\* The rows a disjunction's terms are true of are rows.
LEMMA TermsAreRows ==
    ASSUME NEW c \in Condition
    PROVE  /\ c.terms \in Seq(SUBSET Rows) /\ Len(c.terms) \in Nat /\ Len(c.terms) > 0
           /\ \A t \in 1..Len(c.terms) : c.terms[t] \subseteq Rows
           /\ Head(c.terms) \subseteq Rows /\ Last(c.terms) \subseteq Rows
           /\ Len(c.terms) > 1 \/ Says(c) = Head(c.terms)
<1>1. c.terms \in Seq(SUBSET Rows) /\ c.terms # <<>>
  BY DEF Condition
<1>2. Len(c.terms) \in Nat /\ Len(c.terms) > 0
  BY <1>1
<1>3. \A t \in 1..Len(c.terms) : c.terms[t] \subseteq Rows
  BY <1>1
<1>4. Head(c.terms) = c.terms[1] /\ Last(c.terms) = c.terms[Len(c.terms)]
  BY <1>1, <1>2 DEF Last
<1>5. ASSUME ~(Len(c.terms) > 1) PROVE Says(c) = c.terms[1]
  <2> DEFINE n == Len(c.terms)
  <2>1. n \in Nat /\ n > 0 /\ ~(n > 1)
    BY <1>2, <1>5
  <2>2. n = 1
    <3> HIDE DEF n
    <3> QED
      BY <2>1
  <2>3. ToSet(c.terms) = {c.terms[1]}
    BY <1>1, <2>2 DEF ToSet
  <2> QED
    BY <2>3 DEF Says
<1> QED
  BY <1>1, <1>2, <1>3, <1>4, <1>5

\* Set side by side, texts without an OR of their own mean what they say.
LEMMA JoinedIs ==
    ASSUME NEW conditions \in Seq(Condition), NEW head \in SUBSET Rows
    PROVE  /\ Joined(head, conditions) \subseteq Rows
           /\ (\A c \in ToSet(conditions) : ~IsDisjunction(c)) =>
                /\ Joined(head, conditions) \subseteq head
                /\ \A f \in TextFragments(Strings(conditions)) :
                     Joined(head, conditions) \subseteq f
<1> DEFINE texts    == {k \in DOMAIN conditions : conditions[k].kind # "not_string"}
           terms(k) == conditions[k].terms
           splits   == {k \in texts : IsDisjunction(conditions[k])}
           opens(k) == IF k = 0 THEN head ELSE Last(terms(k))
           after(k) == {j \in texts : k < j /\ ~ \E i \in splits : k < i /\ i < j}
           run(k)   == {row \in opens(k) : \A j \in after(k) : row \in Head(terms(j))}
           inner(k) == UNION {terms(k)[t] : t \in 2..(Len(terms(k)) - 1)}
<1>1. Joined(head, conditions) = run(0) \cup UNION {run(k) \cup inner(k) : k \in splits}
  BY Zenon DEF Joined
<1>2. \A k \in DOMAIN conditions : conditions[k] \in Condition /\ k \in Nat /\ k > 0
  OBVIOUS
<1>3. run(0) \subseteq head
  OBVIOUS
<1>4. ASSUME NEW k \in splits PROVE run(k) \cup inner(k) \subseteq Rows
  <2>1. k # 0 /\ conditions[k] \in Condition
    BY <1>2
  <2>2. run(k) \subseteq Last(terms(k))
    BY <2>1
  <2>3. ASSUME NEW t \in 2..(Len(terms(k)) - 1) PROVE terms(k)[t] \subseteq Rows
    <3>1. t \in 1..Len(terms(k))
      BY <2>1, TermsAreRows
    <3> QED
      BY <2>1, <3>1, TermsAreRows
  <2> QED
    BY <2>1, <2>2, <2>3, TermsAreRows
<1>5. ASSUME \A c \in ToSet(conditions) : ~IsDisjunction(c)
      PROVE  /\ Joined(head, conditions) \subseteq head
             /\ \A f \in TextFragments(Strings(conditions)) :
                  Joined(head, conditions) \subseteq f
  <2>1. splits = {}
    BY <1>5 DEF ToSet
  <2>2. Joined(head, conditions) = run(0)
    BY <1>1, <2>1
  <2>3. ASSUME NEW f \in TextFragments(Strings(conditions)) PROVE run(0) \subseteq f
    <3>1. PICK c \in ToSet(conditions) : c.kind # "not_string" /\ f = Says(c)
      BY DEF TextFragments, Strings
    <3>2. PICK k \in DOMAIN conditions : conditions[k] = c
      BY <3>1 DEF ToSet
    <3>3. k \in after(0)
      BY <1>2, <2>1, <3>1, <3>2
    <3>4. run(0) \subseteq Head(terms(k))
      BY <3>3
    <3>5. c \in Condition
      BY <1>2, <3>2
    <3>6. ~(Len(c.terms) > 1)
      BY <1>5, <3>1 DEF IsDisjunction
    <3> QED
      BY <3>1, <3>2, <3>4, <3>5, <3>6, TermsAreRows
  <2> QED
    BY <1>3, <2>2, <2>3
<1> HIDE DEF run, inner
<1>6. Joined(head, conditions) \subseteq Rows
  BY <1>1, <1>3, <1>4
<1> QED
  BY <1>5, <1>6

\* The fragments a store's mapper adds to a query.
Added(store) ==
    Fragments(store, obligation.criteria) \cup
      (IF store = "mongo" THEN Parsed(Strings(obligation.conditions))
                          ELSE TextFragments(Strings(obligation.conditions)))

\* What every mapper guarantees.
IsNarrowed(s, t, store) ==
    /\ t.where \subseteq s.where
    /\ \A f \in Added(store) : t.where \subseteq f

LEMMA SqlRewriteIs ==
    ASSUME NEW s \in Statement, NEW t \in SqlRewrite(s),
           obligation.conditions \in Seq(Condition)
    PROVE  /\ (\A c \in ToSet(obligation.conditions) : ~IsDisjunction(c))
                => IsNarrowed(s, t, "sqlalchemy")
           /\ t.where \subseteq Rows
           /\ t.columns \subseteq Columns \cup {Key}
           /\ s.kind # "text"
           /\ obligation.criteria # <<>> => SupportsWhere(s)
           /\ \A leaf \in LeavesOf(obligation.criteria) : IsRelational(leaf)
           /\ obligation.columns # {} /\ s.kind \in {"select", "entity"}
                => t.columns \subseteq obligation.columns
<1> DEFINE strings == Strings(obligation.conditions)
           h == Narrowed(s, Fragments("sqlalchemy", obligation.criteria))
           n == [h EXCEPT !.where = Joined(@, obligation.conditions)]
<1>1. /\ s.kind # "text"
      /\ obligation.criteria # <<>> => SupportsWhere(s)
      /\ \A leaf \in LeavesOf(obligation.criteria) : IsRelational(leaf)
      /\ t \in IF obligation.columns = {} THEN {n} ELSE ApplyColumns(n)
  <2> HIDE DEF n, h
  <2>1. SqlRewrite(s) =
          IF \/ s.kind = "text"
             \/ (obligation.criteria # <<>> \/ strings # {}) /\ ~SupportsWhere(s)
             \/ \E leaf \in LeavesOf(obligation.criteria) : ~IsRelational(leaf)
          THEN {}
          ELSE IF obligation.columns = {} THEN {n} ELSE ApplyColumns(n)
    BY Zenon DEF SqlRewrite, n, h
  <2> QED
    BY <2>1
<1>2. /\ h \in Statement
      /\ h.kind = s.kind
      /\ h.where \subseteq s.where
      /\ \A f \in Fragments("sqlalchemy", obligation.criteria) : h.where \subseteq f
  BY NarrowedIs
<1> HIDE DEF h
<1>3. h.where \in SUBSET Rows /\ h.columns \subseteq Columns \cup {Key}
  BY <1>2 DEF Statement
<1>4. /\ n.where = Joined(h.where, obligation.conditions)
      /\ n.kind = s.kind /\ n.columns = h.columns
      /\ n \in [store: Stores, kind: UNION {Kinds[store] : store \in Stores},
                 filter: {"given", "missing"}, table: SUBSET (Columns \cup {Key}),
                 where: {Joined(h.where, obligation.conditions)},
                 columns: SUBSET (Columns \cup {Key})]
  BY <1>2 DEF Statement
<1>5. n.where \subseteq Rows
  BY <1>3, <1>4, JoinedIs
<1>6. (\A c \in ToSet(obligation.conditions) : ~IsDisjunction(c)) =>
        n.where \subseteq s.where /\ \A f \in Added("sqlalchemy") : n.where \subseteq f
  BY <1>2, <1>3, <1>4, JoinedIs DEF Added
<1> HIDE DEF n
<1>7. /\ t.where = n.where
      /\ t.columns \subseteq n.columns
      /\ obligation.columns # {} /\ s.kind \in {"select", "entity"}
           => t.columns \subseteq obligation.columns
  BY <1>1, <1>4 DEF ApplyColumns
<1> QED
  BY <1>1, <1>3, <1>4, <1>5, <1>6, <1>7 DEF IsNarrowed

LEMMA DjangoRewriteIs ==
    ASSUME NEW s \in Statement, NEW t \in DjangoRewrite(s)
    PROVE  /\ t.where \subseteq s.where
           /\ t.where \subseteq Rows
           /\ t.columns \subseteq Columns \cup {Key}
           /\ IsTarget(s) =>
                /\ IsNarrowed(s, t, "django")
                /\ obligation.criteria # <<>> => s.kind # "union"
                /\ \A leaf \in LeavesOf(obligation.criteria) : IsRelational(leaf)
                /\ obligation.columns \cap s.table # {} /\ AcceptsProjection(s)
                        /\ s.kind # "union"
                     => t.columns \subseteq obligation.columns \cup {Key}
<1> DEFINE strings == Strings(obligation.conditions)
           n == Narrowed(s, Fragments("django", obligation.criteria)
                              \cup TextFragments(strings))
<1>1. s.where \subseteq Rows /\ s.columns \subseteq Columns \cup {Key}
        /\ s.table \subseteq Columns \cup {Key}
  BY DEF Statement
<1>2. CASE ~IsTarget(s)
  <2>1. t = s
    BY <1>2 DEF DjangoRewrite
  <2> QED
    BY <1>1, <1>2, <2>1
<1>3. CASE IsTarget(s)
  <2>1. /\ obligation.criteria # <<>> => s.kind # "union"
        /\ \A leaf \in LeavesOf(obligation.criteria) : IsRelational(leaf)
        /\ t = Only(n)
    <3> HIDE DEF n
    <3> QED
      BY <1>3 DEF DjangoRewrite, n
  <2>2. /\ n \in Statement
        /\ n.kind = s.kind /\ n.table = s.table /\ n.columns = s.columns
        /\ n.where \subseteq s.where
        /\ \A f \in Added("django") : n.where \subseteq f
    BY NarrowedIs DEF Added
  <2> HIDE DEF n
  <2>3. /\ t.where = n.where
        /\ obligation.columns \cap s.table # {} /\ AcceptsProjection(s) /\ s.kind # "union"
             => t.columns = (obligation.columns \cap s.table) \cup {Key}
        /\ t.columns \subseteq obligation.columns \cup {Key} \/ t.columns = s.columns
        /\ t.columns \subseteq s.table \cup {Key} \/ t.columns = s.columns
    BY <2>1, <2>2 DEF Only, AcceptsProjection, Statement
  <2> QED
    BY <1>1, <2>1, <2>2, <2>3 DEF IsNarrowed
<1> QED
  BY <1>2, <1>3

LEMMA MongoRewriteIs ==
    ASSUME NEW s \in Statement, NEW t \in MongoRewrite(s)
    PROVE  /\ IsNarrowed(s, t, "mongo")
           /\ t.where \subseteq Rows
           /\ t.columns \subseteq Columns \cup {Key}
           /\ s.kind # "pipeline"
           /\ \A c \in ToSet(obligation.conditions) : c.kind # "unparsable"
<1> DEFINE n == Narrowed(s, Fragments("mongo", obligation.criteria)
                              \cup Parsed(Strings(obligation.conditions)))
<1>1. /\ t = n
      /\ s.kind # "pipeline"
      /\ \A c \in ToSet(obligation.conditions) : c.kind # "unparsable"
  BY DEF MongoRewrite, Merge
<1>2. /\ n \in Statement
      /\ n.where \subseteq s.where
      /\ \A f \in Added("mongo") : n.where \subseteq f
  BY NarrowedIs DEF Added
<1> HIDE DEF n
<1>3. n.where \subseteq Rows /\ n.columns \subseteq Columns \cup {Key}
  BY <1>2 DEF Statement
<1> QED
  BY <1>1, <1>2, <1>3 DEF IsNarrowed
-----------------------------------------------------------------------------
(* The inductive invariant                                                 *)

\* The queries that get to the hook of the store the obligation is planned on.
Hooked == plan = asked.store /\ Intercepted(asked) /\ (plan = "mongo" => HasQuery(asked))

Rewrites ==
    IF plan = "sqlalchemy" THEN SqlRewrite(asked)
    ELSE IF plan = "django" THEN DjangoRewrite(asked)
    ELSE MongoRewrite(asked)

\* What is sent is the query the method issued, rewritten if it got to the hook.
IInv ==
    /\ TypeOK
    /\ obligation \in Obligations
    /\ stage \notin {"planning", "denied", "running"} => asked \in Statements
    /\ stage = "issued" => statement = asked
    /\ stage \in {"sent", "executed", "failed"} =>
         IF Hooked THEN statement \in Rewrites ELSE statement = asked
    /\ stage = "executed" => Accepted

LEMMA NoStatementIsNone ==
    /\ NoStatement \notin Statements
    /\ NoStatement.where = {} /\ NoStatement.table = {} /\ NoStatement.columns = {}
<1>1. NoStatement.store = "none"
  BY DEF NoStatement
<1>2. ASSUME NoStatement \in Statements PROVE FALSE
  <2>1. NoStatement.store \in Stores
    BY <1>2, QueryRewritingAssumption DEF Statement
  <2> QED
    BY <1>1, <2>1 DEF Stores
<1> QED
  BY <1>2 DEF NoStatement

LEMMA StatementsAreTyped ==
    ASSUME NEW s \in Statements
    PROVE  /\ s \in Statement /\ s.kind \in Kinds[s.store]
           /\ s.where \subseteq Rows /\ s.table \subseteq Columns \cup {Key}
           /\ s.columns \subseteq Columns \cup {Key}
           /\ s # NoStatement
BY QueryRewritingAssumption, NoStatementIsNone DEF Statement

\* The conditions of an obligation are conditions.
LEMMA ConditionsAreTyped == IInv => obligation.conditions \in Seq(Condition)
BY QueryRewritingAssumption DEF IInv

\* A hook sends what its mapper makes of the query, or refuses the call.
LEMMA DischargesKeepInv ==
    ASSUME IInv, stage = "issued", Hooked,
           Discharged(Rewrites),
           UNCHANGED <<registered, obligation, plan, asked>>
    PROVE  IInv'
<1>0. asked \in Statements /\ asked # NoStatement
  BY StatementsAreTyped DEF IInv
<1>1. asked \in Statement
  BY <1>0, StatementsAreTyped
<1>2. \A t \in Rewrites : t.where \subseteq Rows /\ t.columns \subseteq Columns \cup {Key}
  <2>1. plan \in Stores
    BY <1>0, StatementsAreTyped DEF Hooked, Statement
  <2>2. CASE plan = "sqlalchemy"
    BY <1>1, <2>2, ConditionsAreTyped, SqlRewriteIs DEF Rewrites
  <2>3. CASE plan = "django"
    BY <1>1, <2>3, DjangoRewriteIs DEF Rewrites
  <2>4. CASE plan = "mongo"
    BY <1>1, <2>4, MongoRewriteIs DEF Rewrites
  <2> QED
    BY <2>1, <2>2, <2>3, <2>4 DEF Stores
<1>3. Hooked' /\ Rewrites' = Rewrites
  <2>1. obligation' = obligation /\ plan' = plan /\ asked' = asked
    OBVIOUS
  <2>2. Hooked' = Hooked
    BY ONLY <2>1 DEF Hooked, HasQuery, HasDefault, Intercepted
  <2>3. Rewrites' = Rewrites
    BY ONLY <2>1 DEF Rewrites, SqlRewrite, DjangoRewrite, MongoRewrite, Merge, Narrowed,
                     Joined, IsDisjunction, ApplyColumns, Only, IsTarget, TargetColumns
  <2> QED
    BY <2>2, <2>3
<1>4. CASE Rewrites = {}
  <2>1. stage' = "refused" /\ statement' = statement
    BY <1>4 DEF Discharged
  <2>2. TypeOK'
    BY <1>0, <2>1 DEF IInv, TypeOK, Stages
  <2> QED
    BY <1>0, <2>1, <2>2 DEF IInv
<1>5. CASE Rewrites # {}
  <2>1. stage' = "sent" /\ statement' \in Rewrites
    BY <1>5 DEF Discharged
  <2>2. TypeOK'
    BY <1>0, <1>2, <2>1 DEF IInv, TypeOK, Stages
  <2> QED
    BY <1>0, <1>3, <2>1, <2>2 DEF IInv
<1> QED
  BY <1>4, <1>5

LEMMA InvInductive ==
    /\ Init => IInv
    /\ IInv /\ [Next]_vars => IInv'
<1>1. ASSUME Init PROVE IInv
  BY <1>1, QueryRewritingAssumption, NoStatementIsNone DEF Init, IInv, TypeOK, Stages
<1>2. ASSUME IInv, [Next]_vars PROVE IInv'
  <2>1. CASE Plans
    <3>1. Claimants \subseteq registered /\ "none" \notin registered
      BY <1>2 DEF Claimants, IInv, TypeOK, Stores
    <3>2. stage' \in {"running", "denied"}
            /\ (stage' = "running" => plan' \in Claimants)
            /\ (stage' = "denied" => plan' = "none")
      BY <2>1 DEF Plans
    <3>3. /\ stage = "planning"
          /\ UNCHANGED <<registered, obligation, asked, statement>>
      BY <2>1 DEF Plans
    <3>4. TypeOK'
      BY <1>2, <3>1, <3>2, <3>3 DEF IInv, TypeOK, Stages
    <3> QED
      BY <1>2, <3>2, <3>3, <3>4 DEF IInv
  <2>2. ASSUME NEW s \in Statements, Issues(s) PROVE IInv'
    BY <1>2, <2>2, StatementsAreTyped DEF Issues, IInv, TypeOK, Stages
  <2>3. CASE SqlDischarges
    <3>1. Hooked /\ Rewrites = SqlRewrite(asked)
      BY <2>3 DEF SqlDischarges, Hooked, Rewrites
    <3> QED
      BY <1>2, <2>3, <3>1, DischargesKeepInv DEF SqlDischarges
  <2>4. CASE DjangoDischarges
    <3>1. Hooked /\ Rewrites = DjangoRewrite(asked)
      BY <2>4 DEF DjangoDischarges, Hooked, Rewrites
    <3> QED
      BY <1>2, <2>4, <3>1, DischargesKeepInv DEF DjangoDischarges
  <2>5. CASE MongoDischarges
    <3>1. Hooked /\ Rewrites = MongoRewrite(asked)
      BY <2>5 DEF MongoDischarges, Hooked, Rewrites
    <3> QED
      BY <1>2, <2>5, <3>1, DischargesKeepInv DEF MongoDischarges
  <2>6. CASE PassesBy
    <3>1. /\ stage = "issued" /\ stage' = "sent"
          /\ UNCHANGED <<registered, obligation, plan, asked, statement>>
      BY <2>6 DEF PassesBy
    <3>2. ~Hooked
      BY <2>6 DEF PassesBy, Hooked
    <3>3. ~Hooked'
      BY <3>1, <3>2 DEF Hooked, HasQuery, HasDefault, Intercepted
    <3>4. TypeOK'
      BY <1>2, <3>1 DEF IInv, TypeOK, Stages
    <3> QED
      BY <1>2, <3>1, <3>3, <3>4 DEF IInv
  <2>7. CASE Executes
    <3>1. /\ stage = "sent"
          /\ stage' = IF Accepted THEN "executed" ELSE "failed"
          /\ UNCHANGED <<registered, obligation, plan, asked, statement>>
      BY <2>7 DEF Executes
    <3>2. Hooked' = Hooked /\ Rewrites' = Rewrites /\ Accepted' = Accepted
      BY <3>1 DEF Hooked, HasQuery, HasDefault, Intercepted, Rewrites, SqlRewrite,
                  DjangoRewrite, MongoRewrite, Merge, Narrowed, Joined, IsDisjunction,
                  ApplyColumns, Only, IsTarget, TargetColumns, Accepted
    <3>3. TypeOK'
      BY <1>2, <3>1 DEF IInv, TypeOK, Stages
    <3> QED
      BY <1>2, <3>1, <3>2, <3>3 DEF IInv
  <2>8. CASE UNCHANGED vars
    <3>1. Hooked' = Hooked /\ Rewrites' = Rewrites /\ Accepted' = Accepted
      BY <2>8 DEF vars, Hooked, HasQuery, HasDefault, Intercepted, Rewrites, SqlRewrite,
                  DjangoRewrite, MongoRewrite, Merge, Narrowed, Joined, IsDisjunction,
                  ApplyColumns, Only, IsTarget, TargetColumns, Accepted
    <3>2. TypeOK'
      BY <1>2, <2>8 DEF vars, IInv, TypeOK
    <3> QED
      BY <1>2, <2>8, <3>1, <3>2 DEF vars, IInv
  <2> QED
    BY <1>2, <2>1, <2>2, <2>3, <2>4, <2>5, <2>6, <2>7, <2>8 DEF Next
<1> QED
  BY <1>1, <1>2

(* In every state of a call, what was sent is the query the method issued  *)
(* or, if it got to the hook of the store the obligation is planned on,    *)
(* what that store's mapper makes of it (_sapl_listener, _sapl_execute_sql,*)
(* _discharge).                                                            *)

THEOREM RewritingInvariant == Spec => []IInv
BY InvInductive, PTL DEF Spec
-----------------------------------------------------------------------------
(* What follows for a query that was executed                              *)

\* A query the plan answers for, and that the store accepts, got to the hook.
LEMMA AnswerableIsRewritten ==
    ASSUME IInv, stage = "executed", Answerable
    PROVE  /\ plan \in Stores
           /\ asked \in Statement /\ asked.kind \in Kinds[plan]
           /\ plan = "sqlalchemy" => statement \in SqlRewrite(asked)
           /\ plan = "django"     => statement \in DjangoRewrite(asked) /\ IsTarget(asked)
           /\ plan = "mongo"      => statement \in MongoRewrite(asked)
           /\ ConditionsKeepTogether => IsNarrowed(asked, statement, plan)
<1>0. plan = asked.store /\ Intercepted(asked)
  BY Zenon DEF Answerable
<1>1. asked \in Statement /\ asked.kind \in Kinds[asked.store] /\ plan = asked.store
  BY <1>0, StatementsAreTyped DEF IInv
<1>2. plan \in Stores
  BY <1>1 DEF Statement
<1>3. Hooked
  BY <1>0 DEF IInv, Accepted, Hooked, HasQuery, HasDefault
<1>4. statement \in Rewrites
  BY <1>3 DEF IInv
<1>5. plan = "django" => IsTarget(asked)
  <2> SUFFICES ASSUME plan = "django" PROVE IsTarget(asked)
    OBVIOUS
  <2> DEFINE named == {leaf.column : leaf \in LeavesOf(obligation.criteria)} \ {""}
  <2>1. asked.table # {}
    BY Zenon DEF Answerable
  <2>2. CASE named = {}
    <3>1. \A leaf \in LeavesOf(obligation.criteria) : leaf.column = ""
      BY <2>2, Zenon
    <3>2. obligation.columns \subseteq asked.table
      BY <3>1, Zenon DEF Answerable
    <3> QED
      BY <2>1, <2>2, <3>2, Zenon DEF IsTarget, TargetColumns
  <2>3. CASE named # {}
    <3>1. \A leaf \in LeavesOf(obligation.criteria) : leaf.column \in asked.table \cup {""}
      BY Zenon DEF Answerable
    <3>2. named \subseteq asked.table
      BY <3>1, Zenon
    <3> QED
      BY <2>1, <2>3, <3>2, Zenon DEF IsTarget, TargetColumns
  <2> HIDE DEF named
  <2> QED
    BY <2>2, <2>3
<1>6. ASSUME ConditionsKeepTogether PROVE IsNarrowed(asked, statement, plan)
  <2>1. CASE plan = "sqlalchemy"
    BY <1>1, <1>4, <1>6, <2>1, ConditionsAreTyped, SqlRewriteIs
    DEF Rewrites, ConditionsKeepTogether
  <2>2. CASE plan = "django"
    BY <1>1, <1>4, <1>5, <2>2, DjangoRewriteIs DEF Rewrites
  <2>3. CASE plan = "mongo"
    BY <1>1, <1>4, <2>3, MongoRewriteIs DEF Rewrites
  <2> QED
    BY <1>2, <2>1, <2>2, <2>3 DEF Stores
<1> QED
  BY <1>1, <1>2, <1>4, <1>5, <1>6 DEF Rewrites

LEMMA InvRefuses ==
    ASSUME IInv
    PROVE  UnloweredIsRefused
<1> SUFFICES ASSUME stage = "executed", Answerable
             PROVE  IF plan = "mongo"
                    THEN /\ asked.kind # "pipeline"
                         /\ \A c \in ToSet(obligation.conditions) : c.kind # "unparsable"
                    ELSE /\ \A leaf \in LeavesOf(obligation.criteria) : IsRelational(leaf)
                         /\ asked.kind \in {"union", "text", "insert"}
                              => obligation.criteria = <<>>
  BY DEF UnloweredIsRefused
<1>1. /\ plan \in Stores
      /\ asked \in Statement /\ asked.kind \in Kinds[plan]
      /\ plan = "sqlalchemy" => statement \in SqlRewrite(asked)
      /\ plan = "django"     => statement \in DjangoRewrite(asked) /\ IsTarget(asked)
      /\ plan = "mongo"      => statement \in MongoRewrite(asked)
  BY AnswerableIsRewritten
<1>2. CASE plan = "sqlalchemy"
  BY <1>1, <1>2, ConditionsAreTyped, SqlRewriteIs DEF SupportsWhere
<1>3. CASE plan = "django"
  <2>1. asked.kind \notin {"text", "insert"}
    BY <1>1, <1>3 DEF Kinds
  <2> QED
    BY <1>1, <1>3, <2>1, DjangoRewriteIs
<1>4. CASE plan = "mongo"
  BY <1>1, <1>4, MongoRewriteIs
<1> QED
  BY <1>1, <1>2, <1>3, <1>4 DEF Stores

(* In every state of a call its variables have their types, nothing is     *)
(* sent without a plan, and what cannot be lowered has kept the query from *)
(* running: a malformed leaf or a statement without a WHERE for the        *)
(* relational stores, a pipeline or a condition that is no JSON for        *)
(* MongoDB ("fails closed").                                               *)

THEOREM CallHolds == Spec => []CallInv
<1>1. IInv => CallInv
  BY InvRefuses DEF CallInv, IInv
<1> QED
  BY <1>1, RewritingInvariant, PTL

(* A query touches no row that the method's own query would not have       *)
(* touched, whatever the obligation, its nesting and its mistakes, and     *)
(* whatever the query, unless it goes to SQLAlchemy with a textual         *)
(* condition that has an OR outside parentheses (_build_predicate).        *)

THEOREM RewritingNarrows == Spec => []NarrowsOnly
<1>1. ASSUME IInv, stage = "executed", ConditionsKeepTogether
      PROVE  statement.where \subseteq asked.where
  <2>1. asked \in Statement /\ asked.store \in Stores
    BY <1>1, StatementsAreTyped DEF IInv, Statement
  <2>2. CASE ~Hooked
    BY <1>1, <2>2 DEF IInv
  <2>3. CASE Hooked
    <3>1. statement \in Rewrites /\ plan \in Stores
      BY <1>1, <2>1, <2>3 DEF IInv, Hooked
    <3>2. CASE plan = "sqlalchemy"
      BY <1>1, <2>1, <3>1, <3>2, ConditionsAreTyped, SqlRewriteIs
      DEF Rewrites, IsNarrowed, ConditionsKeepTogether
    <3>3. CASE plan = "django"
      BY <2>1, <3>1, <3>3, DjangoRewriteIs DEF Rewrites
    <3>4. CASE plan = "mongo"
      BY <2>1, <3>1, <3>4, MongoRewriteIs DEF Rewrites, IsNarrowed
    <3> QED
      BY <3>1, <3>2, <3>3, <3>4 DEF Stores
  <2> QED
    BY <2>2, <2>3
<1>2. IInv => NarrowsOnly
  BY <1>1 DEF NarrowsOnly
<1> QED
  BY <1>2, RewritingInvariant, PTL

LEMMA InvSatisfies ==
    ASSUME IInv
    PROVE  RowsSatisfyObligation
<1> SUFFICES ASSUME stage = "executed", Answerable, ConditionsKeepTogether,
                    \A node \in ToSet(obligation.criteria) : IsPlain(plan, node),
                    NEW row \in statement.where
             PROVE  /\ \A node \in ToSet(obligation.criteria) : Holds(row, node)
                    /\ \A c \in ToSet(obligation.conditions) :
                         c.kind = "fragment" => row \in Says(c)
  BY DEF RowsSatisfyObligation
<1>1. plan \in Stores /\ IsNarrowed(asked, statement, plan)
  BY AnswerableIsRewritten
<1>2. \A f \in Added(plan) : row \in f
  BY <1>1 DEF IsNarrowed
<1>3. ASSUME NEW node \in ToSet(obligation.criteria) PROVE Holds(row, node)
  <2>1. obligation.criteria \in Seq(Criteria)
    BY QueryRewritingAssumption DEF IInv
  <2>2. node \in Criteria
    BY <2>1 DEF ToSet
  <2>3. /\ Fragment(plan, node) # {}
        /\ \A s \in Fragment(plan, node) : \A r \in s : Holds(r, node)
    BY <2>2, CriterionIsSound
  <2>4. PICK s \in Fragment(plan, node) : TRUE
    BY <2>3
  <2>5. s \in Added(plan)
    BY <2>4 DEF Added, Fragments
  <2> QED
    BY <1>2, <2>3, <2>4, <2>5
<1>4. ASSUME NEW c \in ToSet(obligation.conditions), c.kind = "fragment"
      PROVE  row \in Says(c)
  <2>1. Says(c) \in Added(plan)
    BY <1>4 DEF Added, Strings, TextFragments, Parsed
  <2> QED
    BY <1>2, <2>1
<1> QED
  BY <1>3, <1>4

LEMMA InvProjects ==
    ASSUME IInv
    PROVE  ColumnsAreProjected
<1> SUFFICES ASSUME stage = "executed", Answerable,
                    obligation.columns \cap asked.table # {}
             PROVE  /\ plan = "sqlalchemy" /\ asked.kind \in {"select", "entity"}
                         => statement.columns \subseteq obligation.columns
                    /\ plan = "django" /\ AcceptsProjection(asked) /\ asked.kind # "union"
                         => statement.columns \subseteq obligation.columns \cup {Key}
  BY DEF ColumnsAreProjected
<1>1. /\ asked \in Statement
      /\ plan = "sqlalchemy" => statement \in SqlRewrite(asked)
      /\ plan = "django"     => statement \in DjangoRewrite(asked) /\ IsTarget(asked)
  BY AnswerableIsRewritten
<1>2. CASE plan = "sqlalchemy"
  BY <1>1, <1>2, ConditionsAreTyped, SqlRewriteIs
<1>3. CASE plan = "django"
  BY <1>1, <1>3, DjangoRewriteIs
<1> QED
  BY <1>2, <1>3

(* A query the plan answers for touches only rows of which every criterion *)
(* and condition of the obligation holds, in each of the three stores and  *)
(* however deep the criteria nest, unless SQLAlchemy is given a textual    *)
(* condition with an OR outside parentheses; and where the store projects  *)
(* it loads nothing but the obligation's columns.                          *)

THEOREM RewritingObeys == Spec => []ObeysObligation
<1>1. IInv => ObeysObligation
  BY InvSatisfies, InvProjects DEF ObeysObligation
<1> QED
  BY <1>1, RewritingInvariant, PTL
-----------------------------------------------------------------------------
(* Sequences                                                               *)

\* What the recursive function of FlattenSeq is to be.
IsFlattening(f, seqs) ==
    f = [i \in 1..Len(seqs) |-> IF i = 1 THEN seqs[i] ELSE f[i - 1] \o seqs[i]]

LEMMA FlatteningExists ==
    ASSUME NEW S, NEW seqs \in Seq(Seq(S))
    PROVE  \E f : IsFlattening(f, seqs)
<1> DEFINE Def(f, i) == IF i = 1 THEN seqs[i] ELSE f[i - 1] \o seqs[i]
           P == {m \in Nat : \E f : f = [i \in 1..m |-> Def(f, i)]}
           n == Len(seqs)
<1>0. n \in Nat
  OBVIOUS
<1>1. 0 \in P
  <2>1. \E f : f = [i \in 1..0 |-> Def(f, i)]
    <3> DEFINE e == [i \in 1..0 |-> seqs[i]]
    <3>1. e = [i \in 1..0 |-> Def(e, i)]
      OBVIOUS
    <3> QED
      BY <3>1
  <2> QED
    BY <2>1
<1>2. ASSUME NEW m \in 0..(n - 1), m \in P PROVE m + 1 \in P
  <2>1. PICK f : f = [i \in 1..m |-> Def(f, i)]
    BY <1>2
  <2> DEFINE g == [i \in 1..(m + 1) |-> IF i <= m THEN f[i] ELSE Def(f, i)]
  <2>2. ASSUME NEW i \in 1..(m + 1) PROVE g[i] = Def(g, i)
    <3>1. CASE i <= m
      <4>1. i \in 1..m
        BY <3>1
      <4>3. f[i] = Def(f, i)
        <5> HIDE DEF Def, g
        <5> QED
          BY <2>1, <4>1
      <4>2. i # 1 => g[i - 1] = f[i - 1]
        BY <3>1
      <4> QED
        BY <3>1, <4>3, <4>2
    <3>2. CASE ~(i <= m)
      <4>1. i # 1 => g[i - 1] = f[i - 1]
        BY <3>2
      <4> QED
        BY <3>2, <4>1
    <3> QED
      BY <3>1, <3>2
  <2>3. g = [i \in 1..(m + 1) |-> Def(g, i)]
    <3>1. g = [i \in 1..(m + 1) |-> g[i]]
      OBVIOUS
    <3> HIDE DEF g, Def
    <3> QED
      BY <2>2, <3>1
  <2>4. m + 1 \in Nat
    OBVIOUS
  <2> HIDE DEF g, Def
  <2> QED
    BY <2>3, <2>4
<1> HIDE DEF P
<1>3. n \in P
  <2>1. \A m \in 0..n : m \in P
    BY <1>0, <1>1, <1>2, CountingUp
  <2> QED
    BY <1>0, <2>1
<1> QED
  BY <1>3 DEF P, IsFlattening

\* Sequences put end to end: what they hold, and no more.
LEMMA FlattenHolds ==
    ASSUME NEW S, NEW seqs \in Seq(Seq(S))
    PROVE  /\ FlattenSeq(seqs) \in Seq(S)
           /\ Range(FlattenSeq(seqs)) = UNION {Range(seqs[i]) : i \in DOMAIN seqs}
<1> DEFINE n == Len(seqs)
           Is(f) == IsFlattening(f, seqs)
           flatten == CHOOSE f : Is(f)
           P == {m \in Nat : m = 0 \/
                   /\ flatten[m] \in Seq(S)
                   /\ Range(flatten[m]) = UNION {Range(seqs[i]) : i \in 1..m}}
<1>0. n \in Nat /\ DOMAIN seqs = 1..n /\ \A i \in 1..n : seqs[i] \in Seq(S)
  OBVIOUS
<1>1. Is(flatten)
  <2>1. \E f : Is(f)
    BY FlatteningExists
  <2> HIDE DEF Is
  <2> QED
    BY <2>1
<1>2. FlattenSeq(seqs) = IF n = 0 THEN seqs ELSE flatten[n]
  BY DEF FlattenSeq, IsFlattening
<1> HIDE DEF flatten
<1>3. \A i \in 1..n : flatten[i] = IF i = 1 THEN seqs[i] ELSE flatten[i - 1] \o seqs[i]
  BY <1>1 DEF IsFlattening
<1>4. 0 \in P
  OBVIOUS
<1>5. ASSUME NEW m \in 0..(n - 1), m \in P PROVE m + 1 \in P
  <2>1. m + 1 \in 1..n /\ m + 1 \in Nat
    BY <1>0
  <2>2. CASE m = 0
    <3>1. flatten[1] = seqs[1] /\ 1 \in 1..n
      BY <1>3, <2>1, <2>2
    <3>2. UNION {Range(seqs[i]) : i \in 1..1} = Range(seqs[1])
      <4>1. 1..1 = {1}
        OBVIOUS
      <4> QED
        BY <4>1, Zenon
    <3>3. flatten[1] \in Seq(S)
      BY <1>0, <3>1
    <3>4. 1 \in P
      <4>1. 1 \in Nat
        OBVIOUS
      <4> QED
        BY <3>1, <3>2, <3>3, <4>1, Zenon
    <3>5. m + 1 = 1
      BY <2>2
    <3> HIDE DEF P
    <3> QED
      BY <3>4, <3>5
  <2>3. CASE m # 0
    <3>0. m + 1 # 1 /\ (m + 1) - 1 = m
      BY <2>3
    <3>1. flatten[m + 1] = flatten[m] \o seqs[m + 1]
      <4>1. flatten[m + 1] = IF m + 1 = 1 THEN seqs[m + 1]
                             ELSE flatten[(m + 1) - 1] \o seqs[m + 1]
        BY <1>3, <2>1, Zenon
      <4> QED
        BY <3>0, <4>1, Zenon
    <3>2. /\ flatten[m] \in Seq(S)
          /\ Range(flatten[m]) = UNION {Range(seqs[i]) : i \in 1..m}
      BY <1>5, <2>3
    <3>3. seqs[m + 1] \in Seq(S)
      BY <1>0, <2>1
    <3>4. flatten[m + 1] \in Seq(S)
      BY <3>1, <3>2, <3>3
    <3>5. Range(flatten[m + 1]) = Range(flatten[m]) \cup Range(seqs[m + 1])
      BY <3>1, <3>2, <3>3, RangeConcatenation
    <3>6. 1..(m + 1) = (1..m) \cup {m + 1}
      BY <2>3
    <3>7. UNION {Range(seqs[i]) : i \in (1..m) \cup {m + 1}}
            = (UNION {Range(seqs[i]) : i \in 1..m}) \cup Range(seqs[m + 1])
      BY Zenon
    <3> QED
      BY <2>1, <3>2, <3>4, <3>5, <3>6, <3>7
  <2> QED
    BY <2>2, <2>3
<1> HIDE DEF P
<1>6. n \in P
  <2>1. \A m \in 0..n : m \in P
    BY <1>0, <1>4, <1>5, CountingUp
  <2> QED
    BY <1>0, <2>1
<1>7. CASE n = 0
  <2>1. seqs = <<>>
    BY <1>7
  <2>2. DOMAIN seqs = {}
    BY <2>1
  <2>3. Range(seqs) = {} /\ seqs \in Seq(S)
    BY <2>1, <2>2 DEF Range
  <2> QED
    BY <1>2, <1>7, <2>2, <2>3
<1>8. CASE n # 0
  BY <1>0, <1>2, <1>6, <1>8 DEF P
<1> QED
  BY <1>7, <1>8

\* The elements of a finite set, in some order.
LEMMA SetToSeqHolds ==
    ASSUME NEW S, IsFiniteSet(S)
    PROVE  SetToSeq(S) \in Seq(S) /\ Range(SetToSeq(S)) = S
<1> DEFINE n == Cardinality(S)
           f == SetToSeq(S)
<1>1. n \in Nat /\ ExistsBijection(1..n, S)
  BY FS_CardinalityType
<1>2. PICK g : g \in [1..n -> S] /\ IsInjective(g)
  <2>1. PICK g : g \in Bijection(1..n, S)
    BY <1>1 DEF ExistsBijection
  <2> QED
    BY <2>1 DEF Bijection, Injection, IsInjective
<1>3. f \in [1..n -> S] /\ IsInjective(f)
  BY <1>2 DEF SetToSeq
<1>4. f \in Injection(1..n, S)
  BY <1>3 DEF Injection, IsInjective
<1>5. IsFiniteSet(1..n) /\ Cardinality(1..n) = n
  BY <1>1, FS_Interval
<1>6. f \in Surjection(1..n, S)
  <2> HIDE DEF f
  <2> QED
    BY <1>4, <1>5, FS_Injection
<1> QED
  BY <1>1, <1>3, <1>6 DEF Surjection, Range

-----------------------------------------------------------------------------
(* Nodes                                                                   *)

LEMMA HeapBound ==
    ASSUME NEW h, IsHeap(h)
    PROVE  \E last \in Nat : DOMAIN h = 0..last
BY DEF IsHeap

\* The parts of a node come after it; what has been redacted has none.
LEMMA PartsComeAfter ==
    ASSUME NEW h, IsHeap(h), NEW x \in DOMAIN h
    PROVE  /\ \A y \in Range(h[x].at) : y \in DOMAIN h /\ (y > x \/ y = 0)
           /\ x = 0 => Range(h[x].at) = {}
<1>1. \A k \in DOMAIN h[x].at : h[x].at[k] \in DOMAIN h /\ (h[x].at[k] > x \/ h[x].at[k] = 0)
  BY DEF IsHeap, Redacted
<1>2. h[0].at = <<>>
  <2>1. h[0] = RedactedLeaf
    BY DEF IsHeap, Redacted
  <2> QED
    BY <2>1 DEF RedactedLeaf
<1> QED
  BY <1>1, <1>2 DEF Range

\* What holds of a node whenever it holds of its parts, holds of all.
LEMMA NodeInduction ==
    ASSUME NEW h, IsHeap(h), NEW P,
           \A x \in DOMAIN h : Range(h[x].at) \subseteq P => x \in P
    PROVE  DOMAIN h \subseteq P
<1>1. PICK last \in Nat : DOMAIN h = 0..last
  BY HeapBound
<1> DEFINE Bad == {x \in DOMAIN h : x \notin P}
           T == {last - x : x \in Bad}
<1> SUFFICES ASSUME Bad # {} PROVE FALSE
  OBVIOUS
<1>2. T \in SUBSET Nat /\ T # {}
  BY <1>1
<1>3. PICK n \in T : \A m \in T : n <= m
  <2> HIDE DEF T
  <2> QED
    BY <1>2, LeastNumber
<1>4. PICK x \in Bad : n = last - x
  BY <1>3
<1>5. 0 \in P
  <2>1. 0 \in DOMAIN h
    BY <1>1
  <2>2. Range(h[0].at) = {}
    BY <2>1, PartsComeAfter
  <2> QED
    BY <2>1, <2>2
<1>6. ASSUME NEW y \in Range(h[x].at) PROVE y \in P
  <2>1. y \in DOMAIN h /\ (y > x \/ y = 0)
    BY <1>4, PartsComeAfter
  <2>2. CASE y = 0
    BY <1>5, <2>2
  <2>3. CASE y > x
    <3>1. x \in 0..last /\ y \in 0..last
      BY <1>1, <1>4, <2>1
    <3>2. ~(n <= last - y)
      BY <1>4, <2>3, <3>1
    <3> QED
      BY <1>3, <2>1, <3>2
  <2> QED
    BY <2>1, <2>2, <2>3
<1> QED
  BY <1>4, <1>6

\* The keys of a container are the places of its parts.
LEMMA KeysLead ==
    ASSUME NEW h, IsHeap(h), NEW x \in DOMAIN h
    PROVE  /\ Keys(h[x]) \in Seq(Range(Keys(h[x])))
           /\ \A k \in DOMAIN Keys(h[x]) :
                /\ Has(h[x], Keys(h[x])[k])
                /\ Follow(h, <<x, Keys(h[x])[k]>>) \in Range(h[x].at)
           /\ \A place \in DOMAIN h[x].at :
                \E k \in DOMAIN Keys(h[x]) : Place(h[x], Keys(h[x])[k]) = place
           /\ h[x].kind = "object" => Range(Keys(h[x])) = DOMAIN h[x].at
           /\ h[x].kind = "array" => Range(Keys(h[x])) \subseteq Int
<1> DEFINE node == h[x]
           keys == Keys(h[x])
<1>0. IsNode(node)
  BY DEF IsHeap
<1>1. CASE node.kind = "object"
  <2>1. keys \in Seq(DOMAIN node.at) /\ Range(keys) = DOMAIN node.at
    <3>1. keys = SetToSeq(DOMAIN node.at)
      BY <1>1 DEF Keys
    <3>2. IsFiniteSet(DOMAIN node.at)
      BY <1>0, <1>1 DEF IsNode
    <3> HIDE DEF node, keys
    <3> QED
      BY <3>1, <3>2, SetToSeqHolds
  <2>2. \A key : Place(node, key) = key
    BY <1>1 DEF Place
  <2>3. \A k \in DOMAIN keys : keys[k] \in DOMAIN node.at
    BY <2>1
  <2>4. \A k \in DOMAIN keys : Follow(h, <<x, keys[k]>>) = node.at[keys[k]]
    BY <2>2 DEF Follow
  <2>5. \A place \in DOMAIN node.at : \E k \in DOMAIN keys : keys[k] = place
    BY <2>1 DEF Range
  <2>6. node.kind # "array"
    BY <1>1
  <2>7. keys \in Seq(Range(keys))
    BY <2>1
  <2> HIDE DEF node, keys
  <2>8. \A k \in DOMAIN keys : Has(node, keys[k]) /\ node.at[keys[k]] \in Range(node.at)
    BY <2>2, <2>3 DEF Has, Range
  <2> QED
    BY <2>1, <2>2, <2>4, <2>5, <2>6, <2>7, <2>8 DEF node, keys
<1>2. CASE node.kind = "array"
  <2>1. node.at \in Seq(Nat)
    BY <1>0, <1>2 DEF IsNode
  <2>2. keys = [i \in 1..Len(node.at) |-> i - 1]
    BY <1>2 DEF Keys
  <2>3. \A i \in 1..Len(node.at) : Place(node, keys[i]) = i
    BY <1>2, <2>1, <2>2 DEF Place
  <2>4. DOMAIN keys = 1..Len(node.at) /\ DOMAIN node.at = 1..Len(node.at)
    BY <2>1, <2>2
  <2>5. keys \in Seq(Int) /\ keys \in Seq(Range(keys)) /\ Range(keys) \subseteq Int
    <3>1. \A i \in 1..Len(node.at) : keys[i] \in Int
      BY <2>1, <2>2
    <3>2. Len(node.at) \in Nat
      BY <2>1
    <3> HIDE DEF node, keys
    <3>3. keys \in [1..Len(node.at) -> Int] /\ keys \in [1..Len(node.at) -> Range(keys)]
      BY <2>2, <2>4, <3>1 DEF Range
    <3>4. keys \in Seq(Int) /\ keys \in Seq(Range(keys))
      BY <3>2, <3>3
    <3> QED
      BY <2>4, <3>1, <3>4 DEF Range
  <2>6. node.kind # "object"
    BY <1>2
  <2>7. \A k \in DOMAIN keys : Follow(h, <<x, keys[k]>>) = node.at[k]
    BY <2>3, <2>4 DEF Follow
  <2> HIDE DEF node, keys
  <2>8. \A k \in DOMAIN keys : Has(node, keys[k]) /\ node.at[k] \in Range(node.at)
    BY <2>3, <2>4 DEF Has, Range
  <2> QED
    BY <2>3, <2>4, <2>5, <2>6, <2>7, <2>8 DEF node, keys
<1>3. CASE node.kind \in {"text", "other"}
  <2>1. keys = <<>> /\ node.at = <<>>
    BY <1>0, <1>3 DEF IsNode, Keys
  <2>2. DOMAIN keys = {} /\ DOMAIN node.at = {} /\ keys \in Seq(Range(keys))
    BY <2>1
  <2> QED
    BY <1>3, <2>2
<1> QED
  BY <1>0, <1>1, <1>2, <1>3 DEF IsNode
-----------------------------------------------------------------------------
(* Recursion over the nodes of a heap                                      *)

\* What a descent makes of a node, when f is what it makes of the parts.
Looked(h, name, f, x) ==
    FlattenSeq([k \in DOMAIN Keys(h[x]) |->
        (IF h[x].kind = "object" /\ Keys(h[x])[k] = name THEN << <<x, Keys(h[x])[k]>> >> ELSE <<>>)
            \o f[Follow(h, <<x, Keys(h[x])[k]>>)]])

\* What is reached from a node, when f is what is reached from the parts.
Gathered(h, f, x) == {x} \cup UNION {f[y] : y \in Range(h[x].at)}

LEMMA LookedAgrees ==
    ASSUME NEW h, NEW g, IsHeap(h), NEW x \in DOMAIN h, h[x] = g[x], NEW name, NEW f, NEW e,
           \A y \in Range(h[x].at) : f[y] = e[y]
    PROVE  Looked(h, name, f, x) = Looked(g, name, e, x)
<1> DEFINE keys == Keys(h[x])
           own(k) == IF h[x].kind = "object" /\ keys[k] = name THEN << <<x, keys[k]>> >> ELSE <<>>
<1>1. \A k \in DOMAIN keys : Follow(h, <<x, keys[k]>>) \in Range(h[x].at)
  BY KeysLead
<1>2. \A k \in DOMAIN keys : Follow(g, <<x, keys[k]>>) = Follow(h, <<x, keys[k]>>)
  BY DEF Follow
<1>3. \A k \in DOMAIN keys : f[Follow(h, <<x, keys[k]>>)] = e[Follow(g, <<x, keys[k]>>)]
  <2> HIDE DEF keys
  <2> QED
    BY <1>1, <1>2
<1>4. [k \in DOMAIN keys |-> own(k) \o f[Follow(h, <<x, keys[k]>>)]]
        = [k \in DOMAIN keys |-> own(k) \o e[Follow(g, <<x, keys[k]>>)]]
  <2> HIDE DEF keys, own
  <2> QED
    BY <1>3, Zenon
<1>5. Looked(h, name, f, x)
        = FlattenSeq([k \in DOMAIN keys |-> own(k) \o f[Follow(h, <<x, keys[k]>>)]])
  BY Zenon DEF Looked
<1>6. Looked(g, name, e, x)
        = FlattenSeq([k \in DOMAIN keys |-> own(k) \o e[Follow(g, <<x, keys[k]>>)]])
  BY Zenon DEF Looked
<1> HIDE DEF keys, own
<1> QED
  BY <1>4, <1>5, <1>6, Zenon

LEMMA GatheredAgrees ==
    ASSUME NEW h, NEW x, NEW f, NEW e, \A y \in Range(h[x].at) : f[y] = e[y]
    PROVE  Gathered(h, f, x) = Gathered(h, e, x)
BY Zenon DEF Gathered

LEMMA DescentExists ==
    ASSUME NEW h, IsHeap(h), NEW name
    PROVE  \E f : f = [x \in DOMAIN h |-> Looked(h, name, f, x)]
<1>1. PICK last \in Nat : DOMAIN h = 0..last
  BY HeapBound
<1> DEFINE Right(f, m) == \A x \in DOMAIN h :
                            x = 0 \/ x > last - m => f[x] = Looked(h, name, f, x)
           P == {m \in Nat : \E f : f = [x \in DOMAIN h |-> f[x]] /\ Right(f, m)}
<1>2. 0 \in P
  <2> DEFINE f == [x \in DOMAIN h |-> Looked(h, name, <<>>, x)]
  <2>1. ASSUME NEW x \in DOMAIN h, x = 0 \/ x > last - 0 PROVE f[x] = Looked(h, name, f, x)
    <3>1. x = 0
      BY <1>1, <2>1
    <3>2. Range(h[x].at) = {}
      BY <3>1, PartsComeAfter
    <3>3. Looked(h, name, <<>>, x) = Looked(h, name, f, x)
      <4> HIDE DEF f
      <4> QED
        BY <3>2, LookedAgrees
    <3>4. f[x] = Looked(h, name, <<>>, x)
      BY Zenon
    <3> QED
      BY <3>3, <3>4, Zenon
  <2>2. f = [x \in DOMAIN h |-> f[x]]
    BY Zenon
  <2> HIDE DEF f
  <2> QED
    BY <2>1, <2>2
<1>3. ASSUME NEW m \in 0..last, m \in P PROVE m + 1 \in P
  <2>1. PICK f : f = [x \in DOMAIN h |-> f[x]] /\ Right(f, m)
    BY <1>3
  <2> DEFINE g == [x \in DOMAIN h |-> Looked(h, name, f, x)]
  <2>2. \A x \in DOMAIN h : g[x] = Looked(h, name, f, x)
    BY Zenon
  <2>3. g = [x \in DOMAIN h |-> g[x]]
    BY Zenon
  <2> HIDE DEF g
  <2>4. ASSUME NEW x \in DOMAIN h, x = 0 \/ x > last - (m + 1)
        PROVE  g[x] = Looked(h, name, g, x)
    <3>1. ASSUME NEW y \in Range(h[x].at) PROVE f[y] = g[y]
      <4>1. y \in DOMAIN h /\ (y > x \/ y = 0) /\ x # 0
        BY <3>1, PartsComeAfter
      <4>2. y = 0 \/ y > last - m
        BY <1>1, <2>4, <4>1
      <4> QED
        BY <2>1, <2>2, <4>1, <4>2
    <3>2. Looked(h, name, f, x) = Looked(h, name, g, x)
      BY <3>1, LookedAgrees
    <3> QED
      BY <2>2, <3>2
  <2>5. Right(g, m + 1)
    BY <2>4
  <2>6. m + 1 \in Nat
    OBVIOUS
  <2> HIDE DEF Right
  <2> QED
    BY <2>3, <2>5, <2>6
<1>4. last + 1 \in P
  <2> HIDE DEF P
  <2>1. \A m \in 0..((last + 1) - 1) : m \in P => m + 1 \in P
    BY <1>3
  <2>2. \A m \in 0..(last + 1) : m \in P
    BY <1>2, <2>1, CountingUp
  <2> QED
    BY <2>2
<1>5. PICK f : f = [x \in DOMAIN h |-> f[x]] /\ Right(f, last + 1)
  BY <1>4
<1>6. \A x \in DOMAIN h : f[x] = Looked(h, name, f, x)
  <2>1. \A x \in DOMAIN h : x > last - (last + 1)
    BY <1>1
  <2> QED
    BY <1>5, <2>1
<1>7. f = [x \in DOMAIN h |-> Looked(h, name, f, x)]
  BY <1>5, <1>6, Zenon
<1> QED
  BY <1>7

LEMMA DescentUnfolds ==
    ASSUME NEW h, IsHeap(h), NEW name
    PROVE  \A x \in DOMAIN h : Descent(h, name)[x] = Looked(h, name, Descent(h, name), x)
<1> DEFINE Is(f) == f = [x \in DOMAIN h |-> Looked(h, name, f, x)]
           descent == CHOOSE f : Is(f)
<1>1. Is(descent)
  <2>1. \E f : Is(f)
    BY DescentExists
  <2> HIDE DEF Is
  <2> QED
    BY <2>1
<1>2. Descent(h, name) = descent
  BY Zenon DEF Descent, Looked
<1> HIDE DEF descent
<1> QED
  BY <1>1, <1>2, Zenon

LEMMA BelowExists ==
    ASSUME NEW h, IsHeap(h)
    PROVE  \E f : f = [x \in DOMAIN h |-> Gathered(h, f, x)]
<1>1. PICK last \in Nat : DOMAIN h = 0..last
  BY HeapBound
<1> DEFINE Right(f, m) == \A x \in DOMAIN h :
                            x = 0 \/ x > last - m => f[x] = Gathered(h, f, x)
           P == {m \in Nat : \E f : f = [x \in DOMAIN h |-> f[x]] /\ Right(f, m)}
<1>2. 0 \in P
  <2> DEFINE f == [x \in DOMAIN h |-> Gathered(h, <<>>, x)]
  <2>1. ASSUME NEW x \in DOMAIN h, x = 0 \/ x > last - 0 PROVE f[x] = Gathered(h, f, x)
    <3>1. x = 0
      BY <1>1, <2>1
    <3>2. Range(h[x].at) = {}
      BY <3>1, PartsComeAfter
    <3>3. Gathered(h, <<>>, x) = Gathered(h, f, x)
      <4> HIDE DEF f
      <4> QED
        BY <3>2, GatheredAgrees
    <3>4. f[x] = Gathered(h, <<>>, x)
      BY Zenon
    <3> QED
      BY <3>3, <3>4, Zenon
  <2>2. f = [x \in DOMAIN h |-> f[x]]
    BY Zenon
  <2> HIDE DEF f
  <2> QED
    BY <2>1, <2>2
<1>3. ASSUME NEW m \in 0..last, m \in P PROVE m + 1 \in P
  <2>1. PICK f : f = [x \in DOMAIN h |-> f[x]] /\ Right(f, m)
    BY <1>3
  <2> DEFINE g == [x \in DOMAIN h |-> Gathered(h, f, x)]
  <2>2. \A x \in DOMAIN h : g[x] = Gathered(h, f, x)
    BY Zenon
  <2>3. g = [x \in DOMAIN h |-> g[x]]
    BY Zenon
  <2> HIDE DEF g
  <2>4. ASSUME NEW x \in DOMAIN h, x = 0 \/ x > last - (m + 1)
        PROVE  g[x] = Gathered(h, g, x)
    <3>1. ASSUME NEW y \in Range(h[x].at) PROVE f[y] = g[y]
      <4>1. y \in DOMAIN h /\ (y > x \/ y = 0) /\ x # 0
        BY <3>1, PartsComeAfter
      <4>2. y = 0 \/ y > last - m
        BY <1>1, <2>4, <4>1
      <4> QED
        BY <2>1, <2>2, <4>1, <4>2
    <3>2. Gathered(h, f, x) = Gathered(h, g, x)
      BY <3>1, GatheredAgrees
    <3> QED
      BY <2>2, <3>2
  <2>5. Right(g, m + 1)
    BY <2>4
  <2>6. m + 1 \in Nat
    OBVIOUS
  <2> HIDE DEF Right
  <2> QED
    BY <2>3, <2>5, <2>6
<1>4. last + 1 \in P
  <2> HIDE DEF P
  <2>1. \A m \in 0..((last + 1) - 1) : m \in P => m + 1 \in P
    BY <1>3
  <2>2. \A m \in 0..(last + 1) : m \in P
    BY <1>2, <2>1, CountingUp
  <2> QED
    BY <2>2
<1>5. PICK f : f = [x \in DOMAIN h |-> f[x]] /\ Right(f, last + 1)
  BY <1>4
<1>6. \A x \in DOMAIN h : f[x] = Gathered(h, f, x)
  <2>1. \A x \in DOMAIN h : x > last - (last + 1)
    BY <1>1
  <2> QED
    BY <1>5, <2>1
<1>7. f = [x \in DOMAIN h |-> Gathered(h, f, x)]
  BY <1>5, <1>6, Zenon
<1> QED
  BY <1>7

LEMMA TreeUnfolds ==
    ASSUME NEW h, IsHeap(h)
    PROVE  /\ \A x \in DOMAIN h :
                Tree(h, {x}) = {x} \cup UNION {Tree(h, {y}) : y \in Range(h[x].at)}
           /\ \A ids \in SUBSET DOMAIN h : Tree(h, ids) = UNION {Tree(h, {x}) : x \in ids}
<1> DEFINE Is(f) == f = [x \in DOMAIN h |-> Gathered(h, f, x)]
           below == CHOOSE f : Is(f)
<1>1. Is(below)
  <2>1. \E f : Is(f)
    BY BelowExists
  <2> HIDE DEF Is
  <2> QED
    BY <2>1
<1>2. \A ids : Tree(h, ids) = UNION {below[x] : x \in ids}
  BY Zenon DEF Tree, Gathered
<1> HIDE DEF below
<1>3. \A x \in DOMAIN h : below[x] = {x} \cup UNION {below[y] : y \in Range(h[x].at)}
  BY <1>1, Zenon DEF Gathered
<1>4. \A x : Tree(h, {x}) = below[x]
  <2>1. \A x : UNION {below[y] : y \in {x}} = below[x]
    BY Zenon
  <2> QED
    BY <1>2, <2>1
<1>5. \A S : UNION {Tree(h, {y}) : y \in S} = UNION {below[y] : y \in S}
  BY <1>4
<1> QED
  BY <1>2, <1>3, <1>4, <1>5, Zenon

\* A tree holds its root and the parts of what it holds, and lies in the heap.
LEMMA TreeHolds ==
    ASSUME NEW h, IsHeap(h), NEW x \in DOMAIN h
    PROVE  /\ x \in Tree(h, {x})
           /\ Tree(h, {x}) \subseteq DOMAIN h
           /\ \A y \in Tree(h, {x}) : Range(h[y].at) \subseteq Tree(h, {x})
           /\ \A y \in Tree(h, {x}) : y = x \/ \E z \in Tree(h, {x}) : y \in Range(h[z].at)
<1> DEFINE Closed(z) ==
             /\ z \in Tree(h, {z})
             /\ Tree(h, {z}) \subseteq DOMAIN h
             /\ \A y \in Tree(h, {z}) : Range(h[y].at) \subseteq Tree(h, {z})
             /\ \A y \in Tree(h, {z}) : y = z \/ \E w \in Tree(h, {z}) : y \in Range(h[w].at)
           P == {z \in DOMAIN h : Closed(z)}
<1>1. ASSUME NEW z \in DOMAIN h, Range(h[z].at) \subseteq P PROVE z \in P
  <2> DEFINE T == Tree(h, {z})
  <2>1. T = {z} \cup UNION {Tree(h, {y}) : y \in Range(h[z].at)}
    BY TreeUnfolds
  <2>2. \A y \in Range(h[z].at) : y \in DOMAIN h /\ Closed(y)
    BY <1>1
  <2>3. \A y \in Range(h[z].at) : Tree(h, {y}) \subseteq T
    BY <2>1, Zenon
  <2>8. \A y \in Range(h[z].at) : Tree(h, {y}) \subseteq DOMAIN h
    BY <2>2
  <2> HIDE DEF T
  <2>4. z \in T /\ T \subseteq DOMAIN h
    BY <2>1, <2>8
  <2>5. Range(h[z].at) \subseteq T
    BY <2>2, <2>3
  <2>6. ASSUME NEW y \in T PROVE Range(h[y].at) \subseteq T
    <3>1. CASE y = z
      BY <2>5, <3>1
    <3>2. CASE y # z
      <4>1. PICK w \in Range(h[z].at) : y \in Tree(h, {w})
        BY <2>1, <2>6, <3>2
      <4> QED
        BY <2>2, <2>3, <4>1
    <3> QED
      BY <3>1, <3>2
  <2>7. ASSUME NEW y \in T, y # z PROVE \E w \in T : y \in Range(h[w].at)
    <3>1. PICK w \in Range(h[z].at) : y \in Tree(h, {w})
      BY <2>1, <2>7
    <3>2. CASE y = w
      BY <2>4, <3>1, <3>2
    <3>3. CASE y # w
      BY <2>2, <2>3, <3>1, <3>3
    <3> QED
      BY <3>2, <3>3
  <2> QED
    BY <2>4, <2>6, <2>7 DEF T
<1> HIDE DEF Closed
<1>2. DOMAIN h \subseteq P
  <2> HIDE DEF P
  <2> QED
    BY <1>1, NodeInduction
<1>3. Closed(x)
  BY <1>2
<1> QED
  BY <1>3 DEF Closed

\* A tree is the least set that holds its root and the parts of what it holds.
LEMMA TreeIsLeast ==
    ASSUME NEW h, IsHeap(h), NEW x \in DOMAIN h, NEW S, x \in S,
           \A y \in S \cap DOMAIN h : Range(h[y].at) \subseteq S
    PROVE  Tree(h, {x}) \subseteq S
<1> DEFINE P == {z \in DOMAIN h : z \in S => Tree(h, {z}) \subseteq S}
<1>1. ASSUME NEW z \in DOMAIN h, Range(h[z].at) \subseteq P PROVE z \in P
  <2>1. Tree(h, {z}) = {z} \cup UNION {Tree(h, {y}) : y \in Range(h[z].at)}
    BY TreeUnfolds
  <2> QED
    BY <1>1, <2>1
<1> HIDE DEF P
<1>2. DOMAIN h \subseteq P
  BY <1>1, NodeInduction
<1> QED
  BY <1>2 DEF P
-----------------------------------------------------------------------------
(* What one step finds                                                     *)

\* The slots of a heap that lead somewhere.
Keyspace(h) == Int \cup UNION {DOMAIN h[x].at : x \in DOMAIN h}
SlotsOf(h)  == {slot \in (DOMAIN h) \X Keyspace(h) : Has(h[slot[1]], slot[2])}

Bearers(h, ids, name) == {x \in ids : h[x].kind = "object" /\ name \in DOMAIN h[x].at}
Seen(h, ids, name)    == {<<x, name>> : x \in Bearers(h, ids, name)}

LEMMA SlotLeads ==
    ASSUME NEW h, IsHeap(h), NEW slot \in SlotsOf(h)
    PROVE  /\ slot[1] \in DOMAIN h
           /\ Follow(h, slot) \in Range(h[slot[1]].at)
           /\ Follow(h, slot) \in DOMAIN h
<1>1. slot[1] \in DOMAIN h /\ Place(h[slot[1]], slot[2]) \in DOMAIN h[slot[1]].at
  BY DEF SlotsOf, Has
<1>2. Follow(h, slot) \in Range(h[slot[1]].at)
  BY <1>1 DEF Follow, Range
<1> QED
  BY <1>1, <1>2, PartsComeAfter

LEMMA KeysReach ==
    ASSUME NEW h, IsHeap(h), NEW x \in DOMAIN h
    PROVE  /\ \A k \in DOMAIN Keys(h[x]) : <<x, Keys(h[x])[k]>> \in SlotsOf(h)
           /\ {Follow(h, <<x, Keys(h[x])[k]>>) : k \in DOMAIN Keys(h[x])} = Range(h[x].at)
<1> DEFINE keys == Keys(h[x])
<1>1. /\ keys \in Seq(Range(keys))
      /\ \A k \in DOMAIN keys : Has(h[x], keys[k])
      /\ \A k \in DOMAIN keys : Follow(h, <<x, keys[k]>>) \in Range(h[x].at)
      /\ \A place \in DOMAIN h[x].at : \E k \in DOMAIN keys : Place(h[x], keys[k]) = place
      /\ h[x].kind = "object" => Range(keys) = DOMAIN h[x].at
      /\ h[x].kind = "array" => Range(keys) \subseteq Int
  BY KeysLead
<1>2. h[x].kind \notin {"object", "array"} => DOMAIN keys = {}
  BY DEF Keys
<1> HIDE DEF keys
<1>3. ASSUME NEW k \in DOMAIN keys PROVE <<x, keys[k]>> \in SlotsOf(h)
  <2>1. keys[k] \in Range(keys)
    BY DEF Range
  <2>2. keys[k] \in Keyspace(h)
    BY <1>1, <1>2, <2>1 DEF Keyspace
  <2> QED
    BY <1>1, <2>2 DEF SlotsOf
<1>4. ASSUME NEW y \in Range(h[x].at)
      PROVE  \E k \in DOMAIN keys : y = Follow(h, <<x, keys[k]>>)
  <2>1. PICK place \in DOMAIN h[x].at : y = h[x].at[place]
    BY DEF Range
  <2>2. PICK k \in DOMAIN keys : Place(h[x], keys[k]) = place
    BY <1>1
  <2> QED
    BY <2>1, <2>2 DEF Follow
<1> QED
  BY <1>1, <1>3, <1>4 DEF keys

\* A descent finds the slot of each object below that has a part of this name.
LEMMA DescentFinds ==
    ASSUME NEW h, IsHeap(h), NEW name
    PROVE  \A x \in DOMAIN h : /\ Descent(h, name)[x] \in Seq(SlotsOf(h))
                               /\ Range(Descent(h, name)[x]) = Seen(h, Tree(h, {x}), name)
<1> DEFINE D == Descent(h, name)
           Finds(x) == D[x] \in Seq(SlotsOf(h)) /\ Range(D[x]) = Seen(h, Tree(h, {x}), name)
           P == {x \in DOMAIN h : Finds(x)}
<1>1. ASSUME NEW z \in DOMAIN h, Range(h[z].at) \subseteq P PROVE z \in P
  <2> DEFINE keys == Keys(h[z])
             own(k) == IF h[z].kind = "object" /\ keys[k] = name THEN << <<z, keys[k]>> >> ELSE <<>>
             part(k) == Follow(h, <<z, keys[k]>>)
             seqs == [k \in DOMAIN keys |-> own(k) \o D[part(k)]]
  <2>1. D[z] = FlattenSeq(seqs)
    <3>1. D[z] = Looked(h, name, D, z)
      BY DescentUnfolds
    <3> HIDE DEF D
    <3>2. Looked(h, name, D, z) = FlattenSeq(seqs)
      BY Zenon DEF Looked
    <3> QED
      BY <3>1, <3>2, Zenon
  <2>2. /\ \A k \in DOMAIN keys : <<z, keys[k]>> \in SlotsOf(h)
        /\ {part(k) : k \in DOMAIN keys} = Range(h[z].at)
    BY KeysReach
  <2>3. keys \in Seq(Range(keys)) /\ (h[z].kind = "object" => Range(keys) = DOMAIN h[z].at)
    BY KeysLead
  <2>4. ASSUME NEW k \in DOMAIN keys
        PROVE  /\ own(k) \in Seq(SlotsOf(h))
               /\ Range(own(k)) = {s \in {<<z, name>>} : h[z].kind = "object" /\ keys[k] = name}
    <3>1. CASE h[z].kind = "object" /\ keys[k] = name
      <4>1. own(k) = << <<z, name>> >> /\ <<z, name>> \in SlotsOf(h)
        BY <2>2, <3>1
      <4>2. Range(<< <<z, name>> >>) = {<<z, name>>}
        BY DEF Range
      <4> HIDE DEF own
      <4> QED
        BY <3>1, <4>1, <4>2
    <3>2. CASE ~(h[z].kind = "object" /\ keys[k] = name)
      <4>1. own(k) = <<>>
        BY <3>2
      <4>2. Range(<<>>) = {} /\ <<>> \in Seq(SlotsOf(h))
        BY DEF Range
      <4> HIDE DEF own
      <4> QED
        BY <3>2, <4>1, <4>2
    <3> QED
      BY <3>1, <3>2
  <2> HIDE DEF D, keys, own, part
  <2>5. \A k \in DOMAIN keys : Finds(part(k))
    BY <1>1, <2>2
  <2>6. \A k \in DOMAIN keys :
          /\ own(k) \o D[part(k)] \in Seq(SlotsOf(h))
          /\ Range(own(k) \o D[part(k)]) = Range(own(k)) \cup Seen(h, Tree(h, {part(k)}), name)
    BY <2>4, <2>5, RangeConcatenation
  <2>7. seqs \in Seq(Seq(SlotsOf(h))) /\ DOMAIN seqs = DOMAIN keys
    <3>1. DOMAIN keys = 1..Len(keys) /\ Len(keys) \in Nat
      BY <2>3
    <3>2. seqs \in [1..Len(keys) -> Seq(SlotsOf(h))]
      BY <2>6, <3>1
    <3> QED
      BY <3>1, <3>2, IsASeq
  <2>8. \A k \in DOMAIN keys :
          Range(seqs[k]) = Range(own(k)) \cup Seen(h, Tree(h, {part(k)}), name)
    BY <2>6
  <2> HIDE DEF seqs
  <2>9. /\ D[z] \in Seq(SlotsOf(h))
        /\ Range(D[z]) = UNION {Range(seqs[k]) : k \in DOMAIN keys}
    BY <2>1, <2>7, FlattenHolds
  <2>10. Tree(h, {z}) = {z} \cup UNION {Tree(h, {y}) : y \in Range(h[z].at)}
    BY TreeUnfolds
  <2>11. ASSUME NEW s, s \in Range(D[z]) PROVE s \in Seen(h, Tree(h, {z}), name)
    <3>1. PICK k \in DOMAIN keys : s \in Range(seqs[k])
      BY <2>9, <2>11
    <3>2. CASE s \in Range(own(k))
      <4>1. s = <<z, name>> /\ h[z].kind = "object" /\ keys[k] = name
        BY <2>4, <3>2
      <4>2. name \in DOMAIN h[z].at
        BY <2>3, <4>1 DEF Range
      <4> QED
        BY <2>10, <4>1, <4>2 DEF Seen, Bearers
    <3>3. CASE s \in Seen(h, Tree(h, {part(k)}), name)
      <4>1. Tree(h, {part(k)}) \subseteq Tree(h, {z})
        BY <2>2, <2>10
      <4> QED
        BY <3>3, <4>1 DEF Seen, Bearers
    <3> QED
      BY <2>8, <3>1, <3>2, <3>3
  <2>12. ASSUME NEW s, s \in Seen(h, Tree(h, {z}), name) PROVE s \in Range(D[z])
    <3>1. PICK x \in Tree(h, {z}) : s = <<x, name>> /\ h[x].kind = "object" /\ name \in DOMAIN h[x].at
      BY <2>12 DEF Seen, Bearers
    <3>2. CASE x = z
      <4>1. PICK k \in DOMAIN keys : keys[k] = name
        BY <2>3, <3>1, <3>2 DEF Range
      <4>2. s \in Range(own(k))
        BY <2>4, <3>1, <3>2, <4>1
      <4> QED
        BY <2>8, <2>9, <4>2
    <3>3. CASE x # z
      <4>1. PICK y \in Range(h[z].at) : x \in Tree(h, {y})
        BY <2>10, <3>3
      <4>2. PICK k \in DOMAIN keys : y = part(k)
        BY <2>2
      <4>3. s \in Seen(h, Tree(h, {part(k)}), name)
        BY <3>1, <4>1, <4>2 DEF Seen, Bearers
      <4> QED
        BY <2>8, <2>9, <4>3
    <3> QED
      BY <3>2, <3>3
  <2>13. Range(D[z]) = Seen(h, Tree(h, {z}), name)
    BY <2>11, <2>12
  <2> QED
    BY <2>9, <2>13
<1> HIDE DEF Finds
<1>2. DOMAIN h \subseteq P
  <2> HIDE DEF P
  <2> QED
    BY <1>1, NodeInduction
<1> QED
  BY <1>2 DEF Finds

\* One step finds the slots of what it leads to, in the tree below.
LEMMA MatchesFind ==
    ASSUME NEW h, IsHeap(h), NEW x \in DOMAIN h, NEW step, step.index \in Int
    PROVE  /\ Matches(h, x, step) \in Seq(SlotsOf(h))
           /\ {Follow(h, s) : s \in Range(Matches(h, x, step))} = Led(h, {x}, step)
           /\ \A s \in Range(Matches(h, x, step)) : s[1] \in Tree(h, {x})
<1> DEFINE node == h[x]
           found == Matches(h, x, step)
<1>0. IsNode(node) /\ x \in Tree(h, {x})
  BY TreeHolds DEF IsHeap
<1>1. CASE step.kind = "descendant"
  <2>1. found = Descent(h, step.name)[x]
    BY <1>1 DEF Matches
  <2> HIDE DEF found
  <2>2. found \in Seq(SlotsOf(h)) /\ Range(found) = Seen(h, Tree(h, {x}), step.name)
    BY <2>1, DescentFinds
  <2>3. \A s \in Range(found) :
          s[1] \in Bearers(h, Tree(h, {x}), step.name) /\ s = <<s[1], step.name>>
    <3> DEFINE B == Bearers(h, Tree(h, {x}), step.name)
    <3>1. Range(found) = {<<y, step.name>> : y \in B}
      BY <2>2 DEF Seen
    <3> HIDE DEF B
    <3>2. \A s \in Range(found) : s[1] \in B /\ s = <<s[1], step.name>>
      <4> TAKE s \in Range(found)
      <4>1. PICK y \in B : s = <<y, step.name>>
        BY <3>1
      <4>2. s[1] = y
        BY <4>1
      <4> QED
        BY <4>1, <4>2
    <3> QED
      BY <3>2 DEF B
  <2>4. \A y \in Bearers(h, Tree(h, {x}), step.name) :
          Follow(h, <<y, step.name>>) = h[y].at[step.name]
    BY DEF Bearers, Follow, Place
  <2>5. {Follow(h, s) : s \in Range(found)}
          = {h[y].at[step.name] : y \in Bearers(h, Tree(h, {x}), step.name)}
    <3> DEFINE B == Bearers(h, Tree(h, {x}), step.name)
    <3> HIDE DEF B
    <3>1. Range(found) = {<<y, step.name>> : y \in B}
      BY <2>2 DEF Seen, B
    <3>2. {Follow(h, s) : s \in {<<y, step.name>> : y \in B}}
            = {Follow(h, <<y, step.name>>) : y \in B}
      BY Zenon
    <3>3. {Follow(h, <<y, step.name>>) : y \in B} = {h[y].at[step.name] : y \in B}
      BY <2>4, Zenon DEF B
    <3> QED
      BY <3>1, <3>2, <3>3 DEF B
  <2>6. Led(h, {x}, step) = {h[y].at[step.name] : y \in Bearers(h, Tree(h, {x}), step.name)}
    BY <1>1 DEF Led, Called, Bearers
  <2> QED
    BY <2>2, <2>3, <2>5, <2>6 DEF found, Bearers
<1>2. CASE step.kind # "descendant"
  <2> DEFINE keys == Selected(node, step)
  <2>1. found = [k \in DOMAIN keys |-> <<x, keys[k]>>]
    BY <1>2 DEF Matches
  <2>2. Range(found) = {<<x, keys[k]>> : k \in DOMAIN keys}
    <3> HIDE DEF keys, found
    <3> QED
      BY <2>1 DEF Range
  <2>3. ASSUME NEW n \in Nat, DOMAIN keys = 1..n,
               \A k \in DOMAIN keys : <<x, keys[k]>> \in SlotsOf(h)
        PROVE  found \in Seq(SlotsOf(h))
    <3> HIDE DEF keys, found
    <3>1. found \in [1..n -> SlotsOf(h)]
      BY <2>1, <2>3
    <3> QED
      BY <3>1
  <2>4. ASSUME {Follow(h, <<x, keys[k]>>) : k \in DOMAIN keys} = Led(h, {x}, step)
        PROVE  {Follow(h, s) : s \in Range(found)} = Led(h, {x}, step)
    <3> HIDE DEF keys, found
    <3> QED
      BY <2>2, <2>4
  <2>5. \A s \in Range(found) : s[1] \in Tree(h, {x})
    <3> HIDE DEF keys, found
    <3> QED
      BY <1>0, <2>2
  <2>6. CASE keys = <<>> /\ Led(h, {x}, step) = {}
    <3>1. DOMAIN keys = 1..0
      BY <2>6
    <3> HIDE DEF keys, found
    <3>2. DOMAIN keys = {} /\ 0 \in Nat
      BY <3>1
    <3>3. found \in Seq(SlotsOf(h))
      BY <2>3, <3>1, <3>2
    <3>4. {Follow(h, s) : s \in Range(found)} = Led(h, {x}, step)
      BY <2>4, <2>6, <3>2
    <3> QED
      BY <2>5, <3>3, <3>4 DEF found
  <2>7. CASE step.kind = "wildcard"
    <3>1. keys = Keys(node)
      BY <2>7 DEF Selected
    <3>2. Led(h, {x}, step) = Range(node.at)
      <4>1. UNION {Range(h[y].at) : y \in {x}} = Range(h[x].at)
        BY Zenon
      <4> QED
        BY <2>7, <4>1 DEF Led, Parts
    <3>3. /\ keys \in Seq(Range(keys))
          /\ \A k \in DOMAIN keys : <<x, keys[k]>> \in SlotsOf(h)
          /\ {Follow(h, <<x, keys[k]>>) : k \in DOMAIN keys} = Range(node.at)
      BY <3>1, KeysLead, KeysReach
    <3> HIDE DEF keys, found
    <3>4. PICK n \in Nat : DOMAIN keys = 1..n
      BY <3>3
    <3> QED
      BY <2>3, <2>4, <2>5, <3>2, <3>3, <3>4 DEF found
  <2>8. ASSUME NEW key, key \in Keyspace(h), Has(node, key), keys = <<key>>,
               Led(h, {x}, step) = {Follow(h, <<x, key>>)}
        PROVE  /\ found \in Seq(SlotsOf(h))
               /\ {Follow(h, s) : s \in Range(found)} = Led(h, {x}, step)
    <3>1. DOMAIN keys = 1..1 /\ \A k \in DOMAIN keys : keys[k] = key
      BY <2>8
    <3>2. <<x, key>> \in SlotsOf(h)
      BY <2>8 DEF SlotsOf
    <3> HIDE DEF keys, found
    <3>3. {Follow(h, <<x, keys[k]>>) : k \in DOMAIN keys} = {Follow(h, <<x, key>>)}
      BY <3>1
    <3> QED
      BY <2>3, <2>4, <2>8, <3>1, <3>2, <3>3
  <2>9. CASE step.kind = "child"
    <3>1. Led(h, {x}, step) = {h[y].at[step.name] : y \in Bearers(h, {x}, step.name)}
      BY <2>9 DEF Led, Called, Bearers
    <3>2. CASE x \in Bearers(h, {x}, step.name)
      <4>1. node.kind = "object" /\ Place(node, step.name) = step.name
              /\ step.name \in DOMAIN node.at
        BY <3>2 DEF Bearers, Place
      <4>2. keys = <<step.name>> /\ Has(node, step.name)
        BY <2>9, <4>1 DEF Selected, Has
      <4>3. Follow(h, <<x, step.name>>) = h[x].at[step.name]
        BY <4>1 DEF Follow
      <4>4. Bearers(h, {x}, step.name) = {x}
        BY <3>2 DEF Bearers
      <4>5. Led(h, {x}, step) = {Follow(h, <<x, step.name>>)}
        BY <3>1, <4>3, <4>4
      <4>6. step.name \in Keyspace(h)
        BY <4>1 DEF Keyspace
      <4> HIDE DEF keys, node, found
      <4> QED
        BY <2>5, <2>8, <4>2, <4>5, <4>6 DEF found
    <3>3. CASE x \notin Bearers(h, {x}, step.name)
      <4>1. Bearers(h, {x}, step.name) = {}
        BY <3>3 DEF Bearers
      <4>2. keys = <<>>
        BY <2>9, <3>3 DEF Selected, Has, Place, Bearers
      <4> HIDE DEF keys, node, found
      <4> QED
        BY <2>6, <3>1, <4>1, <4>2
    <3> QED
      BY <3>2, <3>3
  <2>10. CASE step.kind = "index"
    <3> DEFINE place == IF step.index < 0 THEN Len(node.at) + step.index + 1 ELSE step.index + 1
               within == node.kind = "array" /\ -Len(node.at) <= step.index
                           /\ step.index < Len(node.at)
    <3>1. Led(h, {x}, step) = {y \in {node.at[place]} : within}
      BY <2>10 DEF Led, Numbered
    <3>2. ASSUME node.kind = "array" PROVE Has(node, step.index) <=> within
      <4>1. node.at \in Seq(Nat)
        BY <1>0, <3>2 DEF IsNode
      <4>2. DOMAIN node.at = 1..Len(node.at) /\ Len(node.at) \in Nat
        BY <4>1
      <4>3. Place(node, step.index) = place
        BY <3>2, <4>2 DEF Place
      <4>4. Has(node, step.index) <=> place \in 1..Len(node.at)
        BY <4>2, <4>3 DEF Has
      <4>5. \A n \in Nat, i \in Int :
              (IF i < 0 THEN n + i + 1 ELSE i + 1) \in 1..n <=> (-n <= i /\ i < n)
        OBVIOUS
      <4>6. place \in 1..Len(node.at) <=> (-Len(node.at) <= step.index /\ step.index < Len(node.at))
        <5> HIDE DEF node
        <5> QED
          BY <4>2, <4>5
      <4>7. within <=> (-Len(node.at) <= step.index /\ step.index < Len(node.at))
        BY <3>2
      <4> HIDE DEF node, place, within
      <4> QED
        BY <4>4, <4>6, <4>7
    <3>3. CASE within
      <4>1. node.at \in Seq(Nat)
        BY <1>0, <3>3 DEF IsNode
      <4>2. Place(node, step.index) = place
        BY <3>3, <4>1 DEF Place
      <4>3. keys = <<step.index>> /\ Has(node, step.index)
        BY <2>10, <3>2, <3>3 DEF Selected
      <4>4. Follow(h, <<x, step.index>>) = node.at[place]
        BY <4>2 DEF Follow
      <4>5. Led(h, {x}, step) = {Follow(h, <<x, step.index>>)}
        <5> HIDE DEF place, node
        <5> QED
          BY <3>1, <3>3, <4>4
      <4>6. step.index \in Keyspace(h)
        BY DEF Keyspace
      <4> HIDE DEF keys, node, found
      <4> QED
        BY <2>5, <2>8, <4>3, <4>5, <4>6 DEF found
    <3>4. CASE ~within
      <4>1. keys = <<>>
        BY <2>10, <3>2, <3>4 DEF Selected
      <4>2. Led(h, {x}, step) = {}
        BY <3>1, <3>4
      <4> HIDE DEF keys, node, found
      <4> QED
        BY <2>6, <4>1, <4>2
    <3> QED
      BY <3>3, <3>4
  <2>11. CASE step.kind \notin {"child", "index", "wildcard", "descendant"}
    <3>1. keys = <<>> /\ Led(h, {x}, step) = {}
      BY <2>11 DEF Selected, Led
    <3> QED
      BY <2>6, <3>1
  <2> QED
    BY <1>2, <2>7, <2>9, <2>10, <2>11
<1> QED
  BY <1>1, <1>2

\* Where a step leads from several nodes is where it leads from each.
LEMMA LedFromEach ==
    ASSUME NEW h, IsHeap(h), NEW ids \in SUBSET DOMAIN h, NEW step
    PROVE  Led(h, ids, step) = UNION {Led(h, {x}, step) : x \in ids}
<1>1. Tree(h, ids) = UNION {Tree(h, {x}) : x \in ids}
  BY TreeUnfolds
<1>2. CASE step.kind = "child"
  BY <1>2 DEF Led, Called
<1>3. CASE step.kind = "index"
  BY <1>3 DEF Led, Numbered
<1>4. CASE step.kind = "wildcard"
  <2>1. \A S : Led(h, S, step) = UNION {Range(h[y].at) : y \in S}
    BY <1>4 DEF Led, Parts
  <2>2. \A x : UNION {Range(h[y].at) : y \in {x}} = Range(h[x].at)
    BY Zenon
  <2>3. \A x : Led(h, {x}, step) = Range(h[x].at)
    BY <2>1, <2>2, Zenon
  <2>4. \A S : UNION {Led(h, {x}, step) : x \in S} = UNION {Range(h[x].at) : x \in S}
    BY <2>3, Zenon
  <2>5. Led(h, ids, step) = UNION {Range(h[x].at) : x \in ids}
    BY <2>1
  <2>6. UNION {Led(h, {x}, step) : x \in ids} = UNION {Range(h[x].at) : x \in ids}
    BY <2>4
  <2> QED
    BY <2>5, <2>6, Zenon
<1>5. CASE step.kind = "descendant"
  <2> DEFINE below(x) == Tree(h, {x})
  <2>1. \A S : Led(h, S, step) = Called(h, Tree(h, S), step.name)
    BY <1>5 DEF Led
  <2> HIDE DEF below
  <2>2. Called(h, UNION {below(x) : x \in ids}, step.name)
          = UNION {Called(h, below(x), step.name) : x \in ids}
    <3>1. \A S, y : y \in Called(h, S, step.name)
                      <=> \E z \in S : /\ h[z].kind = "object" /\ step.name \in DOMAIN h[z].at
                                       /\ y = h[z].at[step.name]
      BY DEF Called
    <3> QED
      BY <3>1
  <2>3. UNION {Called(h, below(x), step.name) : x \in ids} = UNION {Led(h, {x}, step) : x \in ids}
    <3>1. \A x : Called(h, below(x), step.name) = Led(h, {x}, step)
      BY <2>1 DEF below
    <3> QED
      BY <3>1, Zenon
  <2> QED
    BY <1>1, <2>1, <2>2, <2>3, Zenon DEF below
<1>6. CASE step.kind \notin {"child", "index", "wildcard", "descendant"}
  BY <1>6 DEF Led
<1> QED
  BY <1>2, <1>3, <1>4, <1>5, <1>6
-----------------------------------------------------------------------------
(* What a path finds                                                       *)

\* One value after another, each made from the one before.
IsRun(f, n, V, start, F) ==
    f \in [0..n -> V] /\ f[0] = start /\ \A k \in 1..n : f[k] = F[k][f[k - 1]]

LEMMA NumberRecursion ==
    ASSUME NEW n \in Nat, NEW V, NEW start \in V, NEW F \in [1..n -> [V -> V]]
    PROVE  \E f : IsRun(f, n, V, start, F)
<1> DEFINE Makes(f, m) ==
             f \in [0..m -> V] /\ f[0] = start /\ \A k \in 1..m : f[k] = F[k][f[k - 1]]
           P == {m \in Nat : \E f : Makes(f, m)}
<1>1. 0 \in P
  <2> DEFINE f == [k \in 0..0 |-> start]
  <2>1. Makes(f, 0)
    OBVIOUS
  <2> HIDE DEF f, Makes
  <2> QED
    BY <2>1
<1>2. ASSUME NEW m \in 0..(n - 1), m \in P PROVE m + 1 \in P
  <2>1. PICK f : Makes(f, m)
    BY <1>2
  <2> DEFINE g == [k \in 0..(m + 1) |-> IF k <= m THEN f[k] ELSE F[m + 1][f[m]]]
  <2>2. m \in 0..m /\ f[m] \in V /\ m + 1 \in 1..n
    BY <2>1
  <2>3. F[m + 1][f[m]] \in V
    BY <2>2
  <2>4. g \in [0..(m + 1) -> V] /\ g[0] = start
    BY <2>1, <2>3
  <2>5. ASSUME NEW k \in 1..(m + 1) PROVE g[k] = F[k][g[k - 1]]
    <3>1. k - 1 \in 0..m /\ g[k - 1] = f[k - 1]
      OBVIOUS
    <3>2. CASE k <= m
      BY <2>1, <3>1, <3>2
    <3>3. CASE ~(k <= m)
      <4>1. k = m + 1 /\ k - 1 = m /\ g[k] = F[m + 1][f[m]]
        BY <3>3
      <4> QED
        BY <3>1, <4>1
    <3> QED
      BY <3>2, <3>3
  <2>6. m + 1 \in Nat /\ Makes(g, m + 1)
    <3> HIDE DEF g
    <3> QED
      BY <2>4, <2>5
  <2> HIDE DEF g, Makes
  <2> QED
    BY <2>6
<1> HIDE DEF P
<1>3. n \in P
  <2>1. \A m \in 0..n : m \in P
    BY <1>1, <1>2, CountingUp
  <2> QED
    BY <2>1
<1> QED
  BY <1>3 DEF P, IsRun

\* What the slots found so far lead to, after one more step.
NextSlots(h, id, steps, found, k) ==
    IF k = 1 THEN Matches(h, id, steps[1])
    ELSE FlattenSeq([j \in DOMAIN found |-> Matches(h, Follow(h, found[j]), steps[k])])

Targets(h, found) == {Follow(h, s) : s \in Range(found)}

\* The nodes that a step starts from.
Reached(h, id, found, k) == IF k = 1 THEN {id} ELSE Targets(h, found)

\* Slots in the tree below a node that lead to some nodes and no others.
LeadTo(h, id, found, ids) ==
    /\ found \in Seq(SlotsOf(h))
    /\ \A s \in Range(found) : s[1] \in Tree(h, {id})
    /\ Targets(h, found) = ids

LEMMA NextSlotsFind ==
    ASSUME NEW h, IsHeap(h), NEW id \in DOMAIN h, NEW steps, IsPath(steps),
           NEW k \in DOMAIN steps, NEW found \in Seq(SlotsOf(h)),
           k # 1 => \A s \in Range(found) : s[1] \in Tree(h, {id})
    PROVE  LeadTo(h, id, NextSlots(h, id, steps, found, k),
                  Led(h, Reached(h, id, found, k), steps[k]))
<1> DEFINE step == steps[k]
           found2 == NextSlots(h, id, steps, found, k)
<1>0. step.index \in Int
  <2> DEFINE R == [kind: {"child", "index", "wildcard", "descendant", "rejected"},
                   name: STRING, index: Int]
  <2>1. steps \in Seq(R)
    BY DEF IsPath
  <2> HIDE DEF R
  <2>2. step \in R
    BY <2>1
  <2> QED
    BY <2>2 DEF R
<1>1. CASE k = 1
  <2>1. found2 = Matches(h, id, step)
    BY <1>1 DEF NextSlots
  <2> HIDE DEF found2, step
  <2> QED
    BY <1>0, <1>1, <2>1, MatchesFind DEF found2, step, Targets, Reached, LeadTo
<1>2. CASE k # 1
  <2> DEFINE target(j) == Follow(h, found[j])
             seqs == [j \in DOMAIN found |-> Matches(h, target(j), step)]
  <2>1. found2 = FlattenSeq(seqs)
    BY <1>2, Zenon DEF NextSlots
  <2>2. DOMAIN found = 1..Len(found) /\ Len(found) \in Nat
    OBVIOUS
  <2>3. \A j \in DOMAIN found : found[j] \in SlotsOf(h) /\ found[j] \in Range(found)
    BY DEF Range
  <2>4. \A j \in DOMAIN found : target(j) \in DOMAIN h
    BY <2>3, SlotLeads
  <2>5. \A j \in DOMAIN found :
          /\ Matches(h, target(j), step) \in Seq(SlotsOf(h))
          /\ {Follow(h, s) : s \in Range(Matches(h, target(j), step))} = Led(h, {target(j)}, step)
          /\ \A s \in Range(Matches(h, target(j), step)) : s[1] \in Tree(h, {target(j)})
    <3> HIDE DEF target, step
    <3> QED
      BY <1>0, <2>4, MatchesFind
  <2>6. \A j \in DOMAIN found : seqs[j] = Matches(h, target(j), step)
    BY Zenon
  <2>7. seqs \in Seq(Seq(SlotsOf(h))) /\ DOMAIN seqs = DOMAIN found
    <3>1. seqs \in [1..Len(found) -> Seq(SlotsOf(h))]
      <4> HIDE DEF target, step
      <4> QED
        BY <2>2, <2>5
    <3> HIDE DEF seqs
    <3> QED
      BY <2>2, <3>1, IsASeq
  <2> HIDE DEF seqs, found2, target, step
  <2>8. found2 \in Seq(SlotsOf(h)) /\ Range(found2) = UNION {Range(seqs[j]) : j \in DOMAIN found}
    BY <2>1, <2>7, FlattenHolds
  <2>9. Targets(h, found) = {target(j) : j \in DOMAIN found}
    BY DEF Targets, target, Range
  <2>10. ASSUME NEW s \in Range(found2) PROVE s[1] \in Tree(h, {id})
    <3>1. PICK j \in DOMAIN found : s \in Range(seqs[j])
      BY <2>8
    <3>2. s[1] \in Tree(h, {target(j)})
      BY <2>5, <2>6, <3>1
    <3>3. found[j][1] \in Tree(h, {id}) /\ found[j][1] \in DOMAIN h
      BY <1>2, <2>3, SlotLeads
    <3>4. target(j) \in Tree(h, {id})
      BY <2>3, <3>3, SlotLeads, TreeHolds DEF target
    <3>5. \A y \in Tree(h, {id}) \cap DOMAIN h : Range(h[y].at) \subseteq Tree(h, {id})
      BY TreeHolds
    <3>6. Tree(h, {target(j)}) \subseteq Tree(h, {id})
      <4> DEFINE S == Tree(h, {id})
      <4>1. target(j) \in DOMAIN h /\ target(j) \in S
        BY <2>4, <3>4
      <4>2. \A y \in S \cap DOMAIN h : Range(h[y].at) \subseteq S
        BY <3>5
      <4> HIDE DEF S
      <4>3. Tree(h, {target(j)}) \subseteq S
        BY <4>1, <4>2, TreeIsLeast
      <4> QED
        BY <4>3 DEF S
    <3> QED
      BY <3>2, <3>6
  <2>11. Targets(h, found2) = UNION {Led(h, {target(j)}, step) : j \in DOMAIN found}
    <3>1. \A y : y \in Targets(h, found2) <=> \E s \in Range(found2) : y = Follow(h, s)
      BY DEF Targets
    <3>2. \A y : y \in Targets(h, found2)
                  <=> \E j \in DOMAIN found : \E s \in Range(seqs[j]) : y = Follow(h, s)
      BY <2>8, <3>1
    <3>3. \A j \in DOMAIN found : \A y :
            (\E s \in Range(seqs[j]) : y = Follow(h, s)) <=> y \in Led(h, {target(j)}, step)
      BY <2>5, <2>6
    <3>4. \A y : y \in Targets(h, found2)
                  <=> \E j \in DOMAIN found : y \in Led(h, {target(j)}, step)
      BY <3>2, <3>3
    <3> QED
      BY <3>4
  <2>12. Led(h, Targets(h, found), step) = UNION {Led(h, {y}, step) : y \in Targets(h, found)}
    <3>1. Targets(h, found) \in SUBSET DOMAIN h
      BY <2>4, <2>9
    <3> QED
      BY <3>1, LedFromEach
  <2>13. UNION {Led(h, {y}, step) : y \in {target(j) : j \in DOMAIN found}}
           = UNION {Led(h, {target(j)}, step) : j \in DOMAIN found}
    BY Zenon
  <2>14. Targets(h, found2) = Led(h, Targets(h, found), step)
    BY <2>9, <2>11, <2>12, <2>13
  <2> QED
    BY <1>2, <2>8, <2>10, <2>14 DEF found2, step, Reached, LeadTo
<1> QED
  BY <1>1, <1>2

\* Sequences of slots in the tree below a node.
Below(h, id) == {found \in Seq(SlotsOf(h)) : \A s \in Range(found) : s[1] \in Tree(h, {id})}

LEMMA PathLength ==
    ASSUME NEW steps, IsPath(steps)
    PROVE  Len(steps) \in Nat \ {0} /\ DOMAIN steps = 1..Len(steps)
BY DEF IsPath

\* The recursion of Slots.
FindsSlots(f, h, id, steps) ==
    /\ Slots(h, id, steps) = f[Len(steps)]
    /\ \A k \in 1..Len(steps) : f[k] = NextSlots(h, id, steps, f[k - 1], k)

LEMMA SlotsUnfold ==
    ASSUME NEW h, IsHeap(h), NEW id \in DOMAIN h, NEW steps, IsPath(steps)
    PROVE  \E f : FindsSlots(f, h, id, steps)
<1> DEFINE n == Len(steps)
           V == Below(h, id)
           Is(f) == f = [k \in DOMAIN steps |-> NextSlots(h, id, steps, f[k - 1], k)]
           F == [k \in 1..n |-> [found \in V |-> NextSlots(h, id, steps, found, k)]]
           slots == CHOOSE f : Is(f)
<1>1. n \in Nat /\ DOMAIN steps = 1..n
  BY PathLength
<1>2. \A k \in 1..n : \A found \in V : NextSlots(h, id, steps, found, k) \in V
  BY <1>1, NextSlotsFind DEF Below, LeadTo
<1>3. <<>> \in V
  BY DEF Below, Range
<1>4. F \in [1..n -> [V -> V]] /\ \A k \in 1..n : \A found \in V :
         F[k][found] = NextSlots(h, id, steps, found, k)
  <2> HIDE DEF V
  <2> QED
    BY <1>2
<1> HIDE DEF F, V, n
<1>5. PICK f : f \in [0..n -> V] /\ f[0] = <<>> /\ \A k \in 1..n : f[k] = F[k][f[k - 1]]
  <2> DEFINE start == <<>>
  <2>1. n \in Nat
    BY <1>1
  <2>2. start \in V /\ F \in [1..n -> [V -> V]]
    BY <1>3, <1>4
  <2> HIDE DEF start
  <2>3. PICK f : IsRun(f, n, V, start, F)
    BY <2>1, <2>2, NumberRecursion
  <2> QED
    BY <2>3 DEF start, IsRun
<1> DEFINE e == [k \in DOMAIN steps |-> f[k]]
<1>6. ASSUME NEW k \in 1..n PROVE e[k] = NextSlots(h, id, steps, e[k - 1], k)
  <2>1. k - 1 \in 0..n /\ f[k - 1] \in V
    BY <1>1, <1>5
  <2>2. e[k] = NextSlots(h, id, steps, f[k - 1], k)
    BY <1>1, <1>4, <1>5, <2>1
  <2>3. CASE k = 1
    BY <2>2, <2>3 DEF NextSlots
  <2>4. CASE k # 1
    <3>1. e[k - 1] = f[k - 1]
      BY <1>1, <2>4
    <3> QED
      BY <2>2, <3>1
  <2> QED
    BY <2>3, <2>4
<1>7. Is(e)
  <2>1. e = [k \in DOMAIN steps |-> e[k]]
    BY Zenon
  <2> HIDE DEF e
  <2> QED
    BY <1>1, <1>6, <2>1
<1>8. Is(slots)
  <2> HIDE DEF Is, e
  <2> QED
    BY <1>7
<1>9. Slots(h, id, steps) = slots[Len(steps)]
  BY Zenon DEF Slots, NextSlots
<1> HIDE DEF slots
<1> QED
  BY <1>1, <1>8, <1>9 DEF n, FindsSlots

\* The recursion of Addressed.
LedFrom(led, h, id, steps) ==
    /\ led \in [0..Len(steps) -> SUBSET DOMAIN h]
    /\ Addressed(h, id, steps) = led[Len(steps)]
    /\ led[0] = {id}
    /\ \A k \in 1..Len(steps) : led[k] = Led(h, led[k - 1], steps[k])

LEMMA AddressedUnfolds ==
    ASSUME NEW h, IsHeap(h), NEW id \in DOMAIN h, NEW steps, IsPath(steps)
    PROVE  \E led : LedFrom(led, h, id, steps)
<1> DEFINE n == Len(steps)
           V == SUBSET DOMAIN h
           Is(f) == f = [k \in 0..n |-> IF k = 0 THEN {id} ELSE Led(h, f[k - 1], steps[k])]
           F == [k \in 1..n |-> [ids \in V |-> Led(h, ids, steps[k])]]
           led == CHOOSE f : Is(f)
<1>1. n \in Nat /\ DOMAIN steps = 1..n
  BY PathLength
<1>2. ASSUME NEW k \in 1..n, NEW ids \in V PROVE Led(h, ids, steps[k]) \in V
  <2>1. steps[k].index \in Int
    <3> DEFINE R == [kind: {"child", "index", "wildcard", "descendant", "rejected"},
                     name: STRING, index: Int]
    <3>1. steps \in Seq(R)
      BY DEF IsPath
    <3> HIDE DEF R
    <3>2. steps[k] \in R
      BY <1>1, <3>1
    <3> QED
      BY <3>2 DEF R
  <2>2. ASSUME NEW x \in ids PROVE Led(h, {x}, steps[k]) \subseteq DOMAIN h
    <3> DEFINE found == Matches(h, x, steps[k])
    <3>1. found \in Seq(SlotsOf(h)) /\ {Follow(h, s) : s \in Range(found)} = Led(h, {x}, steps[k])
      BY <2>1, MatchesFind
    <3> HIDE DEF found
    <3>2. \A s \in Range(found) : Follow(h, s) \in DOMAIN h
      BY <3>1, SlotLeads DEF Range
    <3> QED
      BY <3>1, <3>2
  <2>3. Led(h, ids, steps[k]) = UNION {Led(h, {x}, steps[k]) : x \in ids}
    BY LedFromEach
  <2> QED
    BY <2>2, <2>3
<1>3. F \in [1..n -> [V -> V]] /\ \A k \in 1..n : \A ids \in V :
         F[k][ids] = Led(h, ids, steps[k])
  <2> HIDE DEF V, n
  <2> QED
    BY <1>2
<1>4. {id} \in V
  OBVIOUS
<1> HIDE DEF F, V, n
<1>5. PICK f : f \in [0..n -> V] /\ f[0] = {id} /\ \A k \in 1..n : f[k] = F[k][f[k - 1]]
  <2> DEFINE start == {id}
  <2>1. n \in Nat
    BY <1>1
  <2>2. start \in V /\ F \in [1..n -> [V -> V]]
    BY <1>3, <1>4
  <2> HIDE DEF start
  <2>3. PICK f : IsRun(f, n, V, start, F)
    BY <2>1, <2>2, NumberRecursion
  <2> QED
    BY <2>3 DEF start, IsRun
<1>6. \A k \in 1..n : f[k] = Led(h, f[k - 1], steps[k])
  <2> TAKE k \in 1..n
  <2>1. k - 1 \in 0..n /\ f[k - 1] \in V
    BY <1>1, <1>5
  <2> QED
    BY <1>3, <1>5, <2>1
<1>7. Is(f)
  <2>1. f = [k \in 0..n |-> f[k]]
    BY <1>5
  <2>2. \A k \in 0..n : f[k] = IF k = 0 THEN {id} ELSE Led(h, f[k - 1], steps[k])
    BY <1>1, <1>5, <1>6
  <2> QED
    BY <2>1, <2>2, Zenon
<1>8. Is(led)
  <2> HIDE DEF Is
  <2> QED
    BY <1>7
<1>9. Addressed(h, id, steps) = led[n]
  BY Zenon DEF Addressed, n
<1> HIDE DEF led
<1>10. /\ led[0] = {id}
       /\ \A k \in 1..n : led[k] = Led(h, led[k - 1], steps[k])
  <2>1. \A k \in 0..n : led[k] = IF k = 0 THEN {id} ELSE Led(h, led[k - 1], steps[k])
    BY <1>8, Zenon
  <2>2. 0 \in 0..n /\ \A k \in 1..n : k \in 0..n /\ k # 0
    BY <1>1
  <2> QED
    BY <2>1, <2>2, Zenon
<1>11. led \in [0..n -> V]
  <2> DEFINE P == {k \in Nat : led[k] \in V}
  <2>1. 0 \in P
    BY <1>4, <1>10
  <2>2. ASSUME NEW k \in 0..(n - 1), k \in P PROVE k + 1 \in P
    <3>1. k + 1 \in 1..n /\ (k + 1) - 1 = k /\ k + 1 \in Nat
      BY <1>1
    <3>2. led[k + 1] = Led(h, led[k], steps[k + 1])
      BY <1>10, <3>1
    <3> QED
      BY <1>2, <2>2, <3>1, <3>2
  <2> HIDE DEF P
  <2>3. \A k \in 0..n : k \in P
    BY <1>1, <2>1, <2>2, CountingUp
  <2>4. \A k \in 0..n : led[k] \in V
    BY <2>3 DEF P
  <2> QED
    BY <1>8, <2>4
<1> QED
  BY <1>9, <1>10, <1>11 DEF n, V, LedFrom

\* Step by step, the slots of a path lead to what it addresses.
LEMMA SlotsLead ==
    ASSUME NEW h, IsHeap(h), NEW id \in DOMAIN h, NEW steps, IsPath(steps),
           NEW f, FindsSlots(f, h, id, steps), NEW led, LedFrom(led, h, id, steps)
    PROVE  \A k \in 1..Len(steps) : LeadTo(h, id, f[k], led[k])
<1> DEFINE n == Len(steps)
<1>1. n \in Nat \ {0} /\ DOMAIN steps = 1..n
  BY PathLength
<1>2. \A k \in 1..n : f[k] = NextSlots(h, id, steps, f[k - 1], k)
  BY DEF FindsSlots
<1>3. led[0] = {id} /\ \A k \in 1..n : led[k] = Led(h, led[k - 1], steps[k])
  BY DEF LedFrom
<1> HIDE DEF n
<1> DEFINE P == {k \in Nat : k # 0 => f[k] \in Below(h, id) /\ Targets(h, f[k]) = led[k]}
<1>4. 0 \in P
  OBVIOUS
<1>5. ASSUME NEW k \in 0..(n - 1), k \in P PROVE k + 1 \in P
  <2>1. k + 1 \in 1..n /\ (k + 1) - 1 = k /\ k + 1 \in Nat /\ k + 1 \in DOMAIN steps
    BY <1>1
  <2>2. f[k + 1] = NextSlots(h, id, steps, f[k], k + 1) /\ led[k + 1] = Led(h, led[k], steps[k + 1])
    BY <1>2, <1>3, <2>1
  <2> DEFINE found == IF k = 0 THEN <<>> ELSE f[k]
  <2>3. f[k + 1] = NextSlots(h, id, steps, found, k + 1)
    <3>1. CASE k = 0
      BY <2>2, <3>1 DEF NextSlots
    <3>2. CASE k # 0
      BY <2>2, <3>2
    <3> QED
      BY <3>1, <3>2
  <2>4. found \in Below(h, id) /\ (k # 0 => Targets(h, found) = led[k])
    <3>1. <<>> \in Below(h, id)
      BY DEF Below, Range
    <3> QED
      BY <1>5, <3>1
  <2> HIDE DEF found
  <2>5. led[k] = IF k + 1 = 1 THEN {id} ELSE Targets(h, found)
    <3>1. k = 0 => k + 1 = 1 /\ led[k] = {id}
      BY <1>3
    <3>2. k # 0 => k + 1 # 1
      BY <1>1
    <3> QED
      BY <2>4, <3>1, <3>2
  <2>6. f[k + 1] \in Below(h, id) /\ Targets(h, f[k + 1]) = Led(h, led[k], steps[k + 1])
    <3> DEFINE m == k + 1
    <3>1. /\ m \in DOMAIN steps
          /\ f[m] = NextSlots(h, id, steps, found, m)
          /\ led[k] = IF m = 1 THEN {id} ELSE Targets(h, found)
      BY <2>1, <2>3, <2>5
    <3>2. found \in Seq(SlotsOf(h)) /\ \A s \in Range(found) : s[1] \in Tree(h, {id})
      BY <2>4 DEF Below
    <3> HIDE DEF m
    <3>3. /\ f[m] \in Seq(SlotsOf(h))
          /\ \A s \in Range(f[m]) : s[1] \in Tree(h, {id})
          /\ Targets(h, f[m]) = Led(h, led[k], steps[m])
      <4>1. LeadTo(h, id, f[m], Led(h, Reached(h, id, found, m), steps[m]))
        BY <3>1, <3>2, NextSlotsFind
      <4> QED
        BY <3>1, <4>1, Zenon DEF LeadTo, Reached
    <3> QED
      BY <3>3 DEF m, Below
  <2> QED
    BY <2>1, <2>2, <2>6
<1> HIDE DEF P
<1>6. \A k \in 0..n : k \in P
  <2>1. n \in Nat
    BY <1>1
  <2> QED
    BY <1>4, <1>5, <2>1, CountingUp
<1>7. ASSUME NEW k \in 1..n PROVE LeadTo(h, id, f[k], led[k])
  <2>1. k \in 0..n /\ k # 0
    BY <1>1
  <2>2. f[k] \in Below(h, id) /\ Targets(h, f[k]) = led[k]
    BY <1>6, <2>1 DEF P
  <2> QED
    BY <2>2 DEF Below, LeadTo
<1> QED
  BY <1>7 DEF n

\* The slots of a path lead to what it addresses, from containers in the tree below.
LEMMA SlotsFind ==
    ASSUME NEW h, IsHeap(h), NEW id \in DOMAIN h, NEW steps, IsPath(steps)
    PROVE  LeadTo(h, id, Slots(h, id, steps), Addressed(h, id, steps))
<1>1. PICK f : FindsSlots(f, h, id, steps)
  BY SlotsUnfold
<1>2. PICK led : LedFrom(led, h, id, steps)
  BY AddressedUnfolds
<1>3. Len(steps) \in 1..Len(steps)
  BY PathLength
<1>4. LeadTo(h, id, f[Len(steps)], led[Len(steps)])
  BY <1>1, <1>2, <1>3, SlotsLead
<1> QED
  BY <1>1, <1>2, <1>4 DEF FindsSlots, LedFrom
-----------------------------------------------------------------------------
(* Two heaps that are the same below a node                                *)

Agree(h, g, id) == \A x \in Tree(h, {id}) : x \in DOMAIN g /\ h[x] = g[x]

LEMMA DescentAgrees ==
    ASSUME NEW h, IsHeap(h), NEW g, IsHeap(g), NEW id \in DOMAIN h, Agree(h, g, id), NEW name
    PROVE  \A x \in Tree(h, {id}) : Descent(h, name)[x] = Descent(g, name)[x]
<1> DEFINE D == Descent(h, name)
           E == Descent(g, name)
           T == Tree(h, {id})
           P == {x \in DOMAIN h : x \in T => D[x] = E[x]}
<1>1. T \subseteq DOMAIN h /\ \A x \in T : Range(h[x].at) \subseteq T
  BY TreeHolds
<1>2. \A x \in DOMAIN h : D[x] = Looked(h, name, D, x)
  BY DescentUnfolds
<1>3. \A x \in DOMAIN g : E[x] = Looked(g, name, E, x)
  BY DescentUnfolds
<1>4. \A x \in T : x \in DOMAIN g /\ h[x] = g[x]
  BY DEF Agree
<1> HIDE DEF D, E, T
<1>5. ASSUME NEW x \in DOMAIN h, Range(h[x].at) \subseteq P PROVE x \in P
  <2> SUFFICES ASSUME x \in T PROVE D[x] = E[x]
    OBVIOUS
  <2>1. \A y \in Range(h[x].at) : D[y] = E[y]
    BY <1>1, <1>5
  <2>2. x \in DOMAIN g /\ h[x] = g[x]
    BY <1>4
  <2>3. Looked(h, name, D, x) = Looked(g, name, E, x)
    BY <2>1, <2>2, LookedAgrees
  <2> QED
    BY <1>2, <1>3, <2>2, <2>3
<1> HIDE DEF P
<1>6. DOMAIN h \subseteq P
  BY <1>5, NodeInduction
<1> QED
  BY <1>1, <1>6 DEF P, D, E, T

LEMMA MatchesAgree ==
    ASSUME NEW h, IsHeap(h), NEW g, IsHeap(g), NEW id \in DOMAIN h, Agree(h, g, id),
           NEW x \in Tree(h, {id}), NEW step
    PROVE  Matches(h, x, step) = Matches(g, x, step)
<1>1. h[x] = g[x]
  BY DEF Agree
<1>2. Descent(h, step.name)[x] = Descent(g, step.name)[x]
  BY DescentAgrees
<1>3. [k \in DOMAIN Selected(h[x], step) |-> <<x, Selected(h[x], step)[k]>>]
        = [k \in DOMAIN Selected(g[x], step) |-> <<x, Selected(g[x], step)[k]>>]
  BY <1>1
<1> QED
  BY <1>2, <1>3, Zenon DEF Matches

\* What a slot in the tree leads to is in the tree, in both heaps.
LEMMA FollowAgrees ==
    ASSUME NEW h, IsHeap(h), NEW g, NEW id \in DOMAIN h, Agree(h, g, id),
           NEW slot \in SlotsOf(h), slot[1] \in Tree(h, {id})
    PROVE  Follow(h, slot) = Follow(g, slot) /\ Follow(h, slot) \in Tree(h, {id})
<1>1. h[slot[1]] = g[slot[1]]
  BY DEF Agree
<1>2. Follow(h, slot) \in Range(h[slot[1]].at)
  BY SlotLeads
<1>3. Range(h[slot[1]].at) \subseteq Tree(h, {id})
  BY TreeHolds
<1> QED
  BY <1>1, <1>2, <1>3 DEF Follow

LEMMA SlotsAgree ==
    ASSUME NEW h, IsHeap(h), NEW g, IsHeap(g), NEW id \in DOMAIN h, Agree(h, g, id),
           NEW steps, IsPath(steps)
    PROVE  Slots(h, id, steps) = Slots(g, id, steps)
<1> DEFINE n == Len(steps)
<1>1. n \in Nat \ {0} /\ DOMAIN steps = 1..n
  BY PathLength
<1>2. id \in Tree(h, {id}) /\ id \in DOMAIN g
  BY TreeHolds DEF Agree
<1>3. PICK f : FindsSlots(f, h, id, steps)
  BY SlotsUnfold
<1>4. PICK e : FindsSlots(e, g, id, steps)
  BY <1>2, SlotsUnfold
<1>5. PICK led : LedFrom(led, h, id, steps)
  BY AddressedUnfolds
<1>6. \A k \in 1..n : LeadTo(h, id, f[k], led[k])
  BY <1>3, <1>5, SlotsLead
<1> HIDE DEF n
<1>7. \A k \in 1..n : /\ f[k] = NextSlots(h, id, steps, f[k - 1], k)
                       /\ e[k] = NextSlots(g, id, steps, e[k - 1], k)
  BY <1>3, <1>4 DEF FindsSlots, n
<1> DEFINE P == {k \in Nat : k # 0 => f[k] = e[k]}
<1>8. 0 \in P
  OBVIOUS
<1>9. ASSUME NEW k \in 0..(n - 1), k \in P PROVE k + 1 \in P
  <2>1. k + 1 \in 1..n /\ (k + 1) - 1 = k /\ k + 1 \in Nat
    BY <1>1
  <2>2. f[k + 1] = NextSlots(h, id, steps, f[k], k + 1) /\ e[k + 1] = NextSlots(g, id, steps, e[k], k + 1)
    BY <1>7, <2>1
  <2>3. CASE k = 0
    <3>1. Matches(h, id, steps[1]) = Matches(g, id, steps[1])
      BY <1>2, MatchesAgree
    <3> QED
      BY <2>1, <2>2, <2>3, <3>1 DEF NextSlots
  <2>4. CASE k # 0
    <3> DEFINE found == f[k]
               step == steps[k + 1]
    <3>1. k \in 1..n /\ e[k] = found /\ k + 1 # 1
      BY <1>1, <1>9, <2>4
    <3>2. found \in Seq(SlotsOf(h)) /\ \A s \in Range(found) : s[1] \in Tree(h, {id})
      BY <1>6, <3>1 DEF LeadTo
    <3>3. f[k + 1] = FlattenSeq([j \in DOMAIN found |-> Matches(h, Follow(h, found[j]), step)])
      BY <2>2, <3>1, Zenon DEF NextSlots
    <3>4. e[k + 1] = FlattenSeq([j \in DOMAIN found |-> Matches(g, Follow(g, found[j]), step)])
      BY <2>2, <3>1, Zenon DEF NextSlots
    <3> HIDE DEF found, step
    <3>5. ASSUME NEW j \in DOMAIN found
          PROVE  Matches(h, Follow(h, found[j]), step) = Matches(g, Follow(g, found[j]), step)
      <4>1. found[j] \in SlotsOf(h) /\ found[j][1] \in Tree(h, {id})
        <5>1. found[j] \in SlotsOf(h)
          BY <3>2
        <5>2. found[j] \in Range(found)
          BY Zenon DEF Range
        <5> QED
          BY <3>2, <5>1, <5>2
      <4>2. Follow(h, found[j]) = Follow(g, found[j]) /\ Follow(h, found[j]) \in Tree(h, {id})
        BY <4>1, FollowAgrees
      <4> QED
        BY <4>2, MatchesAgree
    <3>6. [j \in DOMAIN found |-> Matches(h, Follow(h, found[j]), step)]
            = [j \in DOMAIN found |-> Matches(g, Follow(g, found[j]), step)]
      BY <3>5, Zenon
    <3> QED
      BY <2>1, <3>3, <3>4, <3>6, Zenon
  <2> QED
    BY <2>3, <2>4
<1> HIDE DEF P
<1>10. n \in P
  <2>1. n \in Nat
    BY <1>1
  <2>2. \A k \in 0..n : k \in P
    BY <1>8, <1>9, <2>1, CountingUp
  <2> QED
    BY <2>1, <2>2
<1> QED
  BY <1>1, <1>3, <1>4, <1>10 DEF P, n, FindsSlots
-----------------------------------------------------------------------------
(* Conditions and actions on two heaps that are the same below a node      *)

\* What the slots of a path lead to.
LEMMA SlotsReach ==
    ASSUME NEW h, IsHeap(h), NEW id \in DOMAIN h, NEW steps, IsPath(steps)
    PROVE  \A k \in DOMAIN Slots(h, id, steps) :
             /\ Slots(h, id, steps)[k] \in SlotsOf(h)
             /\ Slots(h, id, steps)[k][1] \in Tree(h, {id})
             /\ Follow(h, Slots(h, id, steps)[k]) \in Addressed(h, id, steps)
<1> DEFINE slots == Slots(h, id, steps)
<1>1. /\ slots \in Seq(SlotsOf(h))
      /\ \A s \in Range(slots) : s[1] \in Tree(h, {id})
      /\ Targets(h, slots) = Addressed(h, id, steps)
  BY SlotsFind DEF LeadTo
<1> HIDE DEF slots
<1>2. ASSUME NEW k \in DOMAIN slots
      PROVE  slots[k] \in SlotsOf(h) /\ slots[k][1] \in Tree(h, {id})
                /\ Follow(h, slots[k]) \in Addressed(h, id, steps)
  <2>1. slots[k] \in SlotsOf(h)
    BY <1>1
  <2>2. slots[k] \in Range(slots)
    BY Zenon DEF Range
  <2>3. Follow(h, slots[k]) \in Targets(h, slots)
    BY <2>2 DEF Targets
  <2> QED
    BY <1>1, <2>1, <2>2, <2>3
<1> QED
  BY <1>2 DEF slots

LEMMA NoSlots ==
    ASSUME NEW h, IsHeap(h), NEW id \in DOMAIN h, NEW steps, IsPath(steps)
    PROVE  /\ DOMAIN Slots(h, id, steps) = 1..Len(Slots(h, id, steps))
           /\ Len(Slots(h, id, steps)) \in Nat
           /\ Slots(h, id, steps) = <<>> <=> Addressed(h, id, steps) = {}
           /\ Slots(h, id, steps) # <<>> =>
                /\ 1 \in DOMAIN Slots(h, id, steps)
                /\ Head(Slots(h, id, steps)) = Slots(h, id, steps)[1]
<1> DEFINE slots == Slots(h, id, steps)
<1>1. slots \in Seq(SlotsOf(h)) /\ Targets(h, slots) = Addressed(h, id, steps)
  BY SlotsFind DEF LeadTo
<1> HIDE DEF slots
<1>2. DOMAIN slots = 1..Len(slots) /\ Len(slots) \in Nat
  BY <1>1
<1>3. slots # <<>> => 1 \in DOMAIN slots /\ Head(slots) = slots[1]
  BY <1>1
<1>4. slots = <<>> => Range(slots) = {}
  BY DEF Range
<1>5. slots # <<>> => slots[1] \in Range(slots)
  BY <1>3 DEF Range
<1>6. slots = <<>> <=> Targets(h, slots) = {}
  BY <1>4, <1>5 DEF Targets
<1> QED
  BY <1>1, <1>2, <1>3, <1>6 DEF slots

LEMMA EvaluatedAgrees ==
    ASSUME NEW h, IsHeap(h), NEW g, IsHeap(g), NEW id \in DOMAIN h, Agree(h, g, id),
           NEW condition, IsPath(condition.steps)
    PROVE  Evaluated(h, id, condition) = Evaluated(g, id, condition)
<1> DEFINE slots == Slots(h, id, condition.steps)
<1>1. Slots(g, id, condition.steps) = slots
  BY SlotsAgree
<1>2. slots # <<>> => h[Follow(h, Head(slots))].text = g[Follow(g, Head(slots))].text
  <2> SUFFICES ASSUME slots # <<>>
               PROVE  h[Follow(h, Head(slots))].text = g[Follow(g, Head(slots))].text
    OBVIOUS
  <2>1. Head(slots) \in SlotsOf(h) /\ Head(slots)[1] \in Tree(h, {id})
    <3>1. 1 \in DOMAIN slots /\ Head(slots) = slots[1]
      BY NoSlots
    <3>2. \A k \in DOMAIN slots : slots[k] \in SlotsOf(h) /\ slots[k][1] \in Tree(h, {id})
      BY SlotsReach
    <3> HIDE DEF slots
    <3> QED
      BY <3>1, <3>2
  <2> HIDE DEF slots
  <2>2. Follow(h, Head(slots)) = Follow(g, Head(slots)) /\ Follow(h, Head(slots)) \in Tree(h, {id})
    BY <2>1, FollowAgrees
  <2> QED
    BY <2>2 DEF Agree
<1> HIDE DEF slots
<1> QED
  BY <1>1, <1>2, Zenon DEF Evaluated, slots

LEMMA ConditionsAgree ==
    ASSUME constraint \in Constraints,
           NEW h, IsHeap(h), NEW g, IsHeap(g), NEW id \in DOMAIN h, Agree(h, g, id)
    PROVE  ConditionsMatch(h, id) = ConditionsMatch(g, id)
<1>1. ASSUME NEW k \in DOMAIN constraint.conditions
      PROVE  Evaluated(h, id, constraint.conditions[k]) = Evaluated(g, id, constraint.conditions[k])
  <2>1. constraint.conditions[k] \in Range(constraint.conditions)
    BY DEF Range
  <2>2. IsPath(constraint.conditions[k].steps)
    BY <2>1, ContentFilterAssumption
  <2> QED
    BY <2>2, EvaluatedAgrees
<1> DEFINE stops(heap1) == {k \in DOMAIN constraint.conditions :
                              Evaluated(heap1, id, constraint.conditions[k]) # "yes"}
<1>2. stops(h) = stops(g)
  BY <1>1
<1>3. ASSUME stops(h) # {} PROVE Min(stops(h)) \in DOMAIN constraint.conditions
  <2>1. constraint.conditions \in Seq(Range(constraint.conditions))
    BY ContentFilterAssumption
  <2>2. stops(h) \in SUBSET Nat
    BY <2>1
  <2> DEFINE S == stops(h)
  <2> HIDE DEF S
  <2>3. \E x \in S : \A y \in S : x <= y
    BY <1>3, <2>2, LeastNumber DEF S
  <2>4. Min(S) \in S
    BY <2>3, Zenon DEF Min
  <2> QED
    BY <2>4 DEF S
<1> HIDE DEF stops
<1>4. ConditionsMatch(h, id)
        = IF stops(h) = {} THEN "yes" ELSE Evaluated(h, id, constraint.conditions[Min(stops(h))])
  BY Zenon DEF ConditionsMatch, stops
<1>5. ConditionsMatch(g, id)
        = IF stops(g) = {} THEN "yes" ELSE Evaluated(g, id, constraint.conditions[Min(stops(g))])
  BY Zenon DEF ConditionsMatch, stops
<1>6. CASE stops(h) = {}
  BY <1>2, <1>4, <1>5, <1>6
<1>7. CASE stops(h) # {}
  <2>1. Evaluated(h, id, constraint.conditions[Min(stops(h))])
          = Evaluated(g, id, constraint.conditions[Min(stops(g))])
    BY <1>1, <1>2, <1>3, <1>7, Zenon
  <2> QED
    BY <1>2, <1>4, <1>5, <1>7, <2>1
<1> QED
  BY <1>6, <1>7

LEMMA CannotApplyAgrees ==
    ASSUME NEW h, IsHeap(h), NEW g, IsHeap(g), NEW id \in DOMAIN h, Agree(h, g, id),
           NEW action, IsPath(action.steps)
    PROVE  CannotApply(h, id, action) <=> CannotApply(g, id, action)
<1> DEFINE slots == Slots(h, id, action.steps)
<1>1. Slots(g, id, action.steps) = slots
  BY SlotsAgree
<1>2. ASSUME NEW k \in DOMAIN slots PROVE h[Follow(h, slots[k])] = g[Follow(g, slots[k])]
  <2>1. slots[k] \in SlotsOf(h) /\ slots[k][1] \in Tree(h, {id})
    BY SlotsReach
  <2> HIDE DEF slots
  <2>2. Follow(h, slots[k]) = Follow(g, slots[k]) /\ Follow(h, slots[k]) \in Tree(h, {id})
    BY <2>1, FollowAgrees
  <2> QED
    BY <2>2 DEF Agree
<1> HIDE DEF slots
<1>3. IsUnfit(h, slots, action) <=> IsUnfit(g, slots, action)
  BY <1>2 DEF IsUnfit
<1> QED
  BY <1>1, <1>3 DEF CannotApply, slots
-----------------------------------------------------------------------------
(* What conditions and actions say of what they address                    *)

\* A definite path addresses one node at most.
LEMMA DefiniteAddressesOne ==
    ASSUME NEW h, IsHeap(h), NEW id \in DOMAIN h, NEW steps, IsPath(steps), IsDefinite(steps)
    PROVE  \A x, y \in Addressed(h, id, steps) : x = y
<1> DEFINE n == Len(steps)
<1>1. n \in Nat \ {0} /\ DOMAIN steps = 1..n
  BY PathLength
<1>2. PICK led : LedFrom(led, h, id, steps)
  BY AddressedUnfolds
<1>3. /\ Addressed(h, id, steps) = led[n]
      /\ led[0] = {id}
      /\ \A k \in 1..n : led[k] = Led(h, led[k - 1], steps[k])
  BY <1>2 DEF LedFrom
<1> HIDE DEF n
<1> DEFINE P == {k \in Nat : \A x, y \in led[k] : x = y}
<1>4. 0 \in P
  BY <1>3
<1>5. ASSUME NEW k \in 0..(n - 1), k \in P PROVE k + 1 \in P
  <2> DEFINE step == steps[k + 1]
             ids == led[k]
  <2>1. k + 1 \in 1..n /\ (k + 1) - 1 = k /\ k + 1 \in Nat
    BY <1>1
  <2>2. led[k + 1] = Led(h, ids, step)
    BY <1>3, <2>1
  <2>3. step.kind \in {"child", "index"}
    BY <1>1, <2>1 DEF IsDefinite
  <2>4. \A x, y \in ids : x = y
    BY <1>5
  <2> HIDE DEF step, ids
  <2>5. ASSUME NEW x \in Led(h, ids, step), NEW y \in Led(h, ids, step) PROVE x = y
    <3>1. CASE step.kind = "child"
      <4>1. Led(h, ids, step) = Called(h, ids, step.name)
        BY <3>1 DEF Led
      <4>2. PICK u \in ids : x = h[u].at[step.name]
        BY <4>1, <2>5 DEF Called
      <4>3. PICK v \in ids : y = h[v].at[step.name]
        BY <4>1, <2>5 DEF Called
      <4> QED
        BY <2>4, <4>2, <4>3
    <3>2. CASE step.kind = "index"
      <4> DEFINE place(u) == IF step.index < 0 THEN Len(h[u].at) + step.index + 1 ELSE step.index + 1
      <4>1. Led(h, ids, step) = Numbered(h, ids, step.index)
        BY <3>2 DEF Led
      <4>2. \A z \in Numbered(h, ids, step.index) : \E u \in ids : z = h[u].at[place(u)]
        BY DEF Numbered
      <4> HIDE DEF place
      <4>3. PICK u \in ids : x = h[u].at[place(u)]
        BY <4>1, <4>2
      <4>4. PICK v \in ids : y = h[v].at[place(v)]
        BY <4>1, <4>2
      <4> QED
        BY <2>4, <4>3, <4>4
    <3> QED
      BY <2>3, <3>1, <3>2
  <2> QED
    BY <2>1, <2>2, <2>5
<1> HIDE DEF P
<1>6. n \in P
  <2>1. n \in Nat
    BY <1>1
  <2>2. \A k \in 0..n : k \in P
    BY <1>4, <1>5, <2>1, CountingUp
  <2> QED
    BY <2>1, <2>2
<1> QED
  BY <1>3, <1>6 DEF P

\* What is not denied was looked at.
LEMMA EvaluatedHolds ==
    ASSUME NEW h, IsHeap(h), NEW id \in DOMAIN h, NEW condition, IsPath(condition.steps)
    PROVE  /\ Evaluated(h, id, condition) \in {"yes", "no", "deny"}
           /\ Evaluated(h, id, condition) # "deny" =>
                condition.operator # "malformed" /\ Addressed(h, id, condition.steps) # {}
           /\ (/\ condition.operator = "=="
               /\ ~IsRejected(condition.steps)
               /\ IsDefinite(condition.steps)
               /\ \E x \in Addressed(h, id, condition.steps) : h[x].text = condition.value)
                => Evaluated(h, id, condition) = "yes"
<1> DEFINE slots == Slots(h, id, condition.steps)
           actual == h[Follow(h, Head(slots))].text
<1>1. slots = <<>> <=> Addressed(h, id, condition.steps) = {}
  BY NoSlots
<1>2. slots # <<>> => Follow(h, Head(slots)) \in Addressed(h, id, condition.steps)
  <2>1. slots # <<>> => 1 \in DOMAIN slots /\ Head(slots) = slots[1]
    BY NoSlots
  <2>2. \A k \in DOMAIN slots : Follow(h, slots[k]) \in Addressed(h, id, condition.steps)
    BY SlotsReach
  <2> HIDE DEF slots
  <2> QED
    BY <2>1, <2>2
<1> HIDE DEF slots
<1>3. Evaluated(h, id, condition)
        = IF condition.operator = "malformed" \/ IsRejected(condition.steps) \/ slots = <<>>
          THEN "deny"
          ELSE IF condition.operator = "==" THEN Truth(actual = condition.value)
          ELSE IF condition.operator = "!=" THEN Truth(actual # condition.value)
          ELSE "no"
  BY Zenon DEF Evaluated, slots
<1> HIDE DEF actual
<1>4. Truth(actual = condition.value) \in {"yes", "no"} /\ Truth(actual # condition.value) \in {"yes", "no"}
  BY DEF Truth
<1>5. Evaluated(h, id, condition) \in {"yes", "no", "deny"}
  BY <1>3, <1>4
<1>6. ASSUME Evaluated(h, id, condition) # "deny"
      PROVE  condition.operator # "malformed" /\ Addressed(h, id, condition.steps) # {}
  BY <1>1, <1>3, <1>6
<1>7. ASSUME condition.operator = "==", ~IsRejected(condition.steps), IsDefinite(condition.steps),
             NEW x \in Addressed(h, id, condition.steps), h[x].text = condition.value
      PROVE  Evaluated(h, id, condition) = "yes"
  <2>1. slots # <<>>
    BY <1>1, <1>7
  <2>2. Follow(h, Head(slots)) = x
    BY <1>2, <1>7, <2>1, DefiniteAddressesOne
  <2>3. actual = condition.value
    BY <1>7, <2>2 DEF actual
  <2> QED
    BY <1>3, <1>7, <2>1, <2>3 DEF Truth
<1> QED
  BY <1>5, <1>6, <1>7

\* The first condition that does not hold decides.
LEMMA FirstCondition ==
    ASSUME constraint \in Constraints, NEW h, IsHeap(h), NEW id \in DOMAIN h
    PROVE  /\ ConditionsMatch(h, id) \in {"yes", "no", "deny"}
           /\ constraint.conditions # <<>> /\ ConditionsMatch(h, id) # "deny" =>
                /\ Head(constraint.conditions).operator # "malformed"
                /\ Addressed(h, id, Head(constraint.conditions).steps) # {}
           /\ (\A c \in Range(constraint.conditions) : Evaluated(h, id, c) = "yes")
                => ConditionsMatch(h, id) = "yes"
<1> DEFINE conditions == constraint.conditions
           stops == {k \in DOMAIN conditions : Evaluated(h, id, conditions[k]) # "yes"}
<1>1. conditions \in Seq(Range(conditions)) /\ \A c \in Range(conditions) : IsPath(c.steps)
  BY ContentFilterAssumption
<1>2. ConditionsMatch(h, id)
        = IF stops = {} THEN "yes" ELSE Evaluated(h, id, conditions[Min(stops)])
  BY Zenon DEF ConditionsMatch
<1> HIDE DEF conditions
<1>3. \A k \in DOMAIN conditions : conditions[k] \in Range(conditions)
  BY DEF Range
<1>4. ASSUME stops # {} PROVE Min(stops) \in stops /\ \A k \in stops : Min(stops) <= k
  <2>1. stops \in SUBSET Nat
    BY <1>1
  <2> HIDE DEF stops
  <2>2. \E k \in stops : \A j \in stops : k <= j
    BY <1>4, <2>1, LeastNumber
  <2> QED
    BY <2>2, Zenon DEF Min
<1>5. \A k \in DOMAIN conditions : Evaluated(h, id, conditions[k]) \in {"yes", "no", "deny"}
  BY <1>1, <1>3, EvaluatedHolds
<1>6. stops \subseteq DOMAIN conditions
  OBVIOUS
<1>7. ConditionsMatch(h, id) \in {"yes", "no", "deny"}
  <2> HIDE DEF stops
  <2> QED
    BY <1>2, <1>4, <1>5, <1>6
<1>8. ASSUME conditions # <<>>, ConditionsMatch(h, id) # "deny"
      PROVE  /\ Head(conditions).operator # "malformed"
             /\ Addressed(h, id, Head(conditions).steps) # {}
  <2>1. 1 \in DOMAIN conditions /\ Head(conditions) = conditions[1]
    BY <1>1, <1>8
  <2>2. Evaluated(h, id, conditions[1]) # "deny"
    <3> SUFFICES ASSUME Evaluated(h, id, conditions[1]) = "deny" PROVE FALSE
      OBVIOUS
    <3>1. 1 \in stops
      BY <2>1
    <3>2. Min(stops) = 1
      <4>1. DOMAIN conditions \subseteq Nat \ {0}
        BY <1>1
      <4> HIDE DEF stops
      <4>2. Min(stops) \in Nat \ {0} /\ Min(stops) <= 1
        BY <1>4, <1>6, <3>1, <4>1
      <4> QED
        BY <4>2
    <3> HIDE DEF stops
    <3>3. ConditionsMatch(h, id) = "deny"
      BY <1>2, <3>1, <3>2
    <3> QED
      BY <1>8, <3>3
  <2>3. IsPath(conditions[1].steps)
    BY <1>1, <1>3, <2>1
  <2> QED
    BY <2>1, <2>2, <2>3, EvaluatedHolds
<1>9. ASSUME \A c \in Range(conditions) : Evaluated(h, id, c) = "yes"
      PROVE  ConditionsMatch(h, id) = "yes"
  <2>1. stops = {}
    BY <1>3, <1>9
  <2> QED
    BY <1>2, <2>1
<1> QED
  BY <1>7, <1>8, <1>9 DEF conditions
-----------------------------------------------------------------------------
(* Changing slots                                                          *)

\* What one heap has of another after its containers in X lost or redacted parts.
OnlyChanges(h, g, X) ==
    /\ IsHeap(g)
    /\ DOMAIN g = DOMAIN h
    /\ \A x \in DOMAIN h :
         /\ g[x].kind = h[x].kind
         /\ Range(g[x].at) \subseteq Range(h[x].at) \cup {Redacted}
    /\ \A x \in DOMAIN h \ X : g[x] = h[x]

IsContainer(node) == node.kind \in {"object", "array"}

\* Parts of a container that can take the place of its parts.
CanReplace(at, node) ==
    /\ node.kind = "object" => /\ IsFiniteSet(DOMAIN at)
                               /\ at = [name \in DOMAIN at |-> at[name]]
    /\ node.kind = "array" => at \in Seq(Nat)
    /\ \A k \in DOMAIN at : at[k] = Redacted \/ \E l \in DOMAIN node.at : at[k] = node.at[l]
    /\ \A k, l \in DOMAIN at : at[k] = at[l] => at[k] = Redacted \/ k = l

WithParts(h, c, at) == [h EXCEPT ![c].at = at]

LEMMA NewParts ==
    ASSUME NEW h, IsHeap(h), NEW c \in DOMAIN h, IsContainer(h[c]), NEW at, CanReplace(at, h[c])
    PROVE  OnlyChanges(h, WithParts(h, c, at), {c})
<1> DEFINE g == [h EXCEPT ![c].at = at]
<1>1. IsNode(h[c]) /\ c # Redacted
  BY DEF IsHeap, IsContainer, RedactedLeaf
<1>2. DOMAIN g = DOMAIN h /\ \A x \in DOMAIN h : x # c => g[x] = h[x]
  OBVIOUS
<1>3. /\ g[c].at = at /\ g[c].kind = h[c].kind /\ g[c].length = h[c].length
      /\ DOMAIN g[c] = DOMAIN h[c]
  BY <1>1 DEF IsNode
<1> HIDE DEF g
<1>4. IsNode(g[c])
  BY <1>1, <1>3 DEF IsNode, CanReplace, IsContainer
<1>5. \A x \in DOMAIN g : IsNode(g[x])
  BY <1>2, <1>4 DEF IsHeap
<1>6. g[Redacted] = RedactedLeaf /\ \E last \in DOMAIN g \cap Nat : DOMAIN g = 0..last
  BY <1>1, <1>2 DEF IsHeap, Redacted
<1>7. \A x \in DOMAIN h : \A k \in DOMAIN g[x].at :
        g[x].at[k] = Redacted \/ \E l \in DOMAIN h[x].at : g[x].at[k] = h[x].at[l]
  BY <1>2, <1>3 DEF CanReplace
<1>8. \A x \in DOMAIN g : \A k \in DOMAIN g[x].at :
        /\ g[x].at[k] \in DOMAIN g
        /\ g[x].at[k] > x \/ g[x].at[k] = Redacted
  <2>1. Redacted \in DOMAIN h
    BY DEF IsHeap, Redacted
  <2>2. \A x \in DOMAIN h : \A k \in DOMAIN h[x].at :
          h[x].at[k] \in DOMAIN h /\ (h[x].at[k] > x \/ h[x].at[k] = Redacted)
    BY DEF IsHeap
  <2> QED
    BY <1>2, <1>7, <2>1, <2>2
<1>9. ASSUME NEW x \in DOMAIN g, NEW y \in DOMAIN g, NEW k \in DOMAIN g[x].at,
             NEW l \in DOMAIN g[y].at, g[x].at[k] = g[y].at[l], g[x].at[k] # Redacted
      PROVE  x = y /\ k = l
  <2>1. x = y
    <3>1. PICK k2 \in DOMAIN h[x].at : g[x].at[k] = h[x].at[k2]
      BY <1>2, <1>7, <1>9
    <3>2. PICK l2 \in DOMAIN h[y].at : g[y].at[l] = h[y].at[l2]
      BY <1>2, <1>7, <1>9
    <3>3. h[x].at[k2] = h[y].at[l2] /\ h[x].at[k2] # Redacted
      BY <1>9, <3>1, <3>2
    <3>4. x \in DOMAIN h /\ y \in DOMAIN h
      BY <1>2
    <3>5. \A u, v \in DOMAIN h : \A i \in DOMAIN h[u].at, j \in DOMAIN h[v].at :
            h[u].at[i] = h[v].at[j] => h[u].at[i] = Redacted \/ (u = v /\ i = j)
      BY DEF IsHeap
    <3> QED
      BY <3>3, <3>4, <3>5
  <2>2. CASE x = c
    BY <1>3, <1>9, <2>1, <2>2 DEF CanReplace
  <2>3. CASE x # c
    <3>1. g[x] = h[x] /\ x \in DOMAIN h
      BY <1>2, <2>3
    <3> QED
      BY <1>9, <2>1, <3>1 DEF IsHeap
  <2> QED
    BY <2>1, <2>2, <2>3
<1>10. IsHeap(g)
  <2>1. \A x, y \in DOMAIN g : \A k \in DOMAIN g[x].at, l \in DOMAIN g[y].at :
          g[x].at[k] = g[y].at[l] => g[x].at[k] = Redacted \/ (x = y /\ k = l)
    BY <1>9
  <2> QED
    BY <1>5, <1>6, <1>8, <2>1 DEF IsHeap
<1>11. \A x \in DOMAIN h : g[x].kind = h[x].kind /\ Range(g[x].at) \subseteq Range(h[x].at) \cup {Redacted}
  <2>1. \A x \in DOMAIN h : g[x].kind = h[x].kind
    BY <1>2, <1>3
  <2>2. \A x \in DOMAIN h : Range(g[x].at) \subseteq Range(h[x].at) \cup {Redacted}
    BY <1>7 DEF Range
  <2> QED
    BY <2>1, <2>2
<1> QED
  BY <1>2, <1>10, <1>11 DEF OnlyChanges, g, WithParts

LEMMA RemoveAtHolds ==
    ASSUME NEW s \in Seq(Nat), NEW place \in 1..Len(s)
    PROVE  /\ RemoveAt(s, place) \in Seq(Nat)
           /\ Len(RemoveAt(s, place)) = Len(s) - 1
           /\ \A k \in 1..(Len(s) - 1) :
                RemoveAt(s, place)[k] = s[IF k < place THEN k ELSE k + 1]
<1> DEFINE a == SubSeq(s, 1, place - 1)
           b == SubSeq(s, place + 1, Len(s))
<1>1. /\ a \in Seq(Nat)
      /\ Len(a) = place - 1
      /\ \A k \in 1..(place - 1) : a[k] = s[k]
  <2>1. 1 \in Int /\ place - 1 \in Int /\ \A k \in 1..(place - 1) : s[k] \in Nat
    OBVIOUS
  <2>2. /\ a \in Seq(Nat)
        /\ Len(a) = IF 1 <= place - 1 THEN (place - 1) - 1 + 1 ELSE 0
        /\ \A k \in 1..((place - 1) - 1 + 1) : a[k] = s[1 + k - 1]
    BY ONLY <2>1, SubSeqProperties
  <2> HIDE DEF a
  <2> QED
    BY <2>2
<1>2. /\ b \in Seq(Nat)
      /\ Len(b) = Len(s) - place
      /\ \A k \in 1..(Len(s) - place) : b[k] = s[place + k]
  <2>1. place + 1 \in Int /\ Len(s) \in Int /\ \A k \in (place + 1)..Len(s) : s[k] \in Nat
    OBVIOUS
  <2>2. /\ b \in Seq(Nat)
        /\ Len(b) = IF place + 1 <= Len(s) THEN Len(s) - (place + 1) + 1 ELSE 0
        /\ \A k \in 1..(Len(s) - (place + 1) + 1) : b[k] = s[(place + 1) + k - 1]
    BY ONLY <2>1, SubSeqProperties
  <2> HIDE DEF b
  <2>3. Len(b) = Len(s) - place
    BY <2>2
  <2>4. ASSUME NEW k \in 1..(Len(s) - place) PROVE b[k] = s[place + k]
    <3>1. k \in 1..(Len(s) - (place + 1) + 1) /\ (place + 1) + k - 1 = place + k
      OBVIOUS
    <3> QED
      BY <2>2, <3>1
  <2> QED
    BY <2>2, <2>3, <2>4
<1>3. RemoveAt(s, place) = a \o b
  BY DEF RemoveAt
<1> HIDE DEF a, b
<1>4. /\ a \o b \in Seq(Nat)
      /\ Len(a \o b) = Len(a) + Len(b)
      /\ \A k \in 1..(Len(a) + Len(b)) :
            (a \o b)[k] = IF k <= Len(a) THEN a[k] ELSE b[k - Len(a)]
  <2>1. a \in Seq(Nat) /\ b \in Seq(Nat)
    BY <1>1, <1>2
  <2> QED
    BY ONLY <2>1, ConcatProperties
<1>5. ASSUME NEW k \in 1..(Len(s) - 1) PROVE (a \o b)[k] = s[IF k < place THEN k ELSE k + 1]
  <2>0. k \in 1..(Len(a) + Len(b))
    BY <1>1, <1>2
  <2>1. CASE k < place
    <3>1. k <= Len(a) /\ k \in 1..(place - 1)
      BY <1>1, <2>1
    <3> QED
      BY <1>1, <1>4, <2>0, <2>1, <3>1
  <2>2. CASE ~(k < place)
    <3>1. ~(k <= Len(a)) /\ k - Len(a) \in 1..(Len(s) - place) /\ place + (k - Len(a)) = k + 1
      BY <1>1, <2>2
    <3>2. b[k - Len(a)] = s[k + 1]
      BY <1>2, <3>1
    <3> QED
      BY <1>4, <2>0, <2>2, <3>1, <3>2
  <2> QED
    BY <2>1, <2>2
<1>6. Len(a) + Len(b) = Len(s) - 1
  BY <1>1, <1>2
<1> QED
  BY <1>3, <1>4, <1>5, <1>6

\* One slot after it was deleted or redacted.
LEMMA DeleteSlotHolds ==
    ASSUME NEW h, IsHeap(h), NEW slot, slot[1] \in DOMAIN h, IsContainer(h[slot[1]])
    PROVE  OnlyChanges(h, DeleteSlot(h, slot), {slot[1]})
<1> DEFINE c == slot[1]
           node == h[c]
           place == Place(node, slot[2])
<1>1. IsNode(node)
  BY DEF IsHeap
<1>2. \A k, l \in DOMAIN node.at : node.at[k] = node.at[l] => node.at[k] = Redacted \/ k = l
  BY DEF IsHeap
<1> HIDE DEF place
<1>3. CASE place \notin DOMAIN node.at
  <2>1. DeleteSlot(h, slot) = h
    BY <1>3 DEF DeleteSlot, place
  <2> QED
    BY <2>1 DEF OnlyChanges
<1>4. CASE place \in DOMAIN node.at /\ node.kind = "array"
  <2> DEFINE at == RemoveAt(node.at, place)
  <2>1. node.at \in Seq(Nat)
    BY <1>1, <1>4 DEF IsNode
  <2>2. place \in 1..Len(node.at) /\ Len(node.at) \in Nat
    BY <1>4, <2>1
  <2>3. /\ at \in Seq(Nat)
        /\ Len(at) = Len(node.at) - 1
        /\ \A k \in 1..(Len(node.at) - 1) : at[k] = node.at[IF k < place THEN k ELSE k + 1]
    BY <2>1, <2>2, RemoveAtHolds
  <2> HIDE DEF at
  <2>4. DOMAIN at = 1..(Len(node.at) - 1)
    BY <2>3
  <2>5. \A k \in DOMAIN at : \E l \in DOMAIN node.at :
          at[k] = node.at[l] /\ l = IF k < place THEN k ELSE k + 1
    <3>1. \A k \in DOMAIN at : (IF k < place THEN k ELSE k + 1) \in DOMAIN node.at
      <4>1. DOMAIN node.at = 1..Len(node.at)
        BY <2>1
      <4> QED
        BY <2>2, <2>4, <4>1
    <3> QED
      BY <2>3, <2>4, <3>1
  <2>6. CanReplace(at, node)
    <3>1. \A k, l \in DOMAIN at : at[k] = at[l] => at[k] = Redacted \/ k = l
      <4> TAKE k, l \in DOMAIN at
      <4>1. PICK i \in DOMAIN node.at : at[k] = node.at[i] /\ i = IF k < place THEN k ELSE k + 1
        BY <2>5
      <4>2. PICK j \in DOMAIN node.at : at[l] = node.at[j] /\ j = IF l < place THEN l ELSE l + 1
        BY <2>5
      <4>3. i = j => k = l
        BY <2>2, <2>4, <4>1, <4>2
      <4> QED
        BY <1>2, <4>1, <4>2, <4>3
    <3> QED
      BY <1>4, <2>3, <2>5, <3>1 DEF CanReplace
  <2>7. DeleteSlot(h, slot) = WithParts(h, c, at)
    <3>1. DeleteSlot(h, slot)
            = [h EXCEPT ![slot[1]].at = IF node.kind = "array" THEN RemoveAt(node.at, place)
                                        ELSE Restrict(node.at, DOMAIN node.at \ {place})]
      BY <1>4 DEF DeleteSlot, place
    <3> DEFINE new == IF node.kind = "array" THEN RemoveAt(node.at, place)
                      ELSE Restrict(node.at, DOMAIN node.at \ {place})
    <3>2. new = at
      BY <1>4 DEF at
    <3> QED
      BY <3>1, <3>2 DEF WithParts
  <2> QED
    BY <2>6, <2>7, NewParts
<1>5. CASE place \in DOMAIN node.at /\ node.kind # "array"
  <2> DEFINE at == Restrict(node.at, DOMAIN node.at \ {place})
  <2>1. DOMAIN at = DOMAIN node.at \ {place} /\ \A k \in DOMAIN at : at[k] = node.at[k]
    BY DEF Restrict
  <2>2. at = [name \in DOMAIN at |-> at[name]]
    BY Zenon DEF Restrict
  <2>3. IsFiniteSet(DOMAIN at)
    BY <1>1, <1>5, <2>1, FS_Subset DEF IsNode, IsContainer
  <2> HIDE DEF at
  <2>4. CanReplace(at, node)
    BY <1>2, <1>5, <2>1, <2>2, <2>3 DEF CanReplace
  <2>5. DeleteSlot(h, slot) = WithParts(h, c, at)
    <3>1. DeleteSlot(h, slot)
            = [h EXCEPT ![slot[1]].at = IF node.kind = "array" THEN RemoveAt(node.at, place)
                                        ELSE Restrict(node.at, DOMAIN node.at \ {place})]
      BY <1>5 DEF DeleteSlot, place
    <3> DEFINE new == IF node.kind = "array" THEN RemoveAt(node.at, place)
                      ELSE Restrict(node.at, DOMAIN node.at \ {place})
    <3>2. new = at
      BY <1>5 DEF at
    <3> QED
      BY <3>1, <3>2 DEF WithParts
  <2> QED
    BY <2>4, <2>5, NewParts
<1> QED
  BY <1>3, <1>4, <1>5

LEMMA RedactSlotHolds ==
    ASSUME NEW h, IsHeap(h), NEW slot, slot[1] \in DOMAIN h, IsContainer(h[slot[1]])
    PROVE  OnlyChanges(h, RedactSlot(h, slot), {slot[1]})
<1> DEFINE c == slot[1]
           node == h[c]
           place == Place(node, slot[2])
           at == [node.at EXCEPT ![place] = Redacted]
<1>1. IsNode(node)
  BY DEF IsHeap
<1>2. \A k, l \in DOMAIN node.at : node.at[k] = node.at[l] => node.at[k] = Redacted \/ k = l
  BY DEF IsHeap
<1> HIDE DEF place
<1>3. /\ DOMAIN at = DOMAIN node.at
      /\ \A k \in DOMAIN at : at[k] = IF k = place THEN Redacted ELSE node.at[k]
      /\ at = [name \in DOMAIN at |-> at[name]]
  <2>1. DOMAIN at = DOMAIN node.at /\ \A k \in DOMAIN at : at[k] = IF k = place THEN Redacted ELSE node.at[k]
    OBVIOUS
  <2>2. at = [name \in DOMAIN at |-> at[name]]
    OBVIOUS
  <2> QED
    BY <2>1, <2>2
<1>4. node.kind = "array" => at \in Seq(Nat)
  <2> SUFFICES ASSUME node.kind = "array" PROVE at \in Seq(Nat)
    OBVIOUS
  <2>1. node.at \in Seq(Nat)
    BY <1>1 DEF IsNode
  <2>2. CASE place \in 1..Len(node.at)
    BY <2>1, <2>2, ExceptSeq DEF Redacted
  <2>3. CASE place \notin 1..Len(node.at)
    <3>1. DOMAIN node.at = 1..Len(node.at) /\ node.at = [k \in DOMAIN node.at |-> node.at[k]]
      BY <2>1
    <3>2. at = node.at
      BY <1>3, <2>3, <3>1
    <3> QED
      BY <2>1, <3>2
  <2> QED
    BY <2>2, <2>3
<1>5. node.kind = "object" => IsFiniteSet(DOMAIN at)
  BY <1>1, <1>3 DEF IsNode
<1>6. RedactSlot(h, slot) = WithParts(h, c, at)
  BY Zenon DEF RedactSlot, place, WithParts
<1> HIDE DEF at
<1>7. CanReplace(at, node)
  BY <1>2, <1>3, <1>4, <1>5 DEF CanReplace
<1> QED
  BY <1>6, <1>7, NewParts

LEMMA ChangeSlotHolds ==
    ASSUME NEW h, IsHeap(h), NEW slot, slot[1] \in DOMAIN h, IsContainer(h[slot[1]]), NEW action
    PROVE  OnlyChanges(h, ChangeSlot(h, slot, action), {slot[1]})
<1>1. OnlyChanges(h, h, {slot[1]})
  BY DEF OnlyChanges
<1>2. OnlyChanges(h, DeleteSlot(h, slot), {slot[1]})
  BY DeleteSlotHolds
<1>3. OnlyChanges(h, RedactSlot(h, slot), {slot[1]})
  BY RedactSlotHolds
<1>4. \/ ChangeSlot(h, slot, action) = h
      \/ ChangeSlot(h, slot, action) = DeleteSlot(h, slot)
      \/ ChangeSlot(h, slot, action) = RedactSlot(h, slot)
  BY DEF ChangeSlot
<1> QED
  BY <1>1, <1>2, <1>3, <1>4

LEMMA ChangesCompose ==
    ASSUME NEW h, NEW g, NEW e, NEW X, NEW Y, OnlyChanges(h, g, X), OnlyChanges(g, e, Y), Y \subseteq X
    PROVE  OnlyChanges(h, e, X)
BY DEF OnlyChanges

LEMMA SlotHolds ==
    ASSUME NEW h, IsHeap(h), NEW slot \in SlotsOf(h)
    PROVE  slot[1] \in DOMAIN h /\ IsContainer(h[slot[1]])
<1>1. slot[1] \in DOMAIN h /\ Has(h[slot[1]], slot[2])
  BY DEF SlotsOf
<1>2. IsNode(h[slot[1]])
  BY <1>1 DEF IsHeap
<1>3. DOMAIN h[slot[1]].at # {}
  BY <1>1 DEF Has
<1>4. h[slot[1]].at # <<>>
  BY <1>3
<1> QED
  BY <1>1, <1>2, <1>4 DEF IsNode, IsContainer

\* The recursion of Changed.
ChangesInTurn(f, h, slots, action) ==
    /\ Changed(h, slots, action) = f[Len(slots)]
    /\ f[0] = h
    /\ \A k \in 1..Len(slots) : f[k] = ChangeSlot(f[k - 1], slots[k], action)

LEMMA ChangedUnfolds ==
    ASSUME NEW h, NEW S, NEW slots \in Seq(S), NEW action
    PROVE  \E f : ChangesInTurn(f, h, slots, action)
<1> DEFINE n == Len(slots)
           Def(f, k) == IF k = 0 THEN h ELSE ChangeSlot(f[k - 1], slots[k], action)
           P == {m \in Nat : \E f : f = [k \in 0..m |-> Def(f, k)]}
<1>0. n \in Nat
  OBVIOUS
<1> HIDE DEF n
<1>1. 0 \in P
  <2> DEFINE e == [k \in 0..0 |-> h]
  <2>1. \A k \in 0..0 : e[k] = Def(e, k)
    OBVIOUS
  <2>2. e = [k \in 0..0 |-> e[k]]
    BY Zenon
  <2> HIDE DEF e, Def
  <2>3. e = [k \in 0..0 |-> Def(e, k)]
    BY <2>1, <2>2
  <2> QED
    BY <2>3
<1>2. ASSUME NEW m \in 0..(n - 1), m \in P PROVE m + 1 \in P
  <2>1. PICK f : f = [k \in 0..m |-> Def(f, k)]
    BY <1>2
  <2> DEFINE g == [k \in 0..(m + 1) |-> IF k <= m THEN f[k] ELSE Def(f, k)]
  <2>0. m \in Nat
    OBVIOUS
  <2>2. ASSUME NEW k \in 0..(m + 1) PROVE g[k] = Def(g, k)
    <3>1. CASE k <= m
      <4>1. k \in 0..m
        BY <3>1
      <4>2. f[k] = Def(f, k)
        <5> HIDE DEF Def, g
        <5> QED
          BY <2>1, <4>1
      <4>3. k # 0 => g[k - 1] = f[k - 1]
        BY <3>1
      <4>4. g[k] = f[k]
        BY <3>1
      <4> HIDE DEF g
      <4> QED
        BY <4>2, <4>3, <4>4
    <3>2. CASE ~(k <= m)
      <4>1. k # 0 /\ g[k - 1] = f[k - 1]
        BY <2>0, <3>2
      <4>2. g[k] = Def(f, k)
        BY <3>2
      <4> HIDE DEF g
      <4> QED
        BY <4>1, <4>2
    <3> QED
      BY <3>1, <3>2
  <2>3. g = [k \in 0..(m + 1) |-> Def(g, k)]
    <3>1. g = [k \in 0..(m + 1) |-> g[k]]
      BY Zenon
    <3> HIDE DEF g, Def
    <3> QED
      BY <2>2, <3>1
  <2>4. m + 1 \in Nat
    OBVIOUS
  <2> HIDE DEF g, Def
  <2> QED
    BY <2>3, <2>4
<1> DEFINE Is(f) == f = [k \in 0..n |-> Def(f, k)]
           changed == CHOOSE f : Is(f)
<1>3. n \in P
  <2> HIDE DEF P
  <2>1. \A m \in 0..n : m \in P
    BY <1>0, <1>1, <1>2, CountingUp
  <2> QED
    BY <1>0, <2>1
<1>4. Is(changed)
  <2>1. \E f : Is(f)
    BY <1>3
  <2> HIDE DEF Is
  <2> QED
    BY <2>1
<1>5. Changed(h, slots, action) = changed[n]
  BY Zenon DEF Changed, n
<1> HIDE DEF changed
<1>6. \A k \in 0..n : changed[k] = Def(changed, k)
  <2> HIDE DEF Def
  <2> QED
    BY <1>4
<1>7. changed[0] = h
  BY <1>0, <1>6
<1>8. \A k \in 1..n : changed[k] = ChangeSlot(changed[k - 1], slots[k], action)
  BY <1>0, <1>6
<1> QED
  BY <1>5, <1>7, <1>8 DEF n, ChangesInTurn

\* Only the containers of the slots are changed.
LEMMA ChangedHolds ==
    ASSUME NEW h, IsHeap(h), NEW slots \in Seq(SlotsOf(h)), NEW action,
           NEW X, \A s \in Range(slots) : s[1] \in X,
           NEW f, ChangesInTurn(f, h, slots, action)
    PROVE  \A k \in 0..Len(slots) : OnlyChanges(h, f[k], X)
<1> DEFINE n == Len(slots)
           P == {k \in Nat : OnlyChanges(h, f[k], X)}
<1>1. n \in Nat /\ DOMAIN slots = 1..n
  OBVIOUS
<1> HIDE DEF n
<1>2. f[0] = h /\ \A k \in 1..n : f[k] = ChangeSlot(f[k - 1], slots[k], action)
  BY DEF ChangesInTurn, n
<1>3. 0 \in P
  BY <1>2 DEF OnlyChanges
<1>4. ASSUME NEW k \in 0..(n - 1), k \in P PROVE k + 1 \in P
  <2> DEFINE slot == slots[k + 1]
             g == f[k]
  <2>1. k + 1 \in 1..n /\ (k + 1) - 1 = k /\ k + 1 \in Nat
    BY <1>1
  <2>2. f[k + 1] = ChangeSlot(g, slot, action)
    BY <1>2, <2>1
  <2>3. slot \in SlotsOf(h) /\ slot[1] \in X
    <3>1. slot \in SlotsOf(h)
      BY <1>1, <2>1
    <3>2. slot \in Range(slots)
      BY <1>1, <2>1, Zenon DEF Range
    <3> QED
      BY <3>1, <3>2
  <2>4. OnlyChanges(h, g, X)
    BY <1>4
  <2> HIDE DEF slot, g
  <2>5. slot[1] \in DOMAIN h /\ IsContainer(h[slot[1]])
    BY <2>3, SlotHolds
  <2>6. IsHeap(g) /\ slot[1] \in DOMAIN g /\ IsContainer(g[slot[1]])
    BY <2>4, <2>5 DEF OnlyChanges, IsContainer
  <2>7. OnlyChanges(g, f[k + 1], {slot[1]})
    BY <2>2, <2>6, ChangeSlotHolds
  <2>8. OnlyChanges(h, f[k + 1], X)
    BY <2>3, <2>4, <2>7, ChangesCompose
  <2> QED
    BY <2>1, <2>8
<1> HIDE DEF P
<1>5. \A k \in 0..n : k \in P
  BY <1>1, <1>3, <1>4, CountingUp
<1> QED
  BY <1>5 DEF P, n
-----------------------------------------------------------------------------
(* The elements of a value have nothing in common                          *)

\* A tree shrinks when containers only lose or redact parts.
LEMMA TreeShrinks ==
    ASSUME NEW h, IsHeap(h), NEW g, IsHeap(g), DOMAIN g = DOMAIN h,
           \A x \in DOMAIN h : Range(g[x].at) \subseteq Range(h[x].at) \cup {Redacted},
           NEW x \in DOMAIN h
    PROVE  Tree(g, {x}) \subseteq Tree(h, {x}) \cup {Redacted}
<1> DEFINE S == Tree(h, {x}) \cup {Redacted}
<1>1. x \in S
  BY TreeHolds
<1>2. ASSUME NEW y \in S \cap DOMAIN g PROVE Range(g[y].at) \subseteq S
  <2>1. CASE y = Redacted
    BY <2>1, PartsComeAfter DEF Redacted
  <2>2. CASE y # Redacted
    <3>1. y \in Tree(h, {x}) /\ y \in DOMAIN h
      BY <2>2
    <3>2. Range(h[y].at) \subseteq Tree(h, {x})
      BY <3>1, TreeHolds
    <3> QED
      BY <3>1, <3>2
  <2> QED
    BY <2>1, <2>2
<1>3. x \in DOMAIN g
  OBVIOUS
<1> HIDE DEF S
<1>4. Tree(g, {x}) \subseteq S
  BY <1>1, <1>2, <1>3, TreeIsLeast
<1> QED
  BY <1>4 DEF S

\* Below a node of a document are only nodes that come after it.
LEMMA TreeComesAfter ==
    ASSUME NEW d, IsDocument(d), NEW x \in DOMAIN d.heap \ {Redacted}
    PROVE  \A y \in Tree(d.heap, {x}) : y >= x /\ y # Redacted
<1> DEFINE h == d.heap
           S == {y \in DOMAIN h : y >= x /\ y # Redacted}
<1>1. IsHeap(h) /\ x \in DOMAIN h /\ DOMAIN h \subseteq Nat
  BY DEF IsDocument, IsHeap
<1>2. x \in S
  BY <1>1
<1>3. ASSUME NEW y \in S \cap DOMAIN h PROVE Range(h[y].at) \subseteq S
  <2>1. \A z \in Range(h[y].at) : z \in DOMAIN h /\ (z > y \/ z = 0)
    BY <1>1, PartsComeAfter
  <2>2. Redacted \notin Range(h[y].at)
    BY DEF IsDocument
  <2>3. \A z \in Range(h[y].at) : z \in DOMAIN h /\ z > y /\ z # Redacted
    BY <2>1, <2>2 DEF Redacted
  <2> QED
    BY <1>1, <2>3
<1> HIDE DEF S
<1>4. Tree(h, {x}) \subseteq S
  BY <1>1, <1>2, <1>3, TreeIsLeast
<1> QED
  BY <1>4 DEF S

\* Two parts of one container have nothing below them in common.
LEMMA TreesApart ==
    ASSUME NEW d, IsDocument(d), NEW r \in DOMAIN d.heap,
           NEW j \in DOMAIN d.heap[r].at, NEW k \in DOMAIN d.heap[r].at, j # k
    PROVE  Tree(d.heap, {d.heap[r].at[j]}) \cap Tree(d.heap, {d.heap[r].at[k]}) = {}
<1> DEFINE h == d.heap
           a == h[r].at[j]
           b == h[r].at[k]
           T == Tree(h, {a}) \cap Tree(h, {b})
<1>1. IsHeap(h) /\ DOMAIN h \subseteq Nat
  BY DEF IsDocument, IsHeap
<1>2. \A x \in DOMAIN h : Redacted \notin Range(h[x].at)
  BY DEF IsDocument
<1>3. a \in Range(h[r].at) /\ b \in Range(h[r].at)
  BY DEF Range
<1>4. a \in DOMAIN h \ {Redacted} /\ b \in DOMAIN h \ {Redacted} /\ a > r /\ b > r
  <2>1. \A y \in Range(h[r].at) : y \in DOMAIN h /\ (y > r \/ y = 0)
    BY <1>1, PartsComeAfter
  <2> QED
    BY <1>2, <1>3, <2>1 DEF Redacted
<1>5. \A x, y \in DOMAIN h : \A u \in DOMAIN h[x].at, v \in DOMAIN h[y].at :
        h[x].at[u] = h[y].at[v] => x = y /\ u = v
  <2>1. \A x, y \in DOMAIN h : \A u \in DOMAIN h[x].at, v \in DOMAIN h[y].at :
          h[x].at[u] = h[y].at[v] => h[x].at[u] = Redacted \/ (x = y /\ u = v)
    BY <1>1 DEF IsHeap
  <2>2. \A x \in DOMAIN h : \A u \in DOMAIN h[x].at : h[x].at[u] # Redacted
    BY <1>2 DEF Range
  <2> QED
    BY <2>1, <2>2
<1>6. a # b
  BY <1>5
<1>7. \A x, y \in DOMAIN h : \A z : z \in Range(h[x].at) /\ z \in Range(h[y].at) => x = y
  BY <1>5 DEF Range
<1> HIDE DEF h, a, b
<1>8. r \notin Tree(h, {a}) /\ r \notin Tree(h, {b})
  <2>1. \A y \in Tree(h, {a}) : y >= a
    BY <1>4, TreeComesAfter DEF h
  <2>2. \A y \in Tree(h, {b}) : y >= b
    BY <1>4, TreeComesAfter DEF h
  <2>3. r \in Nat /\ a \in Nat /\ b \in Nat
    BY <1>1, <1>4 DEF h
  <2> QED
    BY <1>4, <2>1, <2>2, <2>3
<1>9. /\ Tree(h, {a}) \subseteq DOMAIN h /\ Tree(h, {b}) \subseteq DOMAIN h
      /\ \A y \in Tree(h, {a}) : y = a \/ \E z \in Tree(h, {a}) : y \in Range(h[z].at)
      /\ \A y \in Tree(h, {b}) : y = b \/ \E z \in Tree(h, {b}) : y \in Range(h[z].at)
  BY <1>1, <1>4, TreeHolds
<1>10. SUFFICES ASSUME T # {} PROVE FALSE
  BY DEF h, a, b
<1>11. T \in SUBSET Nat
  BY <1>1, <1>9
<1>12. PICK y \in T : \A z \in T : y <= z
  <2> HIDE DEF T
  <2> QED
    BY <1>10, <1>11, LeastNumber
<1>13. y # a
  <2> SUFFICES ASSUME y = a PROVE FALSE
    OBVIOUS
  <2>1. PICK z \in Tree(h, {b}) : a \in Range(h[z].at)
    BY <1>6, <1>9, <1>12
  <2>2. z = r
    BY <1>3, <1>7, <1>9, <2>1 DEF h
  <2> QED
    BY <1>8, <2>1, <2>2
<1>14. y # b
  <2> SUFFICES ASSUME y = b PROVE FALSE
    OBVIOUS
  <2>1. PICK z \in Tree(h, {a}) : b \in Range(h[z].at)
    BY <1>6, <1>9, <1>12
  <2>2. z = r
    BY <1>3, <1>7, <1>9, <2>1 DEF h
  <2> QED
    BY <1>8, <2>1, <2>2
<1>15. PICK u \in Tree(h, {a}) : y \in Range(h[u].at)
  BY <1>9, <1>12, <1>13
<1>16. PICK v \in Tree(h, {b}) : y \in Range(h[v].at)
  BY <1>9, <1>12, <1>14
<1>17. u = v
  BY <1>7, <1>9, <1>15, <1>16
<1>18. u \in T /\ u \in DOMAIN h
  BY <1>9, <1>15, <1>16, <1>17
<1>19. y > u
  <2>1. \A z \in Range(h[u].at) : z \in DOMAIN h /\ (z > u \/ z = 0)
    BY <1>1, <1>18, PartsComeAfter
  <2> QED
    BY <1>2, <1>15, <1>18, <2>1 DEF Redacted, h
<1> QED
  BY <1>1, <1>11, <1>12, <1>18, <1>19

\* The elements of a value.
LEMMA ElementsHold ==
    ASSUME original \in Documents
    PROVE  /\ IsHeap(original.heap)
           /\ Elements \in Seq(DOMAIN original.heap \ {Redacted})
           /\ \A j, k \in DOMAIN Elements : j # k =>
                Tree(original.heap, {Elements[j]}) \cap Tree(original.heap, {Elements[k]}) = {}
<1> DEFINE h == original.heap
           r == original.root
<1>1. IsDocument(original) /\ IsHeap(h) /\ r \in DOMAIN h \ {Redacted}
  BY ContentFilterAssumption DEF IsDocument
<1>2. CASE IsAList
  <2>1. Elements = h[r].at
    BY <1>2 DEF Elements
  <2>2. h[r].at \in Seq(Nat)
    BY <1>1, <1>2 DEF IsAList, IsHeap, IsNode
  <2>3. \A k \in DOMAIN h[r].at : h[r].at[k] \in DOMAIN h \ {Redacted}
    <3>1. \A y \in Range(h[r].at) : y \in DOMAIN h
      BY <1>1, PartsComeAfter
    <3>2. Redacted \notin Range(h[r].at)
      BY <1>1 DEF IsDocument
    <3>3. \A k \in DOMAIN h[r].at : h[r].at[k] \in Range(h[r].at)
      BY DEF Range
    <3> QED
      BY <3>1, <3>2, <3>3
  <2>4. Elements \in Seq(DOMAIN h \ {Redacted})
    <3> DEFINE s == h[r].at
               S == DOMAIN h \ {Redacted}
    <3>1. s \in Seq(Nat) /\ \A k \in DOMAIN s : s[k] \in S
      BY <2>2, <2>3
    <3> HIDE DEF s, S
    <3>2. s \in Seq(S)
      BY <3>1
    <3> QED
      BY <2>1, <3>2 DEF s, S
  <2>5. \A j, k \in DOMAIN h[r].at : j # k => Tree(h, {h[r].at[j]}) \cap Tree(h, {h[r].at[k]}) = {}
    BY <1>1, TreesApart
  <2> QED
    BY <1>1, <2>1, <2>4, <2>5
<1>3. CASE ~IsAList
  <2>1. Elements = <<r>>
    BY <1>3 DEF Elements
  <2> QED
    BY <1>1, <2>1
<1> QED
  BY <1>2, <1>3
-----------------------------------------------------------------------------
(* The inductive invariant                                                 *)

\* The elements that no action was applied to yet.
IsUntouched(k) ==
    \/ k > position
    \/ k = position /\ applied = 0 /\ phase \in {"conditions", "actions"}

\* An element that was decided on when its conditions were judged, and its first action
\* prepared, as the caller's value has it.
IsSettled(e) ==
    /\ ConditionsMatch(original.heap, e) \in {"yes", "no"}
    /\ ConditionsMatch(original.heap, e) = "yes" /\ IsFilter /\ constraint.actions # <<>> =>
         ~CannotApply(original.heap, e, Head(constraint.actions))

IsFiltering ==
    /\ IsFilter
    /\ Elements # <<>>
    /\ ConditionsMatch(original.heap, Element) = "yes"
    /\ applied > 0 => ~CannotApply(original.heap, Element, Head(constraint.actions))

\* Other elements than the one being filtered are as they were; what was judged is what the
\* caller passed, not what actions on an earlier element left of it.
FilterInv ==
    /\ FilterTypeOK
    /\ constraint \in Constraints
    /\ original \in Documents
    /\ \A x \in DOMAIN heap : Range(heap[x].at) \subseteq Range(original.heap[x].at) \cup {Redacted}
    /\ \A k \in DOMAIN Elements : IsUntouched(k) => Agree(original.heap, heap, Elements[k])
    /\ \A k \in DOMAIN Elements :
         k < position \/ phase \in {"released", "dropped"} => IsSettled(Elements[k])
    /\ phase = "conditions" => applied = 0
    /\ phase = "actions" => IsFiltering

LEMMA AgreesWithItself ==
    ASSUME NEW h, IsHeap(h), NEW id \in DOMAIN h
    PROVE  Agree(h, h, id)
BY TreeHolds DEF Agree

LEMMA FilterInvInit == FilterInit => FilterInv
<1> SUFFICES ASSUME FilterInit PROVE FilterInv
  OBVIOUS
<1>1. /\ constraint \in Constraints /\ original \in Documents /\ heap = original.heap
      /\ phase = "conditions" /\ position = 1 /\ applied = 0 /\ kept = <<>>
  BY DEF FilterInit
<1>2. /\ IsHeap(original.heap)
      /\ Elements \in Seq(DOMAIN original.heap \ {Redacted})
  BY <1>1, ElementsHold
<1>3. constraint.actions \in Seq(Range(constraint.actions))
  BY <1>1, ContentFilterAssumption
<1>4. \A k \in DOMAIN Elements : Elements[k] \in DOMAIN original.heap
  BY <1>2
<1>5. \A k \in DOMAIN Elements : Agree(original.heap, heap, Elements[k])
  BY <1>1, <1>2, <1>4, AgreesWithItself
<1>6. FilterTypeOK
  <2>1. Elements # <<>> => Len(Elements) \in Nat \ {0}
    BY <1>2
  <2>2. Len(constraint.actions) \in Nat
    BY <1>3
  <2>3. kept \in Seq(Range(Elements))
    BY <1>1
  <2> QED
    BY <1>1, <1>2, <2>1, <2>2, <2>3 DEF FilterTypeOK
<1>7. \A k \in DOMAIN Elements : ~(k < position)
  BY <1>1, <1>2
<1> QED
  BY <1>1, <1>5, <1>6, <1>7 DEF FilterInv

\* What only speaks of the value and the constraint stays as it is.
LEMMA FilterStays ==
    ASSUME UNCHANGED <<constraint, original>>
    PROVE  /\ Elements' = Elements
           /\ IsAList' = IsAList
           /\ IsFilter' = IsFilter
           /\ \A e : IsSettled(e)' <=> IsSettled(e)
           /\ \A h, e : ConditionsMatch(h, e)' = ConditionsMatch(h, e)
           /\ original.heap' = original.heap
           /\ constraint.actions' = constraint.actions
<1>1. Elements' = Elements /\ IsAList' = IsAList /\ IsFilter' = IsFilter
  BY DEF Elements, IsAList, IsFilter
<1>2. \A h, e : ConditionsMatch(h, e)' = ConditionsMatch(h, e)
  BY DEF ConditionsMatch
<1>3. \A e : IsSettled(e)' <=> IsSettled(e)
  BY DEF IsSettled, ConditionsMatch, IsFilter
<1> QED
  BY <1>1, <1>2, <1>3

\* The numbers that the invariant is about.
LEMMA FilterNumbers ==
    ASSUME FilterInv
    PROVE  /\ Elements \in Seq(DOMAIN original.heap \ {Redacted})
           /\ IsHeap(original.heap)
           /\ IsHeap(heap)
           /\ DOMAIN heap = DOMAIN original.heap
           /\ constraint.actions \in Seq(Range(constraint.actions))
           /\ Len(constraint.actions) \in Nat
           /\ Len(Elements) \in Nat
           /\ DOMAIN Elements = 1..Len(Elements)
           /\ position \in Nat \ {0}
           /\ applied \in Nat
           /\ applied <= Len(constraint.actions)
           /\ Elements # <<>> => /\ position \in DOMAIN Elements
                                 /\ Element \in DOMAIN original.heap \ {Redacted}
<1>1. constraint \in Constraints /\ original \in Documents /\ FilterTypeOK
  BY DEF FilterInv
<1>2. /\ IsHeap(original.heap)
      /\ Elements \in Seq(DOMAIN original.heap \ {Redacted})
  BY <1>1, ElementsHold
<1>3. constraint.actions \in Seq(Range(constraint.actions))
  BY <1>1, ContentFilterAssumption
<1>4. Len(constraint.actions) \in Nat
  BY <1>3
<1>5. Len(Elements) \in Nat /\ DOMAIN Elements = 1..Len(Elements)
  BY <1>2
<1>6. IsHeap(heap) /\ DOMAIN heap = DOMAIN original.heap
  BY <1>1 DEF FilterTypeOK
<1>7. position \in Nat \ {0} /\ applied \in Nat /\ applied <= Len(constraint.actions)
  BY <1>1, <1>4, <1>5 DEF FilterTypeOK
<1>8. Elements # <<>> => position \in DOMAIN Elements
  BY <1>1, <1>5 DEF FilterTypeOK
<1>9. Elements # <<>> => Element \in DOMAIN original.heap \ {Redacted}
  BY <1>2, <1>8 DEF Element
<1> QED
  BY <1>2, <1>3, <1>4, <1>5, <1>6, <1>7, <1>8, <1>9

\* An element's conditions and first action are judged as the caller's value has them.
LEMMA JudgedAsPassed ==
    ASSUME FilterInv, Elements # <<>>, phase \in {"conditions", "actions"}, applied = 0
    PROVE  /\ ConditionsMatch(heap, Element) = ConditionsMatch(original.heap, Element)
           /\ \A action : IsPath(action.steps) =>
                (CannotApply(heap, Element, action) <=> CannotApply(original.heap, Element, action))
<1>1. /\ IsHeap(original.heap) /\ IsHeap(heap) /\ position \in DOMAIN Elements
      /\ Element \in DOMAIN original.heap
  BY FilterNumbers
<1>2. IsUntouched(position)
  BY DEF IsUntouched
<1>3. Agree(original.heap, heap, Element)
  BY <1>1, <1>2 DEF FilterInv, Element
<1>4. constraint \in Constraints
  BY DEF FilterInv
<1> QED
  BY <1>1, <1>3, <1>4, ConditionsAgree, CannotApplyAgrees

\* What a step leaves alone when it changes no node and goes on with no further element.
LEMMA PhaseChanges ==
    ASSUME FilterInv, UNCHANGED <<constraint, original, heap, position, applied, kept>>,
           phase' \in {"conditions", "actions", "released", "dropped", "denied"},
           phase' \in {"conditions", "actions"} => phase \in {"conditions", "actions"},
           phase' = "conditions" => applied = 0,
           phase' = "actions" => IsFiltering,
           phase' \in {"released", "dropped"} => \A k \in DOMAIN Elements : IsSettled(Elements[k])
    PROVE  FilterInv'
<1>1. /\ Elements' = Elements /\ (\A e : IsSettled(e)' <=> IsSettled(e))
      /\ original.heap' = original.heap /\ constraint.actions' = constraint.actions
  BY FilterStays
<1>2. FilterTypeOK'
  BY <1>1 DEF FilterInv, FilterTypeOK
<1>3. \A k \in DOMAIN Elements : IsUntouched(k)' => IsUntouched(k)
  BY DEF IsUntouched
<1>4. \A k \in DOMAIN Elements : IsUntouched(k)' => Agree(original.heap, heap, Elements[k])'
  BY <1>1, <1>3 DEF FilterInv, Agree
<1>5. phase' = "actions" => IsFiltering'
  BY <1>1, FilterStays DEF IsFiltering, Element
<1>6. \A k \in DOMAIN Elements :
         k < position \/ phase' \in {"released", "dropped"} => IsSettled(Elements[k])
  BY DEF FilterInv
<1>7. \A x \in DOMAIN heap' :
         Range(heap'[x].at) \subseteq Range(original'.heap[x].at) \cup {Redacted}
  BY DEF FilterInv
<1>8. constraint' \in Constraints /\ original' \in Documents
  BY DEF FilterInv
<1> QED
  BY <1>1, <1>2, <1>4, <1>5, <1>6, <1>7, <1>8 DEF FilterInv

KeptOK == kept \in Seq(Range(Elements))

\* Going on with the next element, or returning the value after the last one.
LEMMA NextElementKeeps ==
    ASSUME FilterInv, position \in DOMAIN Elements, UNCHANGED <<constraint, original, heap>>,
           KeptOK', IsSettled(Element), NextElement
    PROVE  FilterInv'
<1>1. /\ Elements' = Elements /\ (\A e : IsSettled(e)' <=> IsSettled(e))
      /\ original.heap' = original.heap /\ constraint.actions' = constraint.actions
  BY FilterStays
<1>2. /\ Len(Elements) \in Nat /\ DOMAIN Elements = 1..Len(Elements)
      /\ position \in Nat \ {0}
      /\ Len(constraint.actions) \in Nat
  BY FilterNumbers
<1>3. /\ applied' = 0
      /\ \/ position < Len(Elements) /\ position' = position + 1 /\ phase' = "conditions"
         \/ position = Len(Elements) /\ position' = position /\ phase' = "released"
  BY <1>2 DEF NextElement
<1>4. position' \in DOMAIN Elements
  BY <1>2, <1>3
<1>5. FilterTypeOK'
  <2>1. position' \in 1..(IF Elements = <<>> THEN 1 ELSE Len(Elements))
    <3>1. Elements # <<>>
      OBVIOUS
    <3>2. position' \in 1..Len(Elements)
      BY <1>2, <1>4
    <3> QED
      BY <3>1, <3>2
  <2>2. applied' \in 0..Len(constraint.actions)
    BY <1>2, <1>3
  <2> QED
    BY <1>1, <1>3, <2>1, <2>2 DEF FilterInv, FilterTypeOK, KeptOK
<1>6. \A k \in DOMAIN Elements : IsUntouched(k)' => k > position
  BY <1>2, <1>3 DEF IsUntouched
<1>7. \A k \in DOMAIN Elements : IsUntouched(k)' => Agree(original.heap, heap, Elements[k])'
  BY <1>1, <1>6 DEF FilterInv, Agree, IsUntouched
<1>8. \A k \in DOMAIN Elements : k < position' \/ phase' \in {"released", "dropped"} => k <= position
  BY <1>2, <1>3
<1>9. \A k \in DOMAIN Elements : k <= position => IsSettled(Elements[k])
  <2>1. \A k \in DOMAIN Elements : k < position => IsSettled(Elements[k])
    BY DEF FilterInv
  <2>2. IsSettled(Elements[position])
    BY DEF Element
  <2> QED
    BY <1>2, <2>1, <2>2
<1>10. \A x \in DOMAIN heap' :
         Range(heap'[x].at) \subseteq Range(original'.heap[x].at) \cup {Redacted}
  BY DEF FilterInv
<1>11. constraint' \in Constraints /\ original' \in Documents
  BY DEF FilterInv
<1> QED
  BY <1>1, <1>3, <1>5, <1>7, <1>8, <1>9, <1>10, <1>11 DEF FilterInv

LEMMA FiltersElementKeeps ==
    ASSUME FilterInv, FiltersElement
    PROVE  FilterInv'
<1> DEFINE matches == ConditionsMatch(heap, Element)
<1>1. /\ phase = "conditions" /\ IsFilter /\ Elements # <<>>
      /\ UNCHANGED <<constraint, original, heap, kept>>
      /\ \/ matches = "deny" /\ phase' = "denied" /\ UNCHANGED <<position, applied>>
         \/ matches = "yes"  /\ phase' = "actions" /\ UNCHANGED <<position, applied>>
         \/ matches = "no"   /\ NextElement
  BY DEF FiltersElement
<1>2. applied = 0
  BY <1>1 DEF FilterInv
<1>3. ConditionsMatch(original.heap, Element) = matches
  BY <1>1, <1>2, JudgedAsPassed
<1> HIDE DEF matches
<1>4. CASE matches = "deny" /\ phase' = "denied" /\ UNCHANGED <<position, applied>>
  BY <1>1, <1>4, PhaseChanges
<1>5. CASE matches = "yes" /\ phase' = "actions" /\ UNCHANGED <<position, applied>>
  <2>1. IsFiltering
    BY <1>1, <1>2, <1>3, <1>5 DEF IsFiltering
  <2> QED
    BY <1>1, <1>5, <2>1, PhaseChanges
<1>6. CASE matches = "no" /\ NextElement
  <2>1. IsSettled(Element)
    BY <1>3, <1>6 DEF IsSettled
  <2>2. KeptOK'
    BY <1>1, FilterStays DEF FilterInv, FilterTypeOK, KeptOK
  <2> QED
    BY <1>1, <1>6, <2>1, <2>2, FilterNumbers, NextElementKeeps
<1> QED
  BY <1>1, <1>4, <1>5, <1>6

LEMMA LeavesElementKeeps ==
    ASSUME FilterInv, LeavesElement
    PROVE  FilterInv'
<1>1. /\ phase = "actions" /\ applied = Len(constraint.actions) /\ NextElement
      /\ UNCHANGED <<constraint, original, heap, kept>>
  BY DEF LeavesElement
<1>2. IsFiltering
  BY <1>1 DEF FilterInv
<1>3. constraint.actions # <<>> => applied > 0
  <2>1. constraint.actions \in Seq(Range(constraint.actions))
    BY FilterNumbers
  <2>2. constraint.actions # <<>> => Len(constraint.actions) \in Nat \ {0}
    BY <2>1
  <2> QED
    BY <1>1, <2>2
<1>4. IsSettled(Element)
  BY <1>2, <1>3 DEF IsSettled, IsFiltering
<1>5. KeptOK' /\ Elements # <<>>
  BY <1>1, <1>2, FilterStays DEF FilterInv, FilterTypeOK, IsFiltering, KeptOK
<1> QED
  BY <1>1, <1>4, <1>5, FilterNumbers, NextElementKeeps

LEMMA ReturnsEmptyKeeps ==
    ASSUME FilterInv, ReturnsEmpty
    PROVE  FilterInv'
<1>1. /\ phase = "conditions" /\ Elements = <<>> /\ phase' = "released"
      /\ UNCHANGED <<constraint, original, heap, position, applied, kept>>
  BY DEF ReturnsEmpty
<1>2. DOMAIN Elements = {}
  BY <1>1
<1> QED
  BY <1>1, <1>2, PhaseChanges

LEMMA JudgesElementKeeps ==
    ASSUME FilterInv, JudgesElement
    PROVE  FilterInv'
<1> DEFINE matches == ConditionsMatch(heap, Element)
<1>1. /\ phase = "conditions" /\ ~IsFilter /\ Elements # <<>>
      /\ UNCHANGED <<constraint, original, heap>>
      /\ \/ matches = "deny" /\ phase' = "denied" /\ UNCHANGED <<position, applied, kept>>
         \/ matches = "yes" /\ kept' = Append(kept, Element) /\ NextElement
         \/ /\ matches = "no" /\ ~IsAList
            /\ phase' = "dropped"
            /\ UNCHANGED <<position, applied, kept>>
         \/ matches = "no" /\ IsAList /\ UNCHANGED kept /\ NextElement
  BY DEF JudgesElement
<1>2. applied = 0
  BY <1>1 DEF FilterInv
<1>3. ConditionsMatch(original.heap, Element) = matches
  BY <1>1, <1>2, JudgedAsPassed
<1>4. kept \in Seq(Range(Elements))
  BY DEF FilterInv, FilterTypeOK
<1>5. position \in DOMAIN Elements /\ Element \in Range(Elements)
  BY <1>1, FilterNumbers DEF Element, Range
<1> HIDE DEF matches
<1>6. matches \in {"yes", "no"} => IsSettled(Element)
  BY <1>1, <1>3 DEF IsSettled
<1>7. CASE matches = "deny" /\ phase' = "denied" /\ UNCHANGED <<position, applied, kept>>
  BY <1>1, <1>7, PhaseChanges
<1>8. CASE matches = "yes" /\ kept' = Append(kept, Element) /\ NextElement
  <2>1. KeptOK'
    BY <1>1, <1>4, <1>5, <1>8, FilterStays DEF KeptOK
  <2> QED
    BY <1>1, <1>5, <1>6, <1>8, <2>1, NextElementKeeps
<1>9. CASE matches = "no" /\ ~IsAList /\ phase' = "dropped" /\ UNCHANGED <<position, applied, kept>>
  <2>1. Elements = <<original.root>>
    BY <1>9 DEF Elements
  <2>2. \A k \in DOMAIN Elements : Elements[k] = Element
    BY <1>5, <2>1 DEF Element
  <2>3. \A k \in DOMAIN Elements : IsSettled(Elements[k])
    BY <1>6, <1>9, <2>2
  <2> QED
    BY <1>1, <1>9, <2>3, PhaseChanges
<1>10. CASE matches = "no" /\ IsAList /\ UNCHANGED kept /\ NextElement
  <2>1. KeptOK'
    BY <1>1, <1>4, <1>10, FilterStays DEF KeptOK
  <2> QED
    BY <1>1, <1>5, <1>6, <1>10, <2>1, NextElementKeeps
<1> QED
  BY <1>1, <1>7, <1>8, <1>9, <1>10

\* An action reaches no other element.
LEMMA OthersAgree ==
    ASSUME FilterInv, Elements # <<>>, NEW g, OnlyChanges(heap, g, Tree(heap, {Element})),
           NEW k \in DOMAIN Elements, k > position
    PROVE  Agree(original.heap, g, Elements[k])
<1> DEFINE h == original.heap
<1>1. /\ IsHeap(h) /\ IsHeap(heap) /\ DOMAIN heap = DOMAIN h
      /\ position \in Nat /\ position \in DOMAIN Elements
      /\ Elements \in Seq(DOMAIN h \ {Redacted}) /\ Element \in DOMAIN h \ {Redacted}
  BY FilterNumbers
<1>2. original \in Documents /\ IsDocument(original)
  BY ContentFilterAssumption DEF FilterInv
<1>3. Agree(h, heap, Elements[k])
  BY DEF FilterInv, IsUntouched
<1>4. Elements[k] \in DOMAIN h \ {Redacted}
  BY <1>1
<1>5. Tree(h, {Elements[k]}) \cap Tree(h, {Element}) = {}
  BY <1>1, <1>2, ElementsHold DEF Element
<1>6. Redacted \notin Tree(h, {Elements[k]})
  BY <1>2, <1>4, TreeComesAfter
<1>7. Tree(heap, {Element}) \subseteq Tree(h, {Element}) \cup {Redacted}
  <2>1. \A x \in DOMAIN h : Range(heap[x].at) \subseteq Range(h[x].at) \cup {Redacted}
    BY <1>1 DEF FilterInv
  <2> HIDE DEF h
  <2> QED
    BY <1>1, <2>1, TreeShrinks
<1> HIDE DEF h
<1>8. ASSUME NEW x \in Tree(h, {Elements[k]}) PROVE x \in DOMAIN g /\ h[x] = g[x]
  <2>1. x \in DOMAIN heap /\ h[x] = heap[x]
    BY <1>3 DEF Agree
  <2>2. x \notin Tree(heap, {Element})
    BY <1>5, <1>6, <1>7
  <2> QED
    BY <1>1, <2>1, <2>2 DEF OnlyChanges
<1> QED
  BY <1>8 DEF Agree, h

LEMMA AppliesKeeps ==
    ASSUME FilterInv, Applies
    PROVE  FilterInv'
<1> DEFINE action == constraint.actions[applied + 1]
           slots == Slots(heap, Element, action.steps)
<1>1. /\ phase = "actions" /\ applied < Len(constraint.actions)
      /\ UNCHANGED <<constraint, original, position, kept>>
      /\ \/ CannotApply(heap, Element, action) /\ phase' = "denied" /\ UNCHANGED <<heap, applied>>
         \/ /\ ~CannotApply(heap, Element, action)
            /\ heap' = Changed(heap, slots, action) /\ applied' = applied + 1 /\ UNCHANGED phase
  BY DEF Applies
<1>2. IsFiltering /\ Elements # <<>>
  BY <1>1 DEF FilterInv, IsFiltering
<1>3. /\ IsHeap(heap) /\ DOMAIN heap = DOMAIN original.heap
      /\ Element \in DOMAIN heap
      /\ constraint.actions \in Seq(Range(constraint.actions))
      /\ applied \in Nat /\ Len(constraint.actions) \in Nat
  BY <1>2, FilterNumbers
<1>4. applied + 1 \in DOMAIN constraint.actions /\ IsPath(action.steps)
  <2>1. applied + 1 \in DOMAIN constraint.actions
    BY <1>1, <1>3
  <2>2. action \in Range(constraint.actions)
    BY <2>1, Zenon DEF Range
  <2>3. constraint \in Constraints
    BY DEF FilterInv
  <2> QED
    BY <2>1, <2>2, <2>3, ContentFilterAssumption
<1> HIDE DEF slots, action
<1>5. CASE CannotApply(heap, Element, action) /\ phase' = "denied" /\ UNCHANGED <<heap, applied>>
  BY <1>1, <1>5, PhaseChanges
<1>6. CASE /\ ~CannotApply(heap, Element, action)
           /\ heap' = Changed(heap, slots, action) /\ applied' = applied + 1 /\ UNCHANGED phase
  <2> DEFINE X == Tree(heap, {Element})
  <2>1. slots \in Seq(SlotsOf(heap)) /\ \A s \in Range(slots) : s[1] \in X
    BY <1>3, <1>4, SlotsFind DEF LeadTo, slots
  <2>2. OnlyChanges(heap, heap', X)
    <3>1. PICK f : ChangesInTurn(f, heap, slots, action)
      BY <2>1, ChangedUnfolds
    <3>2. heap' = f[Len(slots)]
      BY <1>6, <3>1 DEF ChangesInTurn
    <3>3. Len(slots) \in 0..Len(slots)
      BY <2>1
    <3> HIDE DEF X
    <3> QED
      BY <1>3, <2>1, <3>1, <3>2, <3>3, ChangedHolds
  <2>3. /\ Elements' = Elements /\ IsFilter' = IsFilter
        /\ (\A e : IsSettled(e)' <=> IsSettled(e))
        /\ (\A h, e : ConditionsMatch(h, e)' = ConditionsMatch(h, e))
        /\ original.heap' = original.heap /\ constraint.actions' = constraint.actions
    BY <1>1, FilterStays
  <2>4. FilterTypeOK'
    <3>1. applied' \in 0..Len(constraint.actions)
      BY <1>1, <1>3, <1>6
    <3>2. IsHeap(heap') /\ DOMAIN heap' = DOMAIN original.heap
      BY <1>3, <2>2 DEF OnlyChanges
    <3> QED
      BY <1>1, <1>6, <2>3, <3>1, <3>2 DEF FilterInv, FilterTypeOK
  <2>5. \A x \in DOMAIN heap' :
          Range(heap'[x].at) \subseteq Range(original'.heap[x].at) \cup {Redacted}
    <3>1. \A x \in DOMAIN heap : Range(heap[x].at) \subseteq Range(original.heap[x].at) \cup {Redacted}
      BY DEF FilterInv
    <3> QED
      BY <1>1, <2>2, <3>1 DEF OnlyChanges
  <2>6. \A k \in DOMAIN Elements : IsUntouched(k)' => k > position
    BY <1>1, <1>3, <1>6 DEF IsUntouched
  <2>7. \A k \in DOMAIN Elements : IsUntouched(k)' => Agree(original.heap, heap', Elements[k])
    BY <1>2, <2>2, <2>6, OthersAgree
  <2>8. \A k \in DOMAIN Elements : IsUntouched(k)' => Agree(original.heap, heap, Elements[k])'
    BY <2>3, <2>7 DEF Agree
  <2>9. IsFiltering'
    <3>1. ~CannotApply(original.heap, Element, Head(constraint.actions))
      <4>1. CASE applied = 0
        <5>1. ~CannotApply(original.heap, Element, action)
          BY <1>1, <1>2, <1>4, <1>6, <4>1, JudgedAsPassed
        <5>2. action = Head(constraint.actions)
          BY <1>3, <1>4, <4>1 DEF action
        <5> QED
          BY <5>1, <5>2
      <4>2. CASE applied # 0
        BY <1>2, <1>3, <4>2 DEF IsFiltering
      <4> QED
        BY <4>1, <4>2
    <3>2. Element' = Element
      BY <1>1, <2>3 DEF Element
    <3> QED
      BY <1>2, <2>3, <3>1, <3>2 DEF IsFiltering
  <2>10. \A k \in DOMAIN Elements :
           k < position' \/ phase' \in {"released", "dropped"} => IsSettled(Elements[k])
    BY <1>1, <1>6 DEF FilterInv
  <2>11. constraint' \in Constraints /\ original' \in Documents /\ phase' = "actions"
    BY <1>1, <1>6 DEF FilterInv
  <2> QED
    BY <2>3, <2>4, <2>5, <2>8, <2>9, <2>10, <2>11 DEF FilterInv
<1> QED
  BY <1>1, <1>5, <1>6

LEMMA FilterInvStep == FilterInv /\ [FilterNext]_filterVars => FilterInv'
<1> SUFFICES ASSUME FilterInv, [FilterNext]_filterVars PROVE FilterInv'
  OBVIOUS
<1>1. CASE FiltersElement
  BY <1>1, FiltersElementKeeps
<1>2. CASE Applies
  BY <1>2, AppliesKeeps
<1>3. CASE LeavesElement
  BY <1>3, LeavesElementKeeps
<1>4. CASE ReturnsEmpty
  BY <1>4, ReturnsEmptyKeeps
<1>5. CASE JudgesElement
  BY <1>5, JudgesElementKeeps
<1>6. CASE UNCHANGED filterVars
  <2>1. /\ UNCHANGED <<constraint, original, heap, position, applied, kept>>
        /\ phase' = phase
    BY <1>6 DEF filterVars
  <2> QED
    BY <2>1, PhaseChanges DEF FilterInv, FilterTypeOK
<1> QED
  BY <1>1, <1>2, <1>3, <1>4, <1>5, <1>6 DEF FilterNext

\* What an element that was decided on says of what its paths address.
LEMMA SettledHolds ==
    ASSUME FilterInv, NEW k \in DOMAIN Elements, IsSettled(Elements[k])
    PROVE  /\ constraint.conditions # <<>> =>
                /\ Head(constraint.conditions).operator # "malformed"
                /\ Addressed(original.heap, Elements[k], Head(constraint.conditions).steps) # {}
           /\ IsFilter /\ constraint.actions # <<>> /\
              (\A c \in Range(constraint.conditions) :
                 c.operator = "==" /\ ~IsRejected(c.steps) /\
                 \E x \in Addressed(original.heap, Elements[k], c.steps) :
                    IsDefinite(c.steps) /\ original.heap[x].text = c.value) =>
                LET action  == Head(constraint.actions)
                    targets == Addressed(original.heap, Elements[k], action.steps)
                IN  /\ action.type \in {"blacken", "replace", "delete"}
                    /\ IsDefinite(action.steps) => targets # {}
                    /\ action.type = "blacken" =>
                         \A x \in targets : original.heap[x].kind = "text"
<1> DEFINE h == original.heap
           id == Elements[k]
<1>1. IsHeap(h) /\ id \in DOMAIN h /\ constraint.actions \in Seq(Range(constraint.actions))
  BY FilterNumbers
<1>2. constraint \in Constraints
  BY DEF FilterInv
<1>3. ConditionsMatch(h, id) \in {"yes", "no"}
  BY DEF IsSettled
<1> HIDE DEF h, id
<1>4. constraint.conditions # <<>> =>
        /\ Head(constraint.conditions).operator # "malformed"
        /\ Addressed(h, id, Head(constraint.conditions).steps) # {}
  BY <1>1, <1>2, <1>3, FirstCondition
<1>5. ASSUME IsFilter, constraint.actions # <<>>,
             \A c \in Range(constraint.conditions) :
                 c.operator = "==" /\ ~IsRejected(c.steps) /\
                 \E x \in Addressed(h, id, c.steps) : IsDefinite(c.steps) /\ h[x].text = c.value
      PROVE  LET action  == Head(constraint.actions)
                 targets == Addressed(h, id, action.steps)
             IN  /\ action.type \in {"blacken", "replace", "delete"}
                 /\ IsDefinite(action.steps) => targets # {}
                 /\ action.type = "blacken" => \A x \in targets : h[x].kind = "text"
  <2> DEFINE action == Head(constraint.actions)
             slots == Slots(h, id, action.steps)
  <2>1. \A c \in Range(constraint.conditions) : IsPath(c.steps)
    BY <1>2, ContentFilterAssumption
  <2>2. \A c \in Range(constraint.conditions) : Evaluated(h, id, c) = "yes"
    BY <1>1, <1>5, <2>1, EvaluatedHolds
  <2>3. ConditionsMatch(h, id) = "yes"
    BY <1>1, <1>2, <2>2, FirstCondition
  <2>4. ~CannotApply(h, id, action)
    BY <1>5, <2>3 DEF IsSettled, h, id
  <2>5. IsPath(action.steps)
    <3>1. action \in Range(constraint.actions)
      BY <1>1, <1>5 DEF Range
    <3> QED
      BY <1>2, <3>1, ContentFilterAssumption
  <2>6. LeadTo(h, id, slots, Addressed(h, id, action.steps))
    BY <1>1, <2>5, SlotsFind
  <2>7. slots = <<>> <=> Addressed(h, id, action.steps) = {}
    BY <1>1, <2>5, NoSlots
  <2>8. /\ IsDefinite(action.steps) => slots # <<>>
        /\ ~IsUnfit(h, slots, action)
    BY <2>4 DEF CannotApply
  <2> HIDE DEF slots, action
  <2>9. action.type = "blacken" => \A x \in Addressed(h, id, action.steps) : h[x].kind = "text"
    <3>1. \A x \in Addressed(h, id, action.steps) : \E j \in DOMAIN slots : x = Follow(h, slots[j])
      BY <2>6 DEF LeadTo, Targets, Range
    <3> QED
      BY <2>8, <3>1 DEF IsUnfit
  <2> QED
    BY <2>7, <2>8, <2>9 DEF IsUnfit, action
<1> QED
  BY <1>4, <1>5 DEF h, id

LEMMA FilterInvImplies == FilterInv => HandlerInv
<1> SUFFICES ASSUME FilterInv PROVE HandlerInv
  OBVIOUS
<1>1. phase \in {"released", "dropped"} => \A k \in DOMAIN Elements : IsSettled(Elements[k])
  BY DEF FilterInv
<1>2. UnappliedIsDenied
  <2> SUFFICES ASSUME phase = "released", IsFilter, constraint.actions # <<>>,
                      NEW k \in DOMAIN Elements
               PROVE  (\A c \in Range(constraint.conditions) :
                         c.operator = "==" /\ ~IsRejected(c.steps) /\
                         \E x \in Addressed(original.heap, Elements[k], c.steps) :
                            IsDefinite(c.steps) /\ original.heap[x].text = c.value) =>
                        LET action  == Head(constraint.actions)
                            targets == Addressed(original.heap, Elements[k], action.steps)
                        IN  /\ action.type \in {"blacken", "replace", "delete"}
                            /\ IsDefinite(action.steps) => targets # {}
                            /\ action.type = "blacken" =>
                                 \A x \in targets : original.heap[x].kind = "text"
    BY DEF UnappliedIsDenied
  <2>1. IsSettled(Elements[k])
    BY <1>1
  <2> QED
    BY <2>1, SettledHolds
<1>3. MissingConditionDenies
  BY <1>1, SettledHolds DEF MissingConditionDenies
<1>4. FilterTypeOK
  BY DEF FilterInv
<1> QED
  BY <1>2, <1>3, <1>4 DEF HandlerInv

\* A value is released only when the conditions of every element could be judged, and the
\* first action of its filter carried out where they hold, whatever actions on earlier
\* elements did (_make_filter_handler, _make_predicate_handler).
THEOREM FilterHandles == FilterSpec => []HandlerInv
<1>1. FilterInit => FilterInv
  BY FilterInvInit
<1>2. FilterInv /\ [FilterNext]_filterVars => FilterInv'
  BY FilterInvStep
<1>3. FilterInv => HandlerInv
  BY FilterInvImplies
<1> QED
  BY <1>1, <1>2, <1>3, PTL DEF FilterSpec
-----------------------------------------------------------------------------
(* What an action takes away                                               *)

\* Parts of containers that are left, all of them but some.
PartsLeft(h, g, gone) ==
    \A c \in DOMAIN h : /\ Range(h[c].at) \ gone \subseteq Range(g[c].at)
                        /\ Range(g[c].at) \subseteq (Range(h[c].at) \ gone) \cup {Redacted}

\* A heap in which some nodes were redacted in place.
IsRedacted(h, g, gone) ==
    \A c \in DOMAIN h :
        /\ g[c].kind = h[c].kind
        /\ g[c].length = h[c].length
        /\ DOMAIN g[c].at = DOMAIN h[c].at
        /\ \A p \in DOMAIN h[c].at :
             g[c].at[p] = IF h[c].at[p] \in gone THEN Redacted ELSE h[c].at[p]

LEMMA PlaceStays ==
    ASSUME NEW h, IsHeap(h), NEW g, IsHeap(g), NEW c \in DOMAIN h, c \in DOMAIN g,
           g[c].kind = h[c].kind, DOMAIN g[c].at = DOMAIN h[c].at, NEW key
    PROVE  Place(g[c], key) = Place(h[c], key)
<1>1. CASE h[c].kind = "array"
  <2>1. h[c].at \in Seq(Nat) /\ g[c].at \in Seq(Nat)
    BY <1>1 DEF IsHeap, IsNode
  <2> DEFINE s == h[c].at
             t == g[c].at
  <2>2. s \in Seq(Nat) /\ t \in Seq(Nat) /\ DOMAIN s = DOMAIN t
    BY <2>1
  <2>3. Len(s) = Len(t)
    <3> HIDE DEF s, t
    <3>1. Len(s) \in Nat /\ Len(t) \in Nat /\ 1..Len(s) = 1..Len(t)
      BY <2>2
    <3>2. Len(s) <= Len(t)
      <4>1. CASE Len(s) = 0
        BY <3>1, <4>1
      <4>2. CASE Len(s) # 0
        <5>1. Len(s) \in 1..Len(s)
          BY <3>1, <4>2
        <5> QED
          BY <3>1, <5>1
      <4> QED
        BY <4>1, <4>2
    <3>3. Len(t) <= Len(s)
      <4>1. CASE Len(t) = 0
        BY <3>1, <4>1
      <4>2. CASE Len(t) # 0
        <5>1. Len(t) \in 1..Len(t)
          BY <3>1, <4>2
        <5> QED
          BY <3>1, <5>1
      <4> QED
        BY <4>1, <4>2
    <3> QED
      BY <3>1, <3>2, <3>3
  <2> QED
    BY <1>1, <2>3 DEF Place
<1>2. CASE h[c].kind # "array"
  BY <1>2 DEF Place
<1> QED
  BY <1>1, <1>2

\* One more slot is redacted, or disclosed.
LEMMA RedactsOneMore ==
    ASSUME NEW h, IsHeap(h), NEW g, IsHeap(g), DOMAIN g = DOMAIN h,
           NEW gone, IsRedacted(h, g, gone), NEW slot \in SlotsOf(h),
           NEW action, action.type \in {"blacken", "replace"}, action.disclose \in Nat
    PROVE  IsRedacted(h, ChangeSlot(g, slot, action),
                      gone \cup ({Follow(h, slot)} \ Disclosed(h, action)))
<1> DEFINE c == slot[1]
           p == Place(h[c], slot[2])
           x == Follow(h, slot)
           more == gone \cup ({x} \ Disclosed(h, action))
           e == ChangeSlot(g, slot, action)
<1>1. c \in DOMAIN h /\ p \in DOMAIN h[c].at /\ x = h[c].at[p] /\ x \in DOMAIN h
  <2>1. c \in DOMAIN h /\ Has(h[c], slot[2])
    BY DEF SlotsOf
  <2> QED
    BY <2>1, SlotLeads DEF Has, Follow
<1>2. /\ g[c].kind = h[c].kind /\ DOMAIN g[c].at = DOMAIN h[c].at
      /\ g[c].at[p] = IF x \in gone THEN Redacted ELSE x
  BY <1>1 DEF IsRedacted
<1>3. Place(g[c], slot[2]) = p
  BY <1>1, <1>2, PlaceStays
<1>4. Follow(g, slot) = g[c].at[p]
  BY <1>3 DEF Follow
<1>5. \A y \in DOMAIN h : g[y].length = h[y].length
  BY DEF IsRedacted
<1>6. h[Redacted].length = 0 /\ Redacted \in DOMAIN h
  BY DEF IsHeap, Redacted, RedactedLeaf
<1> HIDE DEF c, p, x, e
<1>7. CASE action.type = "blacken" /\ action.disclose >= g[Follow(g, slot)].length
  <2>1. e = g
    BY <1>7 DEF ChangeSlot, e
  <2>2. x \notin gone => x \in Disclosed(h, action)
    BY <1>1, <1>2, <1>4, <1>5, <1>7 DEF Disclosed
  <2>3. more = gone
    BY <2>2
  <2> QED
    BY <2>1, <2>3 DEF e, x
<1>8. CASE ~(action.type = "blacken" /\ action.disclose >= g[Follow(g, slot)].length)
  <2>1. x \notin Disclosed(h, action)
    <3> SUFFICES ASSUME x \in Disclosed(h, action) PROVE FALSE
      OBVIOUS
    <3>1. action.type = "blacken" /\ action.disclose >= h[x].length
      BY DEF Disclosed
    <3>2. CASE x \in gone
      BY <1>2, <1>4, <1>5, <1>6, <1>8, <3>1, <3>2
    <3>3. CASE x \notin gone
      BY <1>1, <1>2, <1>4, <1>5, <1>8, <3>1, <3>3
    <3> QED
      BY <3>2, <3>3
  <2> DEFINE at == [g[c].at EXCEPT ![p] = Redacted]
  <2>2. e = WithParts(g, c, at)
    <3>1. e = RedactSlot(g, slot)
      BY <1>8 DEF ChangeSlot, e
    <3>2. RedactSlot(g, slot) = [g EXCEPT ![slot[1]].at =
             [g[slot[1]].at EXCEPT ![Place(g[slot[1]], slot[2])] = Redacted]]
      BY Zenon DEF RedactSlot
    <3> QED
      BY <1>3, <3>1, <3>2 DEF WithParts, c
  <2>3. IsNode(g[c]) /\ c \in DOMAIN g
    BY <1>1 DEF IsHeap
  <2>4. /\ e[c].at = at /\ e[c].kind = g[c].kind /\ e[c].length = g[c].length
        /\ \A y \in DOMAIN g : y # c => e[y] = g[y]
    <3> HIDE DEF at
    <3> QED
      BY <2>2, <2>3 DEF WithParts, IsNode
  <2>5. /\ DOMAIN at = DOMAIN g[c].at
        /\ \A q \in DOMAIN at : at[q] = IF q = p THEN Redacted ELSE g[c].at[q]
    OBVIOUS
  <2> HIDE DEF at
  <2>6. more = gone \cup {x}
    BY <2>1
  <2>7. ASSUME NEW y \in DOMAIN h
        PROVE  /\ e[y].kind = h[y].kind
               /\ e[y].length = h[y].length
               /\ DOMAIN e[y].at = DOMAIN h[y].at
               /\ \A q \in DOMAIN h[y].at :
                    e[y].at[q] = IF h[y].at[q] \in more THEN Redacted ELSE h[y].at[q]
    <3>1. /\ g[y].kind = h[y].kind /\ g[y].length = h[y].length
          /\ DOMAIN g[y].at = DOMAIN h[y].at
          /\ \A q \in DOMAIN h[y].at :
                    g[y].at[q] = IF h[y].at[q] \in gone THEN Redacted ELSE h[y].at[q]
      BY DEF IsRedacted
    <3>2. \A q \in DOMAIN h[y].at : h[y].at[q] = x => x = Redacted \/ (y = c /\ q = p)
      BY <1>1 DEF IsHeap
    <3>3. CASE y = c
      <4>1. ASSUME NEW q \in DOMAIN h[y].at
            PROVE  e[y].at[q] = IF h[y].at[q] \in more THEN Redacted ELSE h[y].at[q]
        <5>1. CASE q = p
          BY <1>1, <2>4, <2>5, <2>6, <3>1, <3>3, <5>1
        <5>2. CASE q # p
          BY <2>4, <2>5, <2>6, <3>1, <3>2, <3>3, <5>2
        <5> QED
          BY <5>1, <5>2
      <4> QED
        BY <2>4, <2>5, <3>1, <3>3, <4>1
    <3>4. CASE y # c
      <4>1. e[y] = g[y]
        BY <2>4, <3>4
      <4>2. ASSUME NEW q \in DOMAIN h[y].at
            PROVE  e[y].at[q] = IF h[y].at[q] \in more THEN Redacted ELSE h[y].at[q]
        BY <2>6, <3>1, <3>2, <3>4, <4>1
      <4> QED
        BY <3>1, <4>1, <4>2
    <3> QED
      BY <3>3, <3>4
  <2> QED
    BY <2>7 DEF IsRedacted, e, x
<1> QED
  BY <1>7, <1>8

LEMMA RedactedPartsLeft ==
    ASSUME NEW h, NEW g, NEW gone, IsRedacted(h, g, gone)
    PROVE  PartsLeft(h, g, gone)
<1> SUFFICES ASSUME NEW c \in DOMAIN h
             PROVE  /\ Range(h[c].at) \ gone \subseteq Range(g[c].at)
                    /\ Range(g[c].at) \subseteq (Range(h[c].at) \ gone) \cup {Redacted}
  BY DEF PartsLeft
<1>1. DOMAIN g[c].at = DOMAIN h[c].at
  BY DEF IsRedacted
<1>2. \A p \in DOMAIN h[c].at : g[c].at[p] = IF h[c].at[p] \in gone THEN Redacted ELSE h[c].at[p]
  BY DEF IsRedacted
<1> QED
  BY <1>1, <1>2 DEF Range

\* A heap from which some slots were deleted, no two of them from one array.
IsDeleted(h, g, done) ==
    \A c \in DOMAIN h :
        /\ (\A s \in done : s[1] # c) => g[c] = h[c]
        /\ h[c].kind = "array" =>
             /\ \A s, s2 \in done : s[1] = c /\ s2[1] = c => s = s2
             /\ \A s \in done : s[1] = c => g[c].at = RemoveAt(h[c].at, Place(h[c], s[2]))
        /\ h[c].kind = "object" =>
             /\ g[c].kind = "object"
             /\ DOMAIN g[c].at = {name \in DOMAIN h[c].at : \A s \in done : s[1] = c => s[2] # name}
             /\ \A name \in DOMAIN g[c].at : g[c].at[name] = h[c].at[name]

LEMMA DeletesOneMore ==
    ASSUME NEW h, IsHeap(h), NEW g, IsHeap(g), DOMAIN g = DOMAIN h,
           NEW done, IsDeleted(h, g, done), NEW slot \in SlotsOf(h),
           h[slot[1]].kind = "array" => \A s \in done : s[1] # slot[1]
    PROVE  IsDeleted(h, DeleteSlot(g, slot), done \cup {slot})
<1> DEFINE c == slot[1]
           e == DeleteSlot(g, slot)
           place == Place(g[c], slot[2])
           all == done \cup {slot}
<1>1. c \in DOMAIN h /\ IsContainer(h[c]) /\ Has(h[c], slot[2])
  BY SlotHolds DEF SlotsOf
<1>2. IsNode(g[c]) /\ c \in DOMAIN g
  BY <1>1 DEF IsHeap
<1>3. h[c].kind = "array" => g[c] = h[c]
  BY <1>1 DEF IsDeleted
<1>4. h[c].kind = "object" => g[c].kind = "object"
  BY <1>1 DEF IsDeleted
<1>5. h[c].kind = "object" \/ h[c].kind = "array"
  BY <1>1 DEF IsContainer
<1> DEFINE at == IF g[c].kind = "array" THEN RemoveAt(g[c].at, place)
                 ELSE Restrict(g[c].at, DOMAIN g[c].at \ {place})
<1>6. e = IF place \notin DOMAIN g[c].at THEN g ELSE WithParts(g, c, at)
  BY Zenon DEF DeleteSlot, WithParts
<1>7. /\ WithParts(g, c, at)[c].at = at
      /\ WithParts(g, c, at)[c].kind = g[c].kind
      /\ \A y \in DOMAIN g : y # c => WithParts(g, c, at)[y] = g[y]
  <2> HIDE DEF at
  <2> QED
    BY <1>2 DEF WithParts, IsNode
<1>8. \A y \in DOMAIN h : y # c => e[y] = g[y]
  <2> HIDE DEF at, place, e
  <2> QED
    BY <1>6, <1>7
<1>9. ASSUME h[c].kind = "array" PROVE e[c].at = RemoveAt(h[c].at, Place(h[c], slot[2]))
  <2>1. place = Place(h[c], slot[2]) /\ place \in DOMAIN g[c].at /\ g[c].kind = "array"
    BY <1>1, <1>3, <1>9 DEF Has
  <2>2. at = RemoveAt(h[c].at, Place(h[c], slot[2]))
    BY <1>3, <1>9, <2>1, Zenon
  <2> HIDE DEF at, place, e
  <2> QED
    BY <1>6, <1>7, <2>1, <2>2
<1>10. ASSUME h[c].kind = "object"
       PROVE  /\ e[c].kind = "object"
              /\ DOMAIN e[c].at = DOMAIN g[c].at \ {slot[2]}
              /\ \A name \in DOMAIN e[c].at : e[c].at[name] = g[c].at[name]
  <2>1. place = slot[2] /\ g[c].kind = "object"
    BY <1>4, <1>10 DEF Place
  <2>2. at = Restrict(g[c].at, DOMAIN g[c].at \ {slot[2]})
    BY <2>1
  <2>3. /\ DOMAIN at = DOMAIN g[c].at \ {slot[2]}
        /\ \A name \in DOMAIN at : at[name] = g[c].at[name]
    BY <2>2 DEF Restrict
  <2> HIDE DEF at, place, e
  <2>4. CASE place \in DOMAIN g[c].at
    BY <1>6, <1>7, <2>1, <2>3, <2>4
  <2>5. CASE place \notin DOMAIN g[c].at
    BY <1>6, <2>1, <2>5
  <2> QED
    BY <2>4, <2>5
<1> HIDE DEF e, at, place
<1>11. ASSUME NEW y \in DOMAIN h
       PROVE  /\ (\A s \in all : s[1] # y) => e[y] = h[y]
              /\ h[y].kind = "array" =>
                   /\ \A s, s2 \in all : s[1] = y /\ s2[1] = y => s = s2
                   /\ \A s \in all : s[1] = y => e[y].at = RemoveAt(h[y].at, Place(h[y], s[2]))
              /\ h[y].kind = "object" =>
                   /\ e[y].kind = "object"
                   /\ DOMAIN e[y].at = {name \in DOMAIN h[y].at : \A s \in all : s[1] = y => s[2] # name}
                   /\ \A name \in DOMAIN e[y].at : e[y].at[name] = h[y].at[name]
  <2>1. /\ (\A s \in done : s[1] # y) => g[y] = h[y]
        /\ h[y].kind = "array" =>
             /\ \A s, s2 \in done : s[1] = y /\ s2[1] = y => s = s2
             /\ \A s \in done : s[1] = y => g[y].at = RemoveAt(h[y].at, Place(h[y], s[2]))
        /\ h[y].kind = "object" =>
             /\ g[y].kind = "object"
             /\ DOMAIN g[y].at = {name \in DOMAIN h[y].at : \A s \in done : s[1] = y => s[2] # name}
             /\ \A name \in DOMAIN g[y].at : g[y].at[name] = h[y].at[name]
    BY DEF IsDeleted
  <2>2. CASE y # c
    <3>1. e[y] = g[y]
      BY <1>8, <2>2
    <3>2. slot[1] # y
      BY <2>2
    <3> QED
      BY <2>1, <3>1, <3>2
  <2>3. CASE y = c
    <3>1. ~(\A s \in all : s[1] # y)
      BY <2>3
    <3>2. CASE h[y].kind = "array"
      <4>1. \A s \in all : s[1] = y => s = slot
        BY <2>3, <3>2
      <4>2. e[y].at = RemoveAt(h[y].at, Place(h[y], slot[2]))
        BY <1>9, <2>3, <3>2
      <4> QED
        BY <3>1, <3>2, <4>1, <4>2
    <3>3. CASE h[y].kind = "object"
      <4>1. /\ e[y].kind = "object"
            /\ DOMAIN e[y].at = DOMAIN g[y].at \ {slot[2]}
            /\ \A name \in DOMAIN e[y].at : e[y].at[name] = g[y].at[name]
        BY <1>10, <2>3, <3>3
      <4>2. DOMAIN e[y].at = {name \in DOMAIN h[y].at : \A s \in all : s[1] = y => s[2] # name}
        BY <2>1, <2>3, <3>3, <4>1
      <4>3. \A name \in DOMAIN e[y].at : e[y].at[name] = h[y].at[name]
        BY <2>1, <3>3, <4>1
      <4> QED
        BY <3>1, <3>3, <4>1, <4>2, <4>3
    <3> QED
      BY <1>5, <2>3, <3>2, <3>3
  <2> QED
    BY <2>2, <2>3
<1> QED
  BY <1>11 DEF IsDeleted, e

\* A part that no deleted slot led to stays, any other goes.
LEMMA DeletedPartsLeft ==
    ASSUME NEW h, IsHeap(h), NEW g, NEW done \in SUBSET SlotsOf(h), IsDeleted(h, g, done)
    PROVE  PartsLeft(h, g, {Follow(h, s) : s \in done})
<1> DEFINE gone == {Follow(h, s) : s \in done}
<1> SUFFICES ASSUME NEW c \in DOMAIN h
             PROVE  /\ Range(h[c].at) \ gone \subseteq Range(g[c].at)
                    /\ Range(g[c].at) \subseteq (Range(h[c].at) \ gone) \cup {Redacted}
  BY DEF PartsLeft
<1>1. \A s \in done : /\ s[1] \in DOMAIN h /\ IsContainer(h[s[1]])
                      /\ Place(h[s[1]], s[2]) \in DOMAIN h[s[1]].at
                      /\ Follow(h, s) = h[s[1]].at[Place(h[s[1]], s[2])]
  BY SlotHolds DEF SlotsOf, Has, Follow
<1>2. \A s \in done : \A p \in DOMAIN h[c].at :
        h[c].at[p] = Follow(h, s) => h[c].at[p] = Redacted \/ (s[1] = c /\ Place(h[c], s[2]) = p)
  BY <1>1 DEF IsHeap
<1>3. CASE \A s \in done : s[1] # c
  <2>1. g[c] = h[c]
    BY <1>3 DEF IsDeleted
  <2>2. \A y \in Range(h[c].at) : y \in gone => y = Redacted
    BY <1>2, <1>3 DEF Range
  <2> QED
    BY <2>1, <2>2
<1>4. CASE h[c].kind = "object"
  <2>1. /\ DOMAIN g[c].at = {name \in DOMAIN h[c].at : \A s \in done : s[1] = c => s[2] # name}
        /\ \A name \in DOMAIN g[c].at : g[c].at[name] = h[c].at[name]
    BY <1>4 DEF IsDeleted
  <2>2. \A key : Place(h[c], key) = key
    BY <1>4 DEF Place
  <2>3. ASSUME NEW p \in DOMAIN h[c].at, h[c].at[p] \notin gone PROVE h[c].at[p] \in Range(g[c].at)
    <3>1. \A s \in done : s[1] = c => s[2] # p
      BY <1>1, <2>2, <2>3
    <3>2. p \in DOMAIN g[c].at /\ g[c].at[p] = h[c].at[p]
      BY <2>1, <3>1
    <3> QED
      BY <3>2 DEF Range
  <2>4. ASSUME NEW p \in DOMAIN g[c].at
        PROVE  p \in DOMAIN h[c].at /\ g[c].at[p] = h[c].at[p]
                 /\ (h[c].at[p] \in gone => h[c].at[p] = Redacted)
    BY <1>2, <2>1, <2>2
  <2>5. Range(h[c].at) \ gone \subseteq Range(g[c].at)
    BY <2>3 DEF Range
  <2>6. Range(g[c].at) \subseteq (Range(h[c].at) \ gone) \cup {Redacted}
    BY <2>4 DEF Range
  <2> QED
    BY <2>5, <2>6
<1>5. CASE h[c].kind = "array" /\ ~(\A s \in done : s[1] # c)
  <2>1. PICK s \in done : s[1] = c
    BY <1>5
  <2> DEFINE place == Place(h[c], s[2])
             at == h[c].at
  <2>2. g[c].at = RemoveAt(at, place)
    BY <1>5, <2>1 DEF IsDeleted
  <2>3. at \in Seq(Nat) /\ place \in DOMAIN at
    BY <1>1, <1>5, <2>1 DEF IsHeap, IsNode
  <2>4. at[place] \in gone
    BY <1>1, <2>1
  <2>5. \A s2 \in done : s2[1] = c => s2 = s
    BY <1>5, <2>1 DEF IsDeleted
  <2>6. /\ g[c].at \in Seq(Nat)
        /\ Len(g[c].at) = Len(at) - 1
        /\ \A k \in 1..(Len(at) - 1) : g[c].at[k] = at[IF k < place THEN k ELSE k + 1]
    <3> HIDE DEF at, place
    <3>1. place \in 1..Len(at)
      BY <2>3
    <3> QED
      BY <2>2, <2>3, <3>1, RemoveAtHolds
  <2>7. \A p \in DOMAIN at : at[p] \in gone => at[p] = Redacted \/ p = place
    <3> TAKE p \in DOMAIN at
    <3> HAVE at[p] \in gone
    <3>1. PICK s2 \in done : at[p] = Follow(h, s2)
      OBVIOUS
    <3>2. at[p] = Redacted \/ (s2[1] = c /\ Place(h[c], s2[2]) = p)
      BY <1>2, <3>1
    <3> QED
      BY <2>5, <3>2
  <2> HIDE DEF at, place, gone
  <2> DEFINE t == g[c].at
  <2>8. DOMAIN at = 1..Len(at) /\ DOMAIN t = 1..(Len(at) - 1) /\ place \in 1..Len(at) /\ Len(at) \in Nat
    <3>1. DOMAIN at = 1..Len(at) /\ Len(at) \in Nat
      BY <2>3
    <3>2. t \in Seq(Nat) /\ Len(t) = Len(at) - 1
      BY <2>6
    <3> HIDE DEF t
    <3>3. DOMAIN t = 1..(Len(at) - 1)
      BY <3>2
    <3> QED
      BY <2>3, <3>1, <3>3
  <2>9. \A k \in 1..(Len(at) - 1) :
          /\ k < place => t[k] = at[k]
          /\ ~(k < place) => t[k] = at[k + 1]
    <3> TAKE k \in 1..(Len(at) - 1)
    <3>1. t[k] = at[IF k < place THEN k ELSE k + 1]
      BY <2>6
    <3> HIDE DEF t
    <3>2. CASE k < place
      BY <3>1, <3>2
    <3>3. CASE ~(k < place)
      BY <3>1, <3>3
    <3> QED
      BY <3>2, <3>3
  <2> HIDE DEF t
  <2>10. ASSUME NEW p \in DOMAIN at, at[p] \notin gone PROVE at[p] \in Range(t)
    <3>1. p # place
      BY <2>4, <2>10
    <3>2. CASE p < place
      <4>1. p \in DOMAIN t /\ t[p] = at[p]
        BY <2>9, <2>8, <3>2
      <4> QED
        BY <4>1 DEF Range
    <3>3. CASE p > place
      <4>1. p - 1 \in 1..(Len(at) - 1) /\ ~(p - 1 < place) /\ (p - 1) + 1 = p
        BY <2>8, <3>3
      <4>2. p - 1 \in DOMAIN t /\ t[p - 1] = at[p]
        BY <2>9, <2>8, <4>1
      <4> QED
        BY <4>2 DEF Range
    <3> QED
      BY <2>8, <3>1, <3>2, <3>3
  <2>11. ASSUME NEW q \in DOMAIN t PROVE \E p \in DOMAIN at : p # place /\ t[q] = at[p]
    <3>1. CASE q < place
      BY <2>9, <2>8, <3>1
    <3>2. CASE ~(q < place)
      <4>1. q + 1 \in DOMAIN at /\ q + 1 # place
        BY <2>8, <3>2
      <4>2. t[q] = at[q + 1]
        BY <2>9, <2>8, <3>2
      <4> QED
        BY <4>1, <4>2
    <3> QED
      BY <3>1, <3>2
  <2>12. \A q \in DOMAIN t : t[q] \in (Range(at) \ gone) \cup {Redacted}
    <3> TAKE q \in DOMAIN t
    <3>1. PICK p \in DOMAIN at : p # place /\ t[q] = at[p]
      BY <2>11
    <3>2. at[p] \in Range(at)
      BY DEF Range
    <3> QED
      BY <2>7, <3>1, <3>2
  <2>13. Range(at) \ gone \subseteq Range(t)
    BY <2>10 DEF Range
  <2>14. Range(t) \subseteq (Range(at) \ gone) \cup {Redacted}
    BY <2>12 DEF Range
  <2> QED
    BY <2>13, <2>14 DEF at, gone, t
<1> QED
  BY <1>1, <1>3, <1>4, <1>5 DEF IsContainer

\* What all the slots of an action take away.
LEMMA ChangedPartsLeft ==
    ASSUME NEW h, IsHeap(h), NEW slots \in Seq(SlotsOf(h)),
           NEW action, action.type \in {"blacken", "replace", "delete"}, action.disclose \in Nat,
           action.type = "delete" =>
                \A i, j \in DOMAIN slots :
                    i < j /\ slots[i][1] = slots[j][1] => h[slots[i][1]].kind # "array"
    PROVE  PartsLeft(h, Changed(h, slots, action), Targets(h, slots) \ Disclosed(h, action))
<1> DEFINE n == Len(slots)
           first(k) == {slots[i] : i \in 1..k}
           led(k) == {Follow(h, s) : s \in first(k)}
<1>1. n \in Nat /\ DOMAIN slots = 1..n
  OBVIOUS
<1>2. PICK f : ChangesInTurn(f, h, slots, action)
  BY ChangedUnfolds
<1>3. /\ Changed(h, slots, action) = f[n]
      /\ f[0] = h
      /\ \A k \in 1..n : f[k] = ChangeSlot(f[k - 1], slots[k], action)
  BY <1>2 DEF ChangesInTurn
<1>4. \A k \in 0..n : IsHeap(f[k]) /\ DOMAIN f[k] = DOMAIN h
  <2> DEFINE X == {s[1] : s \in Range(slots)}
  <2>1. \A s \in Range(slots) : s[1] \in X
    OBVIOUS
  <2> HIDE DEF X
  <2>2. \A k \in 0..n : OnlyChanges(h, f[k], X)
    BY <1>2, <2>1, ChangedHolds
  <2> QED
    BY <2>2 DEF OnlyChanges
<1>5. first(n) = Range(slots)
  BY <1>1 DEF Range
<1>6. led(n) = Targets(h, slots)
  BY <1>5 DEF Targets
<1>7. \A k \in 1..n : slots[k] \in SlotsOf(h)
  BY <1>1
<1>8. first(0) = {} /\ led(0) = {}
  OBVIOUS
<1>9. \A k \in 0..(n - 1) : first(k + 1) = first(k) \cup {slots[k + 1]}
  <2> TAKE k \in 0..(n - 1)
  <2>1. \A i : i \in 1..(k + 1) <=> i \in 1..k \/ i = k + 1
    BY <1>1
  <2> HIDE DEF n
  <2> QED
    BY <2>1
<1>10. \A k \in 0..(n - 1) : led(k + 1) = led(k) \cup {Follow(h, slots[k + 1])}
  <2> TAKE k \in 0..(n - 1)
  <2>1. first(k + 1) = first(k) \cup {slots[k + 1]}
    BY <1>9
  <2> HIDE DEF first
  <2> QED
    BY <2>1
<1>11. \A k \in 0..(n - 1) : /\ k + 1 \in 1..n
                             /\ (k + 1) - 1 = k
                             /\ k \in 0..n
                             /\ k + 1 \in Nat
  BY <1>1
<1>12. \A k \in 0..(n - 1) : f[k + 1] = ChangeSlot(f[k], slots[k + 1], action)
  BY <1>3, <1>11
<1>13. \A k \in 0..n : \A s \in first(k) : \E i \in 1..k : i \in 1..n /\ s = slots[i]
  BY <1>1
<1> HIDE DEF n, first, led
<1>14. CASE action.type \in {"blacken", "replace"}
  <2> DEFINE gone(k) == led(k) \ Disclosed(h, action)
             P == {k \in Nat : IsRedacted(h, f[k], gone(k))}
  <2>1. 0 \in P
    <3>1. gone(0) = {}
      BY <1>8
    <3>2. IsRedacted(h, h, {})
      BY DEF IsRedacted
    <3> QED
      BY <1>3, <3>1, <3>2
  <2>2. ASSUME NEW k \in 0..(n - 1), k \in P PROVE k + 1 \in P
    <3>1. IsRedacted(h, f[k], gone(k))
      BY <2>2
    <3>2. gone(k + 1) = gone(k) \cup ({Follow(h, slots[k + 1])} \ Disclosed(h, action))
      BY <1>10
    <3> HIDE DEF gone
    <3>3. IsHeap(f[k]) /\ DOMAIN f[k] = DOMAIN h /\ slots[k + 1] \in SlotsOf(h)
      BY <1>4, <1>7, <1>11
    <3>4. IsRedacted(h, ChangeSlot(f[k], slots[k + 1], action),
                     gone(k) \cup ({Follow(h, slots[k + 1])} \ Disclosed(h, action)))
      BY <1>14, <3>1, <3>3, RedactsOneMore
    <3> QED
      BY <1>11, <1>12, <3>2, <3>4
  <2> HIDE DEF P, gone
  <2>3. \A k \in 0..n : k \in P
    BY <1>1, <2>1, <2>2, CountingUp
  <2>4. IsRedacted(h, f[n], led(n) \ Disclosed(h, action))
    <3>1. n \in 0..n
      BY <1>1
    <3> QED
      BY <2>3, <3>1 DEF P, gone
  <2> QED
    BY <1>3, <1>6, <2>4, RedactedPartsLeft
<1>15. CASE action.type = "delete"
  <2> DEFINE P == {k \in Nat : IsDeleted(h, f[k], first(k))}
  <2>1. 0 \in P
    <3>1. IsDeleted(h, h, {})
      BY DEF IsDeleted
    <3> QED
      BY <1>3, <1>8, <3>1
  <2>2. ASSUME NEW k \in 0..(n - 1), k \in P PROVE k + 1 \in P
    <3> DEFINE slot == slots[k + 1]
    <3>1. IsDeleted(h, f[k], first(k))
      BY <2>2
    <3>2. first(k + 1) = first(k) \cup {slot}
      BY <1>9
    <3>3. IsHeap(f[k]) /\ DOMAIN f[k] = DOMAIN h /\ slot \in SlotsOf(h)
      BY <1>4, <1>7, <1>11
    <3>4. f[k + 1] = DeleteSlot(f[k], slot)
      BY <1>12, <1>15 DEF ChangeSlot
    <3>5. ASSUME h[slot[1]].kind = "array", NEW s \in first(k) PROVE s[1] # slot[1]
      <4>1. PICK i \in 1..k : i \in 1..n /\ s = slots[i]
        BY <1>11, <1>13
      <4>2. i < k + 1 /\ i \in DOMAIN slots /\ k + 1 \in DOMAIN slots
        BY <1>1, <1>11, <4>1
      <4> QED
        BY <1>15, <3>5, <4>1, <4>2
    <3> HIDE DEF slot
    <3>6. IsDeleted(h, DeleteSlot(f[k], slot), first(k) \cup {slot})
      BY <3>1, <3>3, <3>5, DeletesOneMore
    <3> QED
      BY <1>11, <3>2, <3>4, <3>6
  <2> HIDE DEF P
  <2>3. \A k \in 0..n : k \in P
    BY <1>1, <2>1, <2>2, CountingUp
  <2>4. IsDeleted(h, f[n], first(n)) /\ first(n) \in SUBSET SlotsOf(h)
    <3>1. n \in 0..n
      BY <1>1
    <3>2. IsDeleted(h, f[n], first(n))
      BY <2>3, <3>1 DEF P
    <3>3. first(n) \subseteq SlotsOf(h)
      BY <1>7, <1>13, <3>1
    <3> QED
      BY <3>2, <3>3
  <2>5. PartsLeft(h, f[n], led(n))
    <3>1. PartsLeft(h, f[n], {Follow(h, s) : s \in first(n)})
      BY <2>4, DeletedPartsLeft
    <3> QED
      BY <3>1 DEF led
  <2>6. Disclosed(h, action) = {}
    BY <1>15 DEF Disclosed
  <2> QED
    BY <1>3, <1>6, <2>5, <2>6
<1> QED
  BY <1>14, <1>15

\* What was taken away is not reached any more, and what is not below it still is.
LEMMA TakenAway ==
    ASSUME NEW h, IsHeap(h), NEW g, IsHeap(g), DOMAIN g = DOMAIN h,
           NEW gone \in SUBSET DOMAIN h, PartsLeft(h, g, gone), NEW r \in DOMAIN h
    PROVE  /\ r \notin gone => gone \cap Tree(g, {r}) \subseteq {Redacted}
           /\ Tree(h, {r}) \ Tree(h, gone) \subseteq Tree(g, {r})
<1> DEFINE T == Tree(g, {r})
           below == Tree(h, gone)
           S == T \cup below
<1>1. /\ r \in T /\ T \subseteq DOMAIN h
      /\ \A y \in T : Range(g[y].at) \subseteq T
      /\ \A y \in T : y = r \/ \E z \in T : y \in Range(g[z].at)
  BY TreeHolds
<1>2. below = UNION {Tree(h, {x}) : x \in gone}
  BY TreeUnfolds
<1>3. gone \subseteq below
  <2>1. ASSUME NEW x \in gone PROVE x \in Tree(h, {x})
    <3>1. x \in DOMAIN h
      OBVIOUS
    <3> QED
      BY <3>1, TreeHolds
  <2> QED
    BY <1>2, <2>1
<1>4. \A y \in below : Range(h[y].at) \subseteq below
  <2>1. ASSUME NEW x \in gone
        PROVE  \A y \in Tree(h, {x}) : Range(h[y].at) \subseteq Tree(h, {x})
    <3>1. x \in DOMAIN h
      OBVIOUS
    <3> QED
      BY <3>1, TreeHolds
  <2> QED
    BY <1>2, <2>1
<1> HIDE DEF T, below
<1>5. ASSUME r \notin gone, NEW y \in gone \cap T PROVE y = Redacted
  <2>1. PICK z \in T : y \in Range(g[z].at)
    BY <1>1, <1>5
  <2>2. Range(g[z].at) \subseteq (Range(h[z].at) \ gone) \cup {Redacted}
    BY <1>1 DEF PartsLeft
  <2> QED
    BY <1>5, <2>1, <2>2
<1>6. ASSUME NEW y \in S \cap DOMAIN h PROVE Range(h[y].at) \subseteq S
  <2>1. CASE y \in below
    BY <1>4, <2>1
  <2>2. CASE y \in T
    <3>1. Range(h[y].at) \ gone \subseteq Range(g[y].at)
      BY DEF PartsLeft
    <3> QED
      BY <1>1, <1>3, <2>2, <3>1
  <2> QED
    BY <2>1, <2>2
<1>7. Tree(h, {r}) \subseteq S
  <2>1. r \in S
    BY <1>1
  <2> HIDE DEF S
  <2> QED
    BY <1>6, <2>1, TreeIsLeast
<1> QED
  BY <1>5, <1>7 DEF T, below

LEMMA AppliesRedacts ==
    ASSUME FilterInv, Applies, Applying,
           ~DeletesFromOneListTwice(heap, Element, constraint.actions[applied + 1])
    PROVE  LET action == constraint.actions[applied + 1]
               gone   == Addressed(heap, Element, action.steps) \ Disclosed(heap, action)
               before == Tree(heap, {original.root})
               after  == Tree(heap', {original.root})
           IN  /\ gone \cap after \subseteq {Redacted}
               /\ before \ Tree(heap, gone) \subseteq after
<1> DEFINE action == constraint.actions[applied + 1]
           slots == Slots(heap, Element, action.steps)
           gone == Addressed(heap, Element, action.steps) \ Disclosed(heap, action)
           r == original.root
<1>1. /\ phase = "actions" /\ applied < Len(constraint.actions)
      /\ \/ UNCHANGED <<heap, applied>>
         \/ /\ ~CannotApply(heap, Element, action)
            /\ heap' = Changed(heap, slots, action)
  BY DEF Applies
<1>2. Elements # <<>>
  BY <1>1 DEF FilterInv, IsFiltering
<1>3. /\ IsHeap(heap) /\ IsHeap(original.heap) /\ DOMAIN heap = DOMAIN original.heap
      /\ Element \in DOMAIN original.heap \ {Redacted} /\ position \in DOMAIN Elements
      /\ constraint.actions \in Seq(Range(constraint.actions))
      /\ applied \in Nat /\ Len(constraint.actions) \in Nat
  BY <1>2, FilterNumbers
<1>4. ~CannotApply(heap, Element, action) /\ heap' = Changed(heap, slots, action)
  BY <1>1, <1>3 DEF Applying
<1>5. IsPath(action.steps) /\ action.disclose \in Nat
  <2>1. applied + 1 \in DOMAIN constraint.actions
    BY <1>1, <1>3
  <2>2. action \in Range(constraint.actions)
    BY <2>1, Zenon DEF Range
  <2>3. constraint \in Constraints
    BY DEF FilterInv
  <2> QED
    BY <2>2, <2>3, ContentFilterAssumption
<1>6. IsDocument(original) /\ r \in DOMAIN original.heap \ {Redacted}
  BY ContentFilterAssumption DEF FilterInv, IsDocument
<1>7. Element >= r
  <2>1. CASE IsAList
    <3>1. Element \in Range(original.heap[r].at)
      BY <1>3, <2>1 DEF Element, Elements, Range
    <3>2. \A y \in Range(original.heap[r].at) : y > r \/ y = 0
      BY <1>3, <1>6, PartsComeAfter
    <3>3. DOMAIN original.heap \subseteq Nat
      BY <1>3 DEF IsHeap
    <3> QED
      BY <1>3, <1>6, <3>1, <3>2, <3>3 DEF Redacted
  <2>2. CASE ~IsAList
    <3>1. Elements = <<r>>
      BY <2>2 DEF Elements
    <3>2. Element = r
      BY <1>3, <3>1 DEF Element
    <3> QED
      BY <1>3, <1>6, <3>2 DEF IsHeap
  <2> QED
    BY <2>1, <2>2
<1> HIDE DEF action
<1>8. ~\E i, j \in DOMAIN slots :
         action.type = "delete" /\ i < j /\ slots[i][1] = slots[j][1] /\ heap[slots[i][1]].kind = "array"
  <2>1. ~DeletesFromOneListTwice(heap, Element, action)
    BY DEF action
  <2>2. DeletesFromOneListTwice(heap, Element, action)
          <=> /\ action.type = "delete"
              /\ \E i, j \in DOMAIN slots :
                   i < j /\ slots[i][1] = slots[j][1] /\ heap[slots[i][1]].kind = "array"
    BY Zenon DEF DeletesFromOneListTwice
  <2> HIDE DEF slots
  <2> QED
    BY <2>1, <2>2
<1>9. LeadTo(heap, Element, slots, Addressed(heap, Element, action.steps))
  BY <1>3, <1>5, SlotsFind
<1>10. action.type \in {"blacken", "replace", "delete"}
  BY <1>4 DEF CannotApply, IsUnfit
<1> HIDE DEF slots, r
<1>11. /\ slots \in Seq(SlotsOf(heap))
       /\ \A s \in Range(slots) : s[1] \in Tree(heap, {Element})
       /\ Targets(heap, slots) = Addressed(heap, Element, action.steps)
  BY <1>9 DEF LeadTo
<1>12. PartsLeft(heap, heap', gone)
  <2>1. action.type = "delete" =>
          \A i, j \in DOMAIN slots :
              i < j /\ slots[i][1] = slots[j][1] => heap[slots[i][1]].kind # "array"
    BY <1>8
  <2>2. PartsLeft(heap, Changed(heap, slots, action), Targets(heap, slots) \ Disclosed(heap, action))
    BY <1>3, <1>5, <1>10, <1>11, <2>1, ChangedPartsLeft
  <2> QED
    BY <1>4, <1>11, <2>2
<1>13. ASSUME NEW x \in Targets(heap, slots) PROVE x \in DOMAIN heap /\ x # r
  <2>1. PICK s \in Range(slots) : x = Follow(heap, s)
    BY <1>13 DEF Targets
  <2>2. s \in SlotsOf(heap)
    BY <1>11 DEF Range
  <2>3. /\ s[1] \in DOMAIN heap /\ x \in Range(heap[s[1]].at) /\ x \in DOMAIN heap
        /\ IsContainer(heap[s[1]])
    BY <1>3, <2>1, <2>2, SlotLeads, SlotHolds
  <2>4. x > s[1] \/ x = 0
    BY <1>3, <2>3, PartsComeAfter
  <2>5. s[1] # Redacted
    BY <1>3, <2>3 DEF IsHeap, RedactedLeaf, IsContainer
  <2>6. s[1] \in Tree(original.heap, {Element}) \cup {Redacted}
    <3>1. \A y \in DOMAIN original.heap :
            Range(heap[y].at) \subseteq Range(original.heap[y].at) \cup {Redacted}
      BY <1>3 DEF FilterInv
    <3>2. Tree(heap, {Element}) \subseteq Tree(original.heap, {Element}) \cup {Redacted}
      BY <1>3, <3>1, TreeShrinks
    <3> QED
      BY <1>11, <2>1, <3>2
  <2>7. s[1] >= Element
    BY <1>3, <1>6, <2>5, <2>6, TreeComesAfter
  <2>8. DOMAIN heap \subseteq Nat
    BY <1>3 DEF IsHeap
  <2> QED
    BY <1>3, <1>6, <1>7, <2>3, <2>4, <2>7, <2>8 DEF Redacted
<1>14. gone \in SUBSET DOMAIN heap /\ r \notin gone
  BY <1>11, <1>13
<1>15. IsHeap(heap') /\ DOMAIN heap' = DOMAIN heap
  <2>1. FilterInv'
    BY AppliesKeeps
  <2>2. original' = original
    BY DEF Applies
  <2> QED
    BY <1>3, <2>1, <2>2 DEF FilterInv, FilterTypeOK
<1> HIDE DEF gone
<1>16. /\ gone \cap Tree(heap', {r}) \subseteq {Redacted}
       /\ Tree(heap, {r}) \ Tree(heap, gone) \subseteq Tree(heap', {r})
  BY <1>3, <1>6, <1>12, <1>14, <1>15, TakenAway
<1> QED
  BY <1>16 DEF gone, action, r

\* An action that is applied takes away what its path addresses and nothing else, although
\* its slots were found before the first of them was changed (_apply_action).
THEOREM FilterRedacts == FilterSpec => RedactsWhatIsAddressed
<1> DEFINE Redacts ==
        Applying =>
        LET action == constraint.actions[applied + 1]
            gone   == Addressed(heap, Element, action.steps) \ Disclosed(heap, action)
            before == Tree(heap, {original.root})
            after  == Tree(heap', {original.root})
        IN  ~DeletesFromOneListTwice(heap, Element, action) =>
                /\ gone \cap after \subseteq {Redacted}
                /\ before \ Tree(heap, gone) \subseteq after
<1>1. FilterInit => FilterInv
  BY FilterInvInit
<1>2. FilterInv /\ [FilterNext]_filterVars => FilterInv'
  BY FilterInvStep
<1>3. FilterInv /\ [FilterNext]_filterVars => [Redacts]_filterVars
  <2> SUFFICES ASSUME FilterInv, FilterNext, Applying PROVE Redacts
    OBVIOUS
  <2>1. applied \in Nat
    BY FilterNumbers
  <2>2. CASE Applies
    BY <2>2, AppliesRedacts
  <2>3. CASE ~Applies
    <3>1. heap' = heap
      BY <2>3 DEF FilterNext, FiltersElement, LeavesElement, ReturnsEmpty, JudgesElement
    <3>2. applied' = applied \/ applied' = 0
      BY <2>3 DEF FilterNext, FiltersElement, LeavesElement, ReturnsEmpty, JudgesElement, NextElement
    <3> QED
      BY <2>1, <3>1, <3>2 DEF Applying
  <2> QED
    BY <2>2, <2>3
<1> QED
  BY <1>1, <1>2, <1>3, PTL DEF FilterSpec, RedactsWhatIsAddressed
=============================================================================
