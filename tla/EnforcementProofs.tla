---------------------------- MODULE EnforcementProofs ----------------------------
(***************************************************************************)
(* Proofs about Planner, PlanExecution and OneShot, for all providers,     *)
(* signals, decisions and nesting depths.                                  *)
(*                                                                         *)
(* Part 1, the plan: what it consists of, what executing it leaves behind, *)
(* and that no obligation is lost on the way.  Lists and executions are    *)
(* finite and of any length: what is said of them is proved by counting up *)
(* to their length, which rests on the least element of a set of natural   *)
(* numbers.                                                                *)
(*                                                                         *)
(* Part 2, the calls: the context variable always holds the plan of the    *)
(* innermost pre-enforced call whose method runs, what an obligation asks  *)
(* for is done before a method runs or a value is released, and queries    *)
(* and values went through the mappers of their decision.  Two invariants  *)
(* carry the argument.  IInv says of every frame that the context it will  *)
(* restore was the plan in force outside it.  JInv adds what a frame whose *)
(* decision was granted knows of that decision: that all of it was         *)
(* resolved, and what has run for it.                                      *)
(*                                                                         *)
(* OneShot and PlanExecution each have variables of their own; neither's   *)
(* play a part in what is proved of the other.                             *)
(***************************************************************************)
EXTENDS OneShot, PlanExecution, FiniteSetTheorems, TLAPS

-----------------------------------------------------------------------------
(* Counting                                                                *)

\* A set of natural numbers has a least element.
LEMMA LeastNumber ==
    ASSUME NEW T \in SUBSET Nat, T # {}
    PROVE  \E n \in T : \A m \in T : n <= m
<1> DEFINE R == OpToRel(<, Nat)
<1>1. \A x, y \in Nat : x < y => <<x, y>> \in R
  BY DEF OpToRel
<1>2. IsWellFoundedOn(R, Nat)
  BY ONLY NatLessThanWellFounded, Zenon
<1> HIDE DEF R
<1>3. PICK n \in T : \A m \in T : ~(<<m, n>> \in R)
  BY <1>2, WFMin
<1>4. ASSUME NEW m \in T PROVE n <= m
  <2>1. m \in Nat /\ n \in Nat
    OBVIOUS
  <2>2. ~(m < n)
    BY <2>1, <1>1, <1>3
  <2> QED
    BY <2>1, <2>2
<1> QED
  BY <1>4

\* What holds of 0 and is handed on from each number to the next holds up to the bound.
LEMMA CountingUp ==
    ASSUME NEW n \in Nat, NEW P, 0 \in P,
           \A k \in 0..(n - 1) : k \in P => k + 1 \in P
    PROVE  \A k \in 0..n : k \in P
<1> SUFFICES ASSUME NEW m \in 0..n, m \notin P PROVE FALSE
  OBVIOUS
<1> DEFINE T == {k \in 0..n : k \notin P}
<1>0. T \in SUBSET Nat /\ T # {}
  OBVIOUS
<1>1. PICK k \in T : \A h \in T : k <= h
  <2> HIDE DEF T
  <2> QED
    BY <1>0, LeastNumber
<1>2. k # 0 /\ k - 1 \in 0..(n - 1)
  BY <1>1
<1>3. k - 1 \in P
  BY <1>1, <1>2
<1>4. (k - 1) + 1 \in P
  BY <1>2, <1>3
<1> QED
  BY <1>1, <1>2, <1>4

\* The elements of a list are finitely many, and so is what a function makes of a
\* finite set.
LEMMA FiniteImage ==
    ASSUME NEW S, IsFiniteSet(S), NEW f, DOMAIN f = S
    PROVE  IsFiniteSet({f[x] : x \in S})
<1> DEFINE T == {f[x] : x \in S}
           g == [x \in S |-> f[x]]
<1>1. g \in Surjection(S, T)
  BY DEF Surjection
<1> QED
  BY <1>1, FS_Surjection

-----------------------------------------------------------------------------
(* The order of a plan's entries                                           *)

WellKeyed(e) ==
    /\ e.priority \in Int
    /\ e.shape \in {"runner", "mapper", "consumer"}
    /\ e.tag \in {"obligation", "advice"}
    /\ e.number \in Int
    /\ e.place \in Int

\* Two entries of one constraint's number, tag and place are the same entry.
SameSource(e, f) == e.tag = f.tag /\ e.number = f.number /\ e.place = f.place

\* A set of entries that can be sorted.
Sortable(S) ==
    /\ IsFiniteSet(S)
    /\ \A e \in S : WellKeyed(e)
    /\ \A e, f \in S : SameSource(e, f) => e = f

\* s lists each entry of S once, in order.
Sorts(s, S) ==
    /\ s \in Seq(S)
    /\ ToSet(s) = S
    /\ \A i, j \in DOMAIN s : i < j <=> Before(s[i], s[j])

\* Before compares five numbers, one after the other.
LEMMA BeforeIsLexical ==
    ASSUME NEW e, NEW f, WellKeyed(e), WellKeyed(f)
    PROVE  Before(e, f) <=>
             \/ e.priority < f.priority
             \/ /\ e.priority = f.priority
                /\ \/ ShapeOrder[e.shape] < ShapeOrder[f.shape]
                   \/ /\ ShapeOrder[e.shape] = ShapeOrder[f.shape]
                      /\ \/ TagOrder[e.tag] < TagOrder[f.tag]
                         \/ /\ TagOrder[e.tag] = TagOrder[f.tag]
                            /\ \/ e.number < f.number
                               \/ e.number = f.number /\ e.place < f.place
<1> DEFINE p == SortKey(e)
           q == SortKey(f)
<1>1. /\ p[1] = e.priority /\ p[2] = ShapeOrder[e.shape] /\ p[3] = TagOrder[e.tag]
      /\ p[4] = e.number /\ p[5] = e.place
      /\ q[1] = f.priority /\ q[2] = ShapeOrder[f.shape] /\ q[3] = TagOrder[f.tag]
      /\ q[4] = f.number /\ q[5] = f.place
  BY DEF SortKey
<1> HIDE DEF p, q
<1>2. Before(e, f) <=> \E k \in 1..5 : p[k] < q[k] /\ \A h \in 1..(k - 1) : p[h] = q[h]
  BY DEF Before, p, q
<1>3. (\E k \in 1..5 : p[k] < q[k] /\ \A h \in 1..(k - 1) : p[h] = q[h]) <=>
        \/ p[1] < q[1]
        \/ p[1] = q[1] /\ p[2] < q[2]
        \/ p[1] = q[1] /\ p[2] = q[2] /\ p[3] < q[3]
        \/ p[1] = q[1] /\ p[2] = q[2] /\ p[3] = q[3] /\ p[4] < q[4]
        \/ p[1] = q[1] /\ p[2] = q[2] /\ p[3] = q[3] /\ p[4] = q[4] /\ p[5] < q[5]
  OBVIOUS
<1> QED
  BY <1>1, <1>2, <1>3

LEMMA BeforeIsStrict ==
    ASSUME NEW e, NEW f, WellKeyed(e), WellKeyed(f), Before(e, f)
    PROVE  ~Before(f, e) /\ e # f
<1>1. \A s \in {"runner", "mapper", "consumer"} : ShapeOrder[s] \in Int
  BY DEF ShapeOrder
<1>2. \A t \in {"obligation", "advice"} : TagOrder[t] \in Int
  BY DEF TagOrder
<1> QED
  BY <1>1, <1>2, BeforeIsLexical DEF WellKeyed

LEMMA BeforeIsTransitive ==
    ASSUME NEW e, NEW f, NEW g, WellKeyed(e), WellKeyed(f), WellKeyed(g),
           Before(e, f), Before(f, g)
    PROVE  Before(e, g)
<1>1. \A s \in {"runner", "mapper", "consumer"} : ShapeOrder[s] \in Int
  BY DEF ShapeOrder
<1>2. \A t \in {"obligation", "advice"} : TagOrder[t] \in Int
  BY DEF TagOrder
<1> QED
  BY <1>1, <1>2, BeforeIsLexical DEF WellKeyed

\* Entries of different sources are never tied.
LEMMA BeforeIsTotal ==
    ASSUME NEW e, NEW f, WellKeyed(e), WellKeyed(f), ~SameSource(e, f)
    PROVE  Before(e, f) \/ Before(f, e)
<1>1. \A s \in {"runner", "mapper", "consumer"} : ShapeOrder[s] \in Int
  BY DEF ShapeOrder
<1>2. TagOrder["obligation"] = 0 /\ TagOrder["advice"] = 1
  BY DEF TagOrder
<1>3. TagOrder[e.tag] = TagOrder[f.tag] => e.tag = f.tag
  BY <1>2 DEF WellKeyed
<1>4. TagOrder[e.tag] \in Int /\ TagOrder[f.tag] \in Int
  BY <1>2 DEF WellKeyed
<1>5. ShapeOrder[e.shape] \in Int /\ ShapeOrder[f.shape] \in Int
  BY <1>1 DEF WellKeyed
<1> QED
  BY <1>3, <1>4, <1>5, BeforeIsLexical DEF WellKeyed, SameSource

\* How many of S come before e.
Rank(e, S) == Cardinality({f \in S : Before(f, e)})

LEMMA RankIsBounded ==
    ASSUME NEW S, Sortable(S), NEW e \in S
    PROVE  Rank(e, S) \in 0..(Cardinality(S) - 1)
<1> DEFINE T == {f \in S : Before(f, e)}
<1>1. e \notin T /\ T \in SUBSET S
  BY BeforeIsStrict DEF Sortable
<1>2. IsFiniteSet(T) /\ Cardinality(T) <= Cardinality(S) /\ Cardinality(T) # Cardinality(S)
  BY <1>1, FS_Subset DEF Sortable
<1>3. Cardinality(T) \in Nat /\ Cardinality(S) \in Nat
  BY <1>2, FS_CardinalityType DEF Sortable
<1> QED
  BY <1>2, <1>3 DEF Rank

LEMMA RankIsMonotonic ==
    ASSUME NEW S, Sortable(S), NEW e \in S, NEW f \in S, Before(e, f)
    PROVE  Rank(e, S) < Rank(f, S)
<1> DEFINE T == {g \in S : Before(g, e)}
           U == {g \in S : Before(g, f)}
<1>1. T \in SUBSET U
  BY BeforeIsTransitive DEF Sortable
<1>2. e \in U /\ e \notin T
  BY BeforeIsStrict DEF Sortable
<1>3. IsFiniteSet(U)
  <2>1. U \in SUBSET S
    OBVIOUS
  <2> QED
    BY <2>1, FS_Subset DEF Sortable
<1>4. IsFiniteSet(T) /\ Cardinality(T) <= Cardinality(U) /\ Cardinality(T) # Cardinality(U)
  BY <1>1, <1>2, <1>3, FS_Subset
<1>5. Cardinality(T) \in Nat /\ Cardinality(U) \in Nat
  BY <1>3, <1>4, FS_CardinalityType
<1> QED
  BY <1>4, <1>5 DEF Rank

\* Every place in the list is taken by exactly one entry.
LEMMA RankIsBijective ==
    ASSUME NEW S, Sortable(S)
    PROVE  /\ Cardinality(S) \in Nat
           /\ \A i \in 1..Cardinality(S) : \E e \in S : Rank(e, S) = i - 1
           /\ \A e, f \in S : Rank(e, S) = Rank(f, S) => e = f
<1> DEFINE n    == Cardinality(S)
           T    == 0..(n - 1)
           rank == [e \in S |-> Rank(e, S)]
<1>1. n \in Nat
  BY FS_CardinalityType DEF Sortable
<1>2. \A e, f \in S : Rank(e, S) = Rank(f, S) => e = f
  <2> SUFFICES ASSUME NEW e \in S, NEW f \in S, e # f PROVE Rank(e, S) # Rank(f, S)
    OBVIOUS
  <2>1. Before(e, f) \/ Before(f, e)
    BY BeforeIsTotal DEF Sortable
  <2>2. Rank(e, S) \in Int /\ Rank(f, S) \in Int
    BY <1>1, RankIsBounded
  <2> QED
    BY <2>1, <2>2, RankIsMonotonic
<1>3. rank \in Injection(S, T)
  <2>1. rank \in [S -> T]
    BY RankIsBounded
  <2> QED
    BY <2>1, <1>2 DEF Injection, IsInjective
<1>4. IsFiniteSet(T) /\ Cardinality(T) = n
  BY <1>1, FS_Interval
<1>5. rank \in Surjection(S, T)
  <2> HIDE DEF rank, T
  <2> QED
    BY <1>3, <1>4, FS_Injection
<1>6. \A i \in 1..n : i - 1 \in T
  BY <1>1
<1>7. \A t \in T : \E e \in S : Rank(e, S) = t
  BY <1>5 DEF Surjection
<1> QED
  BY <1>1, <1>2, <1>6, <1>7

\* Sorted lists every entry once and in order.
LEMMA SortedSorts ==
    ASSUME NEW S, Sortable(S)
    PROVE  Sorts(Sorted(S), S)
<1> DEFINE n == Cardinality(S)
           s == Sorted(S)
<1>1. /\ n \in Nat
      /\ \A i \in 1..n : \E e \in S : Rank(e, S) = i - 1
      /\ \A e, f \in S : Rank(e, S) = Rank(f, S) => e = f
  BY RankIsBijective
<1>2. s = [i \in 1..n |-> CHOOSE e \in S : Rank(e, S) = i - 1]
  BY DEF Sorted, Rank
<1> HIDE DEF s
<1>3. \A i \in 1..n : s[i] \in S /\ Rank(s[i], S) = i - 1
  BY <1>1, <1>2
<1>4. s \in Seq(S) /\ DOMAIN s = 1..n
  BY <1>1, <1>2, <1>3
<1>5. ToSet(s) = S
  <2>1. ASSUME NEW e \in S PROVE \E i \in 1..n : s[i] = e
    <3>1. Rank(e, S) \in 0..(n - 1)
      BY RankIsBounded
    <3>2. PICK i \in 1..n : i = Rank(e, S) + 1
      BY <1>1, <3>1
    <3>3. s[i] \in S /\ Rank(s[i], S) = Rank(e, S)
      BY <1>3, <3>1, <3>2
    <3> QED
      BY <1>1, <3>3
  <2> QED
    BY <1>3, <1>4, <2>1 DEF ToSet
<1>6. ASSUME NEW i \in 1..n, NEW j \in 1..n PROVE i < j <=> Before(s[i], s[j])
  <2>1. ASSUME i < j PROVE Before(s[i], s[j])
    <3>1. s[i] # s[j]
      BY <1>3, <2>1
    <3>2. Before(s[i], s[j]) \/ Before(s[j], s[i])
      BY <1>3, <3>1, BeforeIsTotal DEF Sortable
    <3> QED
      BY <1>3, <2>1, <3>2, RankIsMonotonic
  <2>2. ASSUME Before(s[i], s[j]) PROVE i < j
    BY <1>3, <2>2, RankIsMonotonic
  <2> QED
    BY <2>1, <2>2
<1> QED
  BY <1>4, <1>5, <1>6 DEF Sorts, s

-----------------------------------------------------------------------------
(* Mappers that do not commute                                             *)

\* e is a mapper and S has another mapper of its priority.
Ties(e, S) == \E f \in S : f # e /\ SameRun(e, f)

\* Between two mappers of one priority there are only mappers of that priority.
LEMMA RunsAreContiguous ==
    ASSUME NEW e, NEW f, NEW g, WellKeyed(e), WellKeyed(f), WellKeyed(g),
           Before(e, f), Before(f, g), SameRun(e, g)
    PROVE  SameRun(e, f) /\ SameRun(f, g)
<1>1. ShapeOrder["runner"] = 0 /\ ShapeOrder["mapper"] = 1 /\ ShapeOrder["consumer"] = 2
  BY DEF ShapeOrder
<1>2. e.priority = g.priority /\ e.shape = "mapper" /\ g.shape = "mapper"
  BY DEF SameRun
<1>3. /\ e.priority <= f.priority
      /\ e.priority = f.priority => ShapeOrder["mapper"] <= ShapeOrder[f.shape]
  BY <1>1, <1>2, BeforeIsLexical DEF WellKeyed
<1>4. /\ f.priority <= g.priority
      /\ f.priority = g.priority => ShapeOrder[f.shape] <= ShapeOrder["mapper"]
  BY <1>1, <1>2, BeforeIsLexical DEF WellKeyed
<1>5. f.priority = e.priority
  BY <1>2, <1>3, <1>4 DEF WellKeyed
<1>6. f.shape = "mapper"
  BY <1>1, <1>2, <1>3, <1>4, <1>5 DEF WellKeyed
<1> QED
  BY <1>2, <1>5, <1>6 DEF SameRun

\* In a sorted list the neighbours tell whether a mapper is alone with its priority.
LEMMA NeighboursTell ==
    ASSUME NEW S, Sortable(S), NEW s, Sorts(s, S), NEW i \in DOMAIN s
    PROVE  (\E j \in {i - 1, i + 1} \cap DOMAIN s : SameRun(s[i], s[j])) <=> Ties(s[i], S)
<1>1. /\ s \in Seq(S)
      /\ DOMAIN s = 1..Len(s)
      /\ Len(s) \in Nat
      /\ \A k \in DOMAIN s : s[k] \in S /\ WellKeyed(s[k])
  BY DEF Sorts, Sortable
<1>2. \A k, h \in DOMAIN s : k < h => Before(s[k], s[h]) /\ s[k] # s[h]
  BY <1>1, BeforeIsStrict DEF Sorts
<1>3. ASSUME NEW j \in {i - 1, i + 1} \cap DOMAIN s, SameRun(s[i], s[j])
      PROVE  Ties(s[i], S)
  <2>1. s[j] \in S /\ s[j] # s[i]
    BY <1>1, <1>2
  <2> QED
    BY <1>3, <2>1 DEF Ties
<1>4. ASSUME NEW j \in DOMAIN s, j # i, SameRun(s[i], s[j])
      PROVE  \E k \in {i - 1, i + 1} \cap DOMAIN s : SameRun(s[i], s[k])
  <2>1. CASE i < j
    <3>1. i + 1 \in DOMAIN s
      BY <1>1, <2>1
    <3>2. CASE i + 1 = j
      BY <1>4, <3>1, <3>2
    <3>3. CASE i + 1 < j
      <4>1. Before(s[i], s[i + 1]) /\ Before(s[i + 1], s[j])
        BY <1>1, <1>2, <3>1, <3>3
      <4>2. SameRun(s[i], s[i + 1])
        BY <1>1, <1>4, <3>1, <4>1, RunsAreContiguous
      <4> QED
        BY <3>1, <4>2
    <3> QED
      BY <1>1, <2>1, <3>2, <3>3
  <2>2. CASE j < i
    <3>1. i - 1 \in DOMAIN s
      BY <1>1, <2>2
    <3>2. CASE i - 1 = j
      BY <1>4, <3>1, <3>2
    <3>3. CASE j < i - 1
      <4>1. Before(s[j], s[i - 1]) /\ Before(s[i - 1], s[i])
        BY <1>1, <1>2, <3>1, <3>3
      <4>2. SameRun(s[j], s[i])
        BY <1>4 DEF SameRun
      <4>3. SameRun(s[i - 1], s[i])
        BY <1>1, <3>1, <4>1, <4>2, RunsAreContiguous
      <4>4. SameRun(s[i], s[i - 1])
        BY <4>3 DEF SameRun
      <4> QED
        BY <3>1, <4>4
    <3> QED
      BY <1>1, <2>2, <3>2, <3>3
  <2> QED
    BY <1>1, <1>4, <2>1, <2>2
<1>5. ASSUME NEW f \in S, f # s[i], SameRun(s[i], f)
      PROVE  \E j \in DOMAIN s : j # i /\ SameRun(s[i], s[j])
  BY <1>5 DEF Sorts, ToSet
<1> QED
  BY <1>3, <1>4, <1>5 DEF Ties

\* What is displaced are the mappers that share their priority, whatever else the list
\* has between and around them.
LEMMA SplitDisplacesTies ==
    ASSUME NEW S, Sortable(S), NEW s, Sorts(s, S)
    PROVE  /\ SplitNonCommutingMappers(s).kept = {e \in S : ~Ties(e, S)}
           /\ SplitNonCommutingMappers(s).displaced = {e \in S : Ties(e, S)}
<1>1. S = {s[i] : i \in DOMAIN s}
  BY DEF Sorts, ToSet
<1> DEFINE InRun(i) == \E j \in {i - 1, i + 1} \cap DOMAIN s : SameRun(s[i], s[j])
<1>2. \A i \in DOMAIN s : InRun(i) <=> Ties(s[i], S)
  BY NeighboursTell
<1>3. /\ SplitNonCommutingMappers(s).kept = {s[i] : i \in {j \in DOMAIN s : ~InRun(j)}}
      /\ SplitNonCommutingMappers(s).displaced = {s[i] : i \in {j \in DOMAIN s : InRun(j)}}
  BY DEF SplitNonCommutingMappers
<1> HIDE DEF InRun
<1>4. {s[i] : i \in {j \in DOMAIN s : ~InRun(j)}} = {e \in S : ~Ties(e, S)}
  BY <1>1, <1>2
<1>5. {s[i] : i \in {j \in DOMAIN s : InRun(j)}} = {e \in S : Ties(e, S)}
  BY <1>1, <1>2
<1> QED
  BY <1>3, <1>4, <1>5

-----------------------------------------------------------------------------
(* Resolution                                                              *)

Tags == {"obligation", "advice"}

\* What resolving makes of one constraint, or of many.
OfTag(R, tag, supported) ==
    /\ Sortable(R)
    /\ \A e \in R : /\ e.tag = tag
                    /\ e.signal \in supported \cup {DECISION}
                    /\ e.shape = "mapper" => tag = "obligation" /\ e.signal \in supported

\* A constraint with one claimant has one claim.
LEMMA SoleClaimant ==
    ASSUME NEW c, IsConstraint(c), Cardinality(Claimants(c)) = 1
    PROVE  \E p \in Providers :
             /\ Claimants(c) = {p}
             /\ SoleClaim(c) = c[p]
             /\ IsList(SoleClaim(c))
             /\ \A triple \in ToSet(SoleClaim(c)) :
                  triple.priority \in Int /\ triple.shape \in {"runner", "mapper", "consumer"}
<1>1. Claimants(c) \in SUBSET Providers
  BY DEF Claimants
<1>2. IsFiniteSet(Claimants(c))
  BY <1>1, PlannerAssumption, FS_Subset
<1>3. PICK p : Claimants(c) = {p}
  BY <1>2, FS_Singleton
<1>4. SoleClaim(c) = c[p] /\ p \in Providers
  BY <1>1, <1>3 DEF SoleClaim
<1>5. DOMAIN ShapeOrder = {"runner", "mapper", "consumer"}
  BY DEF ShapeOrder
<1> QED
  BY <1>3, <1>4, <1>5 DEF IsConstraint

LEMMA ResolvesOne ==
    ASSUME NEW c, IsConstraint(c), NEW tag \in Tags, NEW number \in Int, NEW supported
    PROVE  /\ OfTag(ResolveConstraint(c, tag, number, supported), tag, supported)
           /\ \A e \in ResolveConstraint(c, tag, number, supported) : e.number = number
<1> DEFINE R == ResolveConstraint(c, tag, number, supported)
<1>1. CASE IsResolved(c, tag, supported)
  <2> DEFINE claim == SoleClaim(c)
             f == [place \in DOMAIN claim |-> Entry(claim[place], tag, number, place)]
  <2>1. /\ IsList(claim)
        /\ \A triple \in ToSet(claim) :
             triple.priority \in Int /\ triple.shape \in {"runner", "mapper", "consumer"}
    BY <1>1, SoleClaimant DEF IsResolved
  <2>2. R = {f[place] : place \in DOMAIN claim}
    BY <1>1 DEF ResolveConstraint, Scheduled
  <2>3. IsFiniteSet(R)
    <3>1. IsFiniteSet(DOMAIN claim)
      BY <2>1, FS_Interval DEF IsList
    <3>2. DOMAIN f = DOMAIN claim
      OBVIOUS
    <3> HIDE DEF f
    <3> QED
      BY <2>2, <3>1, <3>2, FiniteImage
  <2>4. \A place \in DOMAIN claim :
          /\ place \in Int
          /\ claim[place] \in ToSet(claim)
          /\ f[place] = Entry(claim[place], tag, number, place)
    BY <2>1 DEF IsList, ToSet
  <2>5. \A triple \in ToSet(claim) :
          /\ triple.signal \in supported
          /\ triple.shape = "mapper" => tag = "obligation"
    BY <1>1 DEF IsResolved, AllWellFormed
  <2> HIDE DEF f, R, claim
  <2>6. \A place \in DOMAIN claim :
          /\ WellKeyed(f[place]) /\ f[place].tag = tag /\ f[place].number = number
          /\ f[place].place = place
          /\ f[place].signal \in supported
          /\ f[place].shape = "mapper" => tag = "obligation"
    <3> TAKE place \in DOMAIN claim
    <3>1. PICK triple \in ToSet(claim) :
            f[place] = Entry(triple, tag, number, place) /\ place \in Int
      BY <2>4
    <3>2. /\ triple.priority \in Int /\ triple.shape \in {"runner", "mapper", "consumer"}
          /\ triple.signal \in supported
          /\ triple.shape = "mapper" => tag = "obligation"
      BY <2>1, <2>5
    <3> DEFINE e == Entry(triple, tag, number, place)
    <3>3. /\ e.priority = triple.priority /\ e.shape = triple.shape
          /\ e.tag = tag /\ e.number = number /\ e.place = place
          /\ e.signal = triple.signal
      BY DEF Entry
    <3> HIDE DEF e
    <3>4. WellKeyed(e)
      BY <3>1, <3>2, <3>3 DEF WellKeyed, Tags
    <3> QED
      BY <3>1, <3>2, <3>3, <3>4 DEF e
  <2>7. \A e, g \in R : SameSource(e, g) => e = g
    BY <2>2, <2>6 DEF SameSource
  <2> QED
    BY <2>2, <2>3, <2>6, <2>7 DEF OfTag, Sortable, R
<1>2. CASE ~IsResolved(c, tag, supported)
  <2>1. R = {Synthetic(tag, number, 0)}
    BY <1>2 DEF ResolveConstraint
  <2>2. IsFiniteSet(R)
    BY <2>1, FS_Singleton
  <2> HIDE DEF R
  <2>3. WellKeyed(Synthetic(tag, number, 0))
    BY DEF Synthetic, WellKeyed, Tags
  <2> QED
    BY <2>1, <2>2, <2>3 DEF OfTag, Sortable, Synthetic, R
<1> QED
  BY <1>1, <1>2

LEMMA ResolvesAll ==
    ASSUME NEW constraints, IsList(constraints),
           \A c \in ToSet(constraints) : IsConstraint(c),
           NEW tag \in Tags, NEW supported
    PROVE  OfTag(ResolveAll(constraints, tag, supported), tag, supported)
<1> DEFINE D == DOMAIN constraints
           f == [k \in D |-> ResolveConstraint(constraints[k], tag, k, supported)]
           R == ResolveAll(constraints, tag, supported)
<1>1. D = 1..Len(constraints) /\ Len(constraints) \in Nat
  BY DEF IsList
<1>2. R = UNION {f[k] : k \in D}
  BY DEF ResolveAll
<1>3. \A k \in D : OfTag(f[k], tag, supported) /\ \A e \in f[k] : e.number = k
  BY <1>1, ResolvesOne DEF ToSet
<1>4. IsFiniteSet(R)
  <2>1. IsFiniteSet(D) /\ DOMAIN f = D
    BY <1>1, FS_Interval
  <2>2. IsFiniteSet({f[k] : k \in D})
    <3> HIDE DEF f, D
    <3> QED
      BY <2>1, FiniteImage
  <2>3. \A T \in {f[k] : k \in D} : IsFiniteSet(T)
    BY <1>3 DEF OfTag, Sortable
  <2> HIDE DEF f, D
  <2> QED
    BY <1>2, <2>2, <2>3, FS_UNION
<1> HIDE DEF f, R, D
<1>5. \A e, g \in R : SameSource(e, g) => e = g
  <2> SUFFICES ASSUME NEW e \in R, NEW g \in R, SameSource(e, g) PROVE e = g
    OBVIOUS
  <2>1. PICK k \in D, h \in D : e \in f[k] /\ g \in f[h]
    BY <1>2
  <2>2. k = h
    BY <1>3, <2>1 DEF SameSource
  <2> QED
    BY <1>3, <2>1, <2>2 DEF OfTag, Sortable
<1>6. \A e \in R : \E k \in D : e \in f[k]
  BY <1>2
<1> QED
  BY <1>3, <1>4, <1>5, <1>6 DEF OfTag, Sortable, R

\* The entries of a decision, before they are ordered.
LEMMA ResolvesDecision ==
    ASSUME NEW decided, IsDecision(decided), NEW supported
    PROVE  /\ Sortable(Resolved(decided, supported))
           /\ \A e \in Resolved(decided, supported) :
                /\ e.signal \in supported \cup {DECISION}
                /\ e.shape = "mapper" => e.tag = "obligation" /\ e.signal \in supported
<1> DEFINE O == ResolveAll(decided.obligations, "obligation", supported)
           A == ResolveAll(decided.advice, "advice", supported)
<1>1. OfTag(O, "obligation", supported) /\ OfTag(A, "advice", supported)
  BY ResolvesAll DEF IsDecision, Tags
<1>2. Resolved(decided, supported) = O \cup A
  BY DEF Resolved
<1>3. IsFiniteSet(O \cup A)
  BY <1>1, FS_Union DEF OfTag, Sortable
<1> HIDE DEF O, A
<1>4. \A e, f \in O \cup A : SameSource(e, f) => e = f
  BY <1>1 DEF OfTag, Sortable, SameSource
<1> QED
  BY <1>1, <1>2, <1>3, <1>4 DEF OfTag, Sortable

-----------------------------------------------------------------------------
(* Plans                                                                   *)

EntriesAt(decided, supported, signal) ==
    {e \in Resolved(decided, supported) : e.signal = signal}

\* The mappers of a decision that tie at their signal.
Clashing(decided, supported) ==
    {e \in Resolved(decided, supported) :
        e.signal \in supported /\ Ties(e, EntriesAt(decided, supported, e.signal))}

\* What the plan has at a signal.
Placed(decided, supported, signal) ==
    (EntriesAt(decided, supported, signal) \ Clashing(decided, supported))
    \cup IF signal = DECISION THEN Substitutes(decided, supported) ELSE {}

LEMMA SplitsEntries ==
    ASSUME NEW decided, IsDecision(decided), NEW supported, NEW signal \in supported
    PROVE  /\ SplitAt(decided, supported, signal).kept
                = EntriesAt(decided, supported, signal) \ Clashing(decided, supported)
           /\ SplitAt(decided, supported, signal).displaced
                = EntriesAt(decided, supported, signal) \cap Clashing(decided, supported)
<1> DEFINE S == EntriesAt(decided, supported, signal)
<1>1. S \in SUBSET Resolved(decided, supported)
  BY DEF EntriesAt
<1>2. Sortable(S)
  <2>1. Sortable(Resolved(decided, supported))
    BY ResolvesDecision
  <2>2. IsFiniteSet(S)
    BY <1>1, <2>1, FS_Subset DEF Sortable
  <2> HIDE DEF S
  <2> QED
    BY <1>1, <2>1, <2>2 DEF Sortable
<1>3. Sorts(Sorted(S), S)
  BY <1>2, SortedSorts
<1>4. SplitAt(decided, supported, signal) = SplitNonCommutingMappers(Sorted(S))
  BY DEF SplitAt, EntriesAt
<1>5. \A e \in S : Ties(e, S) <=> e \in Clashing(decided, supported)
  BY DEF Clashing, EntriesAt
<1> HIDE DEF S
<1>6. /\ SplitAt(decided, supported, signal).kept = {e \in S : ~Ties(e, S)}
      /\ SplitAt(decided, supported, signal).displaced = {e \in S : Ties(e, S)}
  BY <1>2, <1>3, <1>4, SplitDisplacesTies
<1> QED
  BY <1>5, <1>6 DEF S

\* Every clashing mapper has its substitute, and nothing else has.
LEMMA SubstitutesClashing ==
    ASSUME NEW decided, IsDecision(decided), NEW supported
    PROVE  Substitutes(decided, supported) =
             {Synthetic("obligation", e.number, e.place) : e \in Clashing(decided, supported)}
<1>1. UNION {SplitAt(decided, supported, signal).displaced : signal \in supported}
        = Clashing(decided, supported)
  <2>1. \A signal \in supported :
          SplitAt(decided, supported, signal).displaced
            = EntriesAt(decided, supported, signal) \cap Clashing(decided, supported)
    BY SplitsEntries
  <2>2. \A e \in Clashing(decided, supported) :
          e.signal \in supported /\ e \in EntriesAt(decided, supported, e.signal)
    BY DEF Clashing, EntriesAt
  <2> QED
    BY <2>1, <2>2
<1> QED
  BY <1>1 DEF Substitutes

\* No substitute takes the place of an entry that is kept.
LEMMA PlacedIsSortable ==
    ASSUME NEW decided, IsDecision(decided), NEW supported, NEW signal
    PROVE  Sortable(Placed(decided, supported, signal))
<1> DEFINE R == Resolved(decided, supported)
           C == Clashing(decided, supported)
           K == EntriesAt(decided, supported, signal) \ C
           f == [e \in C |-> Synthetic("obligation", e.number, e.place)]
           U == IF signal = DECISION THEN Substitutes(decided, supported) ELSE {}
<1>1. /\ Sortable(R)
      /\ \A e \in R : e.shape = "mapper" => e.tag = "obligation"
  BY ResolvesDecision
<1>2. C \in SUBSET R /\ K \in SUBSET R /\ K \cap C = {}
  BY DEF Clashing, EntriesAt
<1>3. \A e \in C : e.tag = "obligation"
  BY <1>1, <1>2 DEF Clashing, Ties, SameRun
<1>4. IsFiniteSet(K) /\ IsFiniteSet(C)
  <2> HIDE DEF K, C, R
  <2> QED
    BY <1>1, <1>2, FS_Subset DEF Sortable
<1>5. IsFiniteSet({f[e] : e \in C})
  <2>1. DOMAIN f = C
    OBVIOUS
  <2> HIDE DEF f, C
  <2> QED
    BY <1>4, <2>1, FiniteImage
<1>6. U \in SUBSET {f[e] : e \in C}
  BY SubstitutesClashing
<1>7. IsFiniteSet(K \cup U)
  <2> HIDE DEF K, C, U, f
  <2>1. IsFiniteSet(U)
    BY <1>5, <1>6, FS_Subset
  <2> QED
    BY <1>4, <2>1, FS_Union
<1>8. \A e \in C : /\ WellKeyed(f[e]) /\ f[e].tag = "obligation"
                   /\ f[e].number = e.number /\ f[e].place = e.place
  <2> TAKE e \in C
  <2>1. WellKeyed(e)
    BY <1>1, <1>2 DEF Sortable
  <2>2. f[e] = Synthetic("obligation", e.number, e.place)
    OBVIOUS
  <2> HIDE DEF f, C
  <2> QED
    BY <2>1, <2>2 DEF Synthetic, WellKeyed
<1> HIDE DEF R, C, K, U
<1>9. \A e \in K \cup U : WellKeyed(e)
  <2> HIDE DEF f
  <2> QED
    BY <1>1, <1>2, <1>6, <1>8 DEF Sortable
<1>10. \A e, g \in K \cup U : SameSource(e, g) => e = g
  <2> SUFFICES ASSUME NEW e \in K \cup U, NEW g \in K \cup U, SameSource(e, g) PROVE e = g
    OBVIOUS
  <2>1. \A x \in K, y \in C : ~SameSource(x, y)
    BY <1>1, <1>2 DEF Sortable
  <2>2. \A x \in U : \E y \in C : x = f[y] /\ SameSource(x, y) /\ SameSource(y, x)
    <3> HIDE DEF f
    <3> QED
      BY <1>3, <1>6, <1>8 DEF SameSource
  <2>3. CASE e \in K /\ g \in K
    BY <1>1, <1>2, <2>3 DEF Sortable
  <2>4. CASE e \in U /\ g \in U
    <3>1. PICK x \in C, y \in C : e = f[x] /\ g = f[y] /\ SameSource(e, x) /\ SameSource(g, y)
      BY <2>2, <2>4
    <3>2. SameSource(x, y)
      BY <3>1 DEF SameSource
    <3> QED
      BY <1>1, <1>2, <3>1, <3>2 DEF Sortable
  <2>5. CASE e \in K /\ g \in U
    BY <2>1, <2>2, <2>5 DEF SameSource
  <2>6. CASE e \in U /\ g \in K
    BY <2>1, <2>2, <2>6 DEF SameSource
  <2> QED
    BY <2>3, <2>4, <2>5, <2>6
<1> QED
  BY <1>7, <1>9, <1>10 DEF Sortable, Placed, K, U, C

(* The plan has, at each signal, what the decision asks for there without  *)
(* the mappers that clash, and at the decision signal their substitutes,   *)
(* each once and in order (EnforcementPlanner.plan).                       *)
THEOREM PlanSorts ==
    ASSUME NEW decided, IsDecision(decided), NEW supported, NEW signal \in supported
    PROVE  Sorts(PlanFor(decided, supported)[signal], Placed(decided, supported, signal))
<1>1. PlanFor(decided, supported)[signal] = Sorted(Placed(decided, supported, signal))
  BY SplitsEntries DEF PlanFor, Placed
<1> QED
  BY <1>1, PlacedIsSortable, SortedSorts

-----------------------------------------------------------------------------
(* Executions                                                              *)

\* What execute has after k entries of the list at a signal.
Progress(so, list, k, signal, priorFailure) ==
    /\ so \in [absent : BOOLEAN, mapped : Seq(ToSet(list)),
               failed : BOOLEAN, ran : Seq(ToSet(list))]
    /\ priorFailure => so.failed
    /\ signal \notin DataCarrying => so.absent
    /\ \A h \in 1..k : list[h].tag = "obligation" =>
         \/ so.failed
         \/ list[h] \in ToSet(so.ran) /\ ~list[h].synthetic
         \/ so.absent /\ list[h].shape # "runner"
    /\ \A i \in DOMAIN so.ran : \E h \in 1..k : so.ran[i] = list[h]
    /\ \A i, j \in DOMAIN so.ran : i < j => Before(so.ran[i], so.ran[j])
    /\ ToSet(so.mapped) = {e \in ToSet(so.ran) : e.shape = "mapper"}
    /\ \A i, j \in DOMAIN so.mapped : i < j => Before(so.mapped[i], so.mapped[j])

\* What a list becomes by an element at its end.
LEMMA AppendedList ==
    ASSUME NEW T, NEW s \in Seq(T), NEW e \in T
    PROVE  /\ Append(s, e) \in Seq(T)
           /\ ToSet(Append(s, e)) = ToSet(s) \cup {e}
           /\ Len(s) \in Nat /\ DOMAIN s = 1..Len(s)
           /\ DOMAIN Append(s, e) = 1..(Len(s) + 1)
           /\ \A i \in DOMAIN s : Append(s, e)[i] = s[i]
           /\ Append(s, e)[Len(s) + 1] = e
<1>1. /\ Append(s, e) \in Seq(T)
      /\ Len(s) \in Nat /\ DOMAIN s = 1..Len(s)
      /\ DOMAIN Append(s, e) = 1..(Len(s) + 1)
      /\ \A i \in DOMAIN s : Append(s, e)[i] = s[i]
      /\ Append(s, e)[Len(s) + 1] = e
  OBVIOUS
<1>2. ToSet(Append(s, e)) = ToSet(s) \cup {e}
  BY <1>1 DEF ToSet
<1> QED
  BY <1>1, <1>2

\* A list stays in order when what comes after all of it is appended.
LEMMA AppendedInOrder ==
    ASSUME NEW T, NEW s \in Seq(T), NEW e \in T,
           \A i, j \in DOMAIN s : i < j => Before(s[i], s[j]),
           \A i \in DOMAIN s : Before(s[i], e)
    PROVE  \A i, j \in DOMAIN Append(s, e) : i < j => Before(Append(s, e)[i], Append(s, e)[j])
<1> DEFINE t == Append(s, e)
<1>1. /\ Len(s) \in Nat /\ DOMAIN s = 1..Len(s)
      /\ DOMAIN t = 1..(Len(s) + 1)
      /\ \A i \in DOMAIN s : t[i] = s[i]
      /\ t[Len(s) + 1] = e
  BY AppendedList
<1> HIDE DEF t
<1>2. ASSUME NEW i \in DOMAIN t, NEW j \in DOMAIN t, i < j PROVE Before(t[i], t[j])
  <2>1. i \in DOMAIN s
    BY <1>1, <1>2
  <2>2. CASE j \in DOMAIN s
    BY <1>1, <1>2, <2>1, <2>2
  <2>3. CASE j = Len(s) + 1
    BY <1>1, <2>1, <2>3
  <2> QED
    BY <1>1, <2>2, <2>3
<1> QED
  BY <1>2 DEF t

LEMMA OutsetProgress ==
    ASSUME NEW list, NEW signal, NEW priorFailure \in BOOLEAN
    PROVE  Progress(Outset(signal, priorFailure), list, 0, signal, priorFailure)
<1> DEFINE so == Outset(signal, priorFailure)
<1>1. /\ so = [absent |-> signal \notin DataCarrying, mapped |-> <<>>,
               failed |-> priorFailure, ran |-> <<>>]
      /\ <<>> \in Seq(ToSet(list)) /\ DOMAIN <<>> = {} /\ ToSet(<<>>) = {}
  BY DEF Outset, ToSet
<1> HIDE DEF so
<1>2. /\ so \in [absent : BOOLEAN, mapped : Seq(ToSet(list)),
                 failed : BOOLEAN, ran : Seq(ToSet(list))]
      /\ so.absent <=> signal \notin DataCarrying
      /\ so.failed = priorFailure /\ so.ran = <<>> /\ so.mapped = <<>>
  BY <1>1
<1> QED
  BY <1>1, <1>2 DEF Progress, so

\* One more entry: it is skipped, raises or runs.
LEMMA RunEntryProgress ==
    ASSUME NEW S, Sortable(S), NEW list, Sorts(list, S),
           NEW k \in Nat, k + 1 \in DOMAIN list,
           NEW signal, NEW priorFailure \in BOOLEAN, NEW behaviour,
           NEW so, Progress(so, list, k, signal, priorFailure)
    PROVE  Progress(RunEntry(so, list[k + 1], behaviour), list, k + 1, signal, priorFailure)
<1> DEFINE e == list[k + 1]
           T == ToSet(list)
<1>1. /\ so.absent \in BOOLEAN /\ so.failed \in BOOLEAN
      /\ so.ran \in Seq(T) /\ so.mapped \in Seq(T)
      /\ so \in [absent : BOOLEAN, mapped : Seq(T), failed : BOOLEAN, ran : Seq(T)]
      /\ e \in T
  BY DEF Progress, ToSet
<1>2. \A h \in 1..(k + 1) : h \in 1..k \/ h = k + 1
  OBVIOUS
<1> HIDE DEF e, T
<1>3. CASE Skipped(so, e)
  <2>1. RunEntry(so, e, behaviour) = so
    BY <1>3 DEF RunEntry
  <2>2. so.absent /\ e.shape # "runner"
    BY <1>3 DEF Skipped
  <2> QED
    BY <1>1, <1>2, <2>1, <2>2 DEF Progress, e
<1>4. CASE ~Skipped(so, e) /\ Raises(e, behaviour)
  <2> DEFINE new == [so EXCEPT !.failed = @ \/ e.tag = "obligation"]
  <2>1. RunEntry(so, e, behaviour) = new
    BY <1>4 DEF RunEntry
  <2>2. /\ new \in [absent : BOOLEAN, mapped : Seq(T), failed : BOOLEAN, ran : Seq(T)]
        /\ new.absent = so.absent /\ new.mapped = so.mapped /\ new.ran = so.ran
        /\ new.failed <=> so.failed \/ e.tag = "obligation"
    BY <1>1
  <2> HIDE DEF new
  <2> QED
    BY <1>2, <2>1, <2>2 DEF Progress, e, T
<1>5. CASE ~Skipped(so, e) /\ ~Raises(e, behaviour)
  <2> DEFINE new == Ran(so, e, behaviour)
  <2>1. RunEntry(so, e, behaviour) = new
    BY <1>5 DEF RunEntry
  <2>2. Append(so.ran, e) \in Seq(T) /\ Append(so.mapped, e) \in Seq(T)
    BY <1>1
  <2>3. /\ new \in [absent : BOOLEAN, mapped : Seq(T), failed : BOOLEAN, ran : Seq(T)]
        /\ so.absent => new.absent
        /\ new.failed = so.failed
        /\ new.ran = Append(so.ran, e)
        /\ new.mapped = IF e.shape = "mapper" THEN Append(so.mapped, e) ELSE so.mapped
    BY <1>1, <2>2 DEF Ran
  <2>4. e.tag = "obligation" => ~e.synthetic
    BY <1>5 DEF Raises
  <2> HIDE DEF new
  <2>5. /\ ToSet(new.ran) = ToSet(so.ran) \cup {e}
        /\ Len(so.ran) \in Nat /\ DOMAIN so.ran = 1..Len(so.ran)
        /\ DOMAIN new.ran = 1..(Len(so.ran) + 1)
        /\ \A i \in DOMAIN so.ran : new.ran[i] = so.ran[i]
        /\ new.ran[Len(so.ran) + 1] = e
    BY <1>1, <2>3, AppendedList
  <2>6. \A i \in DOMAIN new.ran : \E h \in 1..(k + 1) : new.ran[i] = list[h]
    <3> TAKE i \in DOMAIN new.ran
    <3>1. CASE i \in DOMAIN so.ran
      <4>1. PICK h \in 1..k : so.ran[i] = list[h]
        BY <3>1 DEF Progress
      <4> QED
        BY <2>5, <3>1, <4>1
    <3>2. CASE i = Len(so.ran) + 1
      BY <2>5, <3>2 DEF e
    <3> QED
      BY <2>5, <3>1, <3>2
  <2>7. \A i \in DOMAIN so.ran : Before(so.ran[i], e)
    <3> TAKE i \in DOMAIN so.ran
    <3>1. PICK h \in 1..k : so.ran[i] = list[h]
      BY DEF Progress
    <3>2. h \in DOMAIN list /\ h < k + 1
      BY DEF Sorts
    <3> QED
      BY <3>1, <3>2 DEF Sorts, e
  <2>8. \A i \in DOMAIN so.mapped : Before(so.mapped[i], e)
    <3> TAKE i \in DOMAIN so.mapped
    <3>1. so.mapped[i] \in ToSet(so.ran)
      BY DEF Progress, ToSet
    <3>2. PICK j \in DOMAIN so.ran : so.ran[j] = so.mapped[i]
      BY <3>1 DEF ToSet
    <3> QED
      BY <2>7, <3>2
  <2>9. \A i, j \in DOMAIN new.ran : i < j => Before(new.ran[i], new.ran[j])
    BY <1>1, <2>3, <2>7, AppendedInOrder DEF Progress
  <2>10. \A i, j \in DOMAIN new.mapped : i < j => Before(new.mapped[i], new.mapped[j])
    <3>1. \A i, j \in DOMAIN so.mapped : i < j => Before(so.mapped[i], so.mapped[j])
      BY DEF Progress
    <3>2. CASE e.shape = "mapper"
      BY <1>1, <2>3, <2>8, <3>1, <3>2, AppendedInOrder
    <3>3. CASE e.shape # "mapper"
      BY <2>3, <3>1, <3>3
    <3> QED
      BY <3>2, <3>3
  <2>11. ToSet(new.mapped) = {f \in ToSet(new.ran) : f.shape = "mapper"}
    <3>1. ToSet(so.mapped) = {f \in ToSet(so.ran) : f.shape = "mapper"}
      BY DEF Progress
    <3>2. ToSet(Append(so.mapped, e)) = ToSet(so.mapped) \cup {e}
      BY <1>1, AppendedList
    <3>3. CASE e.shape = "mapper"
      BY <2>3, <2>5, <3>1, <3>2, <3>3
    <3>4. CASE e.shape # "mapper"
      BY <2>3, <2>5, <3>1, <3>4
    <3> QED
      BY <3>3, <3>4
  <2>12. \A h \in 1..(k + 1) : list[h].tag = "obligation" =>
           \/ new.failed
           \/ list[h] \in ToSet(new.ran) /\ ~list[h].synthetic
           \/ new.absent /\ list[h].shape # "runner"
    <3> TAKE h \in 1..(k + 1)
    <3>1. CASE h \in 1..k
      BY <2>3, <2>5, <3>1 DEF Progress
    <3>2. CASE h = k + 1
      BY <2>4, <2>5, <3>2 DEF e
    <3> QED
      BY <1>2, <3>1, <3>2
  <2>13. (priorFailure => new.failed) /\ (signal \notin DataCarrying => new.absent)
    BY <2>3 DEF Progress
  <2> QED
    BY <2>1, <2>3, <2>6, <2>9, <2>10, <2>11, <2>12, <2>13 DEF Progress, e, T
<1> QED
  BY <1>3, <1>4, <1>5 DEF e

\* The states of an execution, from its outset to its result.
LEMMA ExecuteUnfolds ==
    ASSUME NEW pl, NEW signal, Len(pl[signal]) \in Nat, NEW handlers, NEW priorFailure
    PROVE  \E after :
             /\ after[0] = Outset(signal, priorFailure)
             /\ \A k \in 1..Len(pl[signal]) :
                  after[k] = RunEntry(after[k - 1], pl[signal][k], handlers[k])
             /\ Execute(pl, signal, handlers, priorFailure) = after[Len(pl[signal])]
<1> DEFINE n == Len(pl[signal])
           Def(f, k) == IF k = 0 THEN Outset(signal, priorFailure)
                        ELSE RunEntry(f[k - 1], pl[signal][k], handlers[k])
           Upto(f, m) == f = [k \in 0..m |-> Def(f, k)]
           P == {m \in 0..n : \E f : Upto(f, m)}
<1>1. 0 \in P
  <2>1. Upto([k \in 0..0 |-> Outset(signal, priorFailure)], 0)
    OBVIOUS
  <2>2. 0 \in 0..n
    OBVIOUS
  <2> HIDE DEF Upto, n
  <2>3. \E f : Upto(f, 0)
    BY <2>1
  <2> QED
    BY <2>2, <2>3
<1>2. ASSUME NEW m \in 0..(n - 1), m \in P PROVE m + 1 \in P
  <2>1. PICK f : Upto(f, m)
    BY <1>2
  <2> DEFINE g == [k \in 0..(m + 1) |-> IF k = m + 1 THEN Def(f, m + 1) ELSE f[k]]
  <2>2. \A k \in 0..(m + 1) : g[k] = Def(g, k)
    <3> TAKE k \in 0..(m + 1)
    <3>1. CASE k = 0
      BY <2>1, <3>1
    <3>2. CASE k \in 1..m
      <4>0. k \in 0..m /\ k # 0
        BY <3>2
      <4>1. f[k] = RunEntry(f[k - 1], pl[signal][k], handlers[k])
        <5>1. f[k] = [h \in 0..m |-> Def(f, h)][k]
          BY <2>1
        <5> QED
          BY <4>0, <5>1
      <4>2. g[k] = f[k] /\ g[k - 1] = f[k - 1]
        BY <3>2
      <4> QED
        BY <3>2, <4>1, <4>2
    <3>3. CASE k = m + 1
      <4>1. g[k] = RunEntry(f[m], pl[signal][k], handlers[k]) /\ g[k - 1] = f[m]
        BY <3>3
      <4> QED
        BY <3>3, <4>1
    <3> QED
      BY <3>1, <3>2, <3>3
  <2>3. g = [k \in 0..(m + 1) |-> g[k]]
    OBVIOUS
  <2> HIDE DEF g
  <2>4. Upto(g, m + 1)
    <3> HIDE DEF Def
    <3>1. [k \in 0..(m + 1) |-> g[k]] = [k \in 0..(m + 1) |-> Def(g, k)]
      BY <2>2
    <3> QED
      BY <2>3, <3>1
  <2> QED
    BY <2>4
<1> HIDE DEF P, Upto
<1>3. n \in P
  <2> HIDE DEF n
  <2>1. n \in Nat
    BY DEF n
  <2>2. \A k \in 0..(n - 1) : k \in P => k + 1 \in P
    BY <1>2
  <2>3. \A k \in 0..n : k \in P
    BY <1>1, <2>1, <2>2, CountingUp
  <2> QED
    BY <2>1, <2>3
<1>4. \E f : Upto(f, n)
  BY <1>3 DEF P
<1> DEFINE after == CHOOSE f : Upto(f, n)
<1>5. Upto(after, n)
  BY <1>4
<1>6. Execute(pl, signal, handlers, priorFailure) = after[n]
  BY DEF Execute, Upto
<1> HIDE DEF after
<1>7. \A k \in 0..n : after[k] = Def(after, k)
  BY <1>5 DEF Upto
<1>8. /\ after[0] = Outset(signal, priorFailure)
      /\ \A k \in 1..n : after[k] = RunEntry(after[k - 1], pl[signal][k], handlers[k])
  BY <1>7
<1> QED
  BY <1>6, <1>8

(* Executing a plan at a signal leaves the state that its whole list makes *)
(* of the outset: no entry is left out, whatever the handlers do           *)
(* (EnforcementPlan.execute).                                              *)
THEOREM ExecuteRunsAll ==
    ASSUME NEW pl, NEW signal, NEW S, Sortable(S), Sorts(pl[signal], S),
           NEW handlers, NEW priorFailure \in BOOLEAN
    PROVE  Progress(Execute(pl, signal, handlers, priorFailure), pl[signal],
                    Len(pl[signal]), signal, priorFailure)
<1> DEFINE list == pl[signal]
           n    == Len(list)
<1>1. n \in Nat /\ DOMAIN list = 1..n
  BY DEF Sorts
<1>2. PICK after :
        /\ after[0] = Outset(signal, priorFailure)
        /\ \A k \in 1..n : after[k] = RunEntry(after[k - 1], list[k], handlers[k])
        /\ Execute(pl, signal, handlers, priorFailure) = after[n]
  BY <1>1, ExecuteUnfolds
<1> DEFINE P == {k \in 0..n : Progress(after[k], list, k, signal, priorFailure)}
<1>3. 0 \in P
  BY <1>1, <1>2, OutsetProgress
<1>4. ASSUME NEW k \in 0..(n - 1), k \in P PROVE k + 1 \in P
  <2>1. k \in Nat /\ k + 1 \in DOMAIN list /\ k + 1 \in 1..n /\ (k + 1) - 1 = k
    BY <1>1
  <2>2. after[k + 1] = RunEntry(after[k], list[k + 1], handlers[k + 1])
    BY <1>2, <2>1
  <2>3. Progress(after[k], list, k, signal, priorFailure)
    BY <1>4
  <2>4. Progress(after[k + 1], list, k + 1, signal, priorFailure)
    BY <2>1, <2>2, <2>3, RunEntryProgress
  <2> QED
    BY <1>1, <2>1, <2>4
<1>5. n \in P
  <2> HIDE DEF P, n
  <2>1. \A k \in 0..(n - 1) : k \in P => k + 1 \in P
    BY <1>4
  <2>2. \A k \in 0..n : k \in P
    BY <1>1, <1>3, <2>1, CountingUp
  <2> QED
    BY <1>1, <2>2
<1> QED
  BY <1>2, <1>5

-----------------------------------------------------------------------------
(* The life of a decision                                                  *)

\* A decision is planned once, and what it has for a signal is what executing its plan
\* there made.
PlanInv ==
    /\ decision \in Decisions
    /\ plan \in {<<>>, PlanFor(decision, Supported)}
    /\ plan = <<>> => results = <<>>
    /\ DOMAIN results \subseteq Supported
    /\ \A signal \in DOMAIN results :
         Progress(results[signal], plan[signal], Len(plan[signal]), signal, FALSE)

LEMMA PlanInvInductive ==
    /\ PlanInit => PlanInv
    /\ PlanInv /\ [PlanNext]_planVars => PlanInv'
<1>1. PlanInit => PlanInv
  BY DEF PlanInit, PlanInv
<1>2. ASSUME PlanInv, [PlanNext]_planVars PROVE PlanInv'
  <2>1. CASE Plans
    <3>1. results = <<>> /\ DOMAIN results = {}
      BY <1>2, <2>1 DEF PlanInv, Plans
    <3>2. PlanFor(decision, Supported) # <<>>
      BY PlanExecutionAssumption DEF PlanFor
    <3> QED
      BY <1>2, <2>1, <3>1, <3>2 DEF PlanInv, Plans
  <2>2. ASSUME NEW signal \in Supported, Fires(signal) PROVE PlanInv'
    <3>1. plan = PlanFor(decision, Supported) /\ plan # <<>> /\ IsDecision(decision)
      BY <1>2, <2>2, PlannerAssumption DEF PlanInv, Fires
    <3>2. PICK handlers \in [DOMAIN plan[signal] -> Behaviours] :
            results' = [s \in DOMAIN results \cup {signal} |->
                          IF s = signal THEN Execute(plan, signal, handlers, FALSE) ELSE results[s]]
      BY <2>2 DEF Fires
    <3> DEFINE so == Execute(plan, signal, handlers, FALSE)
    <3>3. Progress(so, plan[signal], Len(plan[signal]), signal, FALSE)
      <4>1. /\ Sortable(Placed(decision, Supported, signal))
            /\ Sorts(plan[signal], Placed(decision, Supported, signal))
        BY <3>1, PlanSorts, PlacedIsSortable
      <4> QED
        BY <4>1, ExecuteRunsAll
    <3> HIDE DEF so
    <3>4. /\ DOMAIN results' = DOMAIN results \cup {signal}
          /\ \A s \in DOMAIN results' : results'[s] = IF s = signal THEN so ELSE results[s]
      BY <3>2 DEF so
    <3>5. decision' = decision /\ plan' = plan
      BY <2>2 DEF Fires
    <3> QED
      BY <1>2, <2>2, <3>1, <3>3, <3>4, <3>5 DEF PlanInv
  <2>3. CASE UNCHANGED planVars
    BY <1>2, <2>3 DEF PlanInv, planVars
  <2> QED
    BY <1>2, <2>1, <2>2, <2>3 DEF PlanNext
<1> QED
  BY <1>1, <1>2

\* What ran at a signal is part of the plan.
LEMMA RanIsPlanned ==
    ASSUME NEW so, NEW list, IsList(list), NEW signal, NEW priorFailure \in BOOLEAN,
           Progress(so, list, Len(list), signal, priorFailure)
    PROVE  so.failed \in BOOLEAN /\ ToSet(so.ran) \subseteq ToSet(list)
<1>1. /\ so.failed \in BOOLEAN
      /\ \A i \in DOMAIN so.ran : \E h \in 1..Len(list) : so.ran[i] = list[h]
  BY DEF Progress
<1> QED
  BY <1>1 DEF ToSet, IsList

-----------------------------------------------------------------------------
(* What a decision asks for, and what its execution shows                  *)

\* An obligation is scheduled handler by handler, or by what raises in its place.
LEMMA ObligationResolves ==
    ASSUME NEW decided, NEW supported, NEW k \in DOMAIN decided.obligations
    PROVE  LET c == decided.obligations[k]
           IN  /\ IsResolved(c, "obligation", supported) =>
                    \A place \in DOMAIN SoleClaim(c) :
                      Entry(SoleClaim(c)[place], "obligation", k, place)
                        \in Resolved(decided, supported)
               /\ ~IsResolved(c, "obligation", supported) =>
                    Synthetic("obligation", k, 0) \in Resolved(decided, supported)
<1>1. ResolveConstraint(decided.obligations[k], "obligation", k, supported)
        \in SUBSET Resolved(decided, supported)
  BY DEF ResolveAll, Resolved
<1> QED
  BY <1>1 DEF ResolveConstraint, Scheduled

\* What is placed at a signal has run there, once nothing failed.
LEMMA PlacedHasRun ==
    ASSUME NEW decided, IsDecision(decided), NEW supported, NEW signal \in supported,
           NEW so, NEW priorFailure \in BOOLEAN,
           LET list == PlanFor(decided, supported)[signal]
           IN  Progress(so, list, Len(list), signal, priorFailure),
           NEW e \in Placed(decided, supported, signal), e.tag = "obligation"
    PROVE  \/ so.failed
           \/ e \in ToSet(so.ran) /\ ~e.synthetic
           \/ so.absent /\ e.shape # "runner"
<1> DEFINE list == PlanFor(decided, supported)[signal]
<1>1. Sorts(list, Placed(decided, supported, signal))
  BY PlanSorts
<1>2. PICK h \in 1..Len(list) : list[h] = e
  <2> HIDE DEF list
  <2> QED
    BY <1>1 DEF Sorts, ToSet
<1>3. Progress(so, list, Len(list), signal, priorFailure)
  OBVIOUS
<1> HIDE DEF list
<1> QED
  BY <1>2, <1>3 DEF Progress

\* Nothing is silently dropped between resolution and the decision signal.
LEMMA UnresolvedFails ==
    ASSUME NEW decided, IsDecision(decided), NEW supported, DECISION \in supported,
           NEW so, NEW priorFailure \in BOOLEAN,
           LET list == PlanFor(decided, supported)[DECISION]
           IN  Progress(so, list, Len(list), DECISION, priorFailure),
           \/ \E k \in DOMAIN decided.obligations :
                ~IsResolved(decided.obligations[k], "obligation", supported)
           \/ Clashing(decided, supported) # {}
    PROVE  so.failed
<1> SUFFICES \E e \in Placed(decided, supported, DECISION) :
               e.tag = "obligation" /\ e.shape = "runner" /\ e.synthetic
  <2> HIDE DEF DECISION
  <2> QED
    BY PlacedHasRun
<1>1. CASE \E k \in DOMAIN decided.obligations :
             ~IsResolved(decided.obligations[k], "obligation", supported)
  <2>1. PICK k \in DOMAIN decided.obligations :
          ~IsResolved(decided.obligations[k], "obligation", supported)
    BY <1>1
  <2> DEFINE e == Synthetic("obligation", k, 0)
  <2>2. e \in Resolved(decided, supported)
    BY <2>1, ObligationResolves
  <2>3. /\ e.signal = DECISION /\ e.tag = "obligation" /\ e.shape = "runner" /\ e.synthetic
    BY DEF Synthetic
  <2>4. e \notin Clashing(decided, supported)
    BY <2>3 DEF Clashing, Ties, SameRun
  <2> QED
    BY <2>2, <2>3, <2>4 DEF Placed, EntriesAt
<1>2. CASE Clashing(decided, supported) # {}
  <2>1. PICK c \in Clashing(decided, supported) : TRUE
    BY <1>2
  <2> DEFINE e == Synthetic("obligation", c.number, c.place)
  <2>2. e \in Placed(decided, supported, DECISION)
    BY SubstitutesClashing DEF Placed
  <2>3. /\ e.tag = "obligation" /\ e.shape = "runner" /\ e.synthetic
    BY DEF Synthetic
  <2> QED
    BY <2>2, <2>3
<1> QED
  BY <1>1, <1>2

LEMMA CleanIsResolved ==
    ASSUME NEW k \in DOMAIN decision.obligations
    PROVE  k \in Clean <=> IsResolved(decision.obligations[k], "obligation", Supported)
<1> DEFINE c == decision.obligations[k]
<1>1. k \in Clean <=>
        /\ Cardinality(Claimants(c)) = 1
        /\ \A triple \in ToSet(SoleClaim(c)) :
              (triple.shape # "runner" => triple.data) /\ triple.signal \in Supported
  BY DEF Clean, ClaimOf
<1> HIDE DEF c
<1>2. IsResolved(c, "obligation", Supported) <=>
        /\ Cardinality(Claimants(c)) = 1
        /\ \A triple \in ToSet(SoleClaim(c)) :
              (triple.shape # "runner" => triple.data) /\ triple.signal \in Supported
  BY Zenon DEF IsResolved, AllWellFormed, IsAdmissible
<1> QED
  BY <1>1, <1>2 DEF c

\* Two mappers of clean obligations that tie are entries that clash.
LEMMA ClashIsDisplaced ==
    ASSUME IsDecision(decision), Clash
    PROVE  Clashing(decision, Supported) # {}
<1>1. PICK m \in Mappers, n \in Mappers :
        /\ m # n
        /\ ClaimOf(m[1])[m[2]].signal   = ClaimOf(n[1])[n[2]].signal
        /\ ClaimOf(m[1])[m[2]].priority = ClaimOf(n[1])[n[2]].priority
  BY DEF Clash
<1> DEFINE entry(x) == Entry(ClaimOf(x[1])[x[2]], "obligation", x[1], x[2])
<1>2. \A x \in Mappers :
        /\ x = <<x[1], x[2]>>
        /\ entry(x) \in Resolved(decision, Supported)
        /\ entry(x).shape = "mapper"
        /\ entry(x).signal = ClaimOf(x[1])[x[2]].signal
        /\ entry(x).priority = ClaimOf(x[1])[x[2]].priority
        /\ entry(x).number = x[1] /\ entry(x).place = x[2]
        /\ entry(x).signal \in Supported
  <2> TAKE x \in Mappers
  <2>1. PICK k \in Clean : x \in {k} \X DOMAIN ClaimOf(k) /\ ClaimOf(x[1])[x[2]].shape = "mapper"
    BY DEF Mappers
  <2>2. /\ x = <<x[1], x[2]>> /\ x[1] = k /\ x[2] \in DOMAIN ClaimOf(k)
        /\ k \in DOMAIN decision.obligations
    BY <2>1 DEF Clean
  <2>3. entry(x) \in Resolved(decision, Supported)
    BY <2>2, CleanIsResolved, ObligationResolves DEF ClaimOf
  <2>4. ClaimOf(k)[x[2]].signal \in Supported
    BY <2>2 DEF Clean, ToSet
  <2> QED
    BY <2>1, <2>2, <2>3, <2>4 DEF Entry
<1> HIDE DEF entry
<1>3. entry(m) # entry(n) /\ SameRun(entry(m), entry(n)) /\ entry(m).signal = entry(n).signal
  BY <1>1, <1>2 DEF SameRun
<1>4. entry(m) \in Clashing(decision, Supported)
  BY <1>2, <1>3 DEF Clashing, Ties, EntriesAt
<1> QED
  BY <1>4

-----------------------------------------------------------------------------
(* The properties                                                          *)

LEMMA PlanInvariant == PlanSpec => []PlanInv
<1> QED
  BY PlanInvInductive, PTL DEF PlanSpec

\* What the invariant says of a signal that has fired.
LEMMA FiredSignal ==
    ASSUME PlanInv, NEW signal \in DOMAIN results
    PROVE  /\ signal \in Supported
           /\ IsDecision(decision)
           /\ plan = PlanFor(decision, Supported)
           /\ Sorts(plan[signal], Placed(decision, Supported, signal))
           /\ Progress(results[signal], plan[signal], Len(plan[signal]), signal, FALSE)
<1>1. plan # <<>>
  <2>1. DOMAIN <<>> = {}
    OBVIOUS
  <2> QED
    BY <2>1 DEF PlanInv
<1> QED
  BY <1>1, PlannerAssumption, PlanSorts DEF PlanInv

(* A plan schedules entries at supported signals only, and what ran at a   *)
(* signal is part of what the plan schedules there.                        *)
THEOREM PlanTypeCorrect == PlanSpec => []PlanTypeOK
<1>1. PlanInv => PlanTypeOK
  <2> SUFFICES ASSUME PlanInv PROVE PlanTypeOK
    OBVIOUS
  <2>1. ASSUME NEW signal \in DOMAIN results
        PROVE  /\ results[signal].failed \in BOOLEAN
               /\ ToSet(results[signal].ran) \subseteq ToSet(plan[signal])
    <3>1. IsList(plan[signal])
      BY FiredSignal DEF Sorts, IsList
    <3>2. Progress(results[signal], plan[signal], Len(plan[signal]), signal, FALSE)
      BY FiredSignal
    <3> QED
      BY <3>1, <3>2, RanIsPlanned
  <2>2. plan = <<>> \/ DOMAIN plan = Supported
    BY DEF PlanInv, PlanFor
  <2> QED
    BY <2>1, <2>2 DEF PlanTypeOK, PlanInv
<1> QED
  BY <1>1, PlanInvariant, PTL

(* An obligation nobody can discharge, or two mappers whose order is       *)
(* undefined, fail the decision signal, whatever else is in the decision   *)
(* and however the handlers behave (the planner's fail-closed guarantee).  *)
THEOREM PlanFailsClosed == PlanSpec => []FailClosed
<1>1. PlanInv => FailClosed
  <2> SUFFICES ASSUME PlanInv, DECISION \in DOMAIN results,
                      Clean # DOMAIN decision.obligations \/ Clash
               PROVE  DECISION \in Failed
    BY DEF FailClosed
  <2>1. /\ DECISION \in Supported /\ IsDecision(decision)
        /\ plan = PlanFor(decision, Supported)
        /\ Progress(results[DECISION], plan[DECISION], Len(plan[DECISION]), DECISION, FALSE)
    BY FiredSignal
  <2>2. CASE Clean # DOMAIN decision.obligations
    <3>1. PICK k \in DOMAIN decision.obligations : k \notin Clean
      BY <2>2 DEF Clean
    <3>2. ~IsResolved(decision.obligations[k], "obligation", Supported)
      BY <3>1, CleanIsResolved
    <3>3. results[DECISION].failed
      BY <2>1, <3>2, UnresolvedFails
    <3> QED
      BY <3>3 DEF Failed
  <2>3. CASE Clash
    <3>1. Clashing(decision, Supported) # {}
      BY <2>1, <2>3, ClashIsDisplaced
    <3>2. results[DECISION].failed
      BY <2>1, <3>1, UnresolvedFails
    <3> QED
      BY <3>2 DEF Failed
  <2> QED
    BY <2>2, <2>3
<1> QED
  BY <1>1, PlanInvariant, PTL

(* What ran at a signal ran by ascending priority, runners before mappers  *)
(* before consumers, and a value is mapped by obligations only, at most    *)
(* once per priority: the result does not depend on provider order.        *)
THEOREM PlanRunsInOrder == PlanSpec => []RunsInOrder
<1>1. ASSUME PlanInv, NEW signal \in DOMAIN results
      PROVE  /\ LET ran == results[signal].ran
                IN  \A i, j \in DOMAIN ran : i < j =>
                      \/ ran[i].priority < ran[j].priority
                      \/ /\ ran[i].priority = ran[j].priority
                         /\ ShapeOrder[ran[i].shape] <= ShapeOrder[ran[j].shape]
             /\ LET mapped == results[signal].mapped
                IN  \A i, j \in DOMAIN mapped :
                      /\ mapped[i].tag = "obligation"
                      /\ i < j => mapped[i].priority < mapped[j].priority
  <2> DEFINE S      == Placed(decision, Supported, signal)
             ran    == results[signal].ran
             mapped == results[signal].mapped
  <2>1. /\ signal \in Supported /\ IsDecision(decision)
        /\ plan = PlanFor(decision, Supported)
        /\ Sorts(plan[signal], S)
        /\ Progress(results[signal], plan[signal], Len(plan[signal]), signal, FALSE)
    BY <1>1, FiredSignal
  <2>2. \A e \in S : WellKeyed(e)
    BY <2>1, PlacedIsSortable DEF Sortable
  <2>3. \A i \in DOMAIN ran : ran[i] \in S
    BY <2>1 DEF Progress, Sorts, ToSet
  <2>4. \A i \in DOMAIN mapped : mapped[i] \in S /\ mapped[i].shape = "mapper"
    <3> TAKE i \in DOMAIN mapped
    <3>1. mapped[i] \in {e \in ToSet(ran) : e.shape = "mapper"}
      BY <2>1 DEF Progress, ToSet
    <3> QED
      BY <2>3, <3>1 DEF ToSet
  <2>5. \A e \in S : e.shape = "mapper" =>
          /\ e.tag = "obligation"
          /\ e \in EntriesAt(decision, Supported, signal)
          /\ e \notin Clashing(decision, Supported)
    <3> TAKE e \in S
    <3>1. ASSUME e.shape = "mapper" PROVE e \notin Substitutes(decision, Supported)
      BY <3>1 DEF Substitutes, Synthetic
    <3> QED
      BY <2>1, <3>1, ResolvesDecision DEF Placed, EntriesAt
  <2> HIDE DEF S, ran, mapped
  <2>6. ASSUME NEW i \in DOMAIN ran, NEW j \in DOMAIN ran, i < j
        PROVE  \/ ran[i].priority < ran[j].priority
               \/ /\ ran[i].priority = ran[j].priority
                  /\ ShapeOrder[ran[i].shape] <= ShapeOrder[ran[j].shape]
    <3>1. Before(ran[i], ran[j])
      BY <2>1, <2>6 DEF Progress, ran
    <3>2. WellKeyed(ran[i]) /\ WellKeyed(ran[j])
      BY <2>2, <2>3
    <3>3. ShapeOrder[ran[i].shape] \in Int /\ ShapeOrder[ran[j].shape] \in Int
      BY <3>2 DEF WellKeyed, ShapeOrder
    <3> QED
      BY <3>1, <3>2, <3>3, BeforeIsLexical
  <2>7. ASSUME NEW i \in DOMAIN mapped, NEW j \in DOMAIN mapped, i < j
        PROVE  mapped[i].priority < mapped[j].priority
    <3>1. Before(mapped[i], mapped[j])
      BY <2>1, <2>7 DEF Progress, mapped
    <3>2. /\ WellKeyed(mapped[i]) /\ WellKeyed(mapped[j])
          /\ mapped[i].shape = "mapper" /\ mapped[j].shape = "mapper"
      BY <2>2, <2>4
    <3>3. mapped[i] # mapped[j]
      BY <3>1, <3>2, BeforeIsStrict
    <3>4. mapped[i].priority # mapped[j].priority
      <4> SUFFICES ASSUME mapped[i].priority = mapped[j].priority PROVE FALSE
        OBVIOUS
      <4>1. Ties(mapped[i], EntriesAt(decision, Supported, signal))
        BY <2>4, <2>5, <3>2, <3>3 DEF Ties, SameRun
      <4>2. mapped[i] \in Clashing(decision, Supported)
        BY <2>1, <2>4, <2>5, <4>1 DEF Clashing, EntriesAt
      <4> QED
        BY <2>4, <2>5, <4>2
    <3> QED
      BY <3>1, <3>2, <3>4, BeforeIsLexical
  <2> QED
    BY <2>4, <2>5, <2>6, <2>7 DEF ran, mapped
<1>2. PlanInv => RunsInOrder
  BY <1>1 DEF RunsInOrder
<1> QED
  BY <1>2, PlanInvariant, PTL

\* Without a failure every handler of every obligation ran, or is said to need a value
\* that was absent: whatever the providers claim.
LEMMA AllDischarged ==
    ASSUME PlanInv, DOMAIN results = Supported, Failed = {},
           NEW k \in DOMAIN decision.obligations
    PROVE  \E p \in Claimants(decision.obligations[k]) :
             \A place \in DOMAIN decision.obligations[k][p] :
               LET triple == decision.obligations[k][p][place]
               IN  \/ Entry(triple, "obligation", k, place) \in ToSet(results[triple.signal].ran)
                   \/ /\ triple.shape # "runner"
                      /\ triple.data
                      /\ results[triple.signal].absent
<1> DEFINE c == decision.obligations[k]
<1>1. /\ IsDecision(decision) /\ DECISION \in Supported
      /\ plan = PlanFor(decision, Supported)
  BY FiredSignal, PlanExecutionAssumption
<1>2. \A signal \in Supported :
        /\ ~results[signal].failed
        /\ Progress(results[signal], plan[signal], Len(plan[signal]), signal, FALSE)
  BY FiredSignal DEF Failed
<1>3. Clashing(decision, Supported) = {} /\ IsResolved(c, "obligation", Supported)
  BY <1>1, <1>2, UnresolvedFails
<1>4. IsConstraint(c)
  BY <1>1 DEF IsDecision, IsList, ToSet
<1>5. PICK p \in Providers : Claimants(c) = {p} /\ SoleClaim(c) = c[p]
  BY <1>3, <1>4, SoleClaimant DEF IsResolved
<1>6. ASSUME NEW place \in DOMAIN c[p]
      PROVE  LET triple == c[p][place]
             IN  \/ Entry(triple, "obligation", k, place) \in ToSet(results[triple.signal].ran)
                 \/ /\ triple.shape # "runner"
                    /\ triple.data
                    /\ results[triple.signal].absent
  <2> DEFINE triple == c[p][place]
             e      == Entry(triple, "obligation", k, place)
  <2>1. e \in Resolved(decision, Supported)
    BY <1>3, <1>5, ObligationResolves
  <2>2. triple.signal \in Supported /\ (triple.shape = "runner" \/ triple.data)
    BY <1>3, <1>5 DEF IsResolved, AllWellFormed, IsAdmissible, ToSet
  <2>3. e.signal = triple.signal /\ e.tag = "obligation" /\ e.shape = triple.shape
    BY DEF Entry
  <2> HIDE DEF e, triple, c
  <2>4. e \in Placed(decision, Supported, triple.signal)
    BY <1>3, <2>1, <2>3 DEF Placed, EntriesAt
  <2>5. \/ e \in ToSet(results[triple.signal].ran)
        \/ results[triple.signal].absent /\ e.shape # "runner"
    BY <1>1, <1>2, <2>2, <2>3, <2>4, PlacedHasRun
  <2> QED
    BY <2>2, <2>3, <2>5 DEF e, triple
<1> QED
  BY <1>5, <1>6

(* When every signal has fired and none reported a failure, every handler  *)
(* of every obligation ran, except where a mapper dropped the value it was *)
(* to see: nothing an obligation asks for is lost between plan and execute.*)
(* A provider whose claim misstates what a signal carries would escape it, *)
(* since the planner trusts that flag: hence the hypothesis.               *)
THEOREM PlanSkipsNothing ==
    ASSUME HonestClaims
    PROVE  PlanSpec => []NothingSkipped
<1>1. ASSUME PlanInv PROVE NothingSkipped
  <2> SUFFICES ASSUME DOMAIN results = Supported, Failed = {},
                      NEW k \in DOMAIN decision.obligations
               PROVE  \E p \in Claimants(decision.obligations[k]) :
                        \A place \in DOMAIN decision.obligations[k][p] :
                          LET triple == decision.obligations[k][p][place]
                          IN  \/ Entry(triple, "obligation", k, place)
                                   \in ToSet(results[triple.signal].ran)
                              \/ /\ triple.shape # "runner"
                                 /\ triple.signal \in DataCarrying
                                 /\ results[triple.signal].absent
    BY DEF NothingSkipped
  <2>1. PICK p \in Claimants(decision.obligations[k]) :
          \A place \in DOMAIN decision.obligations[k][p] :
            LET triple == decision.obligations[k][p][place]
            IN  \/ Entry(triple, "obligation", k, place) \in ToSet(results[triple.signal].ran)
                \/ triple.shape # "runner" /\ triple.data /\ results[triple.signal].absent
    BY <1>1, AllDischarged
  <2>2. p \in Providers /\ decision \in Decisions
    BY <1>1 DEF Claimants, PlanInv
  <2>3. \A place \in DOMAIN decision.obligations[k][p] :
          LET triple == decision.obligations[k][p][place]
          IN  triple.data => triple.signal \in DataCarrying
    BY <2>2 DEF HonestClaims, ToSet
  <2> QED
    BY <2>1, <2>3
<1> QED
  BY <1>1, PlanInvariant, PTL

\* Leaving out the advice leaves out what resolves from it, and nothing else.
LEMMA WithoutAdvice ==
    ASSUME NEW decided, IsDecision(decided), NEW supported
    PROVE  LET alone == [decided EXCEPT !.advice = <<>>]
           IN  /\ IsDecision(alone)
               /\ Resolved(alone, supported)
                    = {e \in Resolved(decided, supported) : e.tag = "obligation"}
<1> DEFINE alone == [decided EXCEPT !.advice = <<>>]
<1>1. /\ {"obligations", "advice"} \subseteq DOMAIN alone
      /\ alone.obligations = decided.obligations /\ alone.advice = <<>>
  BY DEF IsDecision
<1> HIDE DEF alone
<1>2. Len(<<>>) = 0 /\ DOMAIN <<>> = {}
  OBVIOUS
<1>3. IsDecision(alone)
  <2>1. IsList(<<>>) /\ ToSet(<<>>) = {}
    BY <1>2 DEF IsList, ToSet
  <2>2. IsList(decided.obligations) /\ \A c \in ToSet(decided.obligations) : IsConstraint(c)
    BY DEF IsDecision
  <2> QED
    BY <1>1, <2>1, <2>2 DEF IsDecision
<1> DEFINE O == ResolveAll(decided.obligations, "obligation", supported)
           A == ResolveAll(decided.advice, "advice", supported)
<1>4. Resolved(decided, supported) = O \cup A
  BY DEF Resolved
<1>5. Resolved(alone, supported) = O
  BY <1>1, <1>2 DEF Resolved, ResolveAll
<1>6. (\A e \in O : e.tag = "obligation") /\ (\A e \in A : e.tag = "advice")
  <2>1. OfTag(O, "obligation", supported) /\ OfTag(A, "advice", supported)
    BY ResolvesAll DEF IsDecision, Tags
  <2> QED
    BY <2>1 DEF OfTag
<1> HIDE DEF O, A
<1> QED
  BY <1>3, <1>4, <1>5, <1>6 DEF alone

LEMMA PlacedWithoutAdvice ==
    ASSUME NEW decided, IsDecision(decided), NEW supported, NEW signal
    PROVE  Placed([decided EXCEPT !.advice = <<>>], supported, signal)
             = {e \in Placed(decided, supported, signal) : e.tag = "obligation"}
<1> DEFINE alone == [decided EXCEPT !.advice = <<>>]
<1> HIDE DEF alone
<1>1. /\ IsDecision(alone)
      /\ Resolved(alone, supported)
           = {e \in Resolved(decided, supported) : e.tag = "obligation"}
  BY WithoutAdvice DEF alone
<1>2. \A e \in Resolved(decided, supported) : e.shape = "mapper" => e.tag = "obligation"
  BY ResolvesDecision
<1>3. Clashing(alone, supported) = Clashing(decided, supported)
  BY <1>1, <1>2 DEF Clashing, Ties, SameRun, EntriesAt
<1>4. Substitutes(alone, supported) = Substitutes(decided, supported)
  BY <1>1, <1>3, SubstitutesClashing
<1>5. \A e \in Substitutes(decided, supported) : e.tag = "obligation"
  BY DEF Substitutes, Synthetic
<1>6. EntriesAt(alone, supported, signal)
        = {e \in EntriesAt(decided, supported, signal) : e.tag = "obligation"}
  BY <1>1 DEF EntriesAt
<1> QED
  BY <1>3, <1>4, <1>5, <1>6 DEF Placed, alone

(* Advice is inert: what is scheduled for the obligations of a decision is *)
(* what would be scheduled if it came without advice, so unclaimed or      *)
(* malformed advice never denies and never displaces an obligation.        *)
THEOREM PlanIgnoresAdvice == PlanSpec => []AdviceIsInert
<1>1. ASSUME PlanInv, Planned, NEW signal \in Supported
      PROVE  LET own == PlanFor([decision EXCEPT !.advice = <<>>], Supported)[signal]
                 all == plan[signal]
             IN  /\ ToSet(own) = {e \in ToSet(all) : e.tag = "obligation"}
                 /\ \A i, j \in DOMAIN own, h, k \in DOMAIN all :
                       i < j /\ own[i] = all[h] /\ own[j] = all[k] => h < k
  <2> DEFINE alone == [decision EXCEPT !.advice = <<>>]
             own   == PlanFor(alone, Supported)[signal]
             all   == plan[signal]
  <2>1. IsDecision(decision) /\ plan = PlanFor(decision, Supported)
    BY <1>1, PlannerAssumption DEF PlanInv, Planned
  <2>2. Sorts(all, Placed(decision, Supported, signal))
    BY <2>1, PlanSorts
  <2>3. Sorts(own, {e \in Placed(decision, Supported, signal) : e.tag = "obligation"})
    <3>1. IsDecision(alone)
      BY <2>1, WithoutAdvice
    <3>2. Placed(alone, Supported, signal)
            = {e \in Placed(decision, Supported, signal) : e.tag = "obligation"}
      BY <2>1, PlacedWithoutAdvice
    <3> HIDE DEF alone
    <3> QED
      BY <3>1, <3>2, PlanSorts
  <2> HIDE DEF own, all
  <2>4. ToSet(own) = {e \in ToSet(all) : e.tag = "obligation"}
    BY <2>2, <2>3 DEF Sorts
  <2>5. ASSUME NEW i \in DOMAIN own, NEW j \in DOMAIN own, NEW h \in DOMAIN all,
               NEW k \in DOMAIN all, i < j, own[i] = all[h], own[j] = all[k]
        PROVE  h < k
    <3>1. Before(own[i], own[j])
      BY <2>3, <2>5 DEF Sorts
    <3> QED
      BY <2>2, <2>5, <3>1 DEF Sorts
  <2> QED
    BY <2>4, <2>5 DEF own, all
<1>2. PlanInv => AdviceIsInert
  BY <1>1 DEF AdviceIsInert
<1> QED
  BY <1>2, PlanInvariant, PTL

-----------------------------------------------------------------------------
(* Part 2: OneShot                                                         *)

FrameFields == {"kind", "stage", "token", "decided", "plan", "value", "ran",
                "dropped", "query"}

RunsPre(frame) == frame.kind \in Pre /\ frame.stage = "running"

FrameOK(k) ==
    /\ DOMAIN stack[k] = FrameFields
    /\ stack[k].kind \in Kinds
    /\ stack[k].stage \in Stages
    /\ stack[k].token \in 0..(k - 1)
    /\ k < Depth => stack[k].stage = "running"
    /\ RunsPre(stack[k]) => PlanInForce(stack[k].token, k - 1)

\* The stack is a sequence, of whatever its elements are.
IsStack(s) == \E S : s \in Seq(S)

FramesOK == \A k \in 1..Depth : FrameOK(k)

IInv ==
    /\ IsStack(stack)
    /\ Depth <= MaxDepth
    /\ outcome \in Outcomes
    /\ FramesOK
    /\ ContextIsInnermost
-----------------------------------------------------------------------------
(* Sequences                                                               *)

\* Pushing, replacing and popping the last element of a stack.
LEMMA StackPush ==
    ASSUME NEW s, IsStack(s), NEW e
    PROVE  /\ IsStack(Append(s, e))
           /\ Len(Append(s, e)) = Len(s) + 1
           /\ \A k \in 1..Len(s) : Append(s, e)[k] = s[k]
           /\ Append(s, e)[Len(s) + 1] = e
<1>1. PICK S : s \in Seq(S)
  BY DEF IsStack
<1>2. /\ s \in Seq(S \cup {e})
      /\ e \in S \cup {e}
  BY <1>1
<1>3. Append(s, e) \in Seq(S \cup {e})
  BY <1>2
<1> QED
  BY <1>2, <1>3 DEF IsStack

LEMMA StackReplace ==
    ASSUME NEW s, IsStack(s), Len(s) > 0, NEW e
    PROVE  LET t == [s EXCEPT ![Len(s)] = e]
           IN  /\ IsStack(t)
               /\ Len(t) = Len(s)
               /\ \A k \in 1..(Len(s) - 1) : t[k] = s[k]
               /\ t[Len(s)] = e
<1>1. PICK S : s \in Seq(S)
  BY DEF IsStack
<1>2. s \in Seq(S \cup {e})
  BY <1>1
<1>3. [s EXCEPT ![Len(s)] = e] \in Seq(S \cup {e})
  BY <1>2
<1> QED
  BY <1>2, <1>3 DEF IsStack

LEMMA StackPop ==
    ASSUME NEW s, IsStack(s), Len(s) > 0
    PROVE  /\ IsStack(Front(s))
           /\ Len(Front(s)) = Len(s) - 1
           /\ \A k \in 1..(Len(s) - 1) : Front(s)[k] = s[k]
<1>1. PICK S : s \in Seq(S)
  BY DEF IsStack
<1> DEFINE n == Len(s) - 1
<1>2. n \in Nat /\ \A k \in 1..n : s[k] \in S
  BY <1>1
<1>3. SubSeq(s, 1, n) = [k \in 1..n |-> s[k]]
  BY <1>2, SMT
<1>4. [k \in 1..n |-> s[k]] \in Seq(S)
  BY <1>2
<1>5. Len([k \in 1..n |-> s[k]]) = n
  BY <1>2, <1>4
<1> QED
  BY <1>2, <1>3, <1>4, <1>5 DEF IsStack, Front

LEMMA DepthIsNatural ==
    ASSUME IsStack(stack) PROVE Depth \in Nat
BY DEF IsStack, Depth
-----------------------------------------------------------------------------
(* The plan in force                                                       *)

\* Which plan is in force up to frame k depends on the frames up to k only.
LEMMA SamePlanInForce ==
    ASSUME NEW k \in Nat,
           \A h \in 1..k : /\ stack'[h].kind  = stack[h].kind
                           /\ stack'[h].stage = stack[h].stage,
           NEW c, PlanInForce(c, k)
    PROVE  PlanInForce(c, k)'
BY DEF PlanInForce, Enclosing

\* A frame whose pre-enforced method does not run changes nothing.
LEMMA InForceBelow ==
    ASSUME NEW k \in Nat \ {0}, ~RunsPre(stack[k]), NEW c
    PROVE  PlanInForce(c, k) <=> PlanInForce(c, k - 1)
BY DEF PlanInForce, Enclosing, RunsPre

\* One whose method runs is itself in force.
LEMMA InForceHere ==
    ASSUME NEW k \in Nat \ {0}, RunsPre(stack[k])
    PROVE  PlanInForce(k, k) /\ \A c : PlanInForce(c, k) => c = k
BY DEF PlanInForce, Enclosing, RunsPre
-----------------------------------------------------------------------------
(* Steps                                                                   *)

\* What a step changes below frame n: nothing.
Below(n) == \A k \in 1..n : stack'[k] = stack[k]

\* Frames that stay where they are, under a frame or at the top, stay well-formed.
LEMMA FramesKept ==
    ASSUME NEW n \in Nat, Below(n), n <= Depth, Depth \in Nat, Depth' \in Nat, FramesOK,
           \A k \in 1..n : k < Depth' => stack[k].stage = "running"
    PROVE  \A k \in 1..n : FrameOK(k)'
<1> SUFFICES ASSUME NEW k \in 1..n PROVE FrameOK(k)'
  OBVIOUS
<1>1. FrameOK(k) /\ stack'[k] = stack[k] /\ k \in 1..Depth
  BY DEF FramesOK, Below
<1>2. \A t : PlanInForce(t, k - 1) => PlanInForce(t, k - 1)'
  <2>1. \A h \in 1..(k - 1) : stack'[h].kind = stack[h].kind /\ stack'[h].stage = stack[h].stage
    BY DEF Below
  <2> QED
    BY <2>1, SamePlanInForce
<1> QED
  BY <1>1, <1>2 DEF FrameOK, RunsPre

\* Leaving the innermost call restores what its method's caller was running under.
LEMMA LeavePreserves ==
    ASSUME IInv, Depth > 0, NEW how \in Outcomes, Leave(how), context' = Restored
    PROVE  IInv'
<1>1. PICK n, c : n = Depth - 1 /\ c = context'
  OBVIOUS
<1>2. /\ IsStack(stack')
      /\ Depth' = n
      /\ n \in Nat
      /\ Depth = n + 1
  BY <1>1, StackPop, DepthIsNatural DEF IInv, Leave, Depth
<1>3. Below(n)
  BY <1>1, StackPop DEF IInv, Leave, Depth, Below
<1>4. FrameOK(Depth) /\ FramesOK
  BY <1>2 DEF IInv, FramesOK
<1>5. PlanInForce(c, n)
  <2>1. CASE RunsPre(Top)
    BY <1>1, <1>4, <2>1 DEF FrameOK, Top, RunsPre, Restored
  <2>2. CASE ~RunsPre(Top)
    <3>1. c = context /\ PlanInForce(context, Depth)
      BY <1>1, <2>2 DEF IInv, ContextIsInnermost, Restored, RunsPre
    <3> QED
      BY <1>1, <1>2, <2>2, <3>1, InForceBelow DEF Top
  <2> QED
    BY <2>1, <2>2
<1>6. PlanInForce(c, n)'
  <2>1. \A h \in 1..n : stack'[h].kind = stack[h].kind /\ stack'[h].stage = stack[h].stage
    BY <1>3 DEF Below
  <2> QED
    BY <1>2, <1>5, <2>1, SamePlanInForce
<1>7. \A k \in 1..n : FrameOK(k)'
  <2>1. \A k \in 1..n : stack[k].stage = "running"
    BY <1>2, <1>4 DEF FramesOK, FrameOK
  <2> QED
    BY <1>2, <1>3, <1>4, <2>1, FramesKept
<1>8. ContextIsInnermost'
  BY <1>1, <1>2, <1>6 DEF ContextIsInnermost, PlanInForce, Enclosing
<1> QED
  BY <1>2, <1>7, <1>8, OneShotAssumption DEF IInv, FramesOK, Leave

\* Replacing the innermost frame: its method runs and its plan is in force, or it does
\* not and the context is what it was outside.
LEMMA StayPreserves ==
    ASSUME IInv, Depth > 0, NEW frame, Stay(frame),
           DOMAIN frame = FrameFields,
           frame.kind \in Kinds, frame.stage \in Stages, frame.token \in 0..(Depth - 1),
           NEW n, n = Depth - 1, NEW c, c = context',
           \/ RunsPre(frame) /\ c = Depth /\ PlanInForce(frame.token, n)
           \/ ~RunsPre(frame) /\ PlanInForce(c, n)
    PROVE  IInv'
<1>0. IsStack(stack) /\ stack' = [stack EXCEPT ![Len(stack)] = frame] /\ Len(stack) > 0
  BY DEF IInv, Stay, Depth
<1>1. /\ IsStack(stack')
      /\ Depth' = Depth
      /\ stack'[Depth] = frame
      /\ n \in Nat
      /\ Depth = n + 1
  <2>1. IsStack(stack') /\ Depth' = Depth /\ stack'[Depth] = frame
    BY <1>0, StackReplace DEF Depth
  <2> QED
    BY <1>0, <2>1, DepthIsNatural
<1>2. Below(n)
  BY <1>0, StackReplace DEF Depth, Below
<1>3. \A h \in 1..n : stack'[h].kind = stack[h].kind /\ stack'[h].stage = stack[h].stage
  BY <1>2 DEF Below
<1>4. \A k \in 1..n : FrameOK(k)'
  <2>1. \A k \in 1..n : stack[k].stage = "running"
    BY <1>1 DEF IInv, FramesOK, FrameOK
  <2> QED
    BY <1>1, <1>2, <2>1, FramesKept DEF IInv
<1>5. \A t : PlanInForce(t, n) => PlanInForce(t, n)'
  BY <1>1, <1>3, SamePlanInForce
<1>6. FrameOK(n + 1)'
  BY <1>1, <1>5 DEF FrameOK
<1>7. PlanInForce(c, n + 1)'
  BY <1>1, <1>5 DEF PlanInForce, Enclosing, RunsPre
<1>8. ContextIsInnermost'
  BY <1>1, <1>7 DEF ContextIsInnermost, PlanInForce, Enclosing
<1> QED
  BY <1>1, <1>4, <1>6, <1>8 DEF IInv, FramesOK, Stay

\* A call begins with a frame that runs no pre-enforced method yet.
LEMMA CallPreserves ==
    ASSUME IInv, NEW kind \in Kinds, Call(kind) PROVE IInv'
<1> DEFINE new == Frame(kind, IF kind \in Pre THEN "deciding" ELSE "running")
<1>1. PICK n : n = Depth
  OBVIOUS
<1>2. /\ IsStack(stack')
      /\ Depth' = n + 1
      /\ stack'[n + 1] = new
      /\ Below(n)
      /\ n \in Nat
  BY <1>1, StackPush, DepthIsNatural DEF IInv, Call, Depth, Below
<1>3. /\ DOMAIN new = FrameFields
      /\ new.kind = kind
      /\ new.stage \in Stages
      /\ new.token = 0
      /\ ~RunsPre(new)
  BY DEF Frame, FrameFields, Stages, RunsPre, Kinds, Pre, Post
<1>4. \A k \in 1..n : FrameOK(k)'
  <2>1. \A k \in 1..n : stack[k].stage = "running"
    BY <1>1, <1>2 DEF IInv, FramesOK, FrameOK, Call, Top
  <2> QED
    BY <1>1, <1>2, <2>1, FramesKept DEF IInv
<1>5. FrameOK(n + 1)'
  BY <1>2, <1>3 DEF FrameOK
<1>6. PlanInForce(context, n)
  BY <1>1 DEF IInv, ContextIsInnermost
<1>7. ContextIsInnermost'
  <2>1. \A h \in 1..n : stack'[h].kind = stack[h].kind /\ stack'[h].stage = stack[h].stage
    BY <1>2 DEF Below
  <2>2. PICK c : c = context
    OBVIOUS
  <2>3. PlanInForce(c, n)'
    BY <1>2, <1>6, <2>1, <2>2, SamePlanInForce
  <2>4. context' = c
    BY <2>2 DEF Call
  <2> QED
    BY <1>2, <1>3, <2>3, <2>4 DEF ContextIsInnermost, PlanInForce, Enclosing, RunsPre
<1>8. Depth' <= MaxDepth
  BY <1>1, <1>2, OneShotAssumption DEF Call
<1> QED
  BY <1>2, <1>4, <1>5, <1>7, <1>8 DEF IInv, FramesOK, Call

\* What the invariant says of the innermost frame.
LEMMA TopOK ==
    ASSUME IInv, Depth > 0
    PROVE  /\ DOMAIN Top = FrameFields
           /\ Top.kind \in Kinds
           /\ Top.stage \in Stages
           /\ Top.token \in 0..(Depth - 1)
           /\ RunsPre(Top) => context = Depth /\ PlanInForce(Top.token, Depth - 1)
           /\ ~RunsPre(Top) => PlanInForce(context, Depth - 1)
<1>1. Depth \in Nat \ {0} /\ FrameOK(Depth) /\ PlanInForce(context, Depth)
  BY DepthIsNatural DEF IInv, FramesOK, ContextIsInnermost
<1>2. RunsPre(Top) => context = Depth
  BY <1>1, InForceHere DEF Top
<1>3. ~RunsPre(Top) => PlanInForce(context, Depth - 1)
  BY <1>1, InForceBelow DEF Top
<1> QED
  BY <1>1, <1>2, <1>3 DEF FrameOK, Top

\* Leaving without touching the context, when no pre-enforced method runs.
LEMMA LeaveAsIs ==
    ASSUME IInv, Depth > 0, ~RunsPre(Top), NEW how \in Outcomes, Leave(how),
           UNCHANGED context
    PROVE  IInv'
BY LeavePreserves DEF Restored, RunsPre

\* The output stage ends a call or moves it on to its commit, with the context restored.
LEMMA DischargeOutputPreserves ==
    ASSUME IInv, Depth > 0, context' = Restored, NEW frame,
           DOMAIN frame = FrameFields, frame.kind = Top.kind, frame.token = Top.token,
           DischargeOutput(frame)
    PROVE  IInv'
<1>1. CASE Leave("denied")
  BY <1>1, LeavePreserves DEF Outcomes
<1>2. ASSUME NEW atOutput, Accept(frame, atOutput) PROVE IInv'
  <2> DEFINE new == [frame EXCEPT !.stage = "committing",
                       !.value = IF atOutput.absent THEN <<>> ELSE atOutput.mapped,
                       !.ran = @ \cup ToSet(atOutput.ran),
                       !.dropped = @ \cup Dropped(OUTPUT, atOutput)]
  <2>1. /\ DOMAIN new = FrameFields
        /\ new.kind = Top.kind /\ new.stage = "committing" /\ new.token = Top.token
    BY DEF FrameFields
  <2>2. Stay(new)
    BY <1>2 DEF Accept
  <2>3. PICK n, c : n = Depth - 1 /\ c = context'
    OBVIOUS
  <2>4. PlanInForce(c, n)
    BY <2>3, TopOK DEF Restored, RunsPre
  <2> HIDE DEF new
  <2> QED
    BY <2>1, <2>2, <2>3, <2>4, TopOK, StayPreserves DEF RunsPre, Stages
<1> QED
  BY <1>1, <1>2 DEF DischargeOutput

LEMMA PreDecidesPreserves ==
    ASSUME IInv, NEW decided, PreDecides(decided) PROVE IInv'
<1>1. Depth > 0 /\ ~RunsPre(Top)
  BY DEF PreDecides, At, RunsPre
<1>2. CASE Leave("denied") /\ UNCHANGED context
  BY <1>1, <1>2, LeaveAsIs DEF Outcomes
<1>3. ASSUME NEW pl, NEW ran, NEW dropped,
             Stay([Top EXCEPT !.stage = "running", !.decided = decided, !.plan = pl,
                              !.token = context, !.ran = ran, !.dropped = dropped]),
             context' = Depth
      PROVE  IInv'
  <2> DEFINE new == [Top EXCEPT !.stage = "running", !.decided = decided, !.plan = pl,
                                !.token = context, !.ran = ran, !.dropped = dropped]
  <2>1. /\ DOMAIN new = FrameFields
        /\ new.kind = Top.kind /\ new.stage = "running" /\ new.token = context
    BY <1>1, TopOK DEF FrameFields
  <2>2. PICK n, c : n = Depth - 1 /\ c = context'
    OBVIOUS
  <2>3. PlanInForce(context, n) /\ context \in 0..n
    BY <1>1, <2>2, TopOK, DepthIsNatural DEF IInv, PlanInForce, Enclosing
  <2>4. RunsPre(new)
    BY <2>1 DEF PreDecides, At, RunsPre
  <2>5. Stay(new)
    BY <1>3
  <2> HIDE DEF new
  <2> QED
    BY <1>1, <1>3, <2>1, <2>2, <2>3, <2>4, <2>5, TopOK, StayPreserves DEF Stages
<1> QED
  BY <1>2, <1>3 DEF PreDecides

LEMMA PostDecidesPreserves ==
    ASSUME IInv, NEW decided, PostDecides(decided) PROVE IInv'
<1>1. Depth > 0 /\ ~RunsPre(Top) /\ context' = Restored
  BY DEF PostDecides, At, RunsPre, Restored
<1>2. CASE Leave("denied")
  BY <1>1, <1>2, LeavePreserves DEF Outcomes
<1>3. ASSUME NEW pl, NEW ran,
             DischargeOutput([Top EXCEPT !.decided = decided, !.plan = pl, !.ran = ran])
      PROVE  IInv'
  <2> DEFINE new == [Top EXCEPT !.decided = decided, !.plan = pl, !.ran = ran]
  <2>1. DOMAIN new = FrameFields /\ new.kind = Top.kind /\ new.token = Top.token
    BY <1>1, TopOK DEF FrameFields
  <2> HIDE DEF new
  <2> QED
    BY <1>1, <1>3, <2>1, DischargeOutputPreserves DEF new
<1> QED
  BY <1>2, <1>3 DEF PostDecides

LEMMA MethodQueriesPreserves ==
    ASSUME IInv, MethodQueries PROVE IInv'
<1>1. Depth > 0 /\ UNCHANGED context
  BY DEF MethodQueries, At
<1>2. PICK query : Stay([Top EXCEPT !.query = query])
  BY DEF MethodQueries
<1> DEFINE new == [Top EXCEPT !.query = query]
<1>3. /\ DOMAIN new = FrameFields
      /\ new.kind = Top.kind /\ new.stage = Top.stage /\ new.token = Top.token
  BY <1>1, TopOK DEF FrameFields
<1>4. PICK n, c : n = Depth - 1 /\ c = context'
  OBVIOUS
<1>5. Stay(new)
  BY <1>2
<1>6. RunsPre(new) <=> RunsPre(Top)
  BY <1>3 DEF RunsPre
<1> HIDE DEF new
<1> QED
  BY <1>1, <1>3, <1>4, <1>5, <1>6, TopOK, StayPreserves

LEMMA PostMethodReturnsPreserves ==
    ASSUME IInv, PostMethodReturns PROVE IInv'
<1>1. Depth > 0 /\ ~RunsPre(Top) /\ UNCHANGED context
  BY DEF PostMethodReturns, At, RunsPre, Pre, Post
<1> DEFINE new == [Top EXCEPT !.stage = "authorizing"]
<1>2. /\ DOMAIN new = FrameFields
      /\ new.kind = Top.kind /\ new.stage = "authorizing" /\ new.token = Top.token
  BY <1>1, TopOK DEF FrameFields
<1>3. PICK n, c : n = Depth - 1 /\ c = context'
  OBVIOUS
<1>4. Stay(new)
  BY DEF PostMethodReturns
<1> HIDE DEF new
<1> QED
  BY <1>1, <1>2, <1>3, <1>4, TopOK, StayPreserves DEF RunsPre, Stages

(* Every step of the task keeps the invariant.                             *)
LEMMA IInvIsInductive ==
    ASSUME IInv, [Next]_vars PROVE IInv'
<1>1. CASE UNCHANGED vars
  BY <1>1 DEF vars, IInv, IsStack, FramesOK, FrameOK, RunsPre, ContextIsInnermost,
              PlanInForce, Enclosing, Depth
<1>2. ASSUME NEW kind \in Kinds, Call(kind) PROVE IInv'
  BY <1>2, CallPreserves
<1>3. ASSUME NEW decided \in Decisions, PreDecides(decided) PROVE IInv'
  BY <1>3, PreDecidesPreserves
<1>4. ASSUME NEW decided \in Decisions, PostDecides(decided) PROVE IInv'
  BY <1>4, PostDecidesPreserves
<1>5. CASE DecisionFails
  BY <1>5, LeaveAsIs DEF DecisionFails, At, RunsPre, Outcomes
<1>6. CASE MethodQueries
  BY <1>6, MethodQueriesPreserves
<1>7. CASE PreMethodReturns
  <2>1. Depth > 0
    BY <1>7 DEF PreMethodReturns, At
  <2> QED
    BY <1>7, <2>1, TopOK, DischargeOutputPreserves DEF PreMethodReturns
<1>8. CASE PostMethodReturns
  BY <1>8, PostMethodReturnsPreserves
<1>9. CASE MethodRaises
  <2>1. \E how \in Outcomes : Leave(how)
    BY <1>9 DEF MethodRaises, Outcomes
  <2> QED
    BY <1>9, <2>1, LeavePreserves DEF MethodRaises, At
<1>10. ASSUME NEW how \in {"released", "failed"}, Commits(how) PROVE IInv'
  BY <1>10, LeaveAsIs DEF Commits, At, RunsPre, Outcomes
<1>11. CASE IsCancelled
  BY <1>11, LeavePreserves DEF IsCancelled, Outcomes
<1> QED
  BY <1>1, <1>2, <1>3, <1>4, <1>5, <1>6, <1>7, <1>8, <1>9, <1>10, <1>11 DEF Next

LEMMA InitIInv == ASSUME Init PROVE IInv
<1>1. stack = <<>> /\ Depth = 0 /\ stack \in Seq({})
  BY DEF Init, Depth
<1> QED
  BY <1>1, OneShotAssumption
     DEF Init, IInv, IsStack, FramesOK, ContextIsInnermost, PlanInForce, Enclosing, Outcomes

(* The strengthened invariant holds in every run of nested enforced calls. *)
THEOREM OneShotInvariant == Spec => []IInv
BY InitIInv, IInvIsInductive, PTL DEF Spec

(* Frames and context stay within their ranges, and only the innermost     *)
(* call can be anywhere but inside its method.                             *)
THEOREM OneShotTypeOK == Spec => []TypeOK
<1>1. IInv => TypeOK
  BY DepthIsNatural DEF IInv, FramesOK, FrameOK, TypeOK, ContextIsInnermost, PlanInForce, Enclosing
<1> QED
  BY <1>1, OneShotInvariant, PTL

(* However calls nest, return, are denied, raise or are cancelled, the     *)
(* plan a shim finds in the context is that of the innermost pre-enforced  *)
(* call whose method runs (set_current_plan and reset_current_plan).       *)
THEOREM OneShotContext == Spec => []ContextIsInnermost
<1>1. IInv => ContextIsInnermost
  BY DEF IInv
<1> QED
  BY <1>1, OneShotInvariant, PTL

-----------------------------------------------------------------------------
(* Decisions that were granted                                             *)

\* Every obligation is resolved and no mapper displaced.
Faultless(decided, supported) ==
    /\ \A k \in DOMAIN decided.obligations :
         IsResolved(decided.obligations[k], "obligation", supported)
    /\ Clashing(decided, supported) = {}

\* so is what executing the plan of a decision at a signal made.
Executed(so, decided, supported, signal) ==
    LET list == PlanFor(decided, supported)[signal]
    IN  Progress(so, list, Len(list), signal, FALSE)

LEMMA ResultsAreExecuted ==
    ASSUME NEW decided, IsDecision(decided), NEW supported, NEW signal \in supported,
           NEW priorFailure \in BOOLEAN,
           NEW so \in Results(PlanFor(decided, supported), signal, priorFailure)
    PROVE  /\ Executed(so, decided, supported, signal)
           /\ priorFailure => so.failed
           /\ so.failed \in BOOLEAN /\ so.absent \in BOOLEAN
           /\ \E T : so.ran \in Seq(T)
<1> DEFINE pl   == PlanFor(decided, supported)
           list == pl[signal]
<1>1. PICK handlers : so = Execute(pl, signal, handlers, priorFailure)
  BY DEF Results
<1>2. /\ Sortable(Placed(decided, supported, signal))
      /\ Sorts(list, Placed(decided, supported, signal))
  BY PlanSorts, PlacedIsSortable
<1> HIDE DEF pl
<1>3. Progress(so, list, Len(list), signal, priorFailure)
  BY <1>1, <1>2, ExecuteRunsAll
<1> HIDE DEF list
<1>4. Progress(so, list, Len(list), signal, FALSE)
  BY <1>3 DEF Progress
<1>5. /\ priorFailure => so.failed
      /\ so.failed \in BOOLEAN /\ so.absent \in BOOLEAN
      /\ so.ran \in Seq(ToSet(list))
  BY <1>3 DEF Progress
<1> QED
  BY <1>4, <1>5 DEF Executed, list, pl

\* A decision whose own signal did not fail is faultless.
LEMMA GrantedIsFaultless ==
    ASSUME NEW decided, IsDecision(decided), NEW supported, DECISION \in supported,
           NEW so, Executed(so, decided, supported, DECISION), ~so.failed
    PROVE  Faultless(decided, supported)
BY UnresolvedFails DEF Faultless, Executed

\* The one provider that claims an obligation, and what it makes of it.
LEMMA FaultlessClaim ==
    ASSUME NEW decided, IsDecision(decided), NEW supported, Faultless(decided, supported),
           NEW k \in DOMAIN decided.obligations
    PROVE  \E p \in Providers :
             LET claim == decided.obligations[k][p]
             IN  /\ Claimants(decided.obligations[k]) = {p}
                 /\ SoleClaim(decided.obligations[k]) = claim
                 /\ \A place \in DOMAIN claim :
                      /\ claim[place].signal \in supported
                      /\ claim[place].shape = "runner" \/ claim[place].data
                      /\ Entry(claim[place], "obligation", k, place)
                           \in Placed(decided, supported, claim[place].signal)
<1> DEFINE c == decided.obligations[k]
<1>1. IsResolved(c, "obligation", supported) /\ Clashing(decided, supported) = {}
  BY DEF Faultless
<1>2. IsConstraint(c)
  BY DEF IsDecision, IsList, ToSet
<1>3. PICK p \in Providers : Claimants(c) = {p} /\ SoleClaim(c) = c[p]
  BY <1>1, <1>2, SoleClaimant DEF IsResolved
<1> DEFINE claim == c[p]
<1>4. ASSUME NEW place \in DOMAIN claim
      PROVE  /\ claim[place].signal \in supported
             /\ claim[place].shape = "runner" \/ claim[place].data
             /\ Entry(claim[place], "obligation", k, place)
                  \in Placed(decided, supported, claim[place].signal)
  <2> DEFINE e == Entry(claim[place], "obligation", k, place)
  <2>1. e \in Resolved(decided, supported)
    BY <1>1, <1>3, ObligationResolves
  <2>2. claim[place].signal \in supported /\ (claim[place].shape = "runner" \/ claim[place].data)
    BY <1>1, <1>3 DEF IsResolved, AllWellFormed, IsAdmissible, ToSet
  <2>3. e.signal = claim[place].signal
    BY DEF Entry
  <2> HIDE DEF e, claim, c
  <2> QED
    BY <1>1, <2>1, <2>2, <2>3 DEF Placed, EntriesAt, e
<1> QED
  BY <1>3, <1>4

\* A value that survives its signal went through every mapper there, and no other.
LEMMA MapsAll ==
    ASSUME NEW decided, IsDecision(decided), NEW supported, Faultless(decided, supported),
           NEW signal \in supported, NEW so, Executed(so, decided, supported, signal),
           ~so.failed, ~so.absent
    PROVE  ToSet(so.mapped) = MappersFor(decided, signal)
<1> DEFINE P    == Placed(decided, supported, signal)
           list == PlanFor(decided, supported)[signal]
<1>1. Sorts(list, P) /\ Progress(so, list, Len(list), signal, FALSE)
  BY PlanSorts DEF Executed
<1>2. ToSet(so.mapped) = {e \in ToSet(so.ran) : e.shape = "mapper"}
  BY <1>1 DEF Progress
<1>3. ToSet(so.ran) \subseteq P
  <2> HIDE DEF list, P
  <2>1. IsList(list) /\ ToSet(list) = P
    BY <1>1 DEF Sorts, IsList
  <2>2. ToSet(so.ran) \subseteq ToSet(list)
    BY <1>1, <2>1, RanIsPlanned
  <2> QED
    BY <2>1, <2>2
<1>4. \A e \in P : e.tag = "obligation" => e \in ToSet(so.ran)
  BY PlacedHasRun DEF Executed
<1>5. ASSUME NEW e \in P, e.shape = "mapper"
      PROVE  e.tag = "obligation" /\ e.signal = signal /\ e \in Resolved(decided, supported)
  <2>1. e \notin Substitutes(decided, supported)
    BY <1>5 DEF Substitutes, Synthetic
  <2> QED
    BY <1>5, <2>1, ResolvesDecision DEF Placed, EntriesAt
<1>6. ASSUME NEW e \in Resolved(decided, supported), e.shape = "mapper", e.signal = signal
      PROVE  e \in MappersFor(decided, signal)
  <2>1. e.tag = "obligation"
    BY <1>6, ResolvesDecision
  <2>2. e \in ResolveAll(decided.obligations, "obligation", supported)
    <3>1. OfTag(ResolveAll(decided.advice, "advice", supported), "advice", supported)
      BY ResolvesAll DEF IsDecision, Tags
    <3> QED
      BY <2>1, <3>1 DEF Resolved, OfTag
  <2>3. PICK k \in DOMAIN decided.obligations :
          e \in ResolveConstraint(decided.obligations[k], "obligation", k, supported)
    BY <2>2 DEF ResolveAll
  <2>4. e \in Scheduled(SoleClaim(decided.obligations[k]), "obligation", k)
    BY <2>3 DEF ResolveConstraint, Faultless
  <2> QED
    BY <1>6, <2>4 DEF MappersFor
<1>7. ASSUME NEW e \in MappersFor(decided, signal)
      PROVE  e \in P /\ e.shape = "mapper" /\ e.tag = "obligation"
  <2>1. PICK k \in DOMAIN decided.obligations :
          e \in Scheduled(SoleClaim(decided.obligations[k]), "obligation", k)
          /\ e.signal = signal /\ e.shape = "mapper"
    BY DEF MappersFor
  <2>2. PICK place \in DOMAIN SoleClaim(decided.obligations[k]) :
          e = Entry(SoleClaim(decided.obligations[k])[place], "obligation", k, place)
    BY <2>1 DEF Scheduled
  <2>3. e \in Placed(decided, supported, SoleClaim(decided.obligations[k])[place].signal)
    BY <2>2, FaultlessClaim
  <2>4. e.signal = SoleClaim(decided.obligations[k])[place].signal /\ e.tag = "obligation"
    BY <2>2 DEF Entry
  <2> QED
    BY <2>1, <2>3, <2>4
<1> HIDE DEF P
<1>8. {e \in ToSet(so.ran) : e.shape = "mapper"} = MappersFor(decided, signal)
  BY <1>3, <1>4, <1>5, <1>6, <1>7
<1> QED
  BY <1>2, <1>8

\* What executing a plan at a signal discharges when it does not fail.
LEMMA DischargesSignal ==
    ASSUME NEW frame, frame.decided \in Decisions, NEW supported,
           Faultless(frame.decided, supported), NEW signal \in supported,
           NEW so, Executed(so, frame.decided, supported, signal), ~so.failed,
           ToSet(so.ran) \subseteq frame.ran,
           \/ signal = DECISION /\ DecisionCarriesNothing
           \/ so.absent => signal \in frame.dropped
    PROVE  Discharged(frame, supported, {signal})
<1> DEFINE decided == frame.decided
<1>1. IsDecision(decided)
  BY PlannerAssumption
<1> SUFFICES ASSUME NEW k \in DOMAIN decided.obligations
             PROVE  \E p \in Providers :
                      /\ Claimants(decided.obligations[k]) = {p}
                      /\ \A place \in DOMAIN decided.obligations[k][p] :
                           LET triple == decided.obligations[k][p][place]
                           IN  /\ triple.signal \in supported
                               /\ \/ triple.signal \notin {signal}
                                  \/ Entry(triple, "obligation", k, place) \in frame.ran
                                  \/ triple.signal \in frame.dropped /\ triple.shape # "runner"
  BY DEF Discharged
<1>2. PICK p \in Providers :
        LET claim == decided.obligations[k][p]
        IN  /\ Claimants(decided.obligations[k]) = {p}
            /\ SoleClaim(decided.obligations[k]) = claim
            /\ \A place \in DOMAIN claim :
                 /\ claim[place].signal \in supported
                 /\ claim[place].shape = "runner" \/ claim[place].data
                 /\ Entry(claim[place], "obligation", k, place)
                      \in Placed(decided, supported, claim[place].signal)
  BY <1>1, FaultlessClaim
<1>3. ASSUME NEW place \in DOMAIN decided.obligations[k][p],
             NEW triple, triple = decided.obligations[k][p][place], triple.signal = signal
      PROVE  \/ Entry(triple, "obligation", k, place) \in frame.ran
             \/ signal \in frame.dropped /\ triple.shape # "runner"
  <2> DEFINE e == Entry(triple, "obligation", k, place)
  <2>1. e.tag = "obligation" /\ e.shape = triple.shape
    BY DEF Entry
  <2>2. e \in Placed(decided, supported, signal)
    BY <1>2, <1>3
  <2>3. triple.shape = "runner" \/ triple.data
    BY <1>2, <1>3
  <2>4. DecisionCarriesNothing => (triple.data => triple.signal # DECISION)
    BY <1>3 DEF DecisionCarriesNothing, ToSet
  <2> HIDE DEF e, decided
  <2>5. e \in ToSet(so.ran) \/ (so.absent /\ e.shape # "runner")
    BY <1>1, <2>1, <2>2, PlacedHasRun DEF Executed, decided
  <2> QED
    BY <1>3, <2>1, <2>3, <2>4, <2>5 DEF e
<1> QED
  BY <1>2, <1>3

\* What is discharged stays so when more has run for the call.
LEMMA DischargedGrows ==
    ASSUME NEW f, NEW g, g.decided = f.decided, f.ran \subseteq g.ran,
           f.dropped \subseteq g.dropped, NEW supported, NEW signals,
           Discharged(f, supported, signals)
    PROVE  Discharged(g, supported, signals)
<1> SUFFICES ASSUME NEW k \in DOMAIN g.decided.obligations
             PROVE  \E p \in Providers :
                      /\ Claimants(g.decided.obligations[k]) = {p}
                      /\ \A place \in DOMAIN g.decided.obligations[k][p] :
                           LET triple == g.decided.obligations[k][p][place]
                           IN  /\ triple.signal \in supported
                               /\ \/ triple.signal \notin signals
                                  \/ Entry(triple, "obligation", k, place) \in g.ran
                                  \/ triple.signal \in g.dropped /\ triple.shape # "runner"
  BY DEF Discharged
<1> DEFINE c == g.decided.obligations[k]
<1>1. PICK p \in Providers :
        /\ Claimants(c) = {p}
        /\ \A place \in DOMAIN c[p] :
             LET triple == c[p][place]
             IN  /\ triple.signal \in supported
                 /\ \/ triple.signal \notin signals
                    \/ Entry(triple, "obligation", k, place) \in f.ran
                    \/ triple.signal \in f.dropped /\ triple.shape # "runner"
  BY DEF Discharged
<1> HIDE DEF c
<1>2. \A place \in DOMAIN c[p] :
        LET triple == c[p][place]
        IN  /\ triple.signal \in supported
            /\ \/ triple.signal \notin signals
               \/ Entry(triple, "obligation", k, place) \in g.ran
               \/ triple.signal \in g.dropped /\ triple.shape # "runner"
  BY <1>1
<1> QED
  BY <1>1, <1>2 DEF c

LEMMA DischargedTogether ==
    ASSUME NEW frame, NEW supported, NEW signals, NEW others,
           Discharged(frame, supported, signals), Discharged(frame, supported, others),
           NEW both, both \subseteq signals \cup others
    PROVE  Discharged(frame, supported, both)
<1> SUFFICES ASSUME NEW k \in DOMAIN frame.decided.obligations
             PROVE  \E p \in Providers :
                      /\ Claimants(frame.decided.obligations[k]) = {p}
                      /\ \A place \in DOMAIN frame.decided.obligations[k][p] :
                           LET triple == frame.decided.obligations[k][p][place]
                           IN  /\ triple.signal \in supported
                               /\ \/ triple.signal \notin both
                                  \/ Entry(triple, "obligation", k, place) \in frame.ran
                                  \/ triple.signal \in frame.dropped /\ triple.shape # "runner"
  BY DEF Discharged
<1>1. PICK p \in Providers, q \in Providers :
        /\ Claimants(frame.decided.obligations[k]) = {p}
        /\ Claimants(frame.decided.obligations[k]) = {q}
        /\ \A place \in DOMAIN frame.decided.obligations[k][p] :
             LET triple == frame.decided.obligations[k][p][place]
             IN  /\ triple.signal \in supported
                 /\ \/ triple.signal \notin signals
                    \/ Entry(triple, "obligation", k, place) \in frame.ran
                    \/ triple.signal \in frame.dropped /\ triple.shape # "runner"
        /\ \A place \in DOMAIN frame.decided.obligations[k][q] :
             LET triple == frame.decided.obligations[k][q][place]
             IN  /\ triple.signal \in supported
                 /\ \/ triple.signal \notin others
                    \/ Entry(triple, "obligation", k, place) \in frame.ran
                    \/ triple.signal \in frame.dropped /\ triple.shape # "runner"
  BY DEF Discharged
<1>2. p = q
  BY <1>1
<1> QED
  BY <1>1, <1>2
-----------------------------------------------------------------------------
(* What a granted call knows                                               *)

Supports(kind) == IF kind \in Pre THEN PRE_ENFORCE_SUPPORTED ELSE POST_ENFORCE_SUPPORTED

\* The decision of a call was a PERMIT without fault, and its own signal is discharged.
Granted(frame) ==
    /\ frame.decided \in Decisions
    /\ frame.decided.verb = "PERMIT"
    /\ frame.plan = PlanFor(frame.decided, Supports(frame.kind))
    /\ Faultless(frame.decided, Supports(frame.kind))
    /\ DecisionCarriesNothing => Discharged(frame, Supports(frame.kind), {DECISION})
    /\ frame.kind \in Pre => Discharged(frame, Supports(frame.kind), {INPUT})

FrameGranted(frame) ==
    /\ RunsPre(frame) \/ frame.stage = "committing" => Granted(frame)
    /\ frame.stage = "committing" =>
         /\ Discharged(frame, Supports(frame.kind), {OUTPUT})
         /\ OUTPUT \notin frame.dropped =>
              ToSet(frame.value) = MappersFor(frame.decided, OUTPUT)

\* The last query of frame k went through the mappers of the plan in force there.
QueryOK(k) ==
    /\ stack[k].stage = "deciding" => ~stack[k].query.ran
    /\ stack[k].stage = "running" /\ stack[k].query.ran =>
         \A c : PlanInForce(c, k) =>
           ToSet(stack[k].query.mapped) =
             IF c = 0 THEN {} ELSE MappersFor(stack[c].decided, QUERY)

JInv ==
    /\ IInv
    /\ \A k \in 1..Depth : FrameGranted(stack[k]) /\ QueryOK(k)

\* Frames that stay where they are keep what they know; a step adds at most one frame
\* on top of them.
LEMMA StepKeeps ==
    ASSUME JInv, IInv', NEW n \in Nat, n <= Depth, Below(n), Depth' \in {n, n + 1},
           Depth' = n + 1 => FrameGranted(stack'[n + 1]) /\ QueryOK(n + 1)'
    PROVE  JInv'
<1>1. Depth \in Nat
  BY DepthIsNatural DEF JInv, IInv
<1>2. ASSUME NEW k \in 1..n PROVE FrameGranted(stack'[k]) /\ QueryOK(k)'
  <2>1. FrameGranted(stack[k]) /\ QueryOK(k)
    BY <1>1 DEF JInv
  <2>2. \A h \in 1..k : stack'[h] = stack[h]
    BY DEF Below
  <2>3. \A c : PlanInForce(c, k)' => PlanInForce(c, k) /\ c \in 0..k
    BY <2>2 DEF PlanInForce, Enclosing
  <2>4. QueryOK(k)'
    <3> SUFFICES ASSUME stack'[k].stage = "running" /\ stack'[k].query.ran,
                        NEW c, PlanInForce(c, k)'
                 PROVE  ToSet(stack'[k].query.mapped) =
                          IF c = 0 THEN {} ELSE MappersFor(stack'[c].decided, QUERY)
      BY <2>1, <2>2 DEF QueryOK
    <3>1. ToSet(stack[k].query.mapped) =
            IF c = 0 THEN {} ELSE MappersFor(stack[c].decided, QUERY)
      BY <2>1, <2>2, <2>3 DEF QueryOK
    <3>2. c = 0 \/ stack'[c] = stack[c]
      BY <2>2, <2>3
    <3> QED
      BY <2>2, <3>1, <3>2
  <2> QED
    BY <2>1, <2>2, <2>4
<1>3. \A k \in 1..Depth' : k \in 1..n \/ (k = n + 1 /\ Depth' = n + 1)
  OBVIOUS
<1>4. ASSUME NEW k \in 1..Depth' PROVE FrameGranted(stack'[k]) /\ QueryOK(k)'
  BY <1>2, <1>3, <1>4
<1> QED
  BY <1>4 DEF JInv, FrameGranted, RunsPre, Granted

LEMMA LeaveKeeps ==
    ASSUME JInv, IInv', Depth > 0, NEW how, Leave(how)
    PROVE  JInv'
<1>1. IsStack(stack) /\ Depth \in Nat
  BY DepthIsNatural DEF JInv, IInv
<1>2. PICK n \in Nat : n = Depth - 1
  BY <1>1
<1>3. Depth' = n /\ Below(n)
  BY <1>1, <1>2, StackPop DEF Leave, Depth, Below
<1> QED
  BY <1>1, <1>2, <1>3, StepKeeps

\* A replaced innermost frame has to know what its stage says, and about its query.
LEMMA StayKeeps ==
    ASSUME JInv, IInv', Depth > 0, NEW frame, Stay(frame), FrameGranted(frame),
           NEW n, n = Depth,
           \/ frame.stage \notin {"deciding", "running"}
           \/ ~frame.query.ran
           \/ QueryOK(n)'
    PROVE  JInv'
<1>1. IsStack(stack) /\ Depth \in Nat
  BY DepthIsNatural DEF JInv, IInv
<1>2. PICK m \in Nat : m = Depth - 1
  BY <1>1
<1>3. /\ Depth' = m + 1 /\ Below(m) /\ stack'[m + 1] = frame
      /\ n = m + 1
  BY <1>1, <1>2, StackReplace DEF Stay, Depth, Below
<1>4. QueryOK(m + 1)'
  BY <1>3 DEF QueryOK
<1> QED
  BY <1>1, <1>2, <1>3, <1>4, StepKeeps

LEMMA SupportsSignals ==
    ASSUME NEW kind
    PROVE  /\ DECISION \in Supports(kind) /\ OUTPUT \in Supports(kind)
           /\ kind \in Pre => INPUT \in Supports(kind) /\ QUERY \in Supports(kind)
BY DEF Supports, PRE_ENFORCE_SUPPORTED, POST_ENFORCE_SUPPORTED

\* Two frames of one call and one decision, the second with more that ran.
LEMMA GrantedGrows ==
    ASSUME NEW f, Granted(f), NEW g, g.kind = f.kind, g.decided = f.decided, g.plan = f.plan,
           f.ran \subseteq g.ran, f.dropped \subseteq g.dropped
    PROVE  Granted(g)
<1>1. \A signals : Discharged(f, Supports(f.kind), signals)
                     => Discharged(g, Supports(g.kind), signals)
  BY DischargedGrows
<1> QED
  BY <1>1 DEF Granted

\* A granted call whose output signal does not fail may commit.
LEMMA AcceptGrants ==
    ASSUME NEW frame, DOMAIN frame = FrameFields, Granted(frame),
           NEW atOutput \in Results(frame.plan, OUTPUT, FALSE), ~atOutput.failed,
           NEW new,
           new = [frame EXCEPT !.stage = "committing",
                               !.value = IF atOutput.absent THEN <<>> ELSE atOutput.mapped,
                               !.ran = @ \cup ToSet(atOutput.ran),
                               !.dropped = @ \cup Dropped(OUTPUT, atOutput)]
    PROVE  FrameGranted(new) /\ new.stage = "committing"
<1> DEFINE supported == Supports(frame.kind)
<1>1. /\ new.stage = "committing" /\ new.kind = frame.kind
      /\ new.decided = frame.decided /\ new.plan = frame.plan
      /\ new.value = IF atOutput.absent THEN <<>> ELSE atOutput.mapped
      /\ new.ran = frame.ran \cup ToSet(atOutput.ran)
      /\ new.dropped = frame.dropped \cup Dropped(OUTPUT, atOutput)
  BY DEF FrameFields
<1>2. Granted(new)
  BY <1>1, GrantedGrows
<1>3. /\ new.decided \in Decisions /\ IsDecision(new.decided)
      /\ Faultless(new.decided, supported)
      /\ OUTPUT \in supported
  BY <1>1, PlannerAssumption, SupportsSignals DEF Granted
<1>4. Executed(atOutput, new.decided, supported, OUTPUT) /\ atOutput.absent \in BOOLEAN
  BY <1>1, <1>3, ResultsAreExecuted DEF Granted
<1>5. atOutput.absent => OUTPUT \in new.dropped
  BY <1>1 DEF Dropped
<1>6. Discharged(new, supported, {OUTPUT})
  BY <1>1, <1>3, <1>4, <1>5, DischargesSignal
<1>7. OUTPUT \notin new.dropped => ToSet(new.value) = MappersFor(new.decided, OUTPUT)
  BY <1>1, <1>3, <1>4, <1>5, MapsAll
<1> QED
  BY <1>1, <1>2, <1>6, <1>7 DEF FrameGranted

LEMMA DischargeOutputKeeps ==
    ASSUME JInv, IInv', Depth > 0, NEW frame, DOMAIN frame = FrameFields, Granted(frame),
           DischargeOutput(frame)
    PROVE  JInv'
<1>1. PICK atOutput \in Results(frame.plan, OUTPUT, FALSE) :
        IF atOutput.failed THEN Leave("denied") ELSE Accept(frame, atOutput)
  BY DEF DischargeOutput
<1>2. CASE atOutput.failed
  BY <1>1, <1>2, LeaveKeeps
<1>3. CASE ~atOutput.failed
  <2>1. PICK new :
          new = [frame EXCEPT !.stage = "committing",
                              !.value = IF atOutput.absent THEN <<>> ELSE atOutput.mapped,
                              !.ran = @ \cup ToSet(atOutput.ran),
                              !.dropped = @ \cup Dropped(OUTPUT, atOutput)]
    OBVIOUS
  <2>2. Stay(new)
    BY <1>1, <1>3, <2>1 DEF Accept
  <2>3. FrameGranted(new) /\ new.stage = "committing"
    BY <1>3, <2>1, AcceptGrants
  <2>4. PICK n : n = Depth
    OBVIOUS
  <2> QED
    BY <2>2, <2>3, <2>4, StayKeeps
<1> QED
  BY <1>2, <1>3

\* What ran at two signals, one after the other.
LEMMA RanAtBoth ==
    ASSUME NEW s, NEW t, \E T : s \in Seq(T), \E T : t \in Seq(T)
    PROVE  ToSet(s \o t) = ToSet(s) \cup ToSet(t)
<1>1. PICK S : s \in Seq(S)
  OBVIOUS
<1>2. PICK T : t \in Seq(T)
  OBVIOUS
<1>3. s \in Seq(S \cup T) /\ t \in Seq(S \cup T)
  BY <1>1, <1>2
<1>4. /\ Len(s) \in Nat /\ Len(t) \in Nat
      /\ DOMAIN s = 1..Len(s) /\ DOMAIN t = 1..Len(t)
      /\ DOMAIN (s \o t) = 1..(Len(s) + Len(t))
      /\ \A i \in 1..(Len(s) + Len(t)) :
           (s \o t)[i] = IF i <= Len(s) THEN s[i] ELSE t[i - Len(s)]
  BY <1>3
<1>5. ASSUME NEW j \in 1..Len(t) PROVE t[j] \in ToSet(s \o t)
  <2>1. (s \o t)[Len(s) + j] = t[j] /\ Len(s) + j \in 1..(Len(s) + Len(t))
    BY <1>4
  <2> QED
    BY <1>4, <2>1 DEF ToSet
<1>6. ASSUME NEW i \in 1..Len(s) PROVE s[i] \in ToSet(s \o t)
  BY <1>4 DEF ToSet
<1>7. ASSUME NEW i \in DOMAIN (s \o t) PROVE (s \o t)[i] \in ToSet(s) \cup ToSet(t)
  BY <1>4 DEF ToSet
<1> QED
  BY <1>4, <1>5, <1>6, <1>7 DEF ToSet

LEMMA PreDecidesKeeps ==
    ASSUME JInv, IInv', NEW decided \in Decisions, PreDecides(decided)
    PROVE  JInv'
<1> DEFINE pl == PlanFor(decided, PRE_ENFORCE_SUPPORTED)
<1>1. Depth > 0 /\ Top.kind \in Pre /\ Top.stage = "deciding"
  BY DEF PreDecides, At
<1>2. PICK atDecision \in Results(pl, DECISION, FALSE) :
        \E atInput \in Results(pl, INPUT, atDecision.failed) :
          IF decided.verb # "PERMIT" \/ atInput.failed
          THEN Leave("denied")
          ELSE Stay([Top EXCEPT !.stage = "running", !.decided = decided,
                                !.plan = pl, !.token = context,
                                !.ran = ToSet(atDecision.ran \o atInput.ran),
                                !.dropped = Dropped(INPUT, atInput)])
  BY DEF PreDecides
<1>3. PICK atInput \in Results(pl, INPUT, atDecision.failed) :
        IF decided.verb # "PERMIT" \/ atInput.failed
        THEN Leave("denied")
        ELSE Stay([Top EXCEPT !.stage = "running", !.decided = decided,
                              !.plan = pl, !.token = context,
                              !.ran = ToSet(atDecision.ran \o atInput.ran),
                              !.dropped = Dropped(INPUT, atInput)])
  BY <1>2
<1> HIDE DEF pl
<1>4. CASE decided.verb # "PERMIT" \/ atInput.failed
  BY <1>1, <1>3, <1>4, LeaveKeeps
<1>5. CASE decided.verb = "PERMIT" /\ ~atInput.failed
  <2>1. PICK new :
          new = [Top EXCEPT !.stage = "running", !.decided = decided,
                            !.plan = pl, !.token = context,
                            !.ran = ToSet(atDecision.ran \o atInput.ran),
                            !.dropped = Dropped(INPUT, atInput)]
    OBVIOUS
  <2>2. DOMAIN Top = FrameFields
    BY <1>1, TopOK DEF JInv
  <2>3. /\ new.stage = "running" /\ new.kind = Top.kind
        /\ new.decided = decided /\ new.plan = pl /\ new.query = Top.query
        /\ new.ran = ToSet(atDecision.ran \o atInput.ran)
        /\ new.dropped = Dropped(INPUT, atInput)
    BY <2>1, <2>2 DEF FrameFields
  <2>4. /\ IsDecision(decided)
        /\ Supports(new.kind) = PRE_ENFORCE_SUPPORTED
        /\ DECISION \in PRE_ENFORCE_SUPPORTED /\ INPUT \in PRE_ENFORCE_SUPPORTED
    BY <1>1, <2>3, PlannerAssumption DEF Supports, PRE_ENFORCE_SUPPORTED
  <2>5. /\ Executed(atDecision, decided, PRE_ENFORCE_SUPPORTED, DECISION)
        /\ atDecision.failed \in BOOLEAN
        /\ \E T : atDecision.ran \in Seq(T)
    BY <2>4, ResultsAreExecuted DEF pl
  <2>6. /\ Executed(atInput, decided, PRE_ENFORCE_SUPPORTED, INPUT)
        /\ atDecision.failed => atInput.failed
        /\ atInput.absent \in BOOLEAN
        /\ \E T : atInput.ran \in Seq(T)
    BY <2>4, <2>5, ResultsAreExecuted DEF pl
  <2>7. Faultless(decided, PRE_ENFORCE_SUPPORTED) /\ ~atDecision.failed
    BY <1>5, <2>4, <2>5, <2>6, GrantedIsFaultless
  <2>8. new.ran = ToSet(atDecision.ran) \cup ToSet(atInput.ran)
    BY <2>3, <2>5, <2>6, RanAtBoth
  <2>9. DecisionCarriesNothing => Discharged(new, PRE_ENFORCE_SUPPORTED, {DECISION})
    BY <2>3, <2>4, <2>5, <2>7, <2>8, DischargesSignal
  <2>10. Discharged(new, PRE_ENFORCE_SUPPORTED, {INPUT})
    <3>1. atInput.absent => INPUT \in new.dropped
      BY <2>3 DEF Dropped
    <3> QED
      BY <1>5, <2>3, <2>4, <2>6, <2>7, <2>8, <3>1, DischargesSignal
  <2>11. FrameGranted(new)
    BY <1>5, <2>3, <2>4, <2>7, <2>9, <2>10 DEF FrameGranted, Granted, pl
  <2>12. ~new.query.ran
    <3>1. Depth \in 1..Depth
      BY <1>1, DepthIsNatural DEF JInv, IInv
    <3> QED
      BY <1>1, <2>3, <3>1 DEF JInv, QueryOK, Top
  <2>13. Stay(new)
    BY <1>3, <1>5, <2>1
  <2>14. PICK n : n = Depth
    OBVIOUS
  <2> QED
    BY <1>1, <2>11, <2>12, <2>13, <2>14, StayKeeps
<1> QED
  BY <1>4, <1>5

LEMMA PostDecidesKeeps ==
    ASSUME JInv, IInv', NEW decided \in Decisions, PostDecides(decided)
    PROVE  JInv'
<1> DEFINE pl == PlanFor(decided, POST_ENFORCE_SUPPORTED)
<1>1. Depth > 0 /\ Top.kind \in Post
  BY DEF PostDecides, At
<1>2. PICK atDecision \in Results(pl, DECISION, FALSE) :
        IF decided.verb # "PERMIT" \/ atDecision.failed
        THEN Leave("denied")
        ELSE DischargeOutput([Top EXCEPT !.decided = decided, !.plan = pl,
                                         !.ran = ToSet(atDecision.ran)])
  BY DEF PostDecides
<1> HIDE DEF pl
<1>3. CASE decided.verb # "PERMIT" \/ atDecision.failed
  BY <1>1, <1>2, <1>3, LeaveKeeps
<1>4. CASE decided.verb = "PERMIT" /\ ~atDecision.failed
  <2>1. PICK new : new = [Top EXCEPT !.decided = decided, !.plan = pl,
                                     !.ran = ToSet(atDecision.ran)]
    OBVIOUS
  <2>2. DOMAIN Top = FrameFields
    BY <1>1, TopOK DEF JInv
  <2>3. /\ DOMAIN new = FrameFields
        /\ new.kind = Top.kind /\ new.decided = decided /\ new.plan = pl
        /\ new.ran = ToSet(atDecision.ran)
    BY <2>1, <2>2 DEF FrameFields
  <2>4. /\ IsDecision(decided)
        /\ new.kind \notin Pre
        /\ Supports(new.kind) = POST_ENFORCE_SUPPORTED
        /\ DECISION \in POST_ENFORCE_SUPPORTED
    BY <1>1, <2>3, PlannerAssumption DEF Supports, POST_ENFORCE_SUPPORTED, Pre, Post
  <2>5. Executed(atDecision, decided, POST_ENFORCE_SUPPORTED, DECISION)
    BY <2>4, ResultsAreExecuted DEF pl
  <2>6. Faultless(decided, POST_ENFORCE_SUPPORTED)
    BY <1>4, <2>4, <2>5, GrantedIsFaultless
  <2>7. DecisionCarriesNothing => Discharged(new, POST_ENFORCE_SUPPORTED, {DECISION})
    BY <1>4, <2>3, <2>4, <2>5, <2>6, DischargesSignal
  <2>8. Granted(new)
    BY <1>4, <2>3, <2>4, <2>6, <2>7 DEF Granted, pl
  <2>9. DischargeOutput(new)
    BY <1>2, <1>4, <2>1
  <2> QED
    BY <1>1, <2>3, <2>8, <2>9, DischargeOutputKeeps
<1> QED
  BY <1>3, <1>4

\* A query that runs went through the mappers of the plan in the context.
LEMMA MethodQueriesKeeps ==
    ASSUME JInv, IInv', MethodQueries
    PROVE  JInv'
<1>1. /\ Depth > 0 /\ Top.stage = "running" /\ context' = context
      /\ IsStack(stack) /\ Depth \in Nat \ {0}
  BY DepthIsNatural DEF MethodQueries, At, JInv, IInv
<1>2. PICK result \in IF context = 0 THEN {Outset(QUERY, FALSE)}
                      ELSE Results(stack[context].plan, QUERY, FALSE) :
        Stay([Top EXCEPT !.query =
                IF result.failed \/ result.absent THEN [ran |-> FALSE, mapped |-> <<>>]
                ELSE [ran |-> TRUE, mapped |-> result.mapped]])
  BY DEF MethodQueries
<1>3. PICK query : query = IF result.failed \/ result.absent
                           THEN [ran |-> FALSE, mapped |-> <<>>]
                           ELSE [ran |-> TRUE, mapped |-> result.mapped]
  OBVIOUS
<1>4. PICK new : new = [Top EXCEPT !.query = query]
  OBVIOUS
<1>5. Stay(new)
  BY <1>2, <1>3, <1>4
<1>6. DOMAIN Top = FrameFields
  BY <1>1, TopOK DEF JInv
<1>7. /\ new.stage = "running" /\ new.kind = Top.kind /\ new.query = query
      /\ new.decided = Top.decided /\ new.plan = Top.plan
      /\ new.ran = Top.ran /\ new.dropped = Top.dropped /\ new.value = Top.value
  BY <1>1, <1>4, <1>6 DEF FrameFields
<1>8. FrameGranted(new)
  <2>1. FrameGranted(Top)
    BY <1>1 DEF JInv, Top
  <2> QED
    BY <1>1, <1>7, <2>1, GrantedGrows DEF FrameGranted, RunsPre
<1>9. PICK m \in Nat : m = Depth - 1
  BY <1>1
<1>10. /\ Depth' = m + 1 /\ stack'[m + 1] = new /\ \A h \in 1..m : stack'[h] = stack[h]
  BY <1>1, <1>5, <1>9, StackReplace DEF Stay, Depth
<1>11. query.ran => ToSet(query.mapped) =
         IF context = 0 THEN {} ELSE MappersFor(stack[context].decided, QUERY)
  <2>1. CASE context = 0
    <3>1. ToSet(result.mapped) = {}
      BY <1>2, <2>1 DEF Outset, ToSet
    <3> QED
      BY <1>3, <2>1, <3>1
  <2>2. CASE context # 0
    <3>1. context \in 1..Depth /\ RunsPre(stack[context])
      BY <1>1, <2>2 DEF JInv, IInv, ContextIsInnermost, PlanInForce, Enclosing, RunsPre
    <3>2. PICK frame : frame = stack[context]
      OBVIOUS
    <3>3. Granted(frame) /\ RunsPre(frame)
      BY <3>1, <3>2 DEF JInv, FrameGranted
    <3>4. /\ IsDecision(frame.decided)
          /\ QUERY \in Supports(frame.kind)
          /\ Faultless(frame.decided, Supports(frame.kind))
          /\ frame.plan = PlanFor(frame.decided, Supports(frame.kind))
      BY <3>3, PlannerAssumption, SupportsSignals DEF Granted, RunsPre
    <3>5. Executed(result, frame.decided, Supports(frame.kind), QUERY)
      BY <1>2, <2>2, <3>2, <3>4, ResultsAreExecuted
    <3>6. ~result.failed /\ ~result.absent =>
            ToSet(result.mapped) = MappersFor(frame.decided, QUERY)
      BY <3>4, <3>5, MapsAll
    <3> QED
      BY <1>3, <2>2, <3>2, <3>6
  <2> QED
    BY <2>1, <2>2
<1>12. ASSUME NEW c, PlanInForce(c, m + 1)' PROVE c = context
  <2>1. \A h \in 1..(m + 1) : stack'[h].kind = stack[h].kind /\ stack'[h].stage = stack[h].stage
    BY <1>1, <1>7, <1>9, <1>10 DEF Top
  <2>2. PlanInForce(c, m + 1) /\ PlanInForce(context, m + 1)
    <3>1. PlanInForce(c, m + 1)
      BY <1>9, <1>12, <2>1 DEF PlanInForce, Enclosing
    <3>2. PlanInForce(context, m + 1)
      BY <1>1, <1>9 DEF JInv, IInv, ContextIsInnermost
    <3> QED
      BY <3>1, <3>2
  <2> QED
    BY <2>2 DEF PlanInForce, Enclosing
<1>13. QueryOK(m + 1)'
  <2>1. context # 0 => stack'[context].decided = stack[context].decided
    <3>1. context \in 0..(m + 1)
      BY <1>1, <1>9 DEF JInv, IInv, ContextIsInnermost, PlanInForce, Enclosing
    <3> QED
      BY <1>1, <1>7, <1>9, <1>10, <3>1 DEF Top
  <2> QED
    BY <1>7, <1>10, <1>11, <1>12, <2>1 DEF QueryOK
<1> QED
  BY <1>1, <1>5, <1>8, <1>9, <1>13, StayKeeps

LEMMA CallKeeps ==
    ASSUME JInv, IInv', NEW kind \in Kinds, Call(kind)
    PROVE  JInv'
<1> DEFINE new == Frame(kind, IF kind \in Pre THEN "deciding" ELSE "running")
<1>1. PICK n \in Nat : n = Depth
  BY DepthIsNatural DEF JInv, IInv
<1>2. /\ Depth' = n + 1 /\ stack'[n + 1] = new /\ Below(n)
  BY <1>1, StackPush DEF JInv, IInv, Call, Depth, Below
<1>3. /\ ~RunsPre(new) /\ new.stage # "committing" /\ ~new.query.ran
  BY DEF Frame, RunsPre, Pre
<1> HIDE DEF new
<1>4. FrameGranted(new) /\ QueryOK(n + 1)'
  BY <1>2, <1>3 DEF FrameGranted, QueryOK
<1> QED
  BY <1>1, <1>2, <1>4, StepKeeps

LEMMA PostMethodReturnsKeeps ==
    ASSUME JInv, IInv', PostMethodReturns
    PROVE  JInv'
<1>1. Depth > 0 /\ Stay([Top EXCEPT !.stage = "authorizing"])
  BY DEF PostMethodReturns, At
<1>2. PICK new, n : new = [Top EXCEPT !.stage = "authorizing"] /\ n = Depth
  OBVIOUS
<1>3. new.stage = "authorizing"
  BY <1>1, <1>2, TopOK DEF JInv, FrameFields
<1>4. FrameGranted(new)
  BY <1>3 DEF FrameGranted, RunsPre
<1> QED
  BY <1>1, <1>2, <1>3, <1>4, StayKeeps

LEMMA JInvIsInductive ==
    ASSUME JInv, [Next]_vars PROVE JInv'
<1>0. IInv'
  BY IInvIsInductive DEF JInv
<1>1. CASE UNCHANGED vars
  <2>1. PICK n \in Nat : n = Depth
    BY DepthIsNatural DEF JInv, IInv
  <2>2. Depth' = n /\ Below(n)
    BY <1>1, <2>1 DEF vars, Depth, Below
  <2> QED
    BY <1>0, <2>1, <2>2, StepKeeps
<1>2. ASSUME NEW kind \in Kinds, Call(kind) PROVE JInv'
  BY <1>0, <1>2, CallKeeps
<1>3. ASSUME NEW decided \in Decisions, PreDecides(decided) PROVE JInv'
  BY <1>0, <1>3, PreDecidesKeeps
<1>4. ASSUME NEW decided \in Decisions, PostDecides(decided) PROVE JInv'
  BY <1>0, <1>4, PostDecidesKeeps
<1>5. CASE DecisionFails
  BY <1>0, <1>5, LeaveKeeps DEF DecisionFails, At
<1>6. CASE MethodQueries
  BY <1>0, <1>6, MethodQueriesKeeps
<1>7. CASE PreMethodReturns
  <2>1. Depth > 0 /\ RunsPre(Top) /\ DischargeOutput(Top)
    BY <1>7 DEF PreMethodReturns, At, RunsPre
  <2>2. DOMAIN Top = FrameFields
    BY <2>1, TopOK DEF JInv
  <2>3. Granted(Top)
    <3>1. Depth \in 1..Depth
      BY <2>1, DepthIsNatural DEF JInv, IInv
    <3> QED
      BY <2>1, <3>1 DEF JInv, FrameGranted, Top
  <2> QED
    BY <1>0, <2>1, <2>2, <2>3, DischargeOutputKeeps
<1>8. CASE PostMethodReturns
  BY <1>0, <1>8, PostMethodReturnsKeeps
<1>9. CASE MethodRaises
  <2>1. Depth > 0 /\ \E how : Leave(how)
    BY <1>9 DEF MethodRaises, At
  <2> QED
    BY <1>0, <2>1, LeaveKeeps
<1>10. ASSUME NEW how \in {"released", "failed"}, Commits(how) PROVE JInv'
  BY <1>0, <1>10, LeaveKeeps DEF Commits, At
<1>11. CASE IsCancelled
  BY <1>0, <1>11, LeaveKeeps DEF IsCancelled
<1> QED
  BY <1>1, <1>2, <1>3, <1>4, <1>5, <1>6, <1>7, <1>8, <1>9, <1>10, <1>11 DEF Next

(* What a granted call knows holds in every run of nested enforced calls.  *)
THEOREM OneShotGrants == Spec => []JInv
<1>1. Init => JInv
  BY InitIInv DEF Init, JInv, Depth
<1> QED
  BY <1>1, JInvIsInductive, PTL DEF Spec

(* A protected method runs under pre_enforce only after a PERMIT all of    *)
(* whose decision and input obligations were discharged, and a call is     *)
(* committed and released only when its output obligations were as well:   *)
(* no failure of an earlier signal is forgotten at a later one.  A handler *)
(* that claims a value of the decision signal is skipped without notice,   *)
(* so no claim may say that signal carries one: hence the hypothesis.      *)
THEOREM OneShotDischarges ==
    ASSUME DecisionCarriesNothing
    PROVE  Spec => []DischargedBeforeUse
<1>1. ASSUME JInv, NEW k \in 1..Depth, NEW frame, frame = stack[k]
      PROVE  /\ frame.kind \in Pre /\ frame.stage \in {"running", "committing"}
                  => /\ frame.decided.verb = "PERMIT"
                     /\ Discharged(frame, PRE_ENFORCE_SUPPORTED, {DECISION, INPUT})
             /\ frame.stage = "committing"
                  => /\ frame.decided.verb = "PERMIT"
                     /\ Discharged(frame, Supports(frame.kind), {DECISION, OUTPUT})
  <2>1. FrameGranted(frame)
    BY <1>1 DEF JInv
  <2>2. ASSUME frame.kind \in Pre, frame.stage \in {"running", "committing"}
        PROVE  /\ frame.decided.verb = "PERMIT"
               /\ Discharged(frame, PRE_ENFORCE_SUPPORTED, {DECISION, INPUT})
    <3>1. Granted(frame) /\ Supports(frame.kind) = PRE_ENFORCE_SUPPORTED
      BY <2>1, <2>2 DEF FrameGranted, RunsPre, Supports
    <3>2. /\ frame.decided.verb = "PERMIT"
          /\ Discharged(frame, PRE_ENFORCE_SUPPORTED, {DECISION})
          /\ Discharged(frame, PRE_ENFORCE_SUPPORTED, {INPUT})
      BY <2>2, <3>1 DEF Granted
    <3>3. {DECISION, INPUT} \subseteq {DECISION} \cup {INPUT}
      OBVIOUS
    <3>4. Discharged(frame, PRE_ENFORCE_SUPPORTED, {DECISION, INPUT})
      BY <3>2, <3>3, DischargedTogether
    <3> QED
      BY <3>2, <3>4
  <2>3. ASSUME frame.stage = "committing"
        PROVE  /\ frame.decided.verb = "PERMIT"
               /\ Discharged(frame, Supports(frame.kind), {DECISION, OUTPUT})
    <3>1. /\ frame.decided.verb = "PERMIT"
          /\ Discharged(frame, Supports(frame.kind), {DECISION})
          /\ Discharged(frame, Supports(frame.kind), {OUTPUT})
      BY <2>1, <2>3 DEF FrameGranted, Granted
    <3>2. {DECISION, OUTPUT} \subseteq {DECISION} \cup {OUTPUT}
      OBVIOUS
    <3>3. Discharged(frame, Supports(frame.kind), {DECISION, OUTPUT})
      BY <3>1, <3>2, DischargedTogether
    <3> QED
      BY <3>1, <3>3
  <2> QED
    BY <2>2, <2>3
<1>2. JInv => DischargedBeforeUse
  BY <1>1 DEF DischargedBeforeUse, Supports
<1> QED
  BY <1>2, OneShotGrants, PTL

(* A query that runs went through every query mapper of the innermost      *)
(* pre-enforced call around it, its own or an enclosing one, and through   *)
(* none of any other call's (the shims' listeners).                        *)
THEOREM OneShotQueries == Spec => []QueriesRewritten
<1>1. JInv => QueriesRewritten
  BY DEF JInv, QueryOK, QueriesRewritten
<1> QED
  BY <1>1, OneShotGrants, PTL

(* A released value went through every output mapper of its decision,      *)
(* unless one of them dropped it.                                          *)
THEOREM OneShotValues == Spec => []ValueMapped
<1>1. JInv => ValueMapped
  BY DEF JInv, FrameGranted, ValueMapped
<1> QED
  BY <1>1, OneShotGrants, PTL
=============================================================================
