-------------------------------- MODULE Planner --------------------------------
(***************************************************************************)
(* From a decision to its enforcement plan, and the plan's execution:      *)
(* EnforcementPlanner.plan (sapl_base/pep/planner.py) and                  *)
(* EnforcementPlan.execute (sapl_base/pep/plan.py).                        *)
(*                                                                         *)
(* A constraint is what every deployed provider answers for it: a claim,   *)
(* that is a sequence of triples [signal, data, priority, shape], empty    *)
(* when the provider does not claim it or raises.  "data" is the           *)
(* data_carrying flag of the SignalKind the provider itself built: signal  *)
(* kinds are equal by name alone.                                          *)
(***************************************************************************)
EXTENDS Integers, Sequences, FiniteSets, SequencesExt

CONSTANTS
    Providers,      (* the deployed constraint handler providers              *)
    DataCarrying,   (* the signals that carry a value when they are fired     *)
    Decisions       (* what the PDP may decide: [obligations, advice], each a *)
                    (* sequence of constraints, with or without a verb        *)

DECISION == "decision"

ShapeOrder == [runner |-> 0, mapper |-> 1, consumer |-> 2]

\* s is a list of whatever its elements are.
IsList(s) == Len(s) \in Nat /\ DOMAIN s = 1..Len(s)

IsConstraint(constraint) ==
    \A p \in Providers :
        /\ IsList(constraint[p])
        /\ \A triple \in ToSet(constraint[p]) :
              triple.priority \in Int /\ triple.shape \in DOMAIN ShapeOrder

IsDecision(decided) ==
    /\ {"obligations", "advice"} \subseteq DOMAIN decided
    /\ \A constraints \in {decided.obligations, decided.advice} :
          IsList(constraints) /\ \A constraint \in ToSet(constraints) : IsConstraint(constraint)

ASSUME PlannerAssumption ==
    /\ IsFiniteSet(Providers)
    /\ DECISION \notin DataCarrying
    /\ \A decided \in Decisions : IsDecision(decided)

\* A triple's data flag says what its signal really carries.
HonestClaims ==
    \A decided \in Decisions :
      \A k \in DOMAIN decided.obligations : \A p \in Providers :
        \A triple \in ToSet(decided.obligations[k][p]) :
          triple.data => triple.signal \in DataCarrying

\* No claim says that the decision signal carries a value.
DecisionCarriesNothing ==
    \A decided \in Decisions :
      \A k \in DOMAIN decided.obligations : \A p \in Providers :
        \A triple \in ToSet(decided.obligations[k][p]) :
          triple.data => triple.signal # DECISION

-----------------------------------------------------------------------------
(* Phase 1: resolving the constraints                                      *)

Claimants(constraint) == {p \in Providers : constraint[p] # <<>>}

\* The claim, when there is exactly one claimant.
SoleClaim(constraint) == constraint[CHOOSE p \in Claimants(constraint) : TRUE]

IsAdmissible(triple) == triple.shape = "runner" \/ triple.data

AllWellFormed(claim, tag, supported) ==
    \A triple \in ToSet(claim) :
        /\ IsAdmissible(triple)
        /\ triple.signal \in supported
        /\ triple.shape # "mapper" \/ tag = "obligation"

\* A plan entry names its constraint by number and its place in the claim.  A synthetic
\* entry raises if it is an obligation's, and does nothing otherwise.
Entry(triple, tag, number, place) ==
    [signal |-> triple.signal, priority |-> triple.priority, shape |-> triple.shape,
     tag |-> tag, number |-> number, place |-> place, synthetic |-> FALSE]

Synthetic(tag, number, place) ==
    [signal |-> DECISION, priority |-> 0, shape |-> "runner",
     tag |-> tag, number |-> number, place |-> place, synthetic |-> TRUE]

Scheduled(claim, tag, number) ==
    {Entry(claim[place], tag, number, place) : place \in DOMAIN claim}

\* Mutant: several providers may claim one constraint, one of them is picked.
ResolveAmbiguous(constraint, tag, number, supported) ==
    IF Claimants(constraint) # {} /\ AllWellFormed(SoleClaim(constraint), tag, supported)
    THEN Scheduled(SoleClaim(constraint), tag, number)
    ELSE {Synthetic(tag, number, 0)}

\* Mutant: whatever goes wrong with a constraint denies, advice too.
ResolveAdviceStrictly(constraint, tag, number, supported) ==
    IF Cardinality(Claimants(constraint)) = 1
       /\ AllWellFormed(SoleClaim(constraint), tag, supported)
    THEN Scheduled(SoleClaim(constraint), tag, number)
    ELSE {Synthetic("obligation", number, 0)}

IsResolved(constraint, tag, supported) ==
    /\ Cardinality(Claimants(constraint)) = 1
    /\ AllWellFormed(SoleClaim(constraint), tag, supported)

ResolveConstraint(constraint, tag, number, supported) ==
    IF IsResolved(constraint, tag, supported)
    THEN Scheduled(SoleClaim(constraint), tag, number)
    ELSE {Synthetic(tag, number, 0)}

ResolveAll(constraints, tag, supported) ==
    UNION {ResolveConstraint(constraints[k], tag, k, supported) : k \in DOMAIN constraints}

Resolved(decided, supported) ==
    ResolveAll(decided.obligations, "obligation", supported)
    \cup ResolveAll(decided.advice, "advice", supported)

-----------------------------------------------------------------------------
(* Phase 2: ordering, and mappers that do not commute                      *)

TagOrder == [obligation |-> 0, advice |-> 1]

\* The sort key (priority, shape order); the sort is stable, so a tie is broken by the
\* order of arrival: obligations first, each field in its order, each claim in its own.
SortKey(e) ==
    <<e.priority, ShapeOrder[e.shape], TagOrder[e.tag], e.number, e.place>>

Before(e, f) ==
    \E k \in 1..5 : /\ SortKey(e)[k] < SortKey(f)[k]
                    /\ \A h \in 1..(k - 1) : SortKey(e)[h] = SortKey(f)[h]

\* Mutant: the tie between shapes is not broken.
SortedByPriorityOnly(entries) ==
    LET Arrival(e) == <<TagOrder[e.tag], e.number, e.place>>
        Precedes(e, f) ==
            \/ e.priority < f.priority
            \/ /\ e.priority = f.priority
               /\ \E k \in 1..3 : /\ Arrival(e)[k] < Arrival(f)[k]
                               /\ \A h \in 1..(k - 1) : Arrival(e)[h] = Arrival(f)[h]
    IN  [i \in 1..Cardinality(entries) |->
            CHOOSE e \in entries : Cardinality({f \in entries : Precedes(f, e)}) = i - 1]

\* The i-th of the entries is the one that i - 1 of them come before.
Sorted(entries) ==
    [i \in 1..Cardinality(entries) |->
        CHOOSE e \in entries : Cardinality({f \in entries : Before(f, e)}) = i - 1]

\* The walk gathers mappers of one priority that follow each other into a run.
SameRun(e, f) == e.shape = "mapper" /\ f.shape = "mapper" /\ e.priority = f.priority

\* Mutant: the last run is never flushed.
SplitWithoutLastFlush(entries) ==
    LET InRun(i) == \E j \in {i - 1, i + 1} \cap DOMAIN entries : SameRun(entries[i], entries[j])
        Flushed  == {i \in DOMAIN entries : ~SameRun(entries[i], Last(entries))}
    IN  [kept      |-> {entries[i] : i \in {j \in Flushed : ~InRun(j)}},
         displaced |-> {entries[i] : i \in {j \in Flushed : InRun(j)}}]

\* A run of more than one mapper is displaced; what is kept stays in order.
SplitNonCommutingMappers(entries) ==
    LET InRun(i) == \E j \in {i - 1, i + 1} \cap DOMAIN entries : SameRun(entries[i], entries[j])
    IN  [kept      |-> {entries[i] : i \in {j \in DOMAIN entries : ~InRun(j)}},
         displaced |-> {entries[i] : i \in {j \in DOMAIN entries : InRun(j)}}]

\* Mutant: the decision signal gets no list of its own.
PlanWithoutDecision(decided, supported) ==
    [signal \in supported \ {DECISION} |->
        Sorted({e \in Resolved(decided, supported) : e.signal = signal})]

SplitAt(decided, supported, signal) ==
    SplitNonCommutingMappers(
        Sorted({e \in Resolved(decided, supported) : e.signal = signal}))

\* What takes the place of the displaced mappers, of whichever signal.
Substitutes(decided, supported) ==
    {Synthetic("obligation", e.number, e.place) :
        e \in UNION {SplitAt(decided, supported, signal).displaced : signal \in supported}}

\* Where the code's dictionary order puts the substitutes among the entries of the
\* decision signal does not show, since all they do is raise.
PlanFor(decided, supported) ==
    [signal \in supported |->
        Sorted(SplitAt(decided, supported, signal).kept
               \cup IF signal = DECISION THEN Substitutes(decided, supported) ELSE {})]

-----------------------------------------------------------------------------
(* Executing a plan at a signal.  A value is the sequence of mapper        *)
(* entries it went through; handlers is what each entry's handler does.    *)

Behaviours == {"ok", "raise", "drop"}

\* What execute has so far: the value, the failure state and the entries that ran.
Outset(signal, priorFailure) ==
    [absent |-> signal \notin DataCarrying, mapped |-> <<>>,
     failed |-> priorFailure, ran |-> <<>>]

Raises(entry, behaviour) ==
    IF entry.synthetic THEN entry.tag = "obligation" ELSE behaviour = "raise"

Ran(so, entry, behaviour) ==
    [so EXCEPT !.ran    = Append(@, entry),
               !.absent = @ \/ (entry.shape = "mapper" /\ behaviour = "drop"),
               !.mapped = IF entry.shape = "mapper" THEN Append(@, entry) ELSE @]

Skipped(so, entry) == so.absent /\ entry.shape # "runner"

\* Without a value mappers and consumers are skipped; a failure does not stop the rest.
RunEntry(so, entry, behaviour) ==
    IF Skipped(so, entry) THEN so
    ELSE IF Raises(entry, behaviour)
         THEN [so EXCEPT !.failed = @ \/ entry.tag = "obligation"]
         ELSE Ran(so, entry, behaviour)

Execute(plan, signal, handlers, priorFailure) ==
    LET after[k \in 0..Len(plan[signal])] ==
            IF k = 0 THEN Outset(signal, priorFailure)
            ELSE RunEntry(after[k - 1], plan[signal][k], handlers[k])
    IN  after[Len(plan[signal])]
=============================================================================
