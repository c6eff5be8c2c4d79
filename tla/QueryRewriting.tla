----------------------------- MODULE QueryRewriting -----------------------------
(***************************************************************************)
(* Query-rewriting obligations: the three providers that lower them        *)
(* (sapl_sqlalchemy/providers.py, sapl_django/orm_providers.py,            *)
(* sapl_pymongo/providers.py) and the shims that apply them to the queries *)
(* of a protected method (sapl_sqlalchemy/shim.py, sapl_django/            *)
(* orm_shim.py, sapl_pymongo/shim.py), down to the rows a store touches.   *)
(*                                                                         *)
(* A condition is the set of rows it is true of; SQL's third truth value   *)
(* needs no more, since nothing above a leaf negates.                      *)
(***************************************************************************)
EXTENDS Integers, Sequences, SequencesExt, FiniteSets

CONSTANTS
    Columns,        (* the columns that criteria and conditions speak of       *)
    Key,            (* the column every Django model instance is loaded with   *)
    Values,         (* what a column may hold besides NULL                     *)
    NULL,           (* the missing value                                       *)
    Deployments,    (* the sets of shims installed together                    *)
    Criteria,       (* the criteria an obligation may have, and their parts    *)
    Depth,          (* how deep each criterion nests                           *)
    Obligations,    (* [type, criteria, conditions, columns]                   *)
    Statements      (* the queries a method may issue                          *)

(* A criterion is a "leaf" [column, op, shape, value], where "" stands for *)
(* a field that is missing or no string and shape is "none", "scalar",     *)
(* "list" or "object"; a group ("or", "and") of children; or "other".      *)
(* A condition is [kind, terms]: a "fragment" of the store's language,     *)
(* "unparsable" or "not_object" as JSON, or "not_string".  What stands     *)
(* between its outermost ORs are its terms, each the rows it is true of.   *)
(* A statement is [store, kind, filter, table, where, columns]; a filter   *)
(* is "given" or, for a collection's operation, may be "missing".          *)

Stores == {"sqlalchemy", "django", "mongo"}
Rows   == [Columns -> Values \cup {NULL}]

NoStatement ==
    [store |-> "none", kind |-> "none", filter |-> "missing", table |-> {}, where |-> {},
     columns |-> {}]

\* What the hook of each store tells apart.  "bypassing" is what reaches no hook.
Kinds ==
    [sqlalchemy |-> {"select", "entity", "union", "update", "delete", "insert", "text",
                     "bypassing"},
     django     |-> {"select", "values", "union", "update", "delete", "bypassing"},
     mongo      |-> {"find", "update", "pipeline", "bypassing"}]

Statement == [store: Stores, kind: UNION {Kinds[store] : store \in Stores},
              filter: {"given", "missing"}, table: SUBSET (Columns \cup {Key}),
              where: SUBSET Rows, columns: SUBSET (Columns \cup {Key})]

Condition == [kind: {"fragment", "unparsable", "not_object", "not_string"},
              terms: Seq(SUBSET Rows) \ {<<>>}]

Children(node) == ToSet(node.children)

ASSUME QueryRewritingAssumption ==
    /\ NULL \notin Values
    /\ Deployments \subseteq SUBSET Stores
    /\ \A s \in Statements : s \in Statement /\ s.kind \in Kinds[s.store]
    /\ \A o \in Obligations : o.criteria \in Seq(Criteria) /\ o.conditions \in Seq(Condition)

\* A criterion is JSON: it nests, and not for ever.
ASSUME CriteriaNest ==
    /\ Depth \in [Criteria -> Nat]
    /\ \A node \in Criteria :
         /\ node.children \in Seq(Criteria)
         /\ \/ node.kind \in {"leaf", "other"} /\ node.children = <<>>
            \/ node.kind \in {"or", "and"}
         /\ \A child \in Children(node) : Depth[child] < Depth[node]

VARIABLES
    registered,     (* the shims that advertised their signal                  *)
    obligation,     (* the obligation of the decision in force                 *)
    plan,           (* the store whose signal it is planned on, or "none"      *)
    asked,          (* the query as the method issued it                       *)
    statement,      (* the query as the store will see it                      *)
    stage           (* where the call is                                       *)

Stages == {"planning", "denied", "running", "issued", "refused", "sent", "executed", "failed"}

vars == <<registered, obligation, plan, asked, statement, stage>>

\* Each store's provider and its shim are installed at startup, or neither is.
Init ==
    /\ registered \in Deployments
    /\ obligation \in Obligations
    /\ plan = "none"
    /\ asked = NoStatement /\ statement = NoStatement
    /\ stage = "planning"
-----------------------------------------------------------------------------
(* Leaves.  Each gives no fragment when the leaf is malformed.             *)

Named(leaf)    == leaf.column # "" /\ leaf.op # ""
Holding(leaf)  == {row \in Rows : row[leaf.column] \in leaf.value}
WithNull(leaf) == {row \in Rows : row[leaf.column] = NULL}

\* What the relational providers demand of a leaf before they render it.
IsRelational(leaf) ==
    /\ Named(leaf)
    /\ \/ leaf.op \in {"isNull", "isNotNull"}
       \/ leaf.op \in {"=", "!="} /\ leaf.shape = "scalar"
       \/ leaf.op = "in" /\ leaf.shape = "list"
       \/ leaf.op \in {"like", "notLike"} /\ leaf.shape = "scalar"

\* A comparison with NULL is true of neither side, also where it is negated.
SqlLeaf(leaf) ==
    CASE leaf.op = "isNull"            -> WithNull(leaf)
      [] leaf.op = "isNotNull"         -> Rows \ WithNull(leaf)
      [] leaf.op \in {"!=", "notLike"} -> Rows \ (Holding(leaf) \cup WithNull(leaf))
      [] OTHER                         -> Holding(leaf)

\* ~Q(...) is true of NULL as well.
DjangoLeaf(leaf) ==
    CASE leaf.op = "isNull"            -> WithNull(leaf)
      [] leaf.op = "isNotNull"         -> Rows \ WithNull(leaf)
      [] leaf.op \in {"!=", "notLike"} -> Rows \ Holding(leaf)
      [] OTHER                         -> Holding(leaf)

\* A leaf that cannot be lowered is left out.
MongoLeaf(leaf) ==
    IF ~Named(leaf) THEN {} ELSE
    CASE leaf.op = "isNull"                        -> {WithNull(leaf)}
      [] leaf.op = "isNotNull"                     -> {Rows \ WithNull(leaf)}
      [] leaf.op = "="  /\ leaf.shape # "none"     -> {Holding(leaf)}
      [] leaf.op = "!=" /\ leaf.shape # "none"     -> {Rows \ Holding(leaf)}
      [] leaf.op = "in" /\ leaf.shape = "list"     -> {Holding(leaf)}
      [] OTHER                                     -> {}

LeafOf(store, leaf) ==
    IF store = "mongo" THEN MongoLeaf(leaf)
    ELSE IF ~IsRelational(leaf) THEN {}
    ELSE {IF store = "sqlalchemy" THEN SqlLeaf(leaf) ELSE DjangoLeaf(leaf)}
-----------------------------------------------------------------------------
(* Criteria                                                                *)

\* A criterion and what it consists of, down to the leaves.
Within(node) ==
    LET within[n \in Criteria] == {n} \cup UNION {within[child] : child \in Children(n)}
    IN  within[node]

Leaves(node) == {n \in Within(node) : n.kind = "leaf"}

Intersection(sets) == {row \in Rows : \A s \in sets : row \in s}

\* What a criterion is lowered to: one fragment, or none when nothing of it is left.
Fragment(store, node) ==
    LET fragment[n \in Criteria] ==
            LET parts == UNION {fragment[child] : child \in Children(n)}
            IN  IF n.kind = "leaf" THEN LeafOf(store, n)
                ELSE IF n.kind = "other" \/ parts = {} THEN {}
                ELSE {IF n.kind = "or" THEN UNION parts ELSE Intersection(parts)}
    IN  fragment[node]

Fragments(store, criteria) == UNION {Fragment(store, node) : node \in ToSet(criteria)}
LeavesOf(criteria)         == UNION {Leaves(node) : node \in ToSet(criteria)}

Strings(conditions)    == {c \in ToSet(conditions) : c.kind # "not_string"}
Says(c)                == UNION ToSet(c.terms)
TextFragments(strings) == {Says(c) : c \in strings}

\* The JSON objects among the condition strings; what is no object is left out.
Parsed(strings) == {Says(c) : c \in {d \in strings : d.kind = "fragment"}}
-----------------------------------------------------------------------------
(* The providers: who claims the obligation                                *)

IsResponsible(type) == type \in {"sql:queryRewriting", "relational:queryRewriting"}

SqlClaims ==
    /\ IsResponsible(obligation.type)
    /\ obligation.criteria # <<>> \/ Strings(obligation.conditions) # {}
                                  \/ obligation.columns # {}

DjangoClaims ==
    /\ IsResponsible(obligation.type)
    /\ obligation.criteria # <<>> \/ Strings(obligation.conditions) # {}
                                  \/ obligation.columns # {}

MongoClaims ==
    /\ obligation.type = "mongo:queryRewriting"
    /\ Fragments("mongo", obligation.criteria) # {} \/ Strings(obligation.conditions) # {}

Claimants ==
    {s \in registered : CASE s = "sqlalchemy" -> SqlClaims
                          [] s = "django"     -> DjangoClaims
                          [] OTHER            -> MongoClaims}
-----------------------------------------------------------------------------
(* The mappers.  Each gives the rewritten query, or nothing when it raises. *)

Narrowed(s, fragments) == [s EXCEPT !.where = Intersection({@} \cup fragments)]

SupportsWhere(s) == s.kind \in {"select", "entity", "update", "delete"}

\* with_only_columns on what is selected; other statements keep what they have.
ApplyColumns(s) ==
    IF s.kind = "entity" THEN {}
    ELSE IF s.kind = "select" THEN {[s EXCEPT !.columns = @ \cap obligation.columns]}
    ELSE {s}

IsDisjunction(c) == c.kind # "not_string" /\ Len(c.terms) > 1

\* head AND text AND text ... with no parentheses about a text(): AND joins the last term of
\* one disjunction and the texts that follow it to the first term of the next.
Joined(head, conditions) ==
    LET texts    == {k \in DOMAIN conditions : conditions[k].kind # "not_string"}
        terms(k) == conditions[k].terms
        splits   == {k \in texts : IsDisjunction(conditions[k])}
        opens(k) == IF k = 0 THEN head ELSE Last(terms(k))
        after(k) == {j \in texts : k < j /\ ~ \E i \in splits : k < i /\ i < j}
        run(k)   == {row \in opens(k) : \A j \in after(k) : row \in Head(terms(j))}
        inner(k) == UNION {terms(k)[t] : t \in 2..(Len(terms(k)) - 1)}
    IN  run(0) \cup UNION {run(k) \cup inner(k) : k \in splits}

SqlRewrite(s) ==
    LET strings  == Strings(obligation.conditions)
        head     == Narrowed(s, Fragments("sqlalchemy", obligation.criteria))
        narrowed == [head EXCEPT !.where = Joined(@, obligation.conditions)]
    IN  IF \/ s.kind = "text"
           \/ (obligation.criteria # <<>> \/ strings # {}) /\ ~SupportsWhere(s)
           \/ \E leaf \in LeavesOf(obligation.criteria) : ~IsRelational(leaf)
        THEN {}
        ELSE IF obligation.columns = {} THEN {narrowed} ELSE ApplyColumns(narrowed)

\* The columns a model must have for the obligation to concern its queries.
TargetColumns ==
    LET named == {leaf.column : leaf \in LeavesOf(obligation.criteria)} \ {""}
    IN  IF named = {} THEN obligation.columns ELSE named

IsTarget(s) == s.table # {} /\ TargetColumns \subseteq s.table

AcceptsProjection(s) == s.kind \notin {"update", "delete", "values"}

\* add_immediate_loading takes the place of the method's own choice of columns.  A combined
\* query selects what its component queries select, which hear nothing of it.
Only(s) ==
    IF obligation.columns \cap s.table # {} /\ AcceptsProjection(s) /\ s.kind # "union"
    THEN [s EXCEPT !.columns = (obligation.columns \cap s.table) \cup {Key}] ELSE s

DjangoRewrite(s) ==
    LET strings == Strings(obligation.conditions)
    IN  IF ~IsTarget(s) THEN {s}
        ELSE IF \/ (obligation.criteria # <<>> \/ strings # {}) /\ s.kind = "union"
                \/ \E leaf \in LeavesOf(obligation.criteria) : ~IsRelational(leaf)
        THEN {}
        ELSE {Only(Narrowed(s, Fragments("django", obligation.criteria)
                                   \cup TextFragments(strings)))}

\* Mutant: the fragments take the place of the method's filter.
MergeReplaces(s, fragments) == [s EXCEPT !.where = Intersection(fragments)]

\* {"$and": [query, *fragments]}; a query that is {} or None selects everything.
Merge(s, fragments) == Narrowed(s, fragments)

\* Mutant: strings that cannot be parsed are left out like those that are no object.
MongoRewriteLeniently(s) ==
    IF s.kind = "pipeline" THEN {}
    ELSE {Merge(s, Fragments("mongo", obligation.criteria)
                       \cup Parsed(Strings(obligation.conditions)))}

MongoRewrite(s) ==
    IF s.kind = "pipeline" \/ \E c \in ToSet(obligation.conditions) : c.kind = "unparsable"
    THEN {}
    ELSE {Merge(s, Fragments("mongo", obligation.criteria)
                       \cup Parsed(Strings(obligation.conditions)))}
-----------------------------------------------------------------------------
(* The call                                                                *)

\* The planner wants exactly one claimant, whose shim advertised its signal.
Plans ==
    /\ stage = "planning"
    /\ IF Cardinality(Claimants) = 1
       THEN plan' \in Claimants /\ stage' = "running"
       ELSE plan' = "none" /\ stage' = "denied"
    /\ UNCHANGED <<registered, obligation, asked, statement>>

\* The method's query gets to the store's hook.
Issues(s) ==
    /\ stage = "running"
    /\ asked' = s /\ statement' = s
    /\ stage' = "issued"
    /\ UNCHANGED <<registered, obligation, plan>>

\* What reaches no hook: statements executed below the ORM's session, raw and inserting
\* Django queries, and the collection methods the proxies hand through.
Intercepted(s) == s.kind # "bypassing"

\* A failed mapper denies inside the method.
Discharged(results) ==
    IF results = {} THEN stage' = "refused" /\ UNCHANGED statement
    ELSE statement' \in results /\ stage' = "sent"

\* _sapl_listener
SqlDischarges ==
    /\ stage = "issued"
    /\ plan = "sqlalchemy" /\ asked.store = plan /\ Intercepted(asked)
    /\ Discharged(SqlRewrite(asked))
    /\ UNCHANGED <<registered, obligation, plan, asked>>

\* _sapl_execute_sql
DjangoDischarges ==
    /\ stage = "issued"
    /\ plan = "django" /\ asked.store = plan /\ Intercepted(asked)
    /\ Discharged(DjangoRewrite(asked))
    /\ UNCHANGED <<registered, obligation, plan, asked>>

\* The operations that work without an argument and get {} for it.
HasDefault(s) == s.kind = "find"

\* Mutant: an operation without a filter has nothing to rewrite.
HasArgument(s) == s.filter = "given"

\* _intercept finds a query to discharge: keyword, first argument or default.
HasQuery(s) == s.filter = "given" \/ HasDefault(s)

MongoDischarges ==
    /\ stage = "issued"
    /\ plan = "mongo" /\ asked.store = plan /\ Intercepted(asked) /\ HasQuery(asked)
    /\ Discharged(MongoRewrite(asked))
    /\ UNCHANGED <<registered, obligation, plan, asked>>

\* No plan entry for the store's signal, no hook, or no argument.
PassesBy ==
    /\ stage = "issued"
    /\ \/ plan # asked.store
       \/ ~Intercepted(asked)
       \/ asked.store = "mongo" /\ ~HasQuery(asked)
    /\ stage' = "sent"
    /\ UNCHANGED <<registered, obligation, plan, asked, statement>>

\* The store and its driver: a criterion may name a column that is not there, and an
\* operation may lack an argument.
Accepted ==
    /\ plan = "sqlalchemy" /\ asked.store = plan /\ Intercepted(asked)
         => {leaf.column : leaf \in LeavesOf(obligation.criteria)} \subseteq asked.table
    /\ asked.store = "mongo" => asked.filter = "given" \/ asked.kind = "find"

Executes ==
    /\ stage = "sent"
    /\ stage' = IF Accepted THEN "executed" ELSE "failed"
    /\ UNCHANGED <<registered, obligation, plan, asked, statement>>

Next ==
    \/ Plans
    \/ \E s \in Statements : Issues(s)
    \/ SqlDischarges \/ DjangoDischarges \/ MongoDischarges \/ PassesBy
    \/ Executes

Spec == Init /\ [][Next]_vars
-----------------------------------------------------------------------------
(* Properties                                                              *)

(* The type invariant; a query is sent only under a plan.                  *)
TypeOK ==
    /\ registered \subseteq Stores
    /\ plan \in registered \cup {"none"}
    /\ asked.where \subseteq Rows /\ asked.table \subseteq Columns \cup {Key}
    /\ statement.where \subseteq Rows /\ statement.columns \subseteq Columns \cup {Key}
    /\ stage \in Stages
    /\ plan = "none" <=> stage \in {"planning", "denied"}
    /\ asked = NoStatement <=> stage \in {"planning", "denied", "running"}

\* The statements a plan answers for.  Django's hook sees every query of the call, and
\* answers for those of models that carry the columns the obligation speaks of.
Answerable ==
    /\ plan = asked.store /\ Intercepted(asked)
    /\ plan = "django" =>
         /\ asked.table # {}
         /\ \A leaf \in LeavesOf(obligation.criteria) : leaf.column \in asked.table \cup {""}
         /\ (\A leaf \in LeavesOf(obligation.criteria) : leaf.column = "")
              => obligation.columns \subseteq asked.table

\* SQLAlchemy puts a textual condition beside the others as it is: an OR of its own comes out.
ConditionsKeepTogether ==
    plan = "sqlalchemy" => \A c \in ToSet(obligation.conditions) : ~IsDisjunction(c)

(* Rewriting only narrows: whatever the obligation, well formed or not,    *)
(* and whatever the query looked like, no row is touched that the method's *)
(* own query would not have touched.  It does not hold of a textual        *)
(* condition with an OR outside parentheses that goes to SQLAlchemy:       *)
(* _build_predicate joins text(fragment) as it stands, so "a OR b" becomes *)
(* "where AND a OR b", although the README of sapl-sqlalchemy says that    *)
(* conditions are "AND-merged", "never widening it".                       *)
NarrowsOnly ==
    stage = "executed" /\ ConditionsKeepTogether => statement.where \subseteq asked.where

\* A criterion read as what it says of a row.
LeafHolds(row, leaf) ==
    CASE leaf.op = "isNull"             -> row[leaf.column] = NULL
      [] leaf.op = "isNotNull"          -> row[leaf.column] # NULL
      [] leaf.op \in {"!=", "notLike"}  -> row[leaf.column] \notin leaf.value
      [] OTHER                          -> row[leaf.column] \in leaf.value

Holds(row, node) ==
    LET holds[n \in Criteria] ==
            IF n.kind = "or" THEN \E child \in Children(n) : holds[child]
            ELSE IF n.kind = "and" THEN \A child \in Children(n) : holds[child]
            ELSE LeafHolds(row, n)
    IN  holds[node]

\* The provider can read all of it, and no group is empty.
IsPlain(store, node) ==
    \A n \in Within(node) :
        /\ n.kind # "other"
        /\ n.kind = "leaf" => LeafOf(store, n) # {}
        /\ n.kind \in {"or", "and"} => n.children # <<>>

(* A query the plan answers for touches only rows of which every criterion *)
(* and every condition of the obligation holds, whichever store it goes to *)
(* and however the criteria nest, when the provider can read them all and, *)
(* for SQLAlchemy, no textual condition has an OR outside parentheses.     *)
RowsSatisfyObligation ==
    stage = "executed" /\ Answerable /\ ConditionsKeepTogether
      /\ (\A node \in ToSet(obligation.criteria) : IsPlain(plan, node)) =>
        \A row \in statement.where :
          /\ \A node \in ToSet(obligation.criteria) : Holds(row, node)
          /\ \A c \in ToSet(obligation.conditions) : c.kind = "fragment" => row \in Says(c)

(* What a provider cannot lower is not left out: a malformed leaf keeps a  *)
(* relational query from running, and a pipeline or a condition that is no *)
(* JSON keeps a collection's (the providers' "fails closed").              *)
UnloweredIsRefused ==
    stage = "executed" /\ Answerable =>
      IF plan = "mongo"
      THEN /\ asked.kind # "pipeline"
           /\ \A c \in ToSet(obligation.conditions) : c.kind # "unparsable"
      ELSE /\ \A leaf \in LeavesOf(obligation.criteria) : IsRelational(leaf)
           /\ asked.kind \in {"union", "text", "insert"} => obligation.criteria = <<>>

(* Where a store projects, nothing is loaded but the obligation's columns  *)
(* and, for a Django model instance, its key.  Django projects neither the *)
(* rows of values() nor those of combined queries.                         *)
ColumnsAreProjected ==
    stage = "executed" /\ Answerable /\ obligation.columns \cap asked.table # {} =>
      /\ plan = "sqlalchemy" /\ asked.kind \in {"select", "entity"}
           => statement.columns \subseteq obligation.columns
      /\ plan = "django" /\ AcceptsProjection(asked) /\ asked.kind # "union"
           => statement.columns \subseteq obligation.columns \cup {Key}

(* What the store answers obeys the whole obligation: its rows and, where  *)
(* the store projects, its columns.                                        *)
ObeysObligation == RowsSatisfyObligation /\ ColumnsAreProjected

(* What holds of a call in every state: the types, that nothing is sent    *)
(* without a plan, and that what cannot be lowered is refused.             *)
CallInv == TypeOK /\ UnloweredIsRefused
=============================================================================
