# Models of the SAPL Python policy enforcement points

TLA+ models of `sapl-python`: what a policy enforcement point (PEP) does with
the decisions of a policy decision point (PDP), model-checked with TLC on small
instances, and proved with TLAPS where it matters most. Paths below are
relative to the repository; `base/` stands for `sapl_base/src/sapl_base/`.

## 1. The system

A protected Python function is wrapped by a PEP. The PEP sends a subscription
to the PDP and gets a decision: a verb (PERMIT, DENY, SUSPEND, INDETERMINATE,
NOT_APPLICABLE) with obligations, which must be discharged or the decision does
not count, and advice, which may be ignored. Constraint handler providers claim
constraints and contribute handlers (runners, mappers, consumers) that fire at
signals: when the decision arrives, on the input, the output, an error, each
stream item, or a database query.

    framework decorator --> pre/post_enforce, stream_enforce --> planner --> plan
            |                        |                                        |
       subscription             PDP client  <--- SSE / RSocket ---> PDP   execute(signal)
                                     |                                        ^
                               token provider              ORM shim --context variable

### 1.1 Inventory

| Component | State | Operations | Hard behaviour | What makes it correct |
|---|---|---|---|---|
| Stream state machine (`base/pep/streaming/mealy.py`) | mode, plan in force | `step` | none by itself | total; a denial is final; one announcement per change of mode |
| Stream pipeline (`base/pep/streaming/pipeline.py`) | machine, queue, PDP pump, RAP task, generator | `run_pipeline`, `_pump_pdp`, `_pump_rap`, `_manage_rap` | three tasks and a subscriber share one queue; cancellation is requested, not awaited; state is used after a yield | items judged by the decision in force; no forgotten task; nobody stranded; denials end the stream |
| Boundary markers (`base/pep/boundary_signals.py`, `streaming/transition_signals.py`) | none | rendering | none | markers announce each change once |
| Planner (`base/pep/planner.py`) | none (pure) | `plan` | several providers claim, triples ill-formed, mappers that do not commute | fail closed: an obligation runs or the decision fails; advice is inert; order independent of providers |
| Plan (`base/pep/plan.py`) | failure state, value | `execute` | best effort: handlers raise or drop the value | no failure forgotten |
| One-shot enforcement (`base/pep/enforce.py`) | call stack, transaction scope | `pre_enforce`, `post_enforce`, blocking variants | nesting, exceptions, cancellation, event loop within event loop | the method runs, and its value is released, only with discharged obligations |
| Request context (`base/pep/request_context.py`) | context variable | set, get, reset | restored on every path | innermost plan seen |
| Transaction scope (`base/pep/transaction.py`) | scope of a call | commit, roll back | a denial after the method wrote | exception leaves the scope |
| ORM shims (`sapl_sqlalchemy`, `sapl_django`, `sapl_pymongo` `shim.py`/`orm_shim.py`, `base/pep/shim_signals.py`) | registered shims | query listener, (un)registration | registration changes between planning and query | queries rewritten by the plan in the context |
| HTTP client (`base/transport/http_pdp_client.py`) | per stream: attempt, last emission; per client: the `httpx` client and its loop | streams, one-shot requests, close | connections end, hang, and come back; repeats suppressed; backoff | INDETERMINATE across every outage, never a stale verdict |
| RSocket client (`base/transport/rsocket_pdp_client.py`) | one shared connection, its lock | streams, requests, reset, close | many streams share and reset one connection | as the HTTP client; no connection of others closed or forgotten |
| Token provider (`base/transport/oauth2.py`) | cached token, shared refresh | get, invalidate, refresh | concurrent callers, cancellation, a refresh that outlives an invalidation | one refresh at a time; no invalidated token returned |
| PDP client contract (`base/transport/pdp_client.py`, `constants.py`) | none | protocol | | what the streaming methods promise |
| Codec (`base/transport/codec`) | none | encode, decode | malformed messages | fail closed |
| PEP runtime (`base/pep/runtime.py`, `sapl_django/config.py`, extensions) | client, planner, providers, transaction provider | configure, register, lazy start, close | threads; check and act apart; a request between two of its reads | nothing registered is lost; a request is planned with what was there when it came |
| MCP middleware (`sapl_fastmcp`) | per request: what was looked up, what ran, the outcome | listing, access, enforcement, finalize | two lookups, names that collide, cancellation, callbacks | what is shown is allowed; a denial shows nothing; finalize once with the true outcome |
| Content filter (`base/pep/filters/content_filter.py`) | a copy of the value, changed in place | blacken, replace, delete, keep or drop | paths into nested data, slots resolved before the first change, deletion by index | exactly the addressed parts change; what cannot be applied denies |
| Query rewriting (`providers.py` of the ORMs, their shims) | obligation, plan, statement | criteria and conditions into queries, projection | malformed and nested criteria, statements that cannot be narrowed, hooks that are passed by | never wider than asked for; rows satisfy the whole obligation |
| Django WebSocket consumer (`sapl_django/consumers.py`) | none but the socket | connect, receive | messages before authorization | none handled without a permit of its own |
| Framework decorators (`decorators.py` of Django, FastAPI, Flask, Tornado) | per request: where it is and what it holds | pre, post, stream | synchronous views on threads, reconfiguration under way, transactions | served only as the PDP permitted; denials roll back |
| Subscription builders (`subscription.py`) | none | subject and the rest of a subscription | several sources of the subject | the authenticated user is asked about |
| TLS and logging helpers, Django glue | none | glue | | |

### 1.2 Interactions

The stream pipeline consumes a PDP client's stream and calls the planner for
every decision; the one-shot functions call the client once and the planner
once. Plans reach ORM shims through a context variable only. Streams of a
client share its connection (RSocket) or connection pool (HTTP) and its token
provider. Everything runs in one event loop, so tasks interleave at awaits
only; the blocking variants start a loop of their own.

## 2. Modules

| Module | Models | Source |
|---|---|---|
| `Mealy` | the stream state machine, as a function | `base/pep/streaming/mealy.py` |
| `StreamPipeline` | pumps, queue, driver and subscriber; extends `Mealy` | `base/pep/streaming/pipeline.py` |
| `EnforcedStream` | abstract: the gate a subscriber sees | |
| `StreamPipelineProofs` | theorems about `StreamPipeline` | |
| `Planner` | planning and execution, as operators | `base/pep/planner.py`, `plan.py` |
| `PlanExecution`, `MCPlanExecution` | one decision planned and fired at every signal; its instances | same |
| `OneShot`, `MCOneShot` | nested one-shot calls; extends `Planner`; its instances | `base/pep/enforce.py`, `request_context.py`, `transaction.py`, the SQLAlchemy shim |
| `EnforcementProofs` | theorems about `Planner`, `PlanExecution` and `OneShot` | |
| `PdpFeed` | abstract: what a PDP client's stream promises | `base/transport/pdp_client.py` |
| `HttpPdpStream`, `MCHttpPdpStream` | one stream of the HTTP client; its instance | `base/transport/http_pdp_client.py` |
| `HttpPdpStreamProofs` | theorems about `HttpPdpStream` | |
| `TokenProvider`, `MCTokenProvider` | one-shot HTTP requests that share an OAuth2 token; its instance | `base/transport/oauth2.py`, `_post_json` of `http_pdp_client.py` |
| `TokenProviderProofs` | theorems about `TokenProvider` | |
| `RsocketPdpClient`, `MCRsocketPdpClient` | the RSocket client with its shared connection; its instances | `base/transport/rsocket_pdp_client.py`, decoding of `codec/sapl_proto_codec.py` |
| `RsocketPdpClientProofs` | theorems about `RsocketPdpClient` | |
| `McpMiddleware`, `MCMcpMiddleware` | one request to an MCP server; its instance | `sapl_fastmcp/middleware.py`, `auth_check.py`, `enforcement.py`, `subscription.py` |
| `McpMiddlewareProofs` | theorems about `McpMiddleware` | |
| `ContentFilter`, `MCContentFilter` | the two content filters; documents and constraints | `base/pep/filters/content_filter.py` |
| `QueryRewriting`, `MCQueryRewriting` | providers and shims of the three stores; obligations and statements | `providers.py`, `orm_providers.py`, `shim.py`, `orm_shim.py` |
| `ObligationProofs` | theorems about `QueryRewriting` and `ContentFilter` | |
| `PepRuntime` | what a process shares: runtime and connection pool | `base/pep/runtime.py`, `_get_client` and `close` of `http_pdp_client.py` |
| `Frameworks`, `MCFrameworks` | requests of four frameworks over `PepRuntime`; its instance | `decorators.py`, `subscription.py`, `config.py`, `extension.py`, `consumers.py` |
| `FrameworksProofs` | theorems about `Frameworks` | |

Definitions marked "Mutant" in a comment are plausible mistakes in the code
modelled by the definition that follows them. No action uses them; each makes
one property fail, which shows that the property depends on the code.

### 2.1 Mealy and StreamPipeline

`fsm`, `queue`, `current` (`rap_task`) and `prior` (`prior_state`) are the variables
of `run_pipeline`; `pdp` and `raps` are the states of the tasks it creates; `driver`
says where the generator is suspended: in `queue.get()` (`waiting`), at a `yield`
(`yielding`), or not (`running`). While the driver runs no other task does, as in
asyncio: `PumpsMayRun` guards the pumps. `DriverSteps` is a whole loop body up to
the yield, `SubscriberResumes` the part after it, which acts on a state decided
before the yield. A cancelled RAP task is `cancelling` until it unwinds, and may
still announce an end or an error first, or swallow the cancellation and yield on.
`rap_factory()` is called where the RAP task is created and may raise out of the
generator (`GoesOn`). Each decision has a number, and an item carries the number of
the last decision queued before it: history the code does not keep, from which
`JudgedByDecisionInForce` is stated. `EndWith` is the `finally` block.

### 2.2 Planner, PlanExecution

A constraint is a function from providers to what each claims: a sequence of
triples (signal, whether the provider calls it data-carrying, priority, shape);
the empty sequence is no claim. A provider that raises claims nothing, as in
`_resolve_constraint`. The code's two phases are two groups of operators:
`Resolved` is the set of entries the constraints resolve to, each with its
constraint's number and its place in the claim, from which `SortKey` restores
the order of arrival that Python's stable sort keeps; `Sorted` lists a set by
that key. A mapper is displaced when a neighbour in the sorted list is a mapper
of its priority, which is when the code's walk finds it in a run of more than
one. `PlanFor` puts the synthetic failing entries in their place. `Execute` goes
through a list as the code's loop does; a value is the sequence of mappers it
went through. `PlanSpec` is one decision planned and fired at every signal.

Two facts about claims are not the planner's to ensure, because a `SignalKind`
is compared by name alone: that a claim's data flag is what its signal carries
(`HonestClaims`), and that no claim says that of the decision signal
(`DecisionCarriesNothing`). They are hypotheses of two theorems, and the `MC`
modules check that their instances satisfy them.

### 2.3 OneShot

`stack` is the Python call stack of protected calls of one task, `context` the
context variable. Stages are the places between awaits: deciding, running (the
method), authorizing (post), committing. Handlers' behaviour (succeed, raise,
drop) is chosen when a signal fires. A query inside a method finds the plan the
context holds. Tasks do not meet in this code (each has its own copy of the
context), so one task is modelled. `ClientIsAsync` says whether `decide_once` of
the client is to be awaited: `_decide_blocking` runs it in a loop of its own,
which fails inside a running loop, or passes on what a synchronous client
returned, which in turn no asynchronous call can await.

### 2.4 PdpFeed, HttpPdpStream

`stage` is where the generator is suspended; `attempt` and `last_emitted` are
its local variables; `wire` holds frames under way; `link` is what happened to
the connection, which the client learns late or never (`silent`). An emission
maps the subscriptions it speaks of to decisions, so the multi-decide route
(one subscription per frame) and the multi-decide-all route (all of them) are
the same module with another set of frames; `decide` is the second with one
subscription. `shown` and `told` are history: what the consumer holds, and what
the server sent on this connection. Float overflow in the backoff is at
exponent 1024 in Python and at `FloatExponent` here.

### 2.5 TokenProvider

Requests are tasks of one loop, and each runs `_post_json` once, with the retry.
An action is what a task does between two awaits: `Begins` goes through
`get_access_token` to its first suspension, `GetsLock` from the lock on,
`Resumes` from the awaited refresh on. `lock` and `lock_waiters` are the
`asyncio.Lock`, which is fair; `pending` is `_pending_refresh`; `refreshes` are
all refresh tasks ever created, each with those who await it, in the order in
which the loop wakes them. The i-th refresh acquires token i, which is cached
or, when its lifetime is within the refresh guard, is not (`cached` is 0 when
there is no token or none fresh enough). Cancelling a request that awaits a
refresh cancels the refresh, which then unwinds and takes everyone who shares it
along, as asyncio does for an awaited task; a refresh that is over already
cannot be cancelled, and the request ends when it resumes (`asked`). Discovery
and token request are one step that succeeds, finds nobody (`unreachable`: an
`httpx` request error) or fails in any other way (`failed`: an HTTP status, an
OAuth error, a missing token or endpoint). `rejected` and `stale` are history.

### 2.6 RsocketPdpClient

Streams, one-shot requests and `close()` are tasks; an action is what a task does
between two awaits. `lock` is `_connect_lock` with its holder at the head; `client`
and `writer` are `_client` and `_writer`; `conn` is what became of each connection.
The holder of the lock is `opening` (token, socket, setup frame) or, for `close()`,
awaiting one of the two steps of `_close_locked`; a reset goes through the same two
steps without the lock, which is why `ClientClosed` forgets whatever `client` refers
to by then. A stream's queue is `inbox`, `phase` says whether it has held a decision
yet (only that wait is bounded) or its end. `leaving` says what a stream does after
it has reset the connection: go on to the fallback (`Seeds`), or end because its
consumer left or the decoder raised. A connect that fails or is cancelled may have
its socket already (`LeavesSocket`), which then stays open and belongs to nobody;
`SetupMayFail` turns these failures on. Connections nobody refers to lend their
number to a new one, so a stream may reconnect without end in a finite model. Each
stream implements `PdpFeed`.

### 2.7 McpMiddleware

The middleware keeps nothing between requests: the model is one request with
every configuration and every answer of the PDP, while the server's registry
changes under it at each await. `stage` is where it is suspended, `found` the
component that was looked up and `ran` the one the server then ran, which may be
another. What `pre_enforce` and `post_enforce` do inside is `OneShot`'s subject;
here they decide, run the function and map its value, or raise; an error of the
function may leave as a denial, because it is one or because an obligation of the
error failed. The server's getters, the access token and the PDP client may raise
as well. A listing's
dictionaries are `subscribed` and `kept`: of the components that share a
`type:name` the last stands, in whatever order the server lists them. `Leaves`
is the `finally` clause, and `Reply` the choice between the wrapper as it came
and a new one.

### 2.8 ContentFilter

A value is a heap of numbered nodes, as `_to_native` leaves it (`IsHeap`): a tree of
containers of its own, which the handler changes in place through (container, key)
slots. The code's recursions are recursive functions: `Descent` is
`_walk_descendant`, by the nodes of the heap; `Slots` is `walk`, by the steps of
the path, since the slots of a step are what it finds below each slot of the step
before, in that order; `Changed` is the loop of an action over the slots that were
resolved before it changed anything. `FiltersElement`, `Applies`, `LeavesElement`
and `JudgesElement` go through the elements of a list, or the one value. The code
raises from the middle of that loop; the copy is lost then, so `CannotApply` says
so before it. The reference the properties use, `Addressed`, is defined the other
way round: over sets of nodes, one step at a time, with no slots and no order.

An index that was resolved is stale once its list lost an element. So
`RedactsWhatIsAddressed` sets actions apart that delete two elements of one list
(`DeletesFromOneListTwice`): by `[*]`, and also where two descents reach one list,
as in `$..a..a[0]`. `filter_delete` shows what becomes of them.

### 2.9 QueryRewriting

What a store is given is the set of rows it is true of, so lowering a criterion
gives a set of rows for each store (`Fragment`), or nothing when the provider leaves
it out. A textual condition is the sequence of the terms between its outermost ORs,
because SQLAlchemy joins it to its neighbours without parentheses: `Joined` is what
the database then reads, with each term bound by AND to what stands beside it.
Django puts an extra condition in parentheses and MongoDB's is a document of its
own, so there a condition is the union of its terms (`Says`). The method's own WHERE
is one conjunct, parenthesised where it has to be. The properties set SQLAlchemy's
textual disjunctions apart (`ConditionsKeepTogether`); section 5 says what becomes
of them. A combined (union) query of Django keeps the columns of its component
queries, which `add_immediate_loading` does not reach. The relational providers
refuse what they cannot render, MongoDB's leaves it out. SQL's NULL and Django's
negation differ (`SqlLeaf`, `DjangoLeaf`). `Plans` is the planner's choice of
exactly one claimant whose shim advertised its signal; the three `Discharges`
actions are the shims' hooks, and `PassesBy` is every way for a statement to reach
the store unseen. The reference, `Holds`, reads a criterion as what it says of one
row. `Criteria` and `Depth` are constants: the trees that obligations are made of,
and how deep each nests, so that a part is less deep than the whole.

### 2.10 PepRuntime and Frameworks

`PepRuntime` has an action for each method, atomic under the runtime's lock, and the
steps of the HTTP client's pool. A decorator is a program, the sequence of the steps
its code takes (`DjangoPre`, ..., `TornadoStream`), and a request executes one step
at a time while others, the application and the PDP act in between. What is one step
on the event loop (`PostsAsync`) is three on a thread (`ChecksPool`, `RebuildsPool`,
`StampsPool`), since another thread may run between any two of them. Django
configures on first use, in three steps that each take the lock for themselves. An
obligation is the name of the provider that claims it, an answer is what the caller
gets, and `writes` what becomes of what a view wrote: a commit that fails is
answered as an error and may have taken place. What the application supplies may
raise: the subject (a consumer's `build_subscription` decides whom a message is
asked about), Django's settings and what the client makes of them, and the view,
with a denial of its own or an error one of whose obligations fails. A stream's
program ends where `StreamPipeline` begins.

## 3. Runs

| Run | Checks | Distinct states |
|---|---|---|
| `stream` | `TypeOK`, `NoForgottenRap`, `PausedWhileSuspended`, `NeverStranded`, `JudgedByDecisionInForce`, `SubscriberView` (refinement of `EnforcedStream`), `DenialEndsStream`, `TasksReleased` | 157,390 |
| `planner` | `PlanTypeOK`, `FailClosed`, `NothingSkipped`, `RunsInOrder`, `AdviceIsInert` | 5,876 |
| `oneshot` | `TypeOK`, `ContextIsInnermost`, `DischargedBeforeUse`, `QueriesRewritten`, `ValueMapped` | 15,965 |
| `feed` | `FollowsServer`, `KeepsThePromise` (refinement of `PdpFeed`), `OutageIsShown` | 37,079 |
| `token` | `PostsFreshToken`, `NoOrphanRefresh`, `EveryRequestEnds` | 473,124 |
| `rsocket` | `ConnectionInv` (`TypeOK`, `OpensAlone`, `ClosesWhatThereIs`), `KeepsThePromise` (refinement of `PdpFeed`), `OutageIsShown`, `RequestsEnd` | 176,485 |
| `rsocket_leak` | finds `NothingLeaks` violated | |
| `mcp` | `ListingInv` (`TypeOK`, `ShownIsAllowed`, `OthersAreShown`), `DeniedLearnsNothing`, `FinalizedOnce` | 1,175,328 |
| `filter` | `HandlerInv` (`FilterTypeOK`, `UnappliedIsDenied`, `MissingConditionDenies`), `RedactsWhatIsAddressed` | 44,738 |
| `filter_delete` | finds `WildcardDeletes` violated | |
| `rewriting` | `CallInv` (`TypeOK`, `UnloweredIsRefused`), `NarrowsOnly`, `ObeysObligation` (`RowsSatisfyObligation`, `ColumnsAreProjected`) | 461,868 |
| `frameworks` | `RequestInv` (`TypeOK`, `DeniedIsRolledBack`), `SeesWhatWasRegistered`, `SubjectIsTheUser`, `ServedIsPermitted` | 1,273,912 |

The type invariants of `HttpPdpStream` and `TokenProvider` are theorems and not
checked again by `feed` and `token`. What the runs say:

- `stream`, `planner`, `oneshot`: a decision is enforced as it stands, by exactly
  the handlers it asks for, on the item, call or query it is about, however
  tasks, handlers, nested calls and ends interleave.
- `feed`, `rsocket`: a consumer is never left with a verdict of a connection that
  is over, over either transport; `rsocket` adds that tasks which reset, open and
  close one connection under each other do not open two and do not block each
  other for good.
- `token`: sharing a refresh strands nobody and yields no token known to be bad.
- `mcp`, `filter`, `rewriting`: what a client is shown, what is left of a value,
  and which rows a query touches is what the policy says, against references that
  are defined independently of how the code computes them.
- `frameworks`: the order of steps in every decorator, and the state they share
  across threads, never serve a request the PDP did not permit.

**Bounds.** *stream*: 3 decisions and 2 items, with markers and pausing on. Three
decisions open the gate, shut it and open it again, which stops a RAP task and
starts the next while the first still unwinds; two items among them hold every order
of an item and the decisions around it. The other settings of the flags are covered
by the theorems, which hold for all of them. *planner*: 2 providers, a void and a
data signal, decisions with up to 2 constraints: two claims of one constraint, and
two mappers of one priority within and across obligations, are the cases the code
distinguishes. Claims come from a library of eleven that has every shape and every
way to be ill-formed. *oneshot*: depth 2, which is what restoring an enclosing plan
takes; 1 provider; up to 2 obligations over every signal; an asynchronous client,
the only kind the packages ship. *feed*: 2 subscriptions, 2 verdicts, 2 frames under
way, overflow at exponent 2, so that a stream reconnects, reconnects again, and
overflows. *token*: 3 requests, the least with one that creates a refresh, one that
shares it with the lock in hand, and one that waits for the lock; one of them may be
cancelled, at any point; 2 tokens may be rejected, which takes a request to the end
of its retry. *rsocket*: 1 stream of 2 subscriptions, 1 one-shot request and 1
`close()`, one decision in flight, 4 connections that matter at one time (one more
than there are tasks): each task can lose, reset and replace the connection of the
others; at most one socket of a failed connect is open at one time. *rsocket_leak*:
a stream and 2 requests, the three tasks the leak takes, and no connect that leaves
its socket behind, so that the leak it finds is the race. *mcp*: 2 components, the
least that can share an identifier or replace each other, in 4 configurations under
6 answers. *filter*: 7 documents (flat, nested, lists of texts, lists of objects,
names below the same name, an empty list), every path of 1 or 2 steps over 6 kinds
of step and a rejected one, one of 3 steps, up to 2 actions, 6 lists of conditions.
*rewriting*: 2 columns with 2 values and NULL (nine rows, enough to tell every
operator and both readings of NULL apart), criteria of up to 2 entries and 3 levels
with every way to be malformed, up to three conditions, one of them with two ORs,
every kind of statement, 6 deployments, two of them with two shims. *frameworks*: 2
requests, one of any kind and one that is synchronous, on a thread of its own; 2
clients and 1 registered provider; Django's client is closed only while every live
request can configure another (otherwise a request would wait for a bound), and the
transaction provider is set before there are requests, which read it once.

`CHECK_DEADLOCK FALSE` is set where the system may rest: a generator that
ended, a decision enforced at every signal, a client waiting for the server, a
request that was answered, a handler that returned.

**Fairness.** *stream*: weak fairness of the driver, of cancelled tasks and of
created tasks: the event loop runs what is ready. The subscriber either asks for
more or closes. A cancelled iterator ends in time, whatever it yields before;
nothing else is owed by the PDP or by the protected iterator.
*feed*: weak fairness of reading what arrived, of timers (`TimesOut` on a silent
connection, `Wakes`), of the generator's own steps, and of a consumer that keeps
iterating, as `_pump_pdp` does, which puts every decision on an unbounded queue.
Nothing is owed by server or network. *token*: weak fairness of the tasks that
can go on, of the PDP's answer (a timeout counts as one) and of the end of a
refresh, each of which `httpx` bounds by its timeouts; a refresh need never
succeed, and nothing is owed by the PDP beyond that. *rsocket*: weak fairness of
each task that can go on (the lock is first come, first served; a socket
connects or fails to; a request is bounded by its timeout) and of reading what
is in a stream's queue, by a consumer that keeps iterating. Nothing is owed by
the server: a connection that goes silent after its first decision is never
noticed by its stream, and `OutageIsShown` speaks of connections that are over.
The other runs check safety only.

## 4. Proofs

All theorems hold for every value of the constants that satisfies the module's
named assumption, which TLC also evaluates in the runs. Three theorems have a
hypothesis more, said below.

*StreamPipelineProofs* (`StreamTypeOK`, `StreamInvariant`,
`StreamNoForgottenRap`, `StreamPaused`, `StreamNeverStranded`, `StreamJudged`,
`StreamImplementsView`). The invariants checked by TLC are not inductive: which
plan judges an item depends on what is still queued. `IInv` adds that the
decision numbers and the items on the queue are in order, each item carrying the
number of the last decision before it, starting from the plan in force; that a
RAP task which ended has announced it on the queue or was cancelled; and what
the driver's position says about the machine. That the plan in force is the one
of a decision the PDP sent, which `StreamTypeOK` adds to the types, follows from
it.

*EnforcementProofs*, the plan (`PlanSorts`, `ExecuteRunsAll`, `PlanTypeCorrect`,
`PlanFailsClosed`, `PlanRunsInOrder`, `PlanSkipsNothing`, `PlanIgnoresAdvice`).
First the operators. Of a finite set of entries no two of which have one key
(`Sortable`), the number of those that come before an entry is its place, so
`Sorted` lists each once and in order (`Sorts`); what a decision resolves to is
such a set, and so is what is left of it with the displaced mappers replaced
(`PlacedIsSortable`). What `Execute` does to a list of any length is an induction
on the entries it has seen (`Progress`: which of them ran, in which order, whether
the value is gone, and that the result is failed exactly if an obligation's entry
raised), carried out over `0..n` by its least counterexample, because the
library's induction rules are out of the prover's reach. Then the specification:
`PlanInv` says that the plan is the decision's and that every result is such a
progress over its whole list, and the five properties follow from it.
`PlanSkipsNothing` assumes `HonestClaims`: a handler that takes a signal for one
that carries a value is planned and then skipped without a failure. The lemma
`AllDischarged` is what holds without the assumption.

*EnforcementProofs*, the calls (`OneShotInvariant`, `OneShotTypeOK`,
`OneShotContext`, `OneShotGrants`, `OneShotDischarges`, `OneShotQueries`,
`OneShotValues`). The context is innermost because the tokens on the stack form a
chain: the token of a running pre-enforced frame is the plan in force just outside
it. That chain is the strengthening; a return, denial, exception or cancellation
pops one link. The second invariant, `JInv`, says what a call knows that was
granted: its plan is that of a PERMIT, every obligation of the decision resolves and
no mappers of it clash (`Faultless`, which a decision signal without a failure
implies, by the lemmas about plans), each signal that fired discharged what it had
to, and queries and values went through exactly the decision's mappers.
`OneShotDischarges` assumes `DecisionCarriesNothing`, for the reason
`PlanSkipsNothing` has its assumption; at the other signals a value that is missing
counts as one that was dropped.

*HttpPdpStreamProofs* (`HttpStreamInvariant`, `HttpStreamTypeOK`,
`HttpStreamFollowsServer`, `HttpStreamKeepsThePromise`). `FollowsServer` speaks
of an empty wire; `InTransit` generalises it: for each subscription, the last
word of the server is either on the wire with nothing about it behind, or held
by the consumer. `LastIsShown` is why suppressing a repeat is safe, and
`SeedsAreShown` why all verdicts are gone when the seeds are done. With these,
every step of the stream is a step of `PdpFeed` or stutters.

*TokenProviderProofs* (`TokenInvariant`, `TokenTypeOK`, `TokenPostsFresh`,
`TokenNoOrphan`). That a
request posts no token it could know to be rejected rests on an order in time:
only tokens of refreshes that are over are ever rejected (`OverIn`), and whoever
waits joined a refresh that was not over, or created one. The invariant keeps
this for each request (`RequestIsGood`) and for the cached token (`Usable`); one
lemma (`RequestStep`) says what any step of a request must preserve, and each
action is shown to be such a step. `TokenNoOrphan` is about steps alone
(`WaitersStay`): no step takes a waiter from a refresh that runs, because waiters
leave only when it is over, or cancel it.

*RsocketPdpClientProofs* (`RsocketInvariant`, `ConnectionCorrect`,
`RsocketKeepsThePromise`). `LinkInv` says that whoever opens a connection, and a
`close()` that awaits, is at the head of the lock, and that there is no client
while one is opened; a reset, which holds no lock, can only take a connection
away, which none of this minds. `ShownInv` ties `last_emitted` to what the
consumer has, so that suppressing a fallback as a repetition is safe. The
refinement assumes `FallbackSpeaksOfAll`: a `multi_decide` stream has only one
subscription, because the code's fallback names only the first (section 5). What
the lock does not protect is shown by `rsocket_leak`.

*McpMiddlewareProofs* (`McpInvariant`, `ListingCorrect`, `DeniedIsDenied`,
`FinalizeCalledOnce`). The invariant says of every stage what the request has got
so far (`Timeline`), where an access that is not permitted cannot be
(`DeniedInv`), and that no two components a listing asks about share an
identifier (`SubscribedInv`), so that a verdict cannot be taken for another's.

*FrameworksProofs* (`RegistryHolds`, `RegisteredIsSeen`, `DecisionHolds`,
`ServingIsPermitted`, `DeniedLeavesNothing`, `UserIsTheSubject`, `RequestsHold`).
`SeesWhatWasRegistered` follows from an invariant of the registry: the planner is
built from all the registered providers, which no configuration, close or
reconfiguration takes away, so whatever a request remembers from its arrival is
among them. `ServedIsPermitted` follows from an invariant of the programs: in each
of them planning comes before running, serving or handling (`ProgramsAreOrdered`, by
looking at all thirteen), and a request past that step holds a PERMIT the PDP gave
to it and a planner with one provider for each obligation it listed.
`DeniedIsRolledBack` rests on the order as well: once the scope was left no step
denies (`ProgramsSettleLast`), so at a denial nothing is committed yet; a commit
that fails is an error, not a denial. `RequestsHold` adds the types: of the runtime,
of the pools, which are replaced, closed and forgotten under the requests that use
them, and of what each request holds. The proofs hold for any number of requests,
threads, clients and providers, and for any answers of the PDP.

*ObligationProofs*, the queries (`CriterionIsSound`, `RewritingInvariant`,
`CallHolds`, `RewritingNarrows`, `RewritingObeys`). A criterion is a tree of any
depth, and `Within`, `Fragment` and `Holds` are recursive functions over the
criteria; that such a function exists is proved once for all three (`TreeRecursion`,
by approximating it one level of nesting at a time), and what is said of every
criterion is proved from the least deep one it would fail for (`TreeInduction`).
`CriterionIsSound` is the heart: what a store makes of a criterion its provider can
read through and through selects only rows of which the criterion holds, although
the three stores differ in what a comparison with NULL means. The inductive
invariant says of the call that what is sent is the query as issued, or what the
mapper of the planned store makes of it if the query got to its hook.
`RewritingNarrows` needs nothing of the obligation, not even that it be well formed,
but that SQLAlchemy gets no textual condition with an OR outside parentheses: only
then is what `Joined` makes of them an intersection (`JoinedIs`). `RewritingObeys`
needs the same.

*ObligationProofs*, the content filter (`FilterHandles`, `FilterRedacts`), for
documents of any size and shape and paths of any length. Three facts about the
operators carry it. The slots of a path lead to exactly the nodes it addresses
(`SlotsFind`): what the code finds depth first, in order and possibly twice, is what
`Addressed` says over sets; a path without wildcards and descents has at most one.
The trees of different elements of the document share nothing (`TreesApart`), so an
action on one element leaves the others as they were. And after all the slots of an
action were changed in turn, what is left of the parts of every container is what it
had, less what is gone (`ChangedPartsLeft`). The last is where order matters: a slot
that was resolved earlier still means what it meant, unless its list lost another
element before, and hence the exception in the property. An action may also change a
container that was itself taken out by the slot before, which the proof shows to be
harmless. `Tree`, `Descent` and the slots are unfolded by one lemma each; what is
said of all nodes is proved from the last one, because a container comes before its
parts. The inductive invariant `FilterInv` adds to the types that a container only
ever loses parts or has them redacted, that an element no action has reached agrees
with the caller's, and that an element the handler is done with was judged as the
caller passed it. Without the second, a later element's conditions could be judged
by what an earlier one's actions left.

**Model-checked only.** Liveness (`DenialEndsStream`, `TasksReleased`,
`OutageIsShown`, `EveryRequestEnds`, `RequestsEnd`), which is beyond the prover.
Every invariant and every other action property of a run that passes is a theorem.
The exact text a blackening leaves is neither modelled nor proved.

## 5. Where code and documentation disagree

Shown by a run, with the lines quoted in `PROJECT.json`:

1. Two tasks that reset the RSocket connection and a third that opens the next one
   leave an open connection nobody refers to (`rsocket_leak`).
2. `delete` on a path that ends in `[*]` leaves every second element of a list
   (`filter_delete`).

Met while modelling and part of the models as the code has it, so that the
properties above are true of it; not the subject of a run:

- *Stream*: a permit handled after the protected iterator finished, and before its
  end is taken off the queue, calls the protected method again (`pipeline.py:171`),
  although only `pause_rap_during_suspend` is documented to re-subscribe.
- *One-shot*: a value that an output mapper drops is released unmapped
  (`enforce.py:144`, against `plan.py:14`); `post_enforce` does not put its plan in
  the context (`enforce.py:168`, against `request_context.py:3`).
- *HTTP*: the inactivity window does not cover the wait for the response's headers
  (`http_pdp_client.py:553`, against `constants.py:40`); an unreadable frame leaves
  the last verdict standing (`:525`, against `pdp_client.py:9`).
- *HTTP and RSocket*: the backoff ends a stream with an `OverflowError` after 1024
  failed attempts in a row (`http_pdp_client.py:212`, `rsocket_pdp_client.py:123`,
  against "never terminates"); what a token provider raises leaves the client's
  methods (`http_pdp_client.py:463`, `rsocket_pdp_client.py:290`, against
  `pdp_client.py:9`).
- *Token*: two refreshes can be in flight (`oauth2.py:108`, against `:83`).
- *RSocket*: the fallback of `multi_decide` names the first subscription only
  (`:225`, against `pdp_client.py:13`); a stream reconnects after `close()` (`:330`
  says it ends when the client is disposed); after the first decision nothing bounds
  the wait (`:349`); a cancellation during a reset is swallowed (`:259`); a connect
  that fails or is cancelled between its socket and its client leaves the socket
  open (`:284`, against `pdp_client.py:87`); a number that is none escapes the
  decoder (`sapl_proto_codec.py:190`).
- *MCP*: a value an output handler changed in place is sent in the wrapper it came
  in (`middleware.py:313`); the component that runs may be another than the one that
  was authorized (`:237`).
- *Content filter*: a condition that cannot be evaluated (unlike types, an unsafe or
  invalid pattern, an unknown operator) counts as not met, so a filter leaves the
  element unredacted (`content_filter.py:436`, `:448`, against "unevaluable
  condition" in `:26`).
- *Query rewriting*: SQLAlchemy's provider joins textual conditions to each other
  and to the method's WHERE as they stand, so one with an OR outside parentheses
  widens the query: `a OR b` becomes `own AND a OR b`
  (`sapl_sqlalchemy/providers.py:166`, against "never widening it" in
  `sapl_sqlalchemy/README.md:20`). `rewriting` has such conditions; without its
  hypothesis `ConditionsKeepTogether`, `NarrowsOnly` fails there within one call.
  MongoDB's provider leaves malformed leaves out, which widens an `and` group
  (`providers.py:126`); Django's `!=` and `notLike` select rows with NULL where
  SQLAlchemy's do not; a combined query keeps its columns, because its component
  queries are not projected (`orm_providers.py:181`, against `:22`); collection
  methods the proxies hand through run unfiltered (`shim.py:114`).
- *Runtime and frameworks*: a client that is replaced is never closed
  (`runtime.py:58`); a client may forget a pool another thread just built
  (`http_pdp_client.py:424`); obligations that are no list are left out of a PERMIT
  (`:153`); handlers for input and output are accepted and not run by Django's
  consumer (`consumers.py:62`); an authenticated user without a username yields to
  the claims of a token (`django/subscription.py:143`).

## 6. What is not modelled

*Within the modelled components*: the text of decisions, values, subscriptions
and log messages; the argument values an input mapper returns; a decision whose
constraint field is not a list (except in `Frameworks`); the byte framing of SSE
and RSocket (a frame arrives whole or not at all; what is not a frame is
`Garbled`; a keep-alive is a silence that ends in time); a server that answers
the multi-decide-all route with part of the subscriptions over HTTP; a
rollback that fails; a replacement that is an object or a list, in which a later
action could find something; shims that are unregistered while requests run; the
characters of paths, patterns and queries; the options of a blackening other than
how much it discloses; the SSE text streams are written as; the state of a
WebSocket besides its messages.

*Components left out for good*: TLS and logging helpers, Django's middleware, app
and template tags (data or hooks without control), generated protobuf code.

## 7. Plan

Done: the stream pipeline, planner and plan execution, one-shot enforcement, the
HTTP stream, the token provider, the RSocket client, the MCP middleware, the
content filter, query rewriting, the runtime under the four frameworks.

Left, by weight:

1. Composition: `StreamPipeline` fed by a stream that only keeps `PdpFeed`'s
   promise, so that an outage shuts the gate.
2. Shims that are registered and unregistered at run time, in `OneShot`.

## 8. Running

    tlc -config stream.cfg StreamPipeline.tla
    tlc -config rsocket.cfg MCRsocketPdpClient.tla
    tlapm StreamPipelineProofs.tla

A run's module is the `MC` module where there is one; `PROJECT.json` lists them.
