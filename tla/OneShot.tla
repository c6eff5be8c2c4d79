-------------------------------- MODULE OneShot --------------------------------
(***************************************************************************)
(* One-shot enforcement: pre_enforce, post_enforce and their blocking      *)
(* counterparts (sapl_base/pep/enforce.py) around protected methods that   *)
(* call other protected methods, run queries that an ORM shim intercepts,  *)
(* and write inside the transaction scope of their call                    *)
(* (pep/transaction.py, pep/request_context.py).                           *)
(*                                                                         *)
(* One task is modelled: its calls form a stack, and an action is what the *)
(* task does between two suspensions, or between two steps of the          *)
(* protected method.  Every task has its own context variable, so tasks do *)
(* not meet in this code.  A value is the mapper entries it went through,  *)
(* whether the method or the decision's resource supplied it.              *)
(***************************************************************************)
EXTENDS Planner

CONSTANTS
    ClientIsAsync,  (* decide_once of the client is to be awaited             *)
    MaxDepth        (* bound on the depth of nested protected calls           *)

ASSUME OneShotAssumption == ClientIsAsync \in BOOLEAN /\ MaxDepth \in Nat \ {0}

INPUT  == "input"
OUTPUT == "output"
ERROR  == "error"
QUERY  == "query"       \* the signal a registered ORM shim contributes

PRE_ENFORCE_SUPPORTED  == {DECISION, INPUT, OUTPUT, ERROR, QUERY}
POST_ENFORCE_SUPPORTED == {DECISION, OUTPUT, ERROR}

VARIABLES
    stack,      (* the protected calls in progress, the innermost last       *)
    context,    (* _current_plan: the frame whose plan it is, or 0 for None  *)
    outcome     (* how the call that ended last ended                        *)

vars == <<stack, context, outcome>>

Pre      == {"pre", "pre_blocking"}
Post     == {"post", "post_blocking"}
Blocking == {"pre_blocking", "post_blocking"}
Kinds    == Pre \cup Post

Stages   == {"deciding", "running", "authorizing", "committing"}
Outcomes == {"none", "released", "denied", "failed", "cancelled"}

\* A call.  "decided" and "plan" are set once there is a decision; "token" is the context
\* to restore; "value" is what the caller will get; "query" is the method's last query.
\* "ran" and "dropped" are history: the entries that ran for the call, and the signals
\* whose value a mapper dropped.
Frame(kind, stage) ==
    [kind |-> kind, stage |-> stage, token |-> 0,
     decided |-> [verb |-> "none", obligations |-> <<>>, advice |-> <<>>], plan |-> <<>>,
     value |-> <<>>, ran |-> {}, dropped |-> {},
     query |-> [ran |-> FALSE, mapped |-> <<>>]]

Init ==
    /\ stack = <<>>
    /\ context = 0
    /\ outcome = "none"

Depth == Len(stack)
Top   == stack[Depth]

At(kinds, stage) == Depth > 0 /\ Top.kind \in kinds /\ Top.stage = stage

\* What executing a plan at a signal may give; without entries nothing changes.
Results(plan, signal, priorFailure) ==
    {Execute(plan, signal, handlers, priorFailure) :
        handlers \in [DOMAIN plan[signal] -> Behaviours]}

Dropped(signal, result) == IF result.absent THEN {signal} ELSE {}

\* The call is over, with a value or an exception; its transaction scope ends with it.
Leave(how) ==
    /\ stack' = Front(stack)
    /\ outcome' = how

Stay(frame) ==
    /\ stack' = [stack EXCEPT ![Depth] = frame]
    /\ UNCHANGED outcome

\* Mutants: the context is left as it is, or cleared, when the method is over.
RestoredNever   == context
RestoredToNone  == IF Top.kind \in Pre /\ Top.stage = "running" THEN 0 ELSE context

\* reset_current_plan in the finally clause around the method of a pre-enforced call.
Restored == IF Top.kind \in Pre /\ Top.stage = "running" THEN Top.token ELSE context

-----------------------------------------------------------------------------
(* Calls and decisions                                                     *)

\* A blocking method can only make blocking calls.
Call(kind) ==
    /\ Depth < MaxDepth
    /\ Depth > 0 => /\ Top.stage = "running"
                    /\ Top.kind \in Blocking => kind \in Blocking
    /\ stack' = Append(stack, Frame(kind, IF kind \in Pre THEN "deciding" ELSE "running"))
    /\ UNCHANGED <<context, outcome>>

\* _decide_blocking drives an asynchronous client with asyncio.run, which refuses to run
\* inside the event loop of an asynchronous call further out.  What a synchronous client
\* returns passes through there, and is nothing an asynchronous call could await.
LoopIsRunning == \E k \in 1..(Depth - 1) : stack[k].kind \notin Blocking

CanDecide == IF Top.kind \in Blocking THEN ClientIsAsync => ~LoopIsRunning ELSE ClientIsAsync

DecisionFails ==
    /\ At(Pre, "deciding") \/ At(Post, "authorizing")
    /\ Leave("failed")
    /\ UNCHANGED context

\* Mutant: the input handlers start from a clean slate.
PreDecidesForgetful(decided) ==
    /\ At(Pre, "deciding")
    /\ CanDecide
    /\ LET plan == PlanFor(decided, PRE_ENFORCE_SUPPORTED)
       IN  \E atDecision \in Results(plan, DECISION, FALSE) :
           \E atInput \in Results(plan, INPUT, FALSE) :
             IF decided.verb # "PERMIT" \/ atInput.failed
             THEN Leave("denied") /\ UNCHANGED context
             ELSE /\ Stay([Top EXCEPT !.stage = "running", !.decided = decided,
                                      !.plan = plan, !.token = context,
                                      !.ran = ToSet(atDecision.ran \o atInput.ran),
                                      !.dropped = Dropped(INPUT, atInput)])
                  /\ context' = Depth

\* Decision and input handlers run whatever the verb; then the call is denied or begins.
PreDecides(decided) ==
    /\ At(Pre, "deciding")
    /\ CanDecide
    /\ LET plan == PlanFor(decided, PRE_ENFORCE_SUPPORTED)
       IN  \E atDecision \in Results(plan, DECISION, FALSE) :
           \E atInput \in Results(plan, INPUT, atDecision.failed) :
             IF decided.verb # "PERMIT" \/ atInput.failed
             THEN Leave("denied") /\ UNCHANGED context
             ELSE /\ Stay([Top EXCEPT !.stage = "running", !.decided = decided,
                                      !.plan = plan, !.token = context,
                                      !.ran = ToSet(atDecision.ran \o atInput.ran),
                                      !.dropped = Dropped(INPUT, atInput)])
                  /\ context' = Depth

-----------------------------------------------------------------------------
(* The protected method                                                    *)

\* Mutant: a failed query obligation does not keep the query from running.
MethodQueriesAnyway ==
    /\ At(Kinds, "running")
    /\ \E result \in IF context = 0 THEN {Outset(QUERY, FALSE)}
                     ELSE Results(stack[context].plan, QUERY, FALSE) :
         Stay([Top EXCEPT !.query =
                 IF result.absent THEN [ran |-> FALSE, mapped |-> <<>>]
                 ELSE [ran |-> TRUE, mapped |-> result.mapped]])
    /\ UNCHANGED context

\* The shim's listener: it discharges the query signal of the plan in the context, and
\* denies by raising inside the method, which may go on without the query.
MethodQueries ==
    /\ At(Kinds, "running")
    /\ \E result \in IF context = 0 THEN {Outset(QUERY, FALSE)}
                     ELSE Results(stack[context].plan, QUERY, FALSE) :
         Stay([Top EXCEPT !.query =
                 IF result.failed \/ result.absent THEN [ran |-> FALSE, mapped |-> <<>>]
                 ELSE [ran |-> TRUE, mapped |-> result.mapped]])
    /\ UNCHANGED context

\* Mutant: the mapped value is not assigned to the result.
AcceptUnmapped(frame, atOutput) ==
    Stay([frame EXCEPT !.stage = "committing",
                       !.ran = @ \cup ToSet(atOutput.ran),
                       !.dropped = @ \cup Dropped(OUTPUT, atOutput)])

\* A value dropped by a mapper leaves the unmapped one in place.
Accept(frame, atOutput) ==
    Stay([frame EXCEPT !.stage = "committing",
                       !.value = IF atOutput.absent THEN <<>> ELSE atOutput.mapped,
                       !.ran = @ \cup ToSet(atOutput.ran),
                       !.dropped = @ \cup Dropped(OUTPUT, atOutput)])

DischargeOutput(frame) ==
    \E atOutput \in Results(frame.plan, OUTPUT, FALSE) :
        IF atOutput.failed THEN Leave("denied") ELSE Accept(frame, atOutput)

PreMethodReturns ==
    /\ At(Pre, "running")
    /\ DischargeOutput(Top)
    /\ context' = Restored

PostMethodReturns ==
    /\ At(Post, "running")
    /\ Stay([Top EXCEPT !.stage = "authorizing"])
    /\ UNCHANGED context

\* A failing error obligation turns the exception into a denial.
MethodRaises ==
    /\ At(Kinds, "running")
    /\ IF Top.kind \in Pre
       THEN \E atError \in Results(Top.plan, ERROR, FALSE) :
              Leave(IF atError.failed THEN "denied" ELSE "failed")
       ELSE Leave("failed")
    /\ context' = Restored

PostDecides(decided) ==
    /\ At(Post, "authorizing")
    /\ CanDecide
    /\ LET plan == PlanFor(decided, POST_ENFORCE_SUPPORTED)
       IN  \E atDecision \in Results(plan, DECISION, FALSE) :
             IF decided.verb # "PERMIT" \/ atDecision.failed
             THEN Leave("denied")
             ELSE DischargeOutput([Top EXCEPT !.decided = decided, !.plan = plan,
                                              !.ran = ToSet(atDecision.ran)])
    /\ UNCHANGED context

-----------------------------------------------------------------------------
(* The end of a call                                                       *)

\* The transaction scope exits cleanly, and commits, or fails to.
Commits(how) ==
    /\ At(Kinds, "committing")
    /\ Leave(how)
    /\ UNCHANGED context

\* CancelledError at an await; it is no Exception, so no error handler runs.
IsCancelled ==
    /\ Depth > 0
    /\ Top.kind \notin Blocking
    /\ Leave("cancelled")
    /\ context' = Restored

Next ==
    \/ \E kind \in Kinds : Call(kind)
    \/ \E decided \in Decisions : PreDecides(decided) \/ PostDecides(decided)
    \/ DecisionFails
    \/ MethodQueries
    \/ PreMethodReturns
    \/ PostMethodReturns
    \/ MethodRaises
    \/ \E how \in {"released", "failed"} : Commits(how)
    \/ IsCancelled

Spec == Init /\ [][Next]_vars
-----------------------------------------------------------------------------
(* Properties                                                              *)

(* The type invariant of the call stack; only the innermost call is not    *)
(* running its method, and a token is the frame of an enclosing call.      *)
TypeOK ==
    /\ Depth \in 0..MaxDepth
    /\ \A k \in 1..Depth :
          /\ stack[k].kind \in Kinds
          /\ stack[k].stage \in Stages
          /\ stack[k].token \in 0..(k - 1)
          /\ k < Depth => stack[k].stage = "running"
    /\ context \in 0..Depth
    /\ outcome \in Outcomes

\* The pre-enforced calls whose method is running, at or outside frame k.
Enclosing(k) == {h \in 1..k : stack[h].kind \in Pre /\ stack[h].stage = "running"}

\* The innermost of them, or 0.
PlanInForce(c, k) == c \in Enclosing(k) \cup {0} /\ \A h \in Enclosing(k) : h <= c

(* The plan a shim sees is that of the innermost pre-enforced call whose   *)
(* method runs, and none when there is none, however calls nested inside   *)
(* it returned, were denied, raised or were cancelled.                     *)
ContextIsInnermost == PlanInForce(context, Depth)

\* Every handler the obligations of a decision need at these signals ran, or would have
\* seen a value that was dropped, and nothing else was asked for.
Discharged(frame, supported, signals) ==
    \A k \in DOMAIN frame.decided.obligations :
      \E p \in Providers :
        /\ Claimants(frame.decided.obligations[k]) = {p}
        /\ \A place \in DOMAIN frame.decided.obligations[k][p] :
             LET triple == frame.decided.obligations[k][p][place]
             IN  /\ triple.signal \in supported
                 /\ \/ triple.signal \notin signals
                    \/ Entry(triple, "obligation", k, place) \in frame.ran
                    \/ triple.signal \in frame.dropped /\ triple.shape # "runner"

(* A protected method runs under pre_enforce only after a PERMIT all of    *)
(* whose decision and input obligations were discharged, and a call is     *)
(* committed and released only when its output obligations were as well:   *)
(* no failure of an earlier signal is forgotten at a later one.            *)
DischargedBeforeUse ==
    \A k \in 1..Depth :
      LET frame == stack[k]
      IN  /\ frame.kind \in Pre /\ frame.stage \in {"running", "committing"}
             => /\ frame.decided.verb = "PERMIT"
                /\ Discharged(frame, PRE_ENFORCE_SUPPORTED, {DECISION, INPUT})
          /\ frame.stage = "committing"
             => /\ frame.decided.verb = "PERMIT"
                /\ Discharged(frame, IF frame.kind \in Pre THEN PRE_ENFORCE_SUPPORTED
                                     ELSE POST_ENFORCE_SUPPORTED,
                              {DECISION, OUTPUT})

\* The mappers a decision's obligations schedule at a signal.
MappersFor(decided, signal) ==
    UNION {{e \in Scheduled(SoleClaim(decided.obligations[k]), "obligation", k) :
              e.signal = signal /\ e.shape = "mapper"} :
              k \in DOMAIN decided.obligations}

(* A query that runs went through every query mapper of the innermost      *)
(* pre-enforced call around it, its own or an enclosing one, and through   *)
(* none of any other call's (the shims' listeners).                        *)
QueriesRewritten ==
    \A k \in 1..Depth, c \in 0..Depth :
      stack[k].stage = "running" /\ stack[k].query.ran /\ PlanInForce(c, k) =>
        ToSet(stack[k].query.mapped) =
          IF c = 0 THEN {} ELSE MappersFor(stack[c].decided, QUERY)

(* A released value went through every output mapper of its decision,      *)
(* unless one of them dropped it.                                          *)
ValueMapped ==
    \A k \in 1..Depth :
      stack[k].stage = "committing" /\ OUTPUT \notin stack[k].dropped =>
        ToSet(stack[k].value) = MappersFor(stack[k].decided, OUTPUT)
=============================================================================
