----------------------------- MODULE StreamPipeline -----------------------------
(***************************************************************************)
(* The streaming enforcement point: run_pipeline of                        *)
(* sapl_base/pep/streaming/pipeline.py.  One asyncio event loop runs       *)
(*   - the PDP pump, which classifies every decision into a state machine  *)
(*     event and puts it on an unbounded FIFO queue,                       *)
(*   - the pumps of the RAP (the protected method's iterator), at most one *)
(*     of which the driver refers to as rap_task,                          *)
(*   - the driver, an async generator that takes one message at a time,    *)
(*     steps the Mealy machine, yields to the subscriber and manages the   *)
(*     RAP task.                                                           *)
(* Tasks switch only where a coroutine suspends: the driver suspends when  *)
(* the queue is empty ("waiting") and at a yield ("yielding"); while it is *)
(* "running" no pump moves.                                                *)
(***************************************************************************)
EXTENDS Naturals, Sequences, Mealy

CONSTANTS
    MaxDecisions,       (* bound on the decisions the PDP sends                 *)
    MaxItems,           (* bound on the items all RAP iterators produce         *)
    SignalTransitions,  (* the signal_transitions flag                          *)
    PauseRap            (* the pause_rap_during_suspend flag                    *)

ASSUME StreamAssumption ==
    /\ MaxDecisions \in Nat
    /\ MaxItems \in Nat
    /\ SignalTransitions \in BOOLEAN
    /\ PauseRap \in BOOLEAN

VARIABLES
    fsm,        (* the Mealy state the driver holds                             *)
    queue,      (* the asyncio.Queue shared by pumps and driver                 *)
    pdp,        (* the PDP pump task: "live", "cancelling" or "done"            *)
    received,   (* number of decisions put on the queue; numbers the plans      *)
    raps,       (* one status per RAP task ever created                         *)
    current,    (* rap_task: an index of raps, or 0 for None                    *)
    produced,   (* number of items put on the queue                             *)
    driver,     (* "waiting", "running", "yielding" or "ended"                  *)
    prior,      (* prior_state: the mode before the step whose emission is out  *)
    shown,      (* the last thing yielded to the subscriber                     *)
    outcome     (* how the generator ended                                      *)

vars == <<fsm, queue, pdp, received, raps, current, produced, driver, prior,
          shown, outcome>>

-----------------------------------------------------------------------------
(* Messages.  n is the decision number of a PDP event; for an item it is   *)
(* the number of decisions that were on the queue before it (a history     *)
(* value: the code does not carry it).                                     *)

Message(kind, n) == [kind |-> kind, n |-> n]

PdpKinds     == {"PdpPermit", "PdpSuspend", "PdpDeny"}
MessageKinds == PdpKinds \cup {"PdpEnd", "RapItem", "RapEnd", "RapError"}
Messages     == [kind : MessageKinds, n : Nat]

PdpStatus    == {"live", "cancelling", "done"}
\* "lost": the iterator itself raised CancelledError, so the task is done unannounced.
RapStatus    == {"created", "live", "cancelling", "done", "lost"}
DriverStatus == {"waiting", "running", "yielding", "ended"}
Shown        == {"nothing", "value", "granted", "suspended"}
Outcomes     == {"none", "complete", "denied", "failed", "closed"}

Verbs == {"PERMIT", "SUSPEND", "DENY", "INDETERMINATE", "NOT_APPLICABLE"}

Init ==
    /\ fsm = Pending
    /\ queue = <<>>
    /\ pdp = "live"
    /\ received = 0
    /\ raps = <<>>
    /\ current = 0
    /\ produced = 0
    /\ driver = "waiting"
    /\ prior = "Pending"
    /\ shown = "nothing"
    /\ outcome = "none"

-----------------------------------------------------------------------------
(* The PDP pump                                                            *)

\* A PERMIT whose decision-scoped obligations failed is a denial; a SUSPEND
\* suspends whether or not they failed.
Classify(verb, discharged) ==
    CASE verb = "PERMIT"  -> IF discharged THEN "PdpPermit" ELSE "PdpDeny"
      [] verb = "SUSPEND" -> "PdpSuspend"
      [] verb \notin {"PERMIT", "SUSPEND"} -> "PdpDeny"

PumpsMayRun == driver # "running"

PdpDecides(verb, discharged) ==
    /\ PumpsMayRun
    /\ pdp = "live"
    /\ received < MaxDecisions
    /\ received' = received + 1
    /\ queue' = Append(queue, Message(Classify(verb, discharged), received + 1))
    /\ UNCHANGED <<fsm, pdp, raps, current, produced, driver, prior, shown, outcome>>

\* The decision iterator ends.
PdpEnds ==
    /\ PumpsMayRun
    /\ pdp = "live"
    /\ pdp' = "done"
    /\ queue' = Append(queue, Message("PdpEnd", 0))
    /\ UNCHANGED <<fsm, received, raps, current, produced, driver, prior, shown, outcome>>

\* The decision iterator, or the planner, raises: an INDETERMINATE denial is queued.
PdpFails ==
    /\ PumpsMayRun
    /\ pdp = "live"
    /\ pdp' = "done"
    /\ received' = received + 1
    /\ queue' = Append(queue, Message("PdpDeny", received + 1))
    /\ UNCHANGED <<fsm, raps, current, produced, driver, prior, shown, outcome>>

\* A CancelledError out of the iterator itself: the pump dies without a message.
PdpDiesSilently ==
    /\ PumpsMayRun
    /\ pdp = "live"
    /\ pdp' = "done"
    /\ UNCHANGED <<fsm, queue, received, raps, current, produced, driver, prior,
                   shown, outcome>>

\* The cancelled pump unwinds; only an ended driver cancels it, nobody reads its queue.
PdpUnwinds ==
    /\ pdp = "cancelling"
    /\ pdp' = "done"
    /\ UNCHANGED <<fsm, queue, received, raps, current, produced, driver, prior,
                   shown, outcome>>

-----------------------------------------------------------------------------
(* The RAP pumps                                                           *)

RapTo(i, status) == raps' = [raps EXCEPT ![i] = status]

\* The created task runs for the first time: the protected method is called.
RapBegins(i) ==
    /\ PumpsMayRun
    /\ raps[i] = "created"
    /\ RapTo(i, "live")
    /\ UNCHANGED <<fsm, queue, pdp, received, current, produced, driver, prior,
                   shown, outcome>>

\* An iterator may swallow the cancellation and yield on.
RapYields(i) ==
    /\ PumpsMayRun
    /\ raps[i] \in {"live", "cancelling"}
    /\ produced < MaxItems
    /\ produced' = produced + 1
    /\ queue' = Append(queue, Message("RapItem", received))
    /\ UNCHANGED <<fsm, pdp, received, raps, current, driver, prior, shown, outcome>>

\* The iterator is exhausted ("RapEnd") or raises ("RapError"); a cancelled one
\* that swallows the cancellation, or raises while unwinding, does the same.
RapStops(i, kind) ==
    /\ PumpsMayRun
    /\ raps[i] \in {"live", "cancelling"}
    /\ RapTo(i, "done")
    /\ queue' = Append(queue, Message(kind, 0))
    /\ UNCHANGED <<fsm, pdp, received, current, produced, driver, prior, shown, outcome>>

\* CancelledError passes through _pump_rap without a message, whoever raised it.
RapUnwinds(i) ==
    /\ PumpsMayRun
    /\ raps[i] \in {"cancelling", "live"}
    /\ RapTo(i, IF raps[i] = "live" THEN "lost" ELSE "done")
    /\ UNCHANGED <<fsm, queue, pdp, received, current, produced, driver, prior,
                   shown, outcome>>

-----------------------------------------------------------------------------
(* RAP task management                                                     *)

Finished == {"done", "lost"}

\* Cancelling a task that never ran leaves it done without calling the method.
Cancelled(status) ==
    CASE status = "live"       -> "cancelling"
      [] status = "created"    -> "done"
      [] status \in {"cancelling", "done", "lost"} -> status

\* Mutant: the reference to the cancelled task is kept.
StopRapKeepsReference ==
    /\ raps' = IF current = 0 THEN raps ELSE [raps EXCEPT ![current] = Cancelled(@)]
    /\ current' = current

StopRap ==
    /\ raps' = IF current = 0 THEN raps ELSE [raps EXCEPT ![current] = Cancelled(@)]
    /\ current' = 0

\* Mutant: every permitted message starts a task, whatever the last one does.
EnsureRapStartedAlways ==
    /\ raps' = Append(raps, "created")
    /\ current' = Len(raps) + 1

\* Mutant: the reference is set to a task that was never created.
EnsureRapStartedUncreated ==
    IF current = 0 \/ raps[current] \in Finished
    THEN /\ current' = Len(raps) + 1
         /\ UNCHANGED raps
    ELSE UNCHANGED <<raps, current>>

NeedsRap == current # 0 => raps[current] \in Finished

EnsureRapStarted ==
    IF NeedsRap
    THEN /\ raps' = Append(raps, "created")
         /\ current' = Len(raps) + 1
    ELSE UNCHANGED <<raps, current>>

\* Mutant: the pause flag is forgotten.
ManageRapNeverPauses(priorMode, nextMode) ==
    \/ /\ nextMode = "Permitting"
       /\ EnsureRapStarted
    \/ /\ nextMode # "Permitting"
       /\ UNCHANGED <<raps, current>>

ManageRap(priorMode, nextMode) ==
    \/ /\ nextMode = "Permitting"
       /\ EnsureRapStarted
    \/ /\ PauseRap
       /\ nextMode = "Suspended"
       /\ priorMode # "Suspended"
       /\ StopRap
    \/ /\ nextMode # "Permitting"
       /\ ~(PauseRap /\ nextMode = "Suspended" /\ priorMode # "Suspended")
       /\ UNCHANGED <<raps, current>>

-----------------------------------------------------------------------------
(* The driver                                                              *)

\* Mutant: the finally block forgets the PDP pump.
EndWithPdpRunning(how) ==
    /\ driver' = "ended"
    /\ outcome' = how
    /\ pdp' = pdp
    /\ StopRap

\* The finally block: cancel the pump and the RAP task, without awaiting them.
EndWith(how) ==
    /\ driver' = "ended"
    /\ outcome' = how
    /\ pdp' = IF pdp = "live" THEN "cancelling" ELSE pdp
    /\ StopRap

\* Where the driver is once it asks an unread queue q for the next message.
AfterGet(q) == IF q = <<>> THEN "waiting" ELSE "running"

\* The rest of the loop body, before the next message is asked for: the RAP task is
\* managed, or rap_factory() raises out of the generator.
GoesOn(priorMode, nextMode, q) ==
    \/ /\ ManageRap(priorMode, nextMode)
       /\ driver' = AfterGet(q)
       /\ UNCHANGED <<pdp, outcome>>
    \/ /\ nextMode = "Permitting" /\ NeedsRap
       /\ EndWith("failed")

\* An item is discharged against the plan in force; outside Permitting it is dropped.
EnforcePerItem(result) ==
    IF fsm.mode # "Permitting" THEN "RapEpsilon"
    ELSE CASE result = "value"  -> "RapItem"
           [] result = "absent" -> "RapEpsilon"
           [] result = "failed" -> "RapObligationFailure"

DischargeResults == {"value", "absent", "failed"}

\* The event for a message; result is what discharging the item's output signal gives.
EventOf(m, result) ==
    CASE m.kind = "RapEnd"   -> Message("RapComplete", 0)
      [] m.kind = "RapItem"  -> Message(EnforcePerItem(result), m.n)
      [] m.kind \in PdpKinds -> m

\* What the subscriber sees of an emission; "nothing" means the driver runs on.
Rendered(emission) ==
    CASE emission = "Emit" -> "value"
      [] emission = "EmitGranted"   /\ SignalTransitions -> "granted"
      [] emission = "EmitSuspended" /\ SignalTransitions -> "suspended"
      [] emission = "None" \/ (emission \in {"EmitGranted", "EmitSuspended"}
                               /\ ~SignalTransitions) -> "nothing"

DriverMayRun == driver \in {"waiting", "running"} /\ queue # <<>>

DriverIgnoresPdpEnd ==
    /\ DriverMayRun
    /\ Head(queue).kind = "PdpEnd"
    /\ queue' = Tail(queue)
    /\ driver' = AfterGet(Tail(queue))
    /\ UNCHANGED <<fsm, pdp, received, raps, current, produced, prior, shown, outcome>>

DriverRaisesRapError ==
    /\ DriverMayRun
    /\ Head(queue).kind = "RapError"
    /\ queue' = Tail(queue)
    /\ EndWith("failed")
    /\ UNCHANGED <<fsm, received, produced, prior, shown>>

DriverSteps(result) ==
    /\ DriverMayRun
    /\ Head(queue).kind \notin {"PdpEnd", "RapError"}
    /\ queue' = Tail(queue)
    /\ LET taken == Step(fsm, EventOf(Head(queue), result))
       IN  /\ fsm' = taken.state
           /\ \/ /\ taken.emission \in {"EmitError", "EmitComplete"}
                 /\ EndWith(IF taken.emission = "EmitError" THEN "denied" ELSE "complete")
                 /\ UNCHANGED <<prior, shown>>
              \/ /\ taken.emission \notin {"EmitError", "EmitComplete"}
                 /\ Rendered(taken.emission) # "nothing"
                 /\ shown' = Rendered(taken.emission)
                 /\ prior' = fsm.mode
                 /\ driver' = "yielding"
                 /\ UNCHANGED <<pdp, raps, current, outcome>>
              \/ /\ taken.emission \notin {"EmitError", "EmitComplete"}
                 /\ Rendered(taken.emission) = "nothing"
                 /\ GoesOn(fsm.mode, taken.state.mode, Tail(queue))
                 /\ UNCHANGED <<prior, shown>>
    /\ UNCHANGED <<received, produced>>

\* The subscriber asks for more: the loop body finishes after the yield.
SubscriberResumes ==
    /\ driver = "yielding"
    /\ GoesOn(prior, fsm.mode, queue)
    /\ UNCHANGED <<fsm, queue, received, produced, prior, shown>>

\* The subscriber closes the generator at a yield, or its task is cancelled in queue.get.
SubscriberCloses ==
    /\ driver \in {"yielding", "waiting"}
    /\ EndWith("closed")
    /\ UNCHANGED <<fsm, queue, received, produced, prior, shown>>

-----------------------------------------------------------------------------
PdpNext ==
    \/ \E verb \in Verbs, discharged \in BOOLEAN : PdpDecides(verb, discharged)
    \/ PdpEnds
    \/ PdpFails
    \/ PdpDiesSilently
    \/ PdpUnwinds

RapNext ==
    \E i \in DOMAIN raps :
        \/ RapBegins(i)
        \/ RapYields(i)
        \/ \E kind \in {"RapEnd", "RapError"} : RapStops(i, kind)
        \/ RapUnwinds(i)

DriverNext ==
    \/ DriverIgnoresPdpEnd
    \/ DriverRaisesRapError
    \/ \E result \in DischargeResults : DriverSteps(result)

Next == PdpNext \/ RapNext \/ DriverNext \/ SubscriberResumes \/ SubscriberCloses

\* The event loop runs every ready task: the driver, cancelled tasks and started
\* RAP tasks move on.  A cancelled iterator ends, whatever it yields before; a subscriber
\* keeps iterating or closes; sources owe nothing else.
Fairness ==
    /\ WF_vars(DriverNext)
    /\ WF_vars(SubscriberResumes)
    /\ WF_vars(PdpUnwinds)
    /\ WF_vars(\E i \in DOMAIN raps : RapBegins(i))
    /\ WF_vars(\E i \in DOMAIN raps :
                 raps[i] = "cancelling" /\ (RapUnwinds(i) \/ RapStops(i, "RapError")))

Spec     == Init /\ [][Next]_vars
FairSpec == Spec /\ Fairness
-----------------------------------------------------------------------------
(* Properties                                                              *)

\* The types alone.
Typed ==
    /\ fsm \in MealyStates
    /\ queue \in Seq(Messages)
    /\ pdp \in PdpStatus
    /\ received \in Nat
    /\ raps \in Seq(RapStatus)
    /\ current \in 0..Len(raps)
    /\ produced \in Nat
    /\ driver \in DriverStatus
    /\ prior \in Modes
    /\ shown \in Shown
    /\ outcome \in Outcomes

(* Every variable keeps to its range, rap_task refers to a task that       *)
(* exists, and no plan is in force, or about to be, but that of a decision *)
(* which was received (the state's plan in run_pipeline).                  *)
TypeOK ==
    /\ Typed
    /\ fsm.mode = "Permitting" => fsm.plan \in 1..received
    /\ \A k \in DOMAIN queue : queue[k].kind \in PdpKinds => queue[k].n \in 1..received

(* A value the driver hands to the subscriber.                             *)
DeliversValue == driver # "yielding" /\ driver' = "yielding" /\ shown' = "value"

(* However pump, RAP and a slow subscriber interleave, an item is released *)
(* under exactly the plan of the last decision queued before the item was: *)
(* never under an older permit, and never past a suspension or denial that *)
(* preceded it (the queue and _enforce_per_item of run_pipeline).          *)
JudgedByDecisionInForce ==
    [][DeliversValue => /\ fsm.mode = "Permitting"
                        /\ Head(queue).n = fsm.plan]_vars

(* A RAP task that may still run uncancelled is the one rap_task refers    *)
(* to, and an ended driver refers to none: restarts, suspensions and every *)
(* way the generator ends leave no forgotten upstream (_ensure_rap_started,*)
(* _stop_rap and the finally block).                                       *)
NoForgottenRap ==
    /\ \A i \in DOMAIN raps : raps[i] \in {"created", "live"} => i = current
    /\ driver = "ended" => current = 0

(* With pause_rap_during_suspend, once the loop body that entered          *)
(* Suspended is over no RAP task stays referenced (_manage_rap).           *)
PausedWhileSuspended ==
    PauseRap /\ fsm.mode = "Suspended" /\ driver \in {"waiting", "running"}
        => current = 0

(* A permitted subscriber that waits on an empty queue has an upstream     *)
(* task that has not been told to stop and has not ended unprocessed: no   *)
(* interleaving of pauses, restarts and ends strands it.  Only an iterator *)
(* that raises CancelledError itself does (_pump_rap re-raises it).        *)
NeverStranded ==
    driver = "waiting" /\ queue = <<>> /\ fsm.mode = "Permitting"
        => current # 0 /\ raps[current] \in {"created", "live", "lost"}

(* The gate as the subscriber sees it: over once the generator ended.      *)
GateOfMode == [Pending    |-> "unopened", Permitting |-> "open",
               Suspended  |-> "shut",     Terminated |-> "over"]

Gate == IF driver = "ended" THEN "over" ELSE GateOfMode[fsm.mode]

View == INSTANCE EnforcedStream WITH Markers <- SignalTransitions, gate <- Gate

(* The pipeline gives its subscriber only what EnforcedStream allows: one  *)
(* marker per change of the gate, values only through an open gate, and    *)
(* nothing after the end (the emissions run_pipeline renders).             *)
SubscriberView == View!Spec

(* A denial on the queue ends the subscription, whatever is queued ahead   *)
(* of it, provided the subscriber keeps iterating.                         *)
DenialEndsStream ==
    (\E k \in DOMAIN queue : queue[k].kind = "PdpDeny") ~> driver = "ended"

(* After the generator ends the PDP subscription and every RAP task it     *)
(* started are eventually over (the finally block only cancels).           *)
TasksReleased ==
    driver = "ended" ~> (pdp = "done" /\ \A i \in DOMAIN raps : raps[i] \in Finished)
=============================================================================
