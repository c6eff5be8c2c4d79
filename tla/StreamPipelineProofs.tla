------------------------- MODULE StreamPipelineProofs -------------------------
(***************************************************************************)
(* Proofs about StreamPipeline, for every number of decisions and items    *)
(* and every setting of the flags.                                         *)
(***************************************************************************)
EXTENDS StreamPipeline, TLAPS

-----------------------------------------------------------------------------
(* Lemmas about the operators                                              *)

(* A step of the Mealy machine stays within states and emissions (step).   *)
LEMMA StepTyped ==
    ASSUME NEW state \in MealyStates, NEW event,
           event.kind \in EventKinds, event.n \in Nat
    PROVE  /\ Step(state, event).state \in MealyStates
           /\ Step(state, event).emission \in Emissions
  BY DEF Step, To, OnPdpPermit, OnPdpSuspend, OnPdpDeny, OnRapItem,
         OnRapObligationFailure, MealyStates, Modes, EventKinds, Emissions,
         Terminated, Suspended, Permitting

(* A message the driver steps on becomes an event of the machine, and the  *)
(* event of a PDP message is the message (the driver loop of run_pipeline).*)
LEMMA EventTyped ==
    ASSUME NEW m \in Messages, m.kind \notin {"PdpEnd", "RapError"},
           NEW result \in DischargeResults
    PROVE  /\ EventOf(m, result).kind \in EventKinds
           /\ EventOf(m, result).n \in Nat
           /\ m.kind \in PdpKinds => EventOf(m, result) = m
           /\ m.kind = "RapEnd" => EventOf(m, result).kind = "RapComplete"
           /\ m.kind = "RapItem" => EventOf(m, result).kind \in
                                       {"RapItem", "RapEpsilon", "RapObligationFailure"}
  BY DEF EventOf, Messages, MessageKinds, PdpKinds, Message, EnforcePerItem,
         DischargeResults, EventKinds

(* Appending to and taking from a queue, index by index.                   *)
LEMMA AppendAt ==
    ASSUME NEW S, NEW s \in Seq(S), NEW x \in S
    PROVE  /\ Append(s, x) \in Seq(S)
           /\ Len(Append(s, x)) = Len(s) + 1
           /\ \A k \in 1..Len(s) : Append(s, x)[k] = s[k]
           /\ Append(s, x)[Len(s) + 1] = x
  OBVIOUS

LEMMA TailAt ==
    ASSUME NEW S, NEW s \in Seq(S), s # <<>>
    PROVE  /\ Tail(s) \in Seq(S)
           /\ Head(s) = s[1] /\ Head(s) \in S
           /\ Len(Tail(s)) = Len(s) - 1
           /\ Len(s) \in Nat /\ Len(s) >= 1
           /\ \A k \in 1..(Len(s) - 1) : Tail(s)[k] = s[k + 1]
  OBVIOUS

(* What one step of the machine can do to a live subscription, by emission *)
(* and by event (the table step implements).                               *)
LEMMA StepFacts ==
    ASSUME NEW state \in MealyStates, state.mode # "Terminated",
           NEW event, event.kind \in EventKinds \ {"Cancel"}, event.n \in Nat,
           NEW taken, taken = Step(state, event)
    PROVE  /\ taken.emission = "Emit" =>
                 state.mode = "Permitting" /\ event.kind = "RapItem" /\ taken.state = state
           /\ taken.emission = "EmitGranted" =>
                 state.mode \in {"Pending", "Suspended"} /\ taken.state.mode = "Permitting"
           /\ taken.emission = "EmitSuspended" =>
                 state.mode \in {"Pending", "Permitting"} /\ taken.state.mode = "Suspended"
           /\ taken.emission \in {"EmitError", "EmitComplete"} => taken.state = Terminated
           /\ taken.emission = "None" => taken.state.mode = state.mode
           /\ event.kind = "PdpPermit" => taken.state = Permitting(event.n)
           /\ event.kind = "PdpSuspend" => taken.state = Suspended
           /\ event.kind = "PdpDeny" => taken.emission = "EmitError"
           /\ event.kind = "RapComplete" => taken.emission = "EmitComplete"
           /\ event.kind \notin PdpKinds /\ taken.state.mode = "Permitting"
                 => taken.state = state
  BY DEF Step, To, OnPdpPermit, OnPdpSuspend, OnPdpDeny, OnRapItem,
         OnRapObligationFailure, MealyStates, Modes, EventKinds, PdpKinds,
         Terminated, Suspended, Permitting

-----------------------------------------------------------------------------
(* The four ways a step of the driver goes on: the stream ends, a yield    *)
(* suspends the driver, or it runs on and manages the RAP task.            *)

StepEnds(taken) ==
    /\ taken.emission \in {"EmitError", "EmitComplete"}
    /\ EndWith(IF taken.emission = "EmitError" THEN "denied" ELSE "complete")
    /\ UNCHANGED <<prior, shown>>

StepYields(taken) ==
    /\ taken.emission \in {"Emit", "EmitGranted", "EmitSuspended"}
    /\ Rendered(taken.emission) # "nothing"
    /\ shown' = Rendered(taken.emission)
    /\ prior' = fsm.mode
    /\ driver' = "yielding"
    /\ UNCHANGED <<pdp, raps, current, outcome>>

StepRunsOn(taken) ==
    /\ taken.emission \in {"None", "EmitGranted", "EmitSuspended"}
    /\ Rendered(taken.emission) = "nothing"
    /\ ManageRap(fsm.mode, taken.state.mode)
    /\ driver' = AfterGet(Tail(queue))
    /\ UNCHANGED <<pdp, prior, shown, outcome>>

(* The fourth: rap_factory() raises where a task is needed.                *)
StepRaises == EndWith("failed") /\ UNCHANGED <<prior, shown>>

StepCommon(taken) ==
    /\ fsm' = taken.state
    /\ queue' = Tail(queue)
    /\ UNCHANGED <<received, produced>>

(* Every DriverSteps is one of the four, on an event of the machine.       *)
LEMMA DriverStepsCases ==
    ASSUME Typed, NEW result \in DischargeResults, DriverSteps(result),
           NEW event, event = EventOf(Head(queue), result),
           NEW taken, taken = Step(fsm, event)
    PROVE  /\ queue # <<>>
           /\ driver \in {"waiting", "running"}
           /\ Head(queue) \in Messages
           /\ Head(queue).kind \notin {"PdpEnd", "RapError"}
           /\ event.kind \in EventKinds \ {"Cancel"}
           /\ event.n \in Nat
           /\ taken.state \in MealyStates
           /\ StepCommon(taken)
           /\ StepEnds(taken) \/ StepYields(taken) \/ StepRunsOn(taken) \/ StepRaises
<1>1. /\ queue # <<>> /\ Head(queue) \in Messages
      /\ driver \in {"waiting", "running"}
      /\ Head(queue).kind \notin {"PdpEnd", "RapError"}
  BY TailAt DEF Typed, DriverSteps, DriverMayRun
<1>2. event.kind \in EventKinds \ {"Cancel"} /\ event.n \in Nat
  BY <1>1, EventTyped DEF EventOf, Message, EnforcePerItem, DischargeResults,
     EventKinds, Messages, MessageKinds, PdpKinds
<1>3. taken.state \in MealyStates /\ taken.emission \in Emissions
  BY <1>2, StepTyped DEF Typed
<1>4. StepCommon(taken)
  BY DEF StepCommon, DriverSteps
<1>5. \/ StepEnds(taken)
      \/ /\ taken.emission \notin {"EmitError", "EmitComplete"}
         /\ Rendered(taken.emission) # "nothing"
         /\ shown' = Rendered(taken.emission)
         /\ prior' = fsm.mode
         /\ driver' = "yielding"
         /\ UNCHANGED <<pdp, raps, current, outcome>>
      \/ /\ taken.emission \notin {"EmitError", "EmitComplete"}
         /\ Rendered(taken.emission) = "nothing"
         /\ GoesOn(fsm.mode, taken.state.mode, Tail(queue))
         /\ UNCHANGED <<prior, shown>>
  BY DEF DriverSteps, StepEnds
<1>6. /\ Rendered("None") = "nothing"
      /\ Rendered("Emit") = "value"
  BY DEF Rendered
<1>7. StepEnds(taken) \/ StepYields(taken) \/ StepRunsOn(taken) \/ StepRaises
  BY <1>3, <1>5, <1>6 DEF StepYields, StepRunsOn, StepRaises, GoesOn, Emissions
<1>. QED
  BY <1>1, <1>2, <1>3, <1>4, <1>7

(* What a yield shows (the emission loop of run_pipeline).                 *)
LEMMA RenderedFacts ==
    /\ Rendered("Emit") = "value"
    /\ SignalTransitions => Rendered("EmitGranted") = "granted"
    /\ SignalTransitions => Rendered("EmitSuspended") = "suspended"
    /\ ~SignalTransitions => Rendered("EmitGranted") = "nothing"
    /\ ~SignalTransitions => Rendered("EmitSuspended") = "nothing"
  BY DEF Rendered

-----------------------------------------------------------------------------
(* Type correctness                                                        *)

LEMMA InitTyped == Init => Typed
  BY StreamAssumption DEF Init, Typed, Pending, MealyStates, Modes, Messages,
     PdpStatus, RapStatus, DriverStatus, Shown, Outcomes

(* A queued message keeps the queue a sequence of messages.                *)
LEMMA AppendTyped ==
    ASSUME Typed, NEW kind \in MessageKinds, NEW n \in Nat
    PROVE  Append(queue, Message(kind, n)) \in Seq(Messages)
  BY AppendAt DEF Typed, Messages, Message

LEMMA PdpTyped == Typed /\ PdpNext => Typed'
<1> SUFFICES ASSUME Typed, PdpNext PROVE Typed'
  OBVIOUS
<1>1. ASSUME NEW verb \in Verbs, NEW discharged \in BOOLEAN, PdpDecides(verb, discharged)
      PROVE  Typed'
  <2>1. Classify(verb, discharged) \in MessageKinds
    BY DEF Classify, MessageKinds, PdpKinds
  <2>2. queue' \in Seq(Messages)
    BY <1>1, <2>1, AppendTyped DEF PdpDecides, Typed
  <2>. QED
    BY <1>1, <2>2 DEF PdpDecides, Typed
<1>2. CASE PdpEnds
  <2>1. queue' \in Seq(Messages)
    BY <1>2, AppendTyped DEF PdpEnds, Typed, MessageKinds
  <2>. QED
    BY <1>2, <2>1 DEF PdpEnds, Typed, PdpStatus
<1>3. CASE PdpFails
  <2>1. queue' \in Seq(Messages)
    BY <1>3, AppendTyped DEF PdpFails, Typed, MessageKinds, PdpKinds
  <2>. QED
    BY <1>3, <2>1 DEF PdpFails, Typed, PdpStatus
<1>4. CASE PdpDiesSilently
  BY <1>4 DEF PdpDiesSilently, Typed, PdpStatus
<1>5. CASE PdpUnwinds
  BY <1>5 DEF PdpUnwinds, Typed, PdpStatus
<1>. QED
  BY <1>1, <1>2, <1>3, <1>4, <1>5 DEF PdpNext

LEMMA RapTyped == Typed /\ RapNext => Typed'
<1> SUFFICES ASSUME Typed, NEW i \in DOMAIN raps,
                    \/ RapBegins(i)
                    \/ RapYields(i)
                    \/ \E kind \in {"RapEnd", "RapError"} : RapStops(i, kind)
                    \/ RapUnwinds(i)
             PROVE  Typed'
  BY DEF RapNext
<1>0. ASSUME NEW status \in RapStatus, RapTo(i, status)
      PROVE  raps' \in Seq(RapStatus) /\ Len(raps') = Len(raps)
  BY <1>0 DEF RapTo, Typed
<1>1. CASE RapBegins(i)
  BY <1>1, <1>0 DEF RapBegins, Typed, RapStatus
<1>2. CASE RapYields(i)
  <2>1. queue' \in Seq(Messages)
    BY <1>2, AppendTyped DEF RapYields, Typed, MessageKinds
  <2>. QED
    BY <1>2, <2>1 DEF RapYields, Typed
<1>3. ASSUME NEW kind \in {"RapEnd", "RapError"}, RapStops(i, kind)
      PROVE  Typed'
  <2>1. queue' \in Seq(Messages)
    BY <1>3, AppendTyped DEF RapStops, Typed, MessageKinds
  <2>. QED
    BY <1>3, <1>0, <2>1 DEF RapStops, Typed, RapStatus
<1>4. CASE RapUnwinds(i)
  BY <1>4, <1>0 DEF RapUnwinds, Typed, RapStatus
<1>. QED
  BY <1>1, <1>2, <1>3, <1>4

(* Managing the RAP task keeps raps and current well typed.                *)
LEMMA StopRapTyped ==
    ASSUME Typed, StopRap
    PROVE  raps' \in Seq(RapStatus) /\ current' \in 0..Len(raps')
  BY DEF StopRap, Typed, Cancelled, RapStatus

LEMMA ManageRapTyped ==
    ASSUME Typed, NEW p, NEW q, ManageRap(p, q)
    PROVE  raps' \in Seq(RapStatus) /\ current' \in 0..Len(raps')
<1>1. ASSUME EnsureRapStarted
      PROVE  raps' \in Seq(RapStatus) /\ current' \in 0..Len(raps')
  <2>1. Append(raps, "created") \in Seq(RapStatus)
        /\ Len(Append(raps, "created")) = Len(raps) + 1 /\ Len(raps) \in Nat
    BY DEF Typed, RapStatus
  <2>2. CASE raps' = Append(raps, "created") /\ current' = Len(raps) + 1
    BY <2>1, <2>2
  <2>3. CASE raps' = raps /\ current' = current
    BY <2>3 DEF Typed
  <2>. QED
    BY <1>1, <2>2, <2>3 DEF EnsureRapStarted
<1>. QED
  BY <1>1, StopRapTyped DEF ManageRap, Typed

LEMMA EndWithTyped ==
    ASSUME Typed, NEW how \in Outcomes, EndWith(how)
    PROVE  /\ raps' \in Seq(RapStatus) /\ current' \in 0..Len(raps')
           /\ driver' \in DriverStatus /\ outcome' \in Outcomes /\ pdp' \in PdpStatus
  BY StopRapTyped DEF EndWith, Typed, DriverStatus, PdpStatus

LEMMA DriverTyped == Typed /\ DriverNext => Typed'
<1> SUFFICES ASSUME Typed, DriverNext PROVE Typed'
  OBVIOUS
<1>0. queue # <<>> => Tail(queue) \in Seq(Messages)
  BY DEF Typed
<1>1. CASE DriverIgnoresPdpEnd
  BY <1>0, <1>1 DEF DriverIgnoresPdpEnd, DriverMayRun, Typed, AfterGet, DriverStatus
<1>2. CASE DriverRaisesRapError
  <2>1. "failed" \in Outcomes
    BY DEF Outcomes
  <2>. QED
    BY <1>0, <1>2, <2>1, EndWithTyped DEF DriverRaisesRapError, DriverMayRun, Typed
<1>3. ASSUME NEW result \in DischargeResults, DriverSteps(result)
      PROVE  Typed'
  <2>. DEFINE taken == Step(fsm, EventOf(Head(queue), result))
  <2>1. /\ queue # <<>> /\ taken.state \in MealyStates /\ StepCommon(taken)
        /\ StepEnds(taken) \/ StepYields(taken) \/ StepRunsOn(taken) \/ StepRaises
    BY <1>3, DriverStepsCases
  <2>. HIDE DEF taken
  <2>2. fsm' \in MealyStates /\ queue' \in Seq(Messages)
        /\ received' \in Nat /\ produced' \in Nat
    BY <1>0, <2>1 DEF StepCommon, Typed
  <2>3. CASE StepEnds(taken)
    <3>1. "denied" \in Outcomes /\ "complete" \in Outcomes
      BY DEF Outcomes
    <3>. QED
      BY <2>2, <2>3, <3>1, EndWithTyped DEF StepEnds, Typed
  <2>4. CASE StepYields(taken)
    <3>1. Rendered(taken.emission) \in Shown
      BY <2>4, RenderedFacts, StreamAssumption DEF StepYields, Shown
    <3>. QED
      BY <2>2, <2>4, <3>1 DEF StepYields, Typed, DriverStatus, MealyStates
  <2>5. CASE StepRunsOn(taken)
    BY <2>2, <2>5, ManageRapTyped DEF StepRunsOn, Typed, AfterGet, DriverStatus
  <2>6. CASE StepRaises
    <3>1. "failed" \in Outcomes
      BY DEF Outcomes
    <3>. QED
      BY <2>2, <2>6, <3>1, EndWithTyped DEF StepRaises, Typed
  <2>. QED
    BY <2>1, <2>3, <2>4, <2>5, <2>6
<1>. QED
  BY <1>1, <1>2, <1>3 DEF DriverNext

(* After a yield the loop body goes on, or rap_factory() raises.           *)
ResumedRunsOn ==
    /\ ManageRap(prior, fsm.mode)
    /\ driver' = AfterGet(queue)
    /\ UNCHANGED <<pdp, prior, shown, outcome>>

LEMMA ResumesCases ==
    ASSUME SubscriberResumes
    PROVE  /\ driver = "yielding"
           /\ UNCHANGED <<fsm, queue, received, produced>>
           /\ ResumedRunsOn \/ StepRaises
  BY DEF SubscriberResumes, GoesOn, ResumedRunsOn, StepRaises

LEMMA SubscriberTyped == Typed /\ (SubscriberResumes \/ SubscriberCloses) => Typed'
<1> SUFFICES ASSUME Typed, SubscriberResumes \/ SubscriberCloses PROVE Typed'
  OBVIOUS
<1>1. CASE SubscriberResumes
  <2>1. CASE ResumedRunsOn
    BY <1>1, <2>1, ResumesCases, ManageRapTyped DEF ResumedRunsOn, Typed, AfterGet, DriverStatus
  <2>2. CASE StepRaises
    <3>1. "failed" \in Outcomes
      BY DEF Outcomes
    <3>. QED
      BY <1>1, <2>2, <3>1, ResumesCases, EndWithTyped DEF StepRaises, Typed
  <2>. QED
    BY <1>1, <2>1, <2>2, ResumesCases
<1>2. CASE SubscriberCloses
  <2>1. "closed" \in Outcomes
    BY DEF Outcomes
  <2>. QED
    BY <1>2, <2>1, EndWithTyped DEF SubscriberCloses, Typed
<1>. QED
  BY <1>1, <1>2

LEMMA NextTyped == Typed /\ [Next]_vars => Typed'
<1>1. Typed /\ UNCHANGED vars => Typed'
  BY DEF Typed, vars
<1>. QED
  BY <1>1, PdpTyped, RapTyped, DriverTyped, SubscriberTyped DEF Next

(* What is queued by the PDP pump is numbered by what was received.        *)
PlansReceived ==
    /\ fsm.mode = "Permitting" => fsm.plan \in 1..received
    /\ \A k \in 1..Len(queue) : queue[k].kind \in PdpKinds => queue[k].n \in 1..received

LEMMA AppendReceived ==
    ASSUME Typed, PlansReceived, NEW kind \in MessageKinds, NEW n \in Nat,
           queue' = Append(queue, Message(kind, n)), fsm' = fsm,
           received' \in Nat, received' >= received,
           kind \in PdpKinds => n \in 1..received'
    PROVE  PlansReceived'
<1>1. queue \in Seq(Messages) /\ Message(kind, n) \in Messages /\ received \in Nat
  BY DEF Typed, Messages, Message
<1>2. /\ Len(queue) \in Nat /\ Len(queue') = Len(queue) + 1
      /\ \A k \in 1..Len(queue) : queue'[k] = queue[k]
      /\ queue'[Len(queue) + 1].kind = kind /\ queue'[Len(queue) + 1].n = n
  BY <1>1, AppendAt DEF Message
<1>. QED
  BY <1>1, <1>2 DEF PlansReceived

LEMMA TakeReceived ==
    ASSUME Typed, PlansReceived, queue # <<>>, queue' = Tail(queue), received' = received,
           \/ fsm' = fsm
           \/ fsm'.mode # "Permitting"
           \/ Head(queue).kind \in PdpKinds /\ fsm'.plan = Head(queue).n
    PROVE  PlansReceived'
<1>1. /\ Head(queue) = queue[1] /\ Len(queue) \in Nat /\ Len(queue) >= 1
      /\ Len(queue') = Len(queue) - 1
      /\ \A k \in 1..(Len(queue) - 1) : queue'[k] = queue[k + 1]
  BY TailAt DEF Typed
<1>. QED
  BY <1>1 DEF PlansReceived

LEMMA StepsReceived ==
    ASSUME Typed, PlansReceived, NEW result \in DischargeResults, DriverSteps(result)
    PROVE  PlansReceived'
<1>. DEFINE m == Head(queue)
            event == EventOf(m, result)
            taken == Step(fsm, event)
<1>1. /\ queue # <<>> /\ m \in Messages /\ m.kind \notin {"PdpEnd", "RapError"}
      /\ event.kind \in EventKinds \ {"Cancel"} /\ event.n \in Nat
      /\ StepCommon(taken)
  BY DriverStepsCases
<1>2. /\ m.kind \in PdpKinds => event = m
      /\ m.kind \notin PdpKinds => event.kind \notin PdpKinds
  BY <1>1, EventTyped DEF PdpKinds, Messages, MessageKinds
<1>3. fsm \in MealyStates
  BY DEF Typed
<1>4. \/ taken.state = fsm
      \/ taken.state.mode # "Permitting"
      \/ event.kind \in PdpKinds /\ taken.state.plan = event.n
  BY <1>1, <1>3 DEF Step, To, OnPdpPermit, OnPdpSuspend, OnPdpDeny, OnRapItem,
     OnRapObligationFailure, MealyStates, EventKinds, PdpKinds, Terminated, Suspended, Permitting
<1>. HIDE DEF event, taken
<1>5. \/ taken.state = fsm
      \/ taken.state.mode # "Permitting"
      \/ m.kind \in PdpKinds /\ taken.state.plan = m.n
  BY <1>2, <1>4
<1>. QED
  BY <1>1, <1>5, TakeReceived DEF StepCommon

LEMMA NextReceived == Typed /\ PlansReceived /\ [Next]_vars => PlansReceived'
<1> SUFFICES ASSUME Typed, PlansReceived, [Next]_vars PROVE PlansReceived'
  OBVIOUS
<1>1. received \in Nat
  BY DEF Typed
<1>2. ASSUME NEW verb \in Verbs, NEW discharged \in BOOLEAN, PdpDecides(verb, discharged)
      PROVE  PlansReceived'
  <2>1. Classify(verb, discharged) \in MessageKinds
    BY DEF Classify, MessageKinds, PdpKinds
  <2>. QED
    BY <1>1, <1>2, <2>1, AppendReceived DEF PdpDecides
<1>3. CASE PdpEnds
  BY <1>1, <1>3, AppendReceived DEF PdpEnds, MessageKinds, PdpKinds
<1>4. CASE PdpFails
  BY <1>1, <1>4, AppendReceived DEF PdpFails, MessageKinds, PdpKinds
<1>5. CASE PdpDiesSilently \/ PdpUnwinds \/ UNCHANGED vars
  BY <1>5 DEF PdpDiesSilently, PdpUnwinds, vars, PlansReceived
<1>6. ASSUME NEW i \in DOMAIN raps,
             \/ RapBegins(i) \/ RapYields(i) \/ RapUnwinds(i)
             \/ \E kind \in {"RapEnd", "RapError"} : RapStops(i, kind)
      PROVE  PlansReceived'
  <2>1. CASE RapBegins(i) \/ RapUnwinds(i)
    BY <2>1 DEF RapBegins, RapUnwinds, PlansReceived
  <2>2. CASE RapYields(i)
    BY <1>1, <2>2, AppendReceived DEF RapYields, MessageKinds, PdpKinds
  <2>3. ASSUME NEW kind \in {"RapEnd", "RapError"}, RapStops(i, kind)
        PROVE  PlansReceived'
    BY <1>1, <2>3, AppendReceived DEF RapStops, MessageKinds, PdpKinds
  <2>. QED
    BY <1>6, <2>1, <2>2, <2>3
<1>7. CASE DriverIgnoresPdpEnd
  BY <1>7, TakeReceived DEF DriverIgnoresPdpEnd, DriverMayRun
<1>8. CASE DriverRaisesRapError
  BY <1>8, TakeReceived DEF DriverRaisesRapError, DriverMayRun
<1>9. CASE SubscriberResumes \/ SubscriberCloses
  BY <1>9 DEF SubscriberResumes, SubscriberCloses, PlansReceived
<1>. QED
  BY <1>2, <1>3, <1>4, <1>5, <1>6, <1>7, <1>8, <1>9, StepsReceived
     DEF Next, PdpNext, RapNext, DriverNext

(* Every reachable state of a subscription is well typed, rap_task refers  *)
(* to a task that exists, and the plan in force, like those that are       *)
(* queued, is that of a decision which was received.                       *)
THEOREM StreamTypeOK == Spec => []TypeOK
<1>1. Init => PlansReceived
  BY DEF Init, PlansReceived, Pending
<1>2. Typed /\ PlansReceived => TypeOK
  BY DEF Typed, PlansReceived, TypeOK
<1>. QED
  BY <1>1, <1>2, InitTyped, NextTyped, NextReceived, PTL DEF Spec

-----------------------------------------------------------------------------
(* The inductive invariant                                                 *)

IsDecision(m) == m.kind \in PdpKinds

(* n numbers the decision that is in force for whatever stands at position *)
(* k of queue q when the machine is in state st: the last decision queued  *)
(* before k or, if there is none, the one the driver permits by.           *)
InForceAt(q, st, k, n) ==
    \/ \E j \in 1..(k - 1) : /\ IsDecision(q[j])
                            /\ q[j].n = n
                            /\ \A l \in (j + 1)..(k - 1) : ~IsDecision(q[l])
    \/ /\ \A l \in 1..(k - 1) : ~IsDecision(q[l])
       /\ st.mode = "Permitting" => st.plan = n

(* Every queued item carries the decision in force for it, and so will the *)
(* next one to be queued.                                                  *)
QueueInOrder ==
    /\ \A k \in 1..Len(queue) :
          queue[k].kind = "RapItem" => InForceAt(queue, fsm, k, queue[k].n)
    /\ InForceAt(queue, fsm, Len(queue) + 1, received)

EndQueued == \E k \in 1..Len(queue) : queue[k].kind \in {"RapEnd", "RapError"}

(* The task rap_task refers to was not cancelled, and if it is done its    *)
(* end is still on the queue.                                              *)
RapAnswers ==
    current # 0 => /\ raps[current] # "cancelling"
                   /\ raps[current] = "done" => EndQueued

DriverConsistent ==
    /\ driver # "ended" => fsm.mode # "Terminated"
    /\ driver \in {"waiting", "running"} /\ fsm.mode = "Permitting" => current # 0
    /\ driver = "yielding" /\ fsm.mode = "Suspended" => prior # "Suspended"

IInv ==
    /\ Typed
    /\ QueueInOrder
    /\ NoForgottenRap
    /\ RapAnswers
    /\ DriverConsistent
    /\ PausedWhileSuspended

-----------------------------------------------------------------------------
(* The order of the queue                                                  *)

(* Queueing a decision, or anything else stamped with the last decision,   *)
(* keeps the queue in order (the pumps).                                   *)
LEMMA AppendInOrder ==
    ASSUME Typed, QueueInOrder, NEW kind \in MessageKinds, NEW n \in Nat,
           queue' = Append(queue, Message(kind, n)), fsm' = fsm,
           \/ kind \in PdpKinds /\ received' = n
           \/ kind \notin PdpKinds /\ received' = received /\ (kind = "RapItem" => n = received)
    PROVE  QueueInOrder'
<1>. DEFINE len == Len(queue)
<1>1. /\ len \in Nat /\ Len(queue') = len + 1
      /\ \A k \in 1..len : queue'[k] = queue[k]
      /\ queue'[len + 1].kind = kind /\ queue'[len + 1].n = n
  <2>1. queue \in Seq(Messages) /\ Message(kind, n) \in Messages
    BY DEF Typed, Messages, Message
  <2>. QED
    BY <2>1, AppendAt DEF Message
<1>3. InForceAt(queue, fsm, len + 1, received)
  BY DEF QueueInOrder
<1>5. \A k \in 1..len : queue[k].kind = "RapItem" => InForceAt(queue, fsm, k, queue[k].n)
  BY DEF QueueInOrder
<1>. HIDE DEF len
<1>2. ASSUME NEW k \in 1..(len + 1), NEW p, InForceAt(queue, fsm, k, p)
      PROVE  InForceAt(queue', fsm', k, p)
  BY <1>1, <1>2 DEF InForceAt
<1>4. ASSUME NEW k \in 1..(len + 1), queue'[k].kind = "RapItem"
      PROVE  InForceAt(queue', fsm', k, queue'[k].n)
  <2>1. CASE k \in 1..len
    BY <1>1, <1>2, <1>4, <1>5, <2>1
  <2>2. CASE k = len + 1
    <3>1. n = received
      BY <1>1, <1>4, <2>2 DEF PdpKinds
    <3>. QED
      BY <1>1, <1>2, <1>3, <2>2, <3>1
  <2>. QED
    BY <1>1, <2>1, <2>2
<1>6. InForceAt(queue', fsm', (len + 1) + 1, received')
  <2>1. CASE kind \in PdpKinds /\ received' = n
    BY <1>1, <2>1 DEF InForceAt, IsDecision
  <2>2. CASE kind \notin PdpKinds /\ received' = received
    <3>1. ~IsDecision(queue'[len + 1])
      BY <1>1, <2>2 DEF IsDecision
    <3>2. InForceAt(queue', fsm', len + 1, received)
      BY <1>1, <1>2, <1>3
    <3>. QED
      BY <1>1, <2>2, <3>1, <3>2 DEF InForceAt
  <2>. QED
    BY <2>1, <2>2
<1>. QED
  BY <1>1, <1>4, <1>6 DEF QueueInOrder

(* Taking a message keeps the queue in order, as long as the machine's     *)
(* plan is the one of the last decision taken (the driver loop).           *)
LEMMA TakeInOrder ==
    ASSUME Typed, QueueInOrder, queue # <<>>,
           queue' = Tail(queue), received' = received,
           Head(queue).kind = "PdpPermit" => fsm'.plan = Head(queue).n,
           Head(queue).kind \in PdpKinds \ {"PdpPermit"} => fsm'.mode # "Permitting",
           Head(queue).kind \notin PdpKinds /\ fsm'.mode = "Permitting" => fsm' = fsm
    PROVE  QueueInOrder'
<1>. DEFINE len == Len(queue)
<1>1. /\ len \in Nat /\ len >= 1 /\ Len(queue') = len - 1
      /\ \A k \in 1..(len - 1) : queue'[k] = queue[k + 1]
      /\ Head(queue) = queue[1]
  BY TailAt DEF Typed
<1>3. InForceAt(queue, fsm, len + 1, received)
  BY DEF QueueInOrder
<1>5. \A k \in 1..len : queue[k].kind = "RapItem" => InForceAt(queue, fsm, k, queue[k].n)
  BY DEF QueueInOrder
<1>. HIDE DEF len
<1>2. ASSUME NEW k \in 1..len, NEW p, InForceAt(queue, fsm, k + 1, p)
      PROVE  InForceAt(queue', fsm', k, p)
  <2>0. \A l \in 1..(k - 1) : queue'[l] = queue[l + 1]
    BY <1>1
  <2>1. CASE \E j \in 2..k : /\ IsDecision(queue[j]) /\ queue[j].n = p
                            /\ \A l \in (j + 1)..k : ~IsDecision(queue[l])
    <3>1. PICK j \in 2..k : /\ IsDecision(queue[j]) /\ queue[j].n = p
                            /\ \A l \in (j + 1)..k : ~IsDecision(queue[l])
      BY <2>1
    <3>2. /\ j - 1 \in 1..(k - 1) /\ queue'[j - 1] = queue[j]
          /\ \A l \in ((j - 1) + 1)..(k - 1) : ~IsDecision(queue'[l])
      BY <1>1, <2>0, <3>1
    <3>. QED
      BY <3>1, <3>2 DEF InForceAt
  <2>2. CASE /\ IsDecision(queue[1]) /\ queue[1].n = p
             /\ \A l \in 2..k : ~IsDecision(queue[l])
    <3>1. \A l \in 1..(k - 1) : ~IsDecision(queue'[l])
      BY <1>1, <2>0, <2>2
    <3>2. fsm'.mode = "Permitting" => fsm'.plan = p
      BY <1>1, <2>2 DEF IsDecision
    <3>. QED
      BY <3>1, <3>2 DEF InForceAt
  <2>3. CASE /\ \A l \in 1..k : ~IsDecision(queue[l])
             /\ fsm.mode = "Permitting" => fsm.plan = p
    <3>1. \A l \in 1..(k - 1) : ~IsDecision(queue'[l])
      BY <1>1, <2>0, <2>3
    <3>2. fsm'.mode = "Permitting" => fsm'.plan = p
      BY <1>1, <2>3 DEF IsDecision
    <3>. QED
      BY <3>1, <3>2 DEF InForceAt
  <2>4. (k + 1) - 1 = k
    BY <1>1
  <2>. QED
    BY <1>1, <1>2, <2>1, <2>2, <2>3, <2>4 DEF InForceAt
<1>4. ASSUME NEW k \in 1..(len - 1), queue'[k].kind = "RapItem"
      PROVE  InForceAt(queue', fsm', k, queue'[k].n)
  <2>1. k + 1 \in 1..len /\ queue[k + 1] = queue'[k]
    BY <1>1
  <2>2. InForceAt(queue, fsm, k + 1, queue'[k].n)
    BY <1>4, <1>5, <2>1
  <2>. QED
    BY <1>1, <1>2, <2>2
<1>6. InForceAt(queue', fsm', len, received')
  BY <1>1, <1>2, <1>3
<1>. QED
  BY <1>1, <1>4, <1>6 DEF QueueInOrder

-----------------------------------------------------------------------------
(* The RAP tasks                                                           *)

(* After _stop_rap no task is referenced and none may run uncancelled.     *)
LEMMA StopRapFacts ==
    ASSUME Typed, NoForgottenRap, StopRap
    PROVE  /\ current' = 0
           /\ Len(raps') = Len(raps)
           /\ \A i \in DOMAIN raps' : raps'[i] \notin {"created", "live"}
<1>1. CASE current = 0
  BY <1>1 DEF StopRap, Typed, NoForgottenRap
<1>2. CASE current # 0
  <2>1. current \in DOMAIN raps /\ raps' = [raps EXCEPT ![current] = Cancelled(raps[current])]
    BY <1>2 DEF StopRap, Typed
  <2>2. raps[current] \in RapStatus
    BY <2>1 DEF Typed
  <2>3. Cancelled(raps[current]) \notin {"created", "live"}
    BY <2>2 DEF Cancelled, RapStatus
  <2>. QED
    BY <2>1, <2>3 DEF StopRap, Typed, NoForgottenRap
<1>. QED
  BY <1>1, <1>2

(* _ensure_rap_started leaves exactly one task that may run, referenced.   *)
LEMMA EnsureRapFacts ==
    ASSUME Typed, NoForgottenRap, RapAnswers, EnsureRapStarted
    PROVE  /\ current' # 0
           /\ \A i \in DOMAIN raps' : raps'[i] \in {"created", "live"} => i = current'
           /\ \/ raps' = raps /\ current' = current
              \/ raps'[current'] = "created"
<1>1. CASE current = 0 \/ raps[current] \in Finished
  <2>1. raps' = Append(raps, "created") /\ current' = Len(raps) + 1
    BY <1>1 DEF EnsureRapStarted, NeedsRap
  <2>2. /\ Len(raps) \in Nat /\ DOMAIN raps = 1..Len(raps)
        /\ DOMAIN raps' = 1..(Len(raps) + 1)
        /\ raps'[Len(raps) + 1] = "created"
        /\ \A i \in 1..Len(raps) : raps'[i] = raps[i]
    BY <2>1, AppendAt DEF Typed, RapStatus
  <2>3. \A i \in 1..Len(raps) : raps[i] \notin {"created", "live"}
    BY <1>1, <2>2 DEF NoForgottenRap, Finished
  <2>4. current' = Len(raps) + 1
    BY <2>1
  <2>. QED
    BY <2>2, <2>3, <2>4
<1>2. CASE ~(current = 0 \/ raps[current] \in Finished)
  <2>1. raps' = raps /\ current' = current
    BY <1>2 DEF EnsureRapStarted, NeedsRap
  <2>. QED
    BY <1>2, <2>1 DEF NoForgottenRap
<1>. QED
  BY <1>1, <1>2

(* What managing the task after an event gives (_manage_rap).              *)
LEMMA ManageRapFacts ==
    ASSUME Typed, NoForgottenRap, RapAnswers, NEW p, NEW q, ManageRap(p, q),
           EndQueued => EndQueued', driver' # "ended"
    PROVE  /\ NoForgottenRap'
           /\ RapAnswers'
           /\ q = "Permitting" => current' # 0
           /\ PauseRap /\ q = "Suspended" /\ p # "Suspended" => current' = 0
           /\ q = "Suspended" /\ p = "Suspended" => current' = current
<1>1. CASE q = "Permitting" /\ EnsureRapStarted
  <2>1. RapAnswers'
    BY <1>1, EnsureRapFacts DEF RapAnswers
  <2>. QED
    BY <1>1, <2>1, EnsureRapFacts DEF NoForgottenRap
<1>2. CASE PauseRap /\ q = "Suspended" /\ p # "Suspended" /\ StopRap
  BY <1>2, StopRapFacts DEF NoForgottenRap, RapAnswers
<1>3. CASE /\ q # "Permitting"
           /\ ~(PauseRap /\ q = "Suspended" /\ p # "Suspended")
           /\ UNCHANGED <<raps, current>>
  BY <1>3 DEF NoForgottenRap, RapAnswers
<1>. QED
  BY <1>1, <1>2, <1>3 DEF ManageRap

(* Ending the generator, in whatever way, establishes all there is to know *)
(* about the tasks of an ended driver (the finally block).                 *)
LEMMA EndWithFacts ==
    ASSUME Typed, NoForgottenRap, NEW how, EndWith(how)
    PROVE  NoForgottenRap' /\ RapAnswers' /\ DriverConsistent' /\ PausedWhileSuspended'
<1>1. StopRap /\ driver' = "ended"
  BY DEF EndWith
<1>. QED
  BY <1>1, StopRapFacts
     DEF NoForgottenRap, RapAnswers, DriverConsistent, PausedWhileSuspended

(* Only the end of an iterator leaves the queue through an ending step.    *)
LEMMA EndStaysQueued ==
    ASSUME Typed, queue # <<>>, queue' = Tail(queue),
           Head(queue).kind \notin {"RapEnd", "RapError"}
    PROVE  EndQueued => EndQueued'
<1>1. /\ Head(queue) = queue[1] /\ Len(queue) \in Nat /\ Len(queue') = Len(queue) - 1
      /\ \A k \in 1..(Len(queue) - 1) : queue'[k] = queue[k + 1]
  BY TailAt DEF Typed
<1>2. ASSUME NEW k \in 1..Len(queue), queue[k].kind \in {"RapEnd", "RapError"}
      PROVE  EndQueued'
  <2>1. k # 1
    BY <1>1, <1>2
  <2>2. k - 1 \in 1..Len(queue') /\ queue'[k - 1] = queue[k]
    BY <1>1, <2>1
  <2>. QED
    BY <1>2, <2>2 DEF EndQueued
<1>. QED
  BY <1>2 DEF EndQueued

(* Queueing a message keeps every end on the queue.                        *)
LEMMA EndQueuedAppend ==
    ASSUME Typed, NEW kind \in MessageKinds, NEW n \in Nat,
           queue' = Append(queue, Message(kind, n))
    PROVE  /\ EndQueued => EndQueued'
           /\ kind \in {"RapEnd", "RapError"} => EndQueued'
<1>1. queue \in Seq(Messages) /\ Message(kind, n) \in Messages
  BY DEF Typed, Messages, Message
<1>2. /\ Len(queue) \in Nat /\ Len(queue') = Len(queue) + 1
      /\ \A k \in 1..Len(queue) : queue'[k] = queue[k]
      /\ queue'[Len(queue) + 1].kind = kind
  BY <1>1, AppendAt DEF Message
<1>. QED
  BY <1>2 DEF EndQueued

-----------------------------------------------------------------------------
(* Every action preserves the invariant                                    *)

LEMMA InitIInv == Init => IInv
<1> SUFFICES ASSUME Init PROVE IInv
  OBVIOUS
<1>1. QueueInOrder
  BY DEF Init, QueueInOrder, InForceAt, Pending
<1>2. NoForgottenRap /\ RapAnswers /\ DriverConsistent /\ PausedWhileSuspended
  BY DEF Init, NoForgottenRap, RapAnswers, DriverConsistent, PausedWhileSuspended, Pending
<1>. QED
  BY <1>1, <1>2, InitTyped DEF IInv

LEMMA PdpIInv == IInv /\ PdpNext => IInv'
<1> SUFFICES ASSUME IInv, PdpNext PROVE IInv'
  OBVIOUS
<1> USE DEF IInv
<1>1. Typed'
  BY PdpTyped
<1>2. UNCHANGED <<fsm, raps, current, driver, prior>>
  BY DEF PdpNext, PdpDecides, PdpEnds, PdpFails, PdpDiesSilently, PdpUnwinds
<1>3. QueueInOrder' /\ (EndQueued => EndQueued')
  <2>1. ASSUME NEW verb \in Verbs, NEW discharged \in BOOLEAN, PdpDecides(verb, discharged)
        PROVE  QueueInOrder' /\ (EndQueued => EndQueued')
    <3>1. Classify(verb, discharged) \in PdpKinds
      BY DEF Classify, PdpKinds
    <3>2. received + 1 \in Nat /\ PdpKinds \subseteq MessageKinds
      BY DEF Typed, MessageKinds
    <3>. QED
      BY <2>1, <3>1, <3>2, AppendInOrder, EndQueuedAppend DEF PdpDecides
  <2>2. CASE PdpEnds
    <3>1. "PdpEnd" \in MessageKinds /\ "PdpEnd" \notin PdpKinds /\ 0 \in Nat
      BY DEF MessageKinds, PdpKinds
    <3>. QED
      BY <2>2, <3>1, AppendInOrder, EndQueuedAppend DEF PdpEnds
  <2>3. CASE PdpFails
    <3>1. "PdpDeny" \in MessageKinds /\ "PdpDeny" \in PdpKinds /\ received + 1 \in Nat
      BY DEF MessageKinds, PdpKinds, Typed
    <3>. QED
      BY <2>3, <3>1, AppendInOrder, EndQueuedAppend DEF PdpFails
  <2>4. CASE PdpDiesSilently \/ PdpUnwinds
    BY <2>4 DEF PdpDiesSilently, PdpUnwinds, QueueInOrder, EndQueued
  <2>. QED
    BY <2>1, <2>2, <2>3, <2>4 DEF PdpNext
<1>. QED
  BY <1>1, <1>2, <1>3
     DEF NoForgottenRap, RapAnswers, DriverConsistent, PausedWhileSuspended

LEMMA RapIInv == IInv /\ RapNext => IInv'
<1> SUFFICES ASSUME IInv, NEW i \in DOMAIN raps,
                    \/ RapBegins(i)
                    \/ RapYields(i)
                    \/ \E kind \in {"RapEnd", "RapError"} : RapStops(i, kind)
                    \/ RapUnwinds(i)
             PROVE  IInv'
  BY DEF RapNext
<1> USE DEF IInv
<1>1. Typed'
  BY RapTyped DEF RapNext
<1>2. UNCHANGED <<fsm, current, driver, prior, received>>
  BY DEF RapBegins, RapYields, RapStops, RapUnwinds
<1>3. DriverConsistent' /\ PausedWhileSuspended'
  BY <1>2 DEF DriverConsistent, PausedWhileSuspended
<1>4. QueueInOrder' /\ (EndQueued => EndQueued')
  <2>1. CASE RapYields(i)
    <3>1. "RapItem" \in MessageKinds \ PdpKinds /\ received \in Nat
      BY DEF MessageKinds, PdpKinds, Typed
    <3>. QED
      BY <2>1, <3>1, AppendInOrder, EndQueuedAppend DEF RapYields
  <2>2. ASSUME NEW kind \in {"RapEnd", "RapError"}, RapStops(i, kind)
        PROVE  QueueInOrder' /\ (EndQueued => EndQueued')
    <3>1. kind \in MessageKinds \ PdpKinds /\ kind # "RapItem" /\ 0 \in Nat
      BY DEF MessageKinds, PdpKinds
    <3>. QED
      BY <2>2, <3>1, AppendInOrder, EndQueuedAppend DEF RapStops
  <2>3. CASE RapBegins(i) \/ RapUnwinds(i)
    BY <2>3 DEF RapBegins, RapUnwinds, QueueInOrder, EndQueued
  <2>. QED
    BY <2>1, <2>2, <2>3
<1>5. NoForgottenRap' /\ RapAnswers'
  <2>1. CASE RapBegins(i)
    BY <1>2, <1>4, <2>1 DEF RapBegins, RapTo, Typed, NoForgottenRap, RapAnswers
  <2>2. CASE RapYields(i)
    BY <1>2, <1>4, <2>2 DEF RapYields, NoForgottenRap, RapAnswers
  <2>3. ASSUME NEW kind \in {"RapEnd", "RapError"}, RapStops(i, kind)
        PROVE  NoForgottenRap' /\ RapAnswers'
    <3>1. EndQueued'
      <4>1. kind \in MessageKinds /\ 0 \in Nat
        BY DEF MessageKinds
      <4>. QED
        BY <2>3, <4>1, EndQueuedAppend DEF RapStops
    <3>. QED
      BY <1>2, <2>3, <3>1 DEF RapStops, RapTo, Typed, NoForgottenRap, RapAnswers
  <2>4. CASE RapUnwinds(i)
    BY <1>2, <1>4, <2>4 DEF RapUnwinds, RapTo, Typed, NoForgottenRap, RapAnswers
  <2>. QED
    BY <2>1, <2>2, <2>3, <2>4
<1>. QED
  BY <1>1, <1>3, <1>4, <1>5

LEMMA DriverStepsIInv ==
    ASSUME IInv, NEW result \in DischargeResults, DriverSteps(result)
    PROVE  IInv'
<1> USE DEF IInv
<1>. DEFINE m == Head(queue)
            event == EventOf(m, result)
            taken == Step(fsm, event)
<1>1. Typed'
  BY DriverTyped DEF DriverNext
<1>2. /\ queue # <<>> /\ driver \in {"waiting", "running"}
      /\ m \in Messages /\ m.kind \notin {"PdpEnd", "RapError"}
      /\ event.kind \in EventKinds \ {"Cancel"} /\ event.n \in Nat
      /\ taken.state \in MealyStates
      /\ StepCommon(taken)
      /\ StepEnds(taken) \/ StepYields(taken) \/ StepRunsOn(taken) \/ StepRaises
  BY DriverStepsCases
<1>3. fsm \in MealyStates /\ fsm.mode # "Terminated"
  BY <1>2 DEF Typed, DriverConsistent
<1>4. /\ m.kind \in PdpKinds => event = m
      /\ m.kind = "RapEnd" => event.kind = "RapComplete"
      /\ m.kind \notin PdpKinds => event.kind \notin PdpKinds
  BY <1>2, EventTyped DEF PdpKinds, Messages, MessageKinds
<1>5. /\ taken.emission = "Emit" => fsm.mode = "Permitting" /\ taken.state = fsm
      /\ taken.emission = "EmitGranted" => taken.state.mode = "Permitting"
      /\ taken.emission = "EmitSuspended" =>
            fsm.mode \in {"Pending", "Permitting"} /\ taken.state.mode = "Suspended"
      /\ taken.emission \in {"EmitError", "EmitComplete"} => taken.state = Terminated
      /\ taken.emission = "None" => taken.state.mode = fsm.mode
      /\ event.kind = "PdpPermit" => taken.state = Permitting(event.n)
      /\ event.kind = "PdpSuspend" => taken.state = Suspended
      /\ event.kind = "PdpDeny" => taken.emission = "EmitError"
      /\ event.kind = "RapComplete" => taken.emission = "EmitComplete"
      /\ event.kind \notin PdpKinds /\ taken.state.mode = "Permitting" => taken.state = fsm
  BY <1>2, <1>3, StepFacts
<1>. HIDE DEF m, event, taken
<1>6. fsm' = taken.state /\ queue' = Tail(queue) /\ received' = received
  BY <1>2 DEF StepCommon
<1>7. QueueInOrder'
  <2>1. m.kind = "PdpPermit" => fsm'.plan = m.n
    BY <1>4, <1>5, <1>6 DEF Permitting, PdpKinds
  <2>2. m.kind \in PdpKinds \ {"PdpPermit"} => fsm'.mode # "Permitting"
    BY <1>4, <1>5, <1>6 DEF PdpKinds, Suspended, Terminated
  <2>3. m.kind \notin PdpKinds /\ fsm'.mode = "Permitting" => fsm' = fsm
    BY <1>4, <1>5, <1>6
  <2>. QED
    BY <1>2, <1>6, <2>1, <2>2, <2>3, TakeInOrder DEF m
<1>8. CASE StepEnds(taken)
  BY <1>1, <1>7, <1>8, EndWithFacts DEF StepEnds
<1>9. ASSUME ~StepEnds(taken), StepYields(taken) \/ StepRunsOn(taken)
      PROVE  /\ EndQueued => EndQueued'
             /\ fsm'.mode # "Terminated"
             /\ driver' # "ended"
  <2>1. taken.emission \notin {"EmitError", "EmitComplete"}
    BY <1>9 DEF StepYields, StepRunsOn
  <2>2. m.kind # "RapEnd"
    BY <1>4, <1>5, <2>1
  <2>3. taken.state.mode # "Terminated"
    BY <1>3, <1>5, <1>9, <1>2, <2>1, StepTyped DEF Emissions, taken, Typed
  <2>. QED
    BY <1>2, <1>6, <1>9, <2>2, <2>3, EndStaysQueued
       DEF m, StepYields, StepRunsOn, AfterGet
<1>10. CASE ~StepEnds(taken) /\ StepYields(taken)
  <2>1. NoForgottenRap' /\ RapAnswers'
    BY <1>2, <1>9, <1>10 DEF StepYields, NoForgottenRap, RapAnswers
  <2>2. DriverConsistent'
    BY <1>2, <1>3, <1>5, <1>6, <1>9, <1>10 DEF StepYields, DriverConsistent
  <2>3. PausedWhileSuspended'
    BY <1>10 DEF StepYields, PausedWhileSuspended
  <2>. QED
    BY <1>1, <1>7, <2>1, <2>2, <2>3
<1>11. CASE ~StepEnds(taken) /\ StepRunsOn(taken)
  <2>1. /\ NoForgottenRap' /\ RapAnswers'
        /\ fsm'.mode = "Permitting" => current' # 0
        /\ PauseRap /\ fsm'.mode = "Suspended" /\ fsm.mode # "Suspended" => current' = 0
        /\ fsm'.mode = "Suspended" /\ fsm.mode = "Suspended" => current' = current
    BY <1>6, <1>9, <1>11, ManageRapFacts DEF StepRunsOn
  <2>2. driver' \in {"waiting", "running"}
    BY <1>11 DEF StepRunsOn, AfterGet
  <2>3. DriverConsistent' /\ PausedWhileSuspended'
    BY <1>2, <1>9, <1>11, <2>1, <2>2 DEF DriverConsistent, PausedWhileSuspended
  <2>. QED
    BY <1>1, <1>7, <2>1, <2>3
<1>12. CASE StepRaises
  BY <1>1, <1>7, <1>12, EndWithFacts DEF StepRaises
<1>. QED
  BY <1>2, <1>8, <1>10, <1>11, <1>12

LEMMA DriverIInv == IInv /\ DriverNext => IInv'
<1> SUFFICES ASSUME IInv, DriverNext PROVE IInv'
  OBVIOUS
<1>1. CASE DriverIgnoresPdpEnd
  <2>1. /\ queue # <<>> /\ queue' = Tail(queue) /\ Head(queue).kind = "PdpEnd"
        /\ driver \in {"waiting", "running"} /\ driver' \in {"waiting", "running"}
        /\ UNCHANGED <<fsm, received, raps, current, prior>>
    BY <1>1 DEF DriverIgnoresPdpEnd, DriverMayRun, AfterGet
  <2>2. QueueInOrder'
    BY <2>1, TakeInOrder DEF IInv, PdpKinds
  <2>3. EndQueued => EndQueued'
    BY <2>1, EndStaysQueued DEF IInv
  <2>. QED
    BY <1>1, <2>1, <2>2, <2>3, DriverTyped
       DEF IInv, DriverNext, NoForgottenRap, RapAnswers, DriverConsistent, PausedWhileSuspended
<1>2. CASE DriverRaisesRapError
  <2>1. /\ queue # <<>> /\ queue' = Tail(queue) /\ Head(queue).kind = "RapError"
        /\ EndWith("failed") /\ UNCHANGED <<fsm, received>>
    BY <1>2 DEF DriverRaisesRapError, DriverMayRun
  <2>2. QueueInOrder'
    BY <2>1, TakeInOrder DEF IInv, PdpKinds
  <2>. QED
    BY <1>2, <2>1, <2>2, EndWithFacts, DriverTyped DEF IInv, DriverNext
<1>. QED
  BY <1>1, <1>2, DriverStepsIInv DEF DriverNext

LEMMA SubscriberIInv == IInv /\ (SubscriberResumes \/ SubscriberCloses) => IInv'
<1> SUFFICES ASSUME IInv, SubscriberResumes \/ SubscriberCloses PROVE IInv'
  OBVIOUS
<1> USE DEF IInv
<1>1. Typed'
  BY SubscriberTyped
<1>2. UNCHANGED <<fsm, queue, received>>
  BY DEF SubscriberResumes, SubscriberCloses
<1>3. QueueInOrder' /\ (EndQueued => EndQueued')
  BY <1>2 DEF QueueInOrder, EndQueued
<1>4. CASE SubscriberResumes
  <2>1. CASE ResumedRunsOn
    <3>1. /\ driver = "yielding" /\ ManageRap(prior, fsm.mode)
          /\ driver' \in {"waiting", "running"}
      BY <1>4, <2>1, ResumesCases DEF ResumedRunsOn, AfterGet
    <3>2. /\ NoForgottenRap' /\ RapAnswers'
          /\ fsm.mode = "Permitting" => current' # 0
          /\ PauseRap /\ fsm.mode = "Suspended" /\ prior # "Suspended" => current' = 0
      BY <1>3, <3>1, ManageRapFacts
    <3>3. DriverConsistent' /\ PausedWhileSuspended'
      BY <1>2, <3>1, <3>2 DEF DriverConsistent, PausedWhileSuspended
    <3>. QED
      BY <1>1, <1>3, <3>2, <3>3
  <2>2. CASE StepRaises
    BY <1>1, <1>3, <2>2, EndWithFacts DEF StepRaises
  <2>. QED
    BY <1>4, <2>1, <2>2, ResumesCases
<1>5. CASE SubscriberCloses
  BY <1>1, <1>3, <1>5, EndWithFacts DEF SubscriberCloses
<1>. QED
  BY <1>4, <1>5

LEMMA NextIInv == IInv /\ [Next]_vars => IInv'
<1>1. IInv /\ UNCHANGED vars => IInv'
  BY DEF vars, IInv, Typed, QueueInOrder, NoForgottenRap, RapAnswers, EndQueued,
         DriverConsistent, PausedWhileSuspended
<1>. QED
  BY <1>1, PdpIInv, RapIInv, DriverIInv, SubscriberIInv DEF Next

(* The inductive invariant holds in every reachable state.                 *)
THEOREM StreamInvariant == Spec => []IInv
  BY InitIInv, NextIInv, PTL DEF Spec

-----------------------------------------------------------------------------
(* The theorems                                                            *)

(* No RAP task is ever forgotten while it may still run, and an ended      *)
(* generator has cancelled all of them.                                    *)
THEOREM StreamNoForgottenRap == Spec => []NoForgottenRap
  BY StreamInvariant, PTL DEF IInv

(* With pause_rap_during_suspend no task is referenced during Suspended.   *)
THEOREM StreamPaused == Spec => []PausedWhileSuspended
  BY StreamInvariant, PTL DEF IInv

(* A permitted subscriber never waits for an upstream that was stopped or  *)
(* that ended without its end being processed.                             *)
THEOREM StreamNeverStranded == Spec => []NeverStranded
<1>1. IInv => NeverStranded
  <2> SUFFICES ASSUME IInv, driver = "waiting", queue = <<>>, fsm.mode = "Permitting"
               PROVE  current # 0 /\ raps[current] \in {"created", "live", "lost"}
    BY DEF NeverStranded
  <2>1. ~EndQueued
    BY DEF EndQueued
  <2>2. current # 0 /\ raps[current] \notin {"cancelling", "done"}
    BY <2>1 DEF IInv, DriverConsistent, RapAnswers
  <2>3. raps[current] \in RapStatus
    BY <2>2 DEF IInv, Typed
  <2>. QED
    BY <2>2, <2>3 DEF RapStatus
<1>. QED
  BY <1>1, StreamInvariant, PTL

(* Only a step of the driver on an item delivers a value, in Permitting.   *)
LEMMA DeliveryStep ==
    ASSUME IInv, [Next]_vars, DeliversValue
    PROVE  queue # <<>> /\ fsm.mode = "Permitting" /\ Head(queue).kind = "RapItem"
<1>1. ~(PdpNext \/ RapNext \/ SubscriberResumes \/ SubscriberCloses \/ UNCHANGED vars)
  <2>1. ~SubscriberResumes
    BY ResumesCases DEF DeliversValue, ResumedRunsOn, StepRaises, EndWith, AfterGet
  <2>. QED
    BY <2>1 DEF DeliversValue, PdpNext, PdpDecides, PdpEnds, PdpFails, PdpDiesSilently,
       PdpUnwinds, RapNext, RapBegins, RapYields, RapStops, RapUnwinds,
       SubscriberCloses, EndWith, vars
<1>2. ~(DriverIgnoresPdpEnd \/ DriverRaisesRapError)
  BY DEF DeliversValue, DriverIgnoresPdpEnd, AfterGet, DriverRaisesRapError, EndWith
<1>3. PICK result \in DischargeResults : DriverSteps(result)
  BY <1>1, <1>2 DEF Next, DriverNext
<1>. DEFINE event == EventOf(Head(queue), result)
            taken == Step(fsm, event)
<1>4. /\ queue # <<>> /\ driver \in {"waiting", "running"}
      /\ Head(queue) \in Messages /\ Head(queue).kind \notin {"PdpEnd", "RapError"}
      /\ event.kind \in EventKinds \ {"Cancel"} /\ event.n \in Nat
      /\ StepEnds(taken) \/ StepYields(taken) \/ StepRunsOn(taken) \/ StepRaises
  BY <1>3, DriverStepsCases DEF IInv
<1>5. /\ Head(queue).kind \in PdpKinds => event.kind \in PdpKinds
      /\ Head(queue).kind = "RapEnd" => event.kind = "RapComplete"
  BY <1>4, EventTyped
<1>6. fsm \in MealyStates /\ fsm.mode # "Terminated"
  BY <1>4 DEF IInv, Typed, DriverConsistent
<1>7. taken.emission = "Emit" => fsm.mode = "Permitting" /\ event.kind = "RapItem"
  BY <1>4, <1>6, StepFacts
<1>. HIDE DEF taken, event
<1>8. taken.emission = "Emit"
  <2>1. StepYields(taken)
    BY <1>4 DEF DeliversValue, StepEnds, EndWith, StepRunsOn, StepRaises, AfterGet
  <2>2. Rendered("EmitGranted") # "value" /\ Rendered("EmitSuspended") # "value"
    BY RenderedFacts, StreamAssumption
  <2>. QED
    BY <2>1, <2>2 DEF StepYields, DeliversValue
<1>9. Head(queue).kind \notin PdpKinds \cup {"RapEnd"}
  BY <1>5, <1>7, <1>8 DEF PdpKinds
<1>. QED
  BY <1>4, <1>7, <1>8, <1>9 DEF Messages, MessageKinds

(* Every value the subscriber gets was released under the plan of the last *)
(* decision that was queued before the item: a revocation is never         *)
(* overtaken and an old permit never reused.                               *)
THEOREM StreamJudged == Spec => JudgedByDecisionInForce
<1>1. IInv /\ [Next]_vars =>
        [DeliversValue => fsm.mode = "Permitting" /\ Head(queue).n = fsm.plan]_vars
  <2> SUFFICES ASSUME IInv, [Next]_vars, DeliversValue
               PROVE  fsm.mode = "Permitting" /\ Head(queue).n = fsm.plan
    OBVIOUS
  <2>1. queue # <<>> /\ fsm.mode = "Permitting" /\ Head(queue).kind = "RapItem"
    BY DeliveryStep
  <2>2. Head(queue) = queue[1] /\ Len(queue) \in Nat /\ Len(queue) >= 1
    BY <2>1, TailAt DEF IInv, Typed
  <2>3. InForceAt(queue, fsm, 1, queue[1].n)
    BY <2>1, <2>2 DEF IInv, QueueInOrder
  <2>. QED
    BY <2>1, <2>2, <2>3 DEF InForceAt
<1>. QED
  BY <1>1, StreamInvariant, PTL DEF Spec, JudgedByDecisionInForce

-----------------------------------------------------------------------------
(* The subscriber's view                                                   *)

LEMMA GateFacts ==
    /\ GateOfMode["Pending"] = "unopened" /\ GateOfMode["Permitting"] = "open"
    /\ GateOfMode["Suspended"] = "shut" /\ GateOfMode["Terminated"] = "over"
  BY DEF GateOfMode

(* A live subscription is not over, and ending it is the abstract end.     *)
LEMMA EndIsAbstractEnd ==
    ASSUME IInv, driver # "ended", NEW how, EndWith(how), UNCHANGED shown
    PROVE  View!Ends
<1>1. Gate # "over" /\ Gate' = "over"
  BY GateFacts DEF Gate, EndWith, IInv, Typed, DriverConsistent, MealyStates, Modes
<1>. QED
  BY <1>1 DEF View!Ends

(* Every step of the driver on an event is an abstract step or a stutter.  *)
LEMMA DriverStepsView ==
    ASSUME IInv, NEW result \in DischargeResults, DriverSteps(result)
    PROVE  [View!Next]_<<Gate, shown>>
<1>. DEFINE event == EventOf(Head(queue), result)
            taken == Step(fsm, event)
<1>1. /\ driver \in {"waiting", "running"}
      /\ event.kind \in EventKinds \ {"Cancel"} /\ event.n \in Nat
      /\ StepCommon(taken)
      /\ StepEnds(taken) \/ StepYields(taken) \/ StepRunsOn(taken) \/ StepRaises
  BY DriverStepsCases DEF IInv
<1>2. fsm \in MealyStates /\ fsm.mode # "Terminated"
  BY <1>1 DEF IInv, Typed, DriverConsistent
<1>3. /\ taken.emission = "Emit" => fsm.mode = "Permitting" /\ taken.state = fsm
      /\ taken.emission = "EmitGranted" =>
            fsm.mode \in {"Pending", "Suspended"} /\ taken.state.mode = "Permitting"
      /\ taken.emission = "EmitSuspended" =>
            fsm.mode \in {"Pending", "Permitting"} /\ taken.state.mode = "Suspended"
      /\ taken.emission = "None" => taken.state.mode = fsm.mode
  BY <1>1, <1>2, StepFacts
<1>. HIDE DEF event, taken
<1>4. fsm' = taken.state
  BY <1>1 DEF StepCommon
<1>5. CASE StepEnds(taken)
  BY <1>1, <1>5, EndIsAbstractEnd DEF StepEnds, View!Next
<1>6. CASE StepYields(taken) \/ StepRunsOn(taken)
  <2>1. Gate = GateOfMode[fsm.mode] /\ Gate' = GateOfMode[fsm'.mode]
    BY <1>1, <1>6 DEF Gate, StepYields, StepRunsOn, AfterGet
  <2>2. CASE taken.emission = "EmitGranted"
    <3>1. shown' = View!Marker("granted")
      BY <1>6, <2>2, RenderedFacts, StreamAssumption DEF StepYields, StepRunsOn, View!Marker
    <3>. QED
      BY <1>3, <1>4, <2>1, <2>2, <3>1, GateFacts DEF View!Opens, View!Next
  <2>3. CASE taken.emission = "EmitSuspended"
    <3>1. shown' = View!Marker("suspended")
      BY <1>6, <2>3, RenderedFacts, StreamAssumption DEF StepYields, StepRunsOn, View!Marker
    <3>. QED
      BY <1>3, <1>4, <2>1, <2>3, <3>1, GateFacts DEF View!Shuts, View!Next
  <2>4. CASE taken.emission = "Emit"
    <3>1. shown' = "value"
      BY <1>6, <2>4, RenderedFacts DEF StepYields, StepRunsOn
    <3>. QED
      BY <1>3, <1>4, <2>1, <2>4, <3>1, GateFacts DEF View!Value, View!Next
  <2>5. CASE taken.emission = "None"
    <3>1. shown' = shown
      BY <1>6, <2>5 DEF StepYields, StepRunsOn
    <3>. QED
      BY <1>3, <1>4, <2>1, <2>5, <3>1
  <2>. QED
    BY <1>6, <2>2, <2>3, <2>4, <2>5 DEF StepYields, StepRunsOn
<1>7. CASE StepRaises
  BY <1>1, <1>7, EndIsAbstractEnd DEF StepRaises, View!Next
<1>. QED
  BY <1>1, <1>5, <1>6, <1>7

LEMMA NextView == IInv /\ [Next]_vars => [View!Next]_<<Gate, shown>>
<1> SUFFICES ASSUME IInv, [Next]_vars PROVE [View!Next]_<<Gate, shown>>
  OBVIOUS
<1>1. CASE \/ PdpNext \/ RapNext \/ DriverIgnoresPdpEnd \/ UNCHANGED vars
           \/ SubscriberResumes /\ ResumedRunsOn
  <2>1. fsm' = fsm /\ shown' = shown /\ (driver' = "ended" <=> driver = "ended")
    BY <1>1 DEF PdpNext, PdpDecides, PdpEnds, PdpFails, PdpDiesSilently, PdpUnwinds,
       RapNext, RapBegins, RapYields, RapStops, RapUnwinds, DriverIgnoresPdpEnd,
       DriverMayRun, SubscriberResumes, ResumedRunsOn, AfterGet, vars
  <2>. QED
    BY <2>1 DEF Gate
<1>2. CASE DriverRaisesRapError \/ SubscriberCloses \/ (SubscriberResumes /\ StepRaises)
  <2>1. PICK how \in {"failed", "closed"} : EndWith(how)
    BY <1>2 DEF DriverRaisesRapError, SubscriberCloses, StepRaises
  <2>2. driver # "ended" /\ shown' = shown
    BY <1>2 DEF DriverRaisesRapError, DriverMayRun, SubscriberCloses, SubscriberResumes,
       StepRaises
  <2>. QED
    BY <2>1, <2>2, EndIsAbstractEnd DEF View!Next
<1>. QED
  BY <1>1, <1>2, ResumesCases, DriverStepsView DEF Next, DriverNext

(* The pipeline implements what a subscriber may rely on: one marker per   *)
(* change of the gate, values only while it is open, nothing after the end.*)
THEOREM StreamImplementsView == Spec => SubscriberView
<1>1. Init => View!Init
  BY GateFacts DEF Init, View!Init, Gate, Pending
<1>. QED
  BY <1>1, NextView, StreamInvariant, PTL DEF Spec, SubscriberView, View!Spec
=============================================================================
