-------------------------------- MODULE Mealy --------------------------------
(***************************************************************************)
(* The enforcement state machine of a stream subscription                  *)
(* (sapl_base/pep/streaming/mealy.py): a total transition function from a  *)
(* state and an event to the next state and at most one emission.          *)
(*                                                                         *)
(* A state is [mode, plan]; the plan is the number of the decision whose   *)
(* enforcement plan is in force while the mode is "Permitting", and 0      *)
(* otherwise.  An event is [kind, n], n being the number of the decision   *)
(* it carries.  Values, error texts and decisions are abstracted away.     *)
(***************************************************************************)
EXTENDS Naturals

Modes == {"Pending", "Permitting", "Suspended", "Terminated"}

Pending        == [mode |-> "Pending",    plan |-> 0]
Suspended      == [mode |-> "Suspended",  plan |-> 0]
Terminated     == [mode |-> "Terminated", plan |-> 0]
Permitting(p)  == [mode |-> "Permitting", plan |-> p]

MealyStates == [mode : Modes, plan : Nat]

EventKinds == {"PdpPermit", "PdpSuspend", "PdpDeny", "RapItem", "RapEpsilon",
               "RapObligationFailure", "RapComplete", "Cancel"}

\* The emissions a step can have; "None" is the empty tuple of emissions.
Emissions == {"None", "Emit", "EmitError", "EmitGranted", "EmitSuspended",
              "EmitComplete"}

To(state, emission) == [state |-> state, emission |-> emission]

\* Mutant: a permit during Permitting does not replace the plan.
OnPdpPermitKeepsPlan(state, p) ==
    IF state.mode = "Permitting" THEN To(state, "None")
    ELSE To(Permitting(p), "EmitGranted")

\* Mutant: every permit is announced.
OnPdpPermitAnnounced(state, p) == To(Permitting(p), "EmitGranted")

OnPdpPermit(state, p) ==
    To(Permitting(p), IF state.mode = "Permitting" THEN "None" ELSE "EmitGranted")

OnPdpSuspend(state) ==
    To(Suspended, IF state.mode = "Suspended" THEN "None" ELSE "EmitSuspended")

\* Mutant: a denial suspends.
OnPdpDenySuspends == To(Suspended, "EmitSuspended")

OnPdpDeny == To(Terminated, "EmitError")

OnRapItem(state) == To(state, IF state.mode = "Permitting" THEN "Emit" ELSE "None")

OnRapObligationFailure == To(Terminated, "EmitError")

Step(state, event) ==
    IF state.mode = "Terminated" THEN To(Terminated, "None")
    ELSE CASE event.kind = "PdpPermit"            -> OnPdpPermit(state, event.n)
           [] event.kind = "PdpSuspend"           -> OnPdpSuspend(state)
           [] event.kind = "PdpDeny"              -> OnPdpDeny
           [] event.kind = "RapItem"              -> OnRapItem(state)
           [] event.kind = "RapEpsilon"           -> To(state, "None")
           [] event.kind = "RapObligationFailure" -> OnRapObligationFailure
           [] event.kind = "RapComplete"          -> To(Terminated, "EmitComplete")
           [] event.kind = "Cancel"               -> To(Terminated, "None")
=============================================================================
