----------------------------- MODULE PlanExecution -----------------------------
(***************************************************************************)
(* The life of one decision at an enforcement point: it is planned once,   *)
(* and each supported signal fires with handlers that succeed, raise or    *)
(* drop the value.  What must come out of it, whatever the providers claim *)
(* and the handlers do, is stated here over the operators of Planner.      *)
(***************************************************************************)
EXTENDS Planner

CONSTANT
    Supported       (* the signals the enforcement point supports             *)

ASSUME PlanExecutionAssumption ==
    /\ DECISION \in Supported
    /\ DataCarrying \subseteq Supported

VARIABLES
    decision,       (* the decision being enforced                            *)
    plan,           (* its entries by signal, <<>> before planning            *)
    results         (* what execute made of every signal fired so far         *)

planVars == <<decision, plan, results>>

-----------------------------------------------------------------------------
(* One decision enforced: it is planned, the decision signal fires, then   *)
(* the others fire, each once.                                             *)

PlanInit ==
    /\ decision \in Decisions
    /\ plan = <<>>
    /\ results = <<>>

Plans ==
    /\ plan = <<>>
    /\ plan' = PlanFor(decision, Supported)
    /\ UNCHANGED <<decision, results>>

Fires(signal) ==
    /\ plan # <<>>
    /\ signal \notin DOMAIN results
    /\ signal # DECISION => DECISION \in DOMAIN results
    /\ \E handlers \in [DOMAIN plan[signal] -> Behaviours] :
          results' = [s \in DOMAIN results \cup {signal} |->
                        IF s = signal THEN Execute(plan, signal, handlers, FALSE) ELSE results[s]]
    /\ UNCHANGED <<decision, plan>>

PlanNext == Plans \/ \E signal \in Supported : Fires(signal)

PlanSpec == PlanInit /\ [][PlanNext]_planVars
-----------------------------------------------------------------------------
(* Properties                                                              *)

Failed == {signal \in DOMAIN results : results[signal].failed}

(* A plan schedules entries at supported signals only, and what ran at a   *)
(* signal is part of what the plan schedules there.                        *)
PlanTypeOK ==
    /\ decision \in Decisions
    /\ plan = <<>> \/ DOMAIN plan = Supported
    /\ DOMAIN results \subseteq Supported
    /\ \A signal \in DOMAIN results :
          /\ results[signal].failed \in BOOLEAN
          /\ ToSet(results[signal].ran) \subseteq ToSet(plan[signal])

Planned == plan # <<>>

\* The obligations that can be enforced at all: exactly one well-formed claim.
ClaimOf(k) == SoleClaim(decision.obligations[k])

Clean == {k \in DOMAIN decision.obligations :
            /\ Cardinality(Claimants(decision.obligations[k])) = 1
            /\ \A triple \in ToSet(ClaimOf(k)) :
                  /\ triple.shape # "runner" => triple.data
                  /\ triple.signal \in Supported}

\* The mappers of clean obligations: <<obligation, position in its claim>>.
Mappers == {m \in UNION {{k} \X DOMAIN ClaimOf(k) : k \in Clean} :
              ClaimOf(m[1])[m[2]].shape = "mapper"}

Clash == \E m, n \in Mappers :
            /\ m # n
            /\ ClaimOf(m[1])[m[2]].signal   = ClaimOf(n[1])[n[2]].signal
            /\ ClaimOf(m[1])[m[2]].priority = ClaimOf(n[1])[n[2]].priority

(* An obligation nobody can discharge, or two mappers whose order is       *)
(* undefined, fail the decision signal, whatever else is in the decision   *)
(* and however the handlers behave (the planner's fail-closed guarantee).  *)
FailClosed ==
    DECISION \in DOMAIN results /\ (Clean # DOMAIN decision.obligations \/ Clash)
        => DECISION \in Failed

(* When every signal has fired and none reported a failure, every handler  *)
(* of every obligation ran, except where a mapper dropped the value it was *)
(* to see: nothing an obligation asks for is lost between plan and execute.*)
NothingSkipped ==
    DOMAIN results = Supported /\ Failed = {}
        => \A k \in DOMAIN decision.obligations :
             \E p \in Claimants(decision.obligations[k]) :
               \A place \in DOMAIN decision.obligations[k][p] :
                 LET triple == decision.obligations[k][p][place]
                 IN  \/ Entry(triple, "obligation", k, place) \in ToSet(results[triple.signal].ran)
                     \/ /\ triple.shape # "runner"
                        /\ triple.signal \in DataCarrying
                        /\ results[triple.signal].absent

(* What ran at a signal ran by ascending priority, runners before mappers  *)
(* before consumers, and a value is mapped by obligations only, at most    *)
(* once per priority: the result does not depend on provider order.        *)
RunsInOrder ==
    \A signal \in DOMAIN results :
      /\ LET ran == results[signal].ran
         IN  \A i, j \in DOMAIN ran : i < j =>
               \/ ran[i].priority < ran[j].priority
               \/ /\ ran[i].priority = ran[j].priority
                  /\ ShapeOrder[ran[i].shape] <= ShapeOrder[ran[j].shape]
      /\ LET mapped == results[signal].mapped
         IN  \A i, j \in DOMAIN mapped :
               /\ mapped[i].tag = "obligation"
               /\ i < j => mapped[i].priority < mapped[j].priority

(* Advice is inert: what is scheduled for the obligations of a decision is *)
(* what would be scheduled if it came without advice, so unclaimed or      *)
(* malformed advice never denies and never displaces an obligation.        *)
AdviceIsInert ==
    Planned =>
      LET alone == PlanFor([decision EXCEPT !.advice = <<>>], Supported)
      IN  \A signal \in Supported :
            LET own == alone[signal]
                all == plan[signal]
            IN  /\ ToSet(own) = {e \in ToSet(all) : e.tag = "obligation"}
                /\ \A i, j \in DOMAIN own, h, k \in DOMAIN all :
                      i < j /\ own[i] = all[h] /\ own[j] = all[k] => h < k
=============================================================================
