---------------------------- MODULE MCPlanExecution ----------------------------
(***************************************************************************)
(* Instances of PlanExecution for TLC: two providers, a supported data     *)
(* signal and the decision signal, and a library of claims that covers     *)
(* every way a claim can be ill-formed, tie or clash.                      *)
(***************************************************************************)
EXTENDS PlanExecution

Triple(signal, data, priority, shape) ==
    [signal |-> signal, data |-> data, priority |-> priority, shape |-> shape]

MapsOutput(p)     == Triple("output", TRUE, p, "mapper")
WatchesOutput(p)  == Triple("output", TRUE, p, "consumer")
RunsAt(signal, p) == Triple(signal, signal = "output", p, "runner")

\* What the first provider may claim, one or two triples at a time.
Library ==
    { <<>>,
      <<MapsOutput(0)>>, <<MapsOutput(1)>>,
      <<WatchesOutput(0), MapsOutput(0)>>,
      <<MapsOutput(0), MapsOutput(0)>>,
      <<RunsAt("output", 0), WatchesOutput(0)>>,
      <<RunsAt("decision", 1), MapsOutput(1)>>,
      <<RunsAt("decision", -1)>>,
      <<Triple("decision", FALSE, 0, "consumer")>>,
      <<RunsAt("input", 0)>>,
      <<MapsOutput(0), RunsAt("input", 0)>> }

\* The second provider claims nothing or competes with a runner.
Constraints ==
    {[p \in {"p1", "p2"} |-> IF p = "p1" THEN own ELSE other] :
        own \in Library, other \in {<<>>, <<RunsAt("decision", 0)>>}}

UpTo(n, S) == UNION {[1..k -> S] : k \in 0..n}

SmallDecisions ==
    {d \in [obligations : UpTo(2, Constraints), advice : UpTo(1, Constraints)] :
        Len(d.obligations) + Len(d.advice) <= 2}

\* What the theorems about skipped handlers suppose holds of this instance.
ASSUME InstanceIsHonest == HonestClaims /\ DecisionCarriesNothing
=============================================================================
