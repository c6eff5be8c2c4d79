------------------------------- MODULE MCOneShot -------------------------------
(***************************************************************************)
(* Instances of OneShot for TLC: one provider, and decisions with up to    *)
(* two obligations that differ in the signal they work at.                 *)
(***************************************************************************)
EXTENDS OneShot

Claim(signal, shape, priority) ==
    <<[signal |-> signal, data |-> signal # DECISION, priority |-> priority, shape |-> shape]>>

\* What the provider claims for an obligation; <<>> is one that nobody claims.
ClaimLibrary ==
    { <<>>,
      Claim(DECISION, "runner", 0),
      Claim(INPUT, "mapper", 0),
      Claim(OUTPUT, "mapper", 0),
      Claim(OUTPUT, "consumer", 1),
      Claim(ERROR, "consumer", 0),
      Claim(QUERY, "mapper", 0) }

Obligation(claim) == [p \in {"p"} |-> claim]

\* One order of every pair: the planner sorts, and numbers name the obligations.
ObligationLists ==
    {<<>>} \cup {<<Obligation(c)>> : c \in ClaimLibrary}
           \cup {<<Obligation(<<>>), Obligation(c)>> : c \in ClaimLibrary \ {<<>>}}
           \cup {<<Obligation(Claim(OUTPUT, "mapper", 0)), Obligation(c)>> :
                    c \in {Claim(OUTPUT, "consumer", 1), Claim(QUERY, "mapper", 0)}}

SomeDecisions ==
    {[verb |-> v, obligations |-> o, advice |-> <<>>] :
        v \in {"PERMIT", "DENY"}, o \in ObligationLists}

\* What the theorems about skipped handlers suppose holds of this instance.
ASSUME InstanceIsHonest == HonestClaims /\ DecisionCarriesNothing
=============================================================================
