---------------------------- MODULE MCMcpMiddleware ----------------------------
(* Two components, which may share their identifier, under every policy that the gate *)
(* and the enforcement tell apart.                                                    *)
EXTENDS McpMiddleware

CONSTANTS c1, c2

MCComponents == {c1, c2}

MCConfigs ==
    {[guarded |-> TRUE, mode |-> "pre", stealth |-> TRUE, finalize |-> TRUE],
     [guarded |-> TRUE, mode |-> "post", stealth |-> TRUE, finalize |-> TRUE],
     [guarded |-> TRUE, mode |-> "pre", stealth |-> FALSE, finalize |-> FALSE],
     [guarded |-> FALSE, mode |-> "pre", stealth |-> FALSE, finalize |-> FALSE]}

Says(verb, has_resource, obligations) ==
    [verb |-> verb, has_resource |-> has_resource, obligations |-> obligations]

MCAnswers ==
    {Says("PERMIT", FALSE, "decision"), Says("PERMIT", TRUE, "decision"),
     Says("PERMIT", FALSE, "output"), Says("PERMIT", FALSE, "failing"),
     Says("DENY", FALSE, "decision"), Says("missing", FALSE, "decision")}
=============================================================================
