------------------------------ MODULE MCFrameworks ------------------------------
(* Two requests, the second one on a thread of its own, one custom         *)
(* provider, and room for a close after which both configure again.        *)
EXTENDS Frameworks

MCRequests == {"r1", "r2"}
MCLoops    == MCRequests \cup {"main"}

Looks(explicit, user, token) == [explicit |-> explicit, user |-> user, token |-> token]

MCAttributes ==
    [r \in MCRequests |->
        IF r = "r2" THEN {Looks("value", "none", "none")}
        ELSE {Looks("raises", "none", "none"), Looks("none", "named", "claims")}]

MCEntries ==
    [r \in MCRequests |->
        IF r = "r2" THEN {<<"pre", "sync">>}
        ELSE {<<"pre", "async">>, <<"post", "sync">>, <<"post", "async">>,
              <<"stream", "sync">>, <<"stream", "async">>, <<"message", "async">>}]

Says(status, verb, obliges, listed) ==
    [status |-> status, verb |-> verb, obliges |-> obliges, listed |-> listed]

MCResponses ==
    [r \in MCRequests |->
        {Says("ok", "PERMIT", {"p"}, TRUE), Says("ok", "PERMIT", {"p"}, FALSE)}
          \cup IF r = "r2" THEN {Says("error", "PERMIT", {}, TRUE)}
               ELSE {Says("refused", "PERMIT", {}, TRUE)}]
=============================================================================
