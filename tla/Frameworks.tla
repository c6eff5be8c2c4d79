------------------------------- MODULE Frameworks -------------------------------
(***************************************************************************)
(* Requests through the decorators of the four web frameworks and through  *)
(* Django's WebSocket consumer, over the process's PepRuntime, while the   *)
(* application configures, extends and closes it.  What a decorator does   *)
(* is a program of steps; between two of them other requests, the          *)
(* application and the PDP act, also for synchronous views, which run on   *)
(* threads.  Enforcement itself is OneShot's subject: here an obligation   *)
(* is a provider's name, and an answer is what the caller gets.            *)
(***************************************************************************)
EXTENDS PepRuntime, SequencesExt

CONSTANTS
    Requests,
    Attributes,         (* per request, what it may look like to a builder     *)
    Entries,            (* per request, the entry points and modes it may have *)
    Responses,          (* per request, what the PDP may answer                *)
    HasTokenProvider    (* the client's authorization can be renewed           *)

(* A request's attributes: "explicit" is what the decorator's subject      *)
(* gives ("none", a "value", or a callable that "raises"); "user" is who   *)
(* the framework found ("none", "anonymous", "nameless", authenticated but *)
(* with no username, or "named"); "token" is "none", "garbled" or "claims".*)
(* A response's status is "ok", "refused" for 401 and 403, "error" for     *)
(* other statuses and for a transport that fails or times out; a verb of   *)
(* "garbled" stands for a body that is no decision; "obliges" is the set   *)
(* of its obligations, "listed" whether they come in a list.               *)

Response == [status : {"ok", "refused", "error"}, verb : STRING, obliges : SUBSET STRING,
             listed : BOOLEAN]

ASSUME FrameworksAssumption ==
    /\ HasTokenProvider \in BOOLEAN
    /\ Requests \subseteq Loops
    /\ "main" \in Loops \ Requests
    /\ DOMAIN Attributes = Requests
    /\ Responses \in [Requests -> SUBSET Response]
    /\ Entries \in [Requests -> SUBSET ({"pre", "post", "stream", "message"}
                                           \X {"sync", "async"})]

VARIABLES
    framework,      (* the one the process runs                                *)
    calls           (* per request, how far it is and what it holds            *)

vars == <<runtime, transport, framework, calls>>

FrameworkNames == {"django", "fastapi", "flask", "tornado"}
Answers        == {"none", "served", "denied", "error"}
-----------------------------------------------------------------------------
(* The decorators' programs                                                *)

DjangoPre    == <<"builds", "client", "planner", "transaction", "asks", "plans", "runs",
                  "discharges", "renders">>
DjangoPost   == <<"client", "planner", "transaction", "runs", "builds", "asks", "plans",
                  "discharges", "renders">>
DjangoStream == <<"builds", "client", "planner">>

\* SaplWebsocketConsumer: the verb is looked at before there is a plan, and no handler
\* of a signal other than the decision runs.
DjangoMessage == <<"builds", "client", "asks", "permits", "planner", "plans", "handles">>

FastApiPre    == <<"builds", "client", "planner", "transaction", "asks", "plans", "runs",
                   "discharges">>
FastApiPost   == <<"client", "planner", "transaction", "runs", "builds", "asks", "plans",
                   "discharges">>
FastApiStream == <<"builds", "client", "planner">>

FlaskPre    == <<"builds", "client", "planner", "transaction", "asks", "plans", "runs",
                 "discharges">>
FlaskPost   == <<"client", "planner", "transaction", "runs", "builds", "asks", "plans",
                 "discharges">>
FlaskStream == <<"builds", "client", "planner">>

\* The response is written when the transaction is over.
TornadoPre    == <<"builds", "client", "planner", "transaction", "asks", "plans", "runs",
                   "discharges", "renders">>
TornadoPost   == <<"client", "planner", "transaction", "runs", "builds", "asks", "plans",
                   "discharges", "renders">>
TornadoStream == <<"builds", "client", "planner">>

Programs ==
    [django  |-> [pre |-> DjangoPre, post |-> DjangoPost, stream |-> DjangoStream,
                  message |-> DjangoMessage],
     fastapi |-> [pre |-> FastApiPre, post |-> FastApiPost, stream |-> FastApiStream],
     flask   |-> [pre |-> FlaskPre, post |-> FlaskPost, stream |-> FlaskStream],
     tornado |-> [pre |-> TornadoPre, post |-> TornadoPost, stream |-> TornadoStream]]

\* Views of either kind in Django and FastAPI; Flask's are synchronous, Tornado's are not.
Modes(entry) ==
    CASE framework = "flask"           -> {"sync"}
      [] framework = "tornado"         -> {"async"}
      [] entry \in {"stream", "message"} -> {"async"}
      [] OTHER                         -> {"sync", "async"}

Nothing == [status |-> "none", verb |-> "none", obliges |-> {}, listed |-> TRUE]

NoCall ==
    [entry |-> "none", mode |-> "async",
     attributes |-> [explicit |-> "none", user |-> "none", token |-> "none"],
     at |-> 1, waits |-> "-", subject |-> "none", client |-> 0, planner |-> NoPlanner,
     transaction |-> FALSE, retried |-> FALSE, told |-> Nothing, verb |-> "none",
     obliges |-> {}, writes |-> "none", knew |-> {}, answer |-> "none"]

Init ==
    /\ RuntimeInit
    /\ framework \in FrameworkNames
    /\ calls = [r \in Requests |-> NoCall]

Begun(r)   == calls[r].entry # "none"
Over(r)    == calls[r].entry = "over"
Program(r) == Programs[framework][calls[r].entry]
At(r, step) == Begun(r) /\ ~Over(r) /\ Program(r)[calls[r].at] = step
Loop(r)    == IF calls[r].mode = "sync" THEN r ELSE "main"

Moves(r, call) == calls' = [calls EXCEPT ![r] = call]

\* The request is over and its locals are gone.
Ends(call, answer) ==
    [NoCall EXCEPT !.entry = "over", !.writes = call.writes, !.answer = answer]

\* The transaction scope ends: without one, what was written stays whatever comes.
Settled(call, fate) ==
    IF call.writes = "pending" THEN [call EXCEPT !.writes = fate] ELSE call

\* On to the next step; past the last one the request is served.
Forward(r, call) ==
    Moves(r, IF call.at < Len(Program(r)) THEN [call EXCEPT !.at = @ + 1, !.waits = "-"]
             ELSE Ends(call, "served"))

\* Mutant: the denial is caught within the transaction scope, which then commits.
DeniedInScope(r) == Moves(r, Settled(Ends(calls[r], "denied"), "committed"))

\* AccessDeniedError, which the decorators turn into a 403, and any other exception.
Denied(r) == Moves(r, Settled(Ends(calls[r], "denied"), "rolled_back"))
Fails(r)  == Moves(r, Settled(Ends(calls[r], "error"), "rolled_back"))
-----------------------------------------------------------------------------
(* Subscriptions                                                           *)

Claims(a) == IF a.token = "claims" THEN "claims" ELSE "anonymous"

\* Mutant: the token is looked at first.
DjangoSubjectOfToken(a) ==
    IF a.token = "claims" THEN "claims" ELSE IF a.user = "named" THEN "user" ELSE "anonymous"

\* A user without a username counts as nobody.
DjangoSubject(a)  == IF a.user = "named" THEN "user" ELSE Claims(a)

\* flask_login's current_user, or what the application put in g.user.
FlaskSubject(a)   == IF a.user \in {"named", "nameless"} THEN "user" ELSE Claims(a)

\* The scope's user is taken as it is, an unauthenticated one too.
FastApiSubject(a) == IF a.user # "none" THEN "user" ELSE "anonymous"
TornadoSubject(a) == IF a.user # "none" THEN "user" ELSE "anonymous"

\* A message is asked about as the application's build_subscription says.
Subject(entry, a) ==
    IF entry = "message" \/ a.explicit = "value" THEN "explicit"
    ELSE CASE framework = "django"  -> DjangoSubject(a)
           [] framework = "flask"   -> FlaskSubject(a)
           [] framework = "fastapi" -> FastApiSubject(a)
           [] OTHER                 -> TornadoSubject(a)
-----------------------------------------------------------------------------
(* A request                                                               *)

Arrives(r) ==
    \E e \in Entries[r], a \in Attributes[r] :
        /\ ~Begun(r)
        /\ e[1] \in DOMAIN Programs[framework] /\ e[2] \in Modes(e[1])
        /\ Moves(r, [NoCall EXCEPT !.entry = e[1], !.mode = e[2], !.attributes = a,
                                   !.knew = Range(providers)])
        /\ UNCHANGED <<runtime, transport, framework>>

\* What the application gives for the subject may raise, as may the framework's own user,
\* which is loaded when it is first looked at.
Builds(r) ==
    /\ At(r, "builds")
    /\ LET a == calls[r].attributes
       IN  \/ a.explicit # "raises"
             /\ Forward(r, [calls[r] EXCEPT !.subject = Subject(calls[r].entry, a),
                                            !.attributes = NoCall.attributes])
          \/ Fails(r)
    /\ UNCHANGED <<runtime, transport, framework>>

\* Django's getters configure on first use: is_configured, configure and the read
\* each take the lock for themselves.
ChecksConfigured(r) ==
    /\ framework = "django"
    /\ At(r, "client") \/ At(r, "planner")
    /\ calls[r].waits = "-"
    /\ Moves(r, [calls[r] EXCEPT !.waits = IF IsConfigured THEN "read" ELSE "configure"])
    /\ UNCHANGED <<runtime, transport, framework>>

\* There may be no settings, or the client may reject them.
ConfiguresLazily(r) ==
    /\ At(r, "client") \/ At(r, "planner")
    /\ calls[r].waits = "configure"
    /\ \/ Configure /\ Moves(r, [calls[r] EXCEPT !.waits = "read"])
       \/ Fails(r) /\ UNCHANGED <<runtime, transport>>
    /\ UNCHANGED framework

MayRead(r) == framework = "django" => calls[r].waits = "read"

ReadsClient(r) ==
    /\ At(r, "client") /\ MayRead(r)
    /\ IF IsConfigured THEN Forward(r, [calls[r] EXCEPT !.client = pdp_client]) ELSE Fails(r)
    /\ UNCHANGED <<runtime, transport, framework>>

ReadsPlanner(r) ==
    /\ At(r, "planner") /\ MayRead(r)
    /\ IF planner.built THEN Forward(r, [calls[r] EXCEPT !.planner = planner, !.knew = {}])
       ELSE Fails(r)
    /\ UNCHANGED <<runtime, transport, framework>>

ReadsTransaction(r) ==
    /\ At(r, "transaction")
    /\ Forward(r, [calls[r] EXCEPT !.transaction = transaction_provider])
    /\ UNCHANGED <<runtime, transport, framework>>

\* What the view raises is answered as an error, or as a denial when it is one or when an
\* obligation of the error fails.
Runs(r) ==
    /\ At(r, "runs")
    /\ LET call == [calls[r] EXCEPT !.writes = IF calls[r].transaction THEN "pending" ELSE "kept"]
       IN  \/ Forward(r, call)
           \/ \E answer \in {"error", "denied"} :
                Moves(r, Settled(Ends(call, answer), "rolled_back"))
    /\ UNCHANGED <<runtime, transport, framework>>
-----------------------------------------------------------------------------
(* Asking the PDP once                                                     *)

\* The authorization header comes first: a token provider may raise.
AuthorizationFails(r) ==
    /\ At(r, "asks") /\ calls[r].waits = "-"
    /\ HasTokenProvider
    /\ Fails(r)
    /\ UNCHANGED <<runtime, transport, framework>>

\* _get_client on a thread: another thread may come between any two of its reads and writes.
ChecksPool(r) ==
    /\ At(r, "asks") /\ calls[r].waits = "-" /\ calls[r].mode = "sync"
    /\ Moves(r, [calls[r] EXCEPT !.waits = IF NeedsPool(calls[r].client, Loop(r)) THEN "make"
                                           ELSE "take"])
    /\ UNCHANGED <<runtime, transport, framework>>

RebuildsPool(r) ==
    /\ At(r, "asks") /\ calls[r].waits = "make"
    /\ MakesPool(calls[r].client, Loop(r))
    /\ Moves(r, [calls[r] EXCEPT !.waits = "stamp"])
    /\ UNCHANGED framework

StampsPool(r) ==
    /\ At(r, "asks") /\ calls[r].waits = "stamp"
    /\ NotesLoop(calls[r].client, Loop(r))
    /\ Moves(r, [calls[r] EXCEPT !.waits = "take"])
    /\ UNCHANGED framework

\* The pool that is there by now: a closed one, or None, raises; one whose connections
\* belong to another loop may work or raise.
Posts(r) ==
    /\ At(r, "asks") /\ calls[r].waits = "take"
    /\ LET pool == http[calls[r].client]
       IN  \/ ~pool.closed /\ Moves(r, [calls[r] EXCEPT !.waits = "response"])
           \/ (pool.closed \/ pool.loop # Loop(r)) /\ Fails(r)
    /\ UNCHANGED <<runtime, transport, framework>>

\* On the event loop nothing comes in between.
PostsAsync(r) ==
    LET c == calls[r].client
    IN  /\ At(r, "asks") /\ calls[r].waits = "-" /\ calls[r].mode = "async"
        /\ IF NeedsPool(c, "main")
             THEN /\ http' = [http EXCEPT ![c] = [loop |-> "main", closed |-> FALSE]]
                  /\ http_loop' = [http_loop EXCEPT ![c] = "main"]
             ELSE UNCHANGED <<http, http_loop>>
        /\ \/ Moves(r, [calls[r] EXCEPT !.waits = "response"])
           \/ http'[c].loop # "main" /\ Fails(r)
        /\ UNCHANGED <<runtime, closing, draining, framework>>

\* Mutant: the body is read whatever the status.
DecisionOfBody(response) == response

\* No response, an error status and a body that is no decision are INDETERMINATE;
\* obligations that are no list are left out.
DecisionOf(response) ==
    IF response.status # "ok" \/ response.verb = "garbled"
      THEN [response EXCEPT !.verb = "INDETERMINATE", !.obliges = {}]
      ELSE [response EXCEPT !.obliges = IF response.listed THEN @ ELSE {}]

\* One retry after a 401 or 403, with a new token.
MayRenew(r, response) ==
    response.status = "refused" /\ HasTokenProvider /\ ~calls[r].retried

GetsResponse(r, response) ==
    /\ At(r, "asks") /\ calls[r].waits = "response"
    /\ LET decision == DecisionOf(response)
       IN  IF MayRenew(r, response)
             THEN Moves(r, [calls[r] EXCEPT !.retried = TRUE, !.waits = "-"])
             ELSE Forward(r, [calls[r] EXCEPT !.subject = "none", !.client = 0,
                                              !.retried = FALSE, !.told = response,
                                              !.verb = decision.verb,
                                              !.obliges = decision.obliges])
    /\ UNCHANGED <<runtime, transport, framework>>
-----------------------------------------------------------------------------
(* What the decision means                                                 *)

\* The consumer's check before there is a plan.
Permits(r) ==
    /\ At(r, "permits")
    /\ IF calls[r].verb = "PERMIT" THEN Forward(r, calls[r]) ELSE Denied(r)
    /\ UNCHANGED <<runtime, transport, framework>>

IsClaimed(o, p) == Cardinality({i \in DOMAIN p.providers : p.providers[i] = o}) = 1

\* An obligation that no provider claims, or two do, fails, as may a handler.
Plans(r) ==
    /\ At(r, "plans")
    /\ \/ /\ calls[r].verb = "PERMIT"
          /\ \A o \in calls[r].obliges : IsClaimed(o, calls[r].planner)
          /\ Forward(r, calls[r])
       \/ Denied(r)
    /\ UNCHANGED <<runtime, transport, framework>>

\* The obligations for the output, and the end of the transaction scope.  A commit that
\* raises may have taken place.
Discharges(r) ==
    /\ At(r, "discharges")
    /\ \/ Forward(r, Settled(calls[r], "committed"))
       \/ Denied(r)
       \/ /\ calls[r].writes = "pending"
          /\ \E fate \in {"committed", "rolled_back"} :
               Moves(r, Settled(Ends(calls[r], "error"), fate))
    /\ UNCHANGED <<runtime, transport, framework>>

\* What the method returned may be nothing the framework can write.
Renders(r) ==
    /\ At(r, "renders")
    /\ Forward(r, calls[r]) \/ Fails(r)
    /\ UNCHANGED <<runtime, transport, framework>>

Handles(r) ==
    /\ At(r, "handles")
    /\ LET call == [calls[r] EXCEPT !.writes = "kept"]
       IN  Forward(r, call) \/ Moves(r, Ends(call, "error"))
    /\ UNCHANGED <<runtime, transport, framework>>
-----------------------------------------------------------------------------
(* The specification                                                       *)

\* A bound: Django's client is closed only while every request can configure another.
Closes ==
    /\ framework = "django"
         => clients + Cardinality({r \in Requests : ~Over(r)}) <= MaxClients
    /\ TakesClientOut

\* Django has no call to configure: the settings do.  (A bound: the transaction provider
\* is set before there are requests, which read it only once.)
Application ==
    /\ \/ framework # "django" /\ Configure
       \/ \E p \in Custom : RegisterProvider(p)
       \/ (\A r \in Requests : ~Begun(r)) /\ SetTransactionProvider
       \/ Closes
       \/ ClosesPool
       \/ CloseEnds
    /\ UNCHANGED <<framework, calls>>

Step(r) ==
    \/ Builds(r) \/ ChecksConfigured(r) \/ ConfiguresLazily(r)
    \/ ReadsClient(r) \/ ReadsPlanner(r) \/ ReadsTransaction(r) \/ Runs(r)
    \/ AuthorizationFails(r) \/ ChecksPool(r) \/ RebuildsPool(r) \/ StampsPool(r)
    \/ Posts(r) \/ PostsAsync(r) \/ (\E response \in Responses[r] : GetsResponse(r, response))
    \/ Permits(r) \/ Plans(r) \/ Discharges(r) \/ Renders(r) \/ Handles(r)

Next == Application \/ \E r \in Requests : Arrives(r) \/ Step(r)

Spec == Init /\ [][Next]_vars
-----------------------------------------------------------------------------
(* Properties                                                              *)

(* The types, and a request's place in its program.                        *)
TypeOK ==
    /\ RuntimeTypeOK
    /\ framework \in FrameworkNames
    /\ \A r \in Requests :
         LET call == calls[r]
         IN  /\ call.entry \in DOMAIN Programs[framework] \cup {"none", "over"}
             /\ Begun(r) /\ ~Over(r) => call.at \in 1..Len(Program(r))
             /\ call.waits \in {"-", "read", "configure", "make", "stamp", "take", "response"}
             /\ call.client \in 0..clients
             /\ call.writes \in {"none", "kept", "pending", "committed", "rolled_back"}
             /\ call.answer \in Answers

(* The PDP's own words allow the request.                                  *)
Authorized(call) ==
    /\ call.told.status = "ok" /\ call.told.verb = "PERMIT"
    /\ call.told.listed => \A o \in call.told.obliges : IsClaimed(o, call.planner)

(* Whatever the framework, and whatever is configured, closed or           *)
(* registered meanwhile, a pre-enforced view or a message handler runs,    *)
(* and a post-enforced view's result leaves, only if the PDP said PERMIT   *)
(* to this very request and the planner it holds has exactly one provider  *)
(* for each obligation it listed.                                          *)
ServedIsPermitted ==
    [][\A r \in Requests :
          \/ calls[r].entry \in {"pre", "message"} /\ (At(r, "runs") \/ At(r, "handles"))
               /\ calls'[r] # calls[r]
          \/ calls[r].entry = "post" /\ calls[r].answer = "none" /\ calls'[r].answer = "served"
          => Authorized(calls[r])]_vars

(* A request that is denied leaves nothing of a transactional view behind. *)
DeniedIsRolledBack ==
    \A r \in Requests :
      calls[r].answer = "denied" => calls[r].writes \notin {"pending", "committed"}

(* What holds of a request in every state: the types, its place in its     *)
(* program, and that no denial leaves a transaction's writes behind        *)
(* (transaction.py, around what the decorators run).                       *)
RequestInv == TypeOK /\ DeniedIsRolledBack

(* A request that arrives after a provider was registered is planned with  *)
(* that provider, however often the runtime is reconfigured and whichever  *)
(* of several lazy configurations comes last.                              *)
SeesWhatWasRegistered ==
    [][\A r \in Requests :
          ~calls[r].planner.built /\ calls'[r].planner.built
            => calls[r].knew \subseteq Range(calls'[r].planner.providers)]_vars

(* Unless the decorator names a subject, the PDP is asked about the user   *)
(* the framework authenticated, never about a bearer token's claims        *)
(* (SubscriptionBuilder).  A consumer's message is asked about as its      *)
(* application says.                                                       *)
SubjectIsTheUser ==
    [][\A r \in Requests :
          /\ calls[r].subject = "none" /\ calls'[r].subject # "none"
          /\ calls[r].entry # "message"
          /\ calls[r].attributes.explicit = "none" /\ calls[r].attributes.user = "named"
          => calls'[r].subject = "user"]_vars
=============================================================================
