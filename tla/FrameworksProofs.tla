---------------------------- MODULE FrameworksProofs ----------------------------
(***************************************************************************)
(* For any number of requests, reconfigurations, closes and registrations: *)
(* a provider that was registered before a request arrives is in the       *)
(* planner the request gets; what runs or leaves is what the PDP           *)
(* permitted; the PDP is asked about the authenticated user; what is       *)
(* denied leaves nothing behind; and everything keeps its type.            *)
(***************************************************************************)
EXTENDS Frameworks, TLAPS

(* A planner is always built from the providers registered so far, and no  *)
(* request remembers a provider that is not among them.                    *)
RegistryInv ==
    /\ providers \in Seq(Custom)
    /\ planner.built => planner.providers = providers
    /\ DOMAIN calls = Requests
    /\ \A r \in Requests : {"knew", "planner"} \subseteq DOMAIN calls[r]
    /\ \A r \in Requests : calls[r].knew \subseteq Range(providers)

(* What a request may become in a step of its own: it remembers what it    *)
(* did or nothing, and gets no planner but the current one.                *)
Keeps(r, call) ==
    /\ {"knew", "planner"} \subseteq DOMAIN call
    /\ call.knew = calls[r].knew \/ call.knew = {}
    /\ \/ call.planner = calls[r].planner
       \/ call.planner = NoPlanner
       \/ call.planner = planner

Framed(r) == \E call : Moves(r, call) /\ Keeps(r, call)

HasFields(r) == {"knew", "planner"} \subseteq DOMAIN calls[r]
-----------------------------------------------------------------------------
(* How a request moves                                                     *)

(* Appending to the registered providers loses none of them.               *)
LEMMA AppendKeepsRange ==
    ASSUME NEW s \in Seq(Custom), NEW p \in Custom
    PROVE  Range(s) \subseteq Range(Append(s, p))
<1>1. /\ DOMAIN s = 1..Len(s) /\ DOMAIN Append(s, p) = 1..(Len(s) + 1)
      /\ Len(s) \in Nat
      /\ \A i \in 1..Len(s) : Append(s, p)[i] = s[i]
  OBVIOUS
<1> QED  BY <1>1 DEF Range

(* A request that is over holds no planner and remembers nothing.          *)
LEMMA EndsKeeps ==
    ASSUME NEW r, NEW call, NEW answer
    PROVE  Keeps(r, Ends(call, answer))
BY DEF Keeps, Ends, NoCall

(* The end of the transaction scope touches the writes only.               *)
LEMMA SettledKeeps ==
    ASSUME NEW r, NEW call, NEW fate, Keeps(r, call)
    PROVE  Keeps(r, Settled(call, fate))
BY DEF Keeps, Settled

(* Going on keeps what the request held.                                   *)
LEMMA ForwardKeeps ==
    ASSUME NEW r, NEW call, Keeps(r, call), Forward(r, call)
    PROVE  Framed(r)
<1>1. Keeps(r, [call EXCEPT !.at = @ + 1, !.waits = "-"])
  BY DEF Keeps
<1>2. Keeps(r, Ends(call, "served"))
  BY EndsKeeps
<1> QED  BY <1>1, <1>2 DEF Forward, Framed

(* So does being denied ...                                                *)
LEMMA DeniedKeeps ==
    ASSUME NEW r, Denied(r)
    PROVE  Framed(r)
BY EndsKeeps, SettledKeeps DEF Denied, Framed

(* ... or failing.                                                         *)
LEMMA FailsKeeps ==
    ASSUME NEW r, Fails(r)
    PROVE  Framed(r)
BY EndsKeeps, SettledKeeps DEF Fails, Framed

(* Every step of a request is such a move.                                 *)
LEMMA StepKeeps ==
    ASSUME NEW r \in Requests, HasFields(r), Step(r)
    PROVE  Framed(r)
<1> USE DEF HasFields
<1>0. Keeps(r, calls[r])
  BY DEF Keeps
<1>1. CASE Builds(r)
  <2>1. Keeps(r, [calls[r] EXCEPT !.subject = Subject(calls[r].entry, calls[r].attributes),
                                  !.attributes = NoCall.attributes])
    BY DEF Keeps
  <2> QED  BY <1>1, <2>1, ForwardKeeps, FailsKeeps DEF Builds
<1>2. CASE ChecksConfigured(r)
  <2>1. \A w : Keeps(r, [calls[r] EXCEPT !.waits = w])
    BY DEF Keeps
  <2> QED  BY <1>2, <2>1 DEF ChecksConfigured, Framed
<1>3. CASE ConfiguresLazily(r)
  <2>1. Keeps(r, [calls[r] EXCEPT !.waits = "read"])
    BY DEF Keeps
  <2> QED  BY <1>3, <2>1, FailsKeeps DEF ConfiguresLazily, Framed
<1>4. CASE ReadsClient(r)
  <2>1. Keeps(r, [calls[r] EXCEPT !.client = pdp_client])
    BY DEF Keeps
  <2> QED  BY <1>4, <2>1, ForwardKeeps, FailsKeeps DEF ReadsClient
<1>5. CASE ReadsPlanner(r)
  <2>1. Keeps(r, [calls[r] EXCEPT !.planner = planner, !.knew = {}])
    BY DEF Keeps
  <2> QED  BY <1>5, <2>1, ForwardKeeps, FailsKeeps DEF ReadsPlanner
<1>6. CASE ReadsTransaction(r)
  <2>1. Keeps(r, [calls[r] EXCEPT !.transaction = transaction_provider])
    BY DEF Keeps
  <2> QED  BY <1>6, <2>1, ForwardKeeps DEF ReadsTransaction
<1>7. CASE Runs(r)
  <2>1. \A w : Keeps(r, [calls[r] EXCEPT !.writes = w])
    BY DEF Keeps
  <2> QED  BY <1>7, <2>1, ForwardKeeps, EndsKeeps, SettledKeeps DEF Runs, Framed
<1>8. CASE AuthorizationFails(r)
  BY <1>8, FailsKeeps DEF AuthorizationFails
<1>9. CASE ChecksPool(r) \/ RebuildsPool(r) \/ StampsPool(r) \/ Posts(r) \/ PostsAsync(r)
  <2>1. \A w : Keeps(r, [calls[r] EXCEPT !.waits = w])
    BY DEF Keeps
  <2>2. \A w : Moves(r, [calls[r] EXCEPT !.waits = w]) => Framed(r)
    BY <2>1 DEF Framed
  <2> QED  BY <1>9, <2>2, FailsKeeps
           DEF ChecksPool, RebuildsPool, StampsPool, Posts, PostsAsync
<1>10. ASSUME NEW response \in Responses[r], GetsResponse(r, response)
       PROVE  Framed(r)
  <2>1. Keeps(r, [calls[r] EXCEPT !.retried = TRUE, !.waits = "-"])
    BY DEF Keeps
  <2>2. \A verb, obliges :
            Keeps(r, [calls[r] EXCEPT !.subject = "none", !.client = 0, !.retried = FALSE,
                                      !.told = response, !.verb = verb,
                                      !.obliges = obliges])
    BY DEF Keeps
  <2> QED  BY <1>10, <2>1, <2>2, ForwardKeeps DEF GetsResponse, Framed
<1>11. CASE Permits(r) \/ Plans(r) \/ Renders(r)
  BY <1>11, <1>0, ForwardKeeps, DeniedKeeps, FailsKeeps DEF Permits, Plans, Renders
<1>12. CASE Discharges(r)
  <2>1. \/ Forward(r, Settled(calls[r], "committed")) \/ Denied(r)
        \/ \E fate : Moves(r, Settled(Ends(calls[r], "error"), fate))
    BY <1>12 DEF Discharges
  <2>2. \A fate : Keeps(r, Settled(Ends(calls[r], "error"), fate))
    BY EndsKeeps, SettledKeeps
  <2> QED  BY <1>0, <2>1, <2>2, SettledKeeps, ForwardKeeps, DeniedKeeps DEF Framed
<1>13. CASE Handles(r)
  <2>1. Keeps(r, [calls[r] EXCEPT !.writes = "kept"])
    BY DEF Keeps
  <2> QED  BY <1>13, <2>1, ForwardKeeps, EndsKeeps DEF Handles, Framed
<1> QED  BY <1>1, <1>2, <1>3, <1>4, <1>5, <1>6, <1>7, <1>8, <1>9, <1>10, <1>11, <1>12, <1>13
         DEF Step
-----------------------------------------------------------------------------
(* What was registered                                                     *)

(* A process starts without providers.                                     *)
LEMMA RegistryInit == Init => RegistryInv
BY DEF Init, RuntimeInit, RegistryInv, NoPlanner, NoCall, Range

(* The runtime's own steps keep a built planner up to date.                *)
LEMMA ApplicationKeepsRegistry ==
    ASSUME RegistryInv, Application
    PROVE  RegistryInv'
<1>1. calls' = calls
  BY DEF Application
<1>2. CASE Configure
  BY <1>1, <1>2 DEF Configure, Built, RegistryInv
<1>3. ASSUME NEW p \in Custom, RegisterProvider(p)
      PROVE  RegistryInv'
  <2>1. providers' = Append(providers, p) /\ providers' \in Seq(Custom)
    BY <1>3 DEF RegisterProvider, RegistryInv
  <2>2. Range(providers) \subseteq Range(providers')
    BY <2>1, AppendKeepsRange DEF RegistryInv
  <2>3. planner'.built => planner'.providers = providers'
    BY <1>3 DEF RegisterProvider, Built
  <2> QED  BY <1>1, <2>1, <2>2, <2>3 DEF RegistryInv
<1>4. CASE UNCHANGED <<planner, providers>>
  BY <1>1, <1>4 DEF RegistryInv
<1>5. SetTransactionProvider \/ TakesClientOut \/ ClosesPool \/ CloseEnds
        => UNCHANGED <<planner, providers>>
  BY DEF SetTransactionProvider, TakesClientOut, ClosesPool, CloseEnds, runtime
<1> QED  BY <1>2, <1>3, <1>4, <1>5 DEF Application, Closes

(* A step of a request changes the planner only by configuring lazily.     *)
LEMMA StepKeepsRuntime ==
    ASSUME NEW r \in Requests, Step(r)
    PROVE  UNCHANGED <<planner, providers>> \/ Configure
<1>1. CASE ConfiguresLazily(r)
  BY <1>1 DEF ConfiguresLazily, runtime
<1>2. CASE UNCHANGED <<planner, providers>>
  BY <1>2
<1>3. CASE Builds(r) \/ ChecksConfigured(r) \/ ReadsClient(r) \/ ReadsPlanner(r)
              \/ ReadsTransaction(r) \/ Runs(r) \/ AuthorizationFails(r) \/ ChecksPool(r)
  BY <1>3 DEF Builds, ChecksConfigured, ReadsClient, ReadsPlanner, ReadsTransaction, Runs,
              AuthorizationFails, ChecksPool, runtime
<1>4. CASE RebuildsPool(r) \/ StampsPool(r) \/ Posts(r) \/ PostsAsync(r)
              \/ (\E response \in Responses[r] : GetsResponse(r, response))
  BY <1>4 DEF RebuildsPool, StampsPool, Posts, PostsAsync, GetsResponse, MakesPool, NotesLoop,
              runtime
<1>5. CASE Permits(r) \/ Plans(r) \/ Discharges(r) \/ Renders(r) \/ Handles(r)
  BY <1>5 DEF Permits, Plans, Discharges, Renders, Handles, runtime
<1> QED  BY <1>1, <1>3, <1>4, <1>5 DEF Step

(* An arriving request remembers the providers of that moment.             *)
LEMMA ArrivalKeepsRegistry ==
    ASSUME RegistryInv, NEW r \in Requests, Arrives(r)
    PROVE  RegistryInv'
<1>1. PICK e, a : Moves(r, [NoCall EXCEPT !.entry = e[1], !.mode = e[2], !.attributes = a,
                                         !.knew = Range(providers)])
  BY DEF Arrives
<1> DEFINE call == [NoCall EXCEPT !.entry = e[1], !.mode = e[2], !.attributes = a,
                                 !.knew = Range(providers)]
<1>2. {"knew", "planner"} \subseteq DOMAIN call /\ call.knew = Range(providers)
  BY DEF NoCall
<1>3. UNCHANGED <<planner, providers>>
  BY DEF Arrives, runtime
<1>4. Moves(r, call)
  BY <1>1
<1> HIDE DEF call
<1> QED  BY <1>2, <1>3, <1>4 DEF RegistryInv, Moves

(* A step of a request keeps the registry's invariant.                     *)
LEMMA StepKeepsRegistry ==
    ASSUME RegistryInv, NEW r \in Requests, Step(r)
    PROVE  RegistryInv'
<1>1. PICK call : Moves(r, call) /\ Keeps(r, call)
  BY StepKeeps DEF RegistryInv, HasFields, Framed
<1>2. providers' = providers
  BY StepKeepsRuntime DEF Configure
<1>3. planner'.built => planner'.providers = providers'
  BY StepKeepsRuntime, <1>2 DEF Configure, Built, RegistryInv
<1> QED  BY <1>1, <1>2, <1>3 DEF RegistryInv, Moves, Keeps

(* The registry's invariant holds throughout.                              *)
THEOREM RegistryHolds == Spec => []RegistryInv
<1>1. RegistryInv /\ [Next]_vars => RegistryInv'
  <2> SUFFICES ASSUME RegistryInv, [Next]_vars
               PROVE  RegistryInv'
    OBVIOUS
  <2>1. CASE UNCHANGED vars
    BY <2>1 DEF vars, runtime, RegistryInv
  <2>2. CASE Next
    BY <2>2, ApplicationKeepsRegistry, ArrivalKeepsRegistry, StepKeepsRegistry DEF Next
  <2> QED  BY <2>1, <2>2
<1> QED  BY RegistryInit, <1>1, PTL DEF Spec

(* Whoever arrives after a registration is planned with that provider.     *)
THEOREM RegisteredIsSeen == Spec => SeesWhatWasRegistered
<1>1. ASSUME RegistryInv, [Next]_vars, NEW r \in Requests,
             ~calls[r].planner.built, calls'[r].planner.built
      PROVE  calls[r].knew \subseteq Range(calls'[r].planner.providers)
  <2>1. calls' # calls
    BY <1>1
  <2>2. PICK s \in Requests : Arrives(s) \/ Step(s)
    BY <1>1, <2>1 DEF Next, Application, vars
  <2>3. CASE Arrives(s)
    BY <1>1, <2>3 DEF Arrives, Moves, NoCall, NoPlanner, RegistryInv
  <2>4. CASE Step(s)
    <3>1. PICK call : Moves(s, call) /\ Keeps(s, call)
      BY <1>1, <2>4, StepKeeps DEF RegistryInv, HasFields, Framed
    <3>2. calls'[r].planner = planner
      BY <1>1, <3>1 DEF Moves, Keeps, RegistryInv, NoPlanner
    <3> QED  BY <1>1, <3>2 DEF RegistryInv
  <2> QED  BY <2>2, <2>3, <2>4
<1>2. RegistryInv /\ [Next]_vars
        => [\A r \in Requests :
              ~calls[r].planner.built /\ calls'[r].planner.built
                => calls[r].knew \subseteq Range(calls'[r].planner.providers)]_vars
  BY <1>1
<1> QED  BY RegistryHolds, <1>2, PTL DEF Spec, SeesWhatWasRegistered
-----------------------------------------------------------------------------
(* The order of a decorator's steps                                        *)

PastIn(p, at, step) == \E i \in DOMAIN p : i < at /\ p[i] = step

(* What enforcement needs of a program: the decision is read before there  *)
(* is a plan, nothing the plan rests on changes after it, and the plan     *)
(* comes before what it protects.                                          *)
WellOrdered(p, entry) ==
    /\ \A i, j \in DOMAIN p : i < j /\ p[i] = "plans" => p[j] # "planner" /\ p[j] # "asks"
    /\ \A j \in DOMAIN p : p[j] = "plans" => PastIn(p, j, "asks")
    /\ entry \in {"pre", "message"} =>
         \A j \in DOMAIN p : p[j] \in {"runs", "handles"} => PastIn(p, j, "plans")
    /\ entry = "post" => PastIn(p, Len(p), "plans")
    /\ DOMAIN p = 1..Len(p) /\ Len(p) \in Nat

(* Django's programs, the consumer's among them, are so ordered.           *)
LEMMA DjangoIsOrdered ==
    /\ WellOrdered(DjangoPre, "pre") /\ WellOrdered(DjangoPost, "post")
    /\ WellOrdered(DjangoStream, "stream") /\ WellOrdered(DjangoMessage, "message")
<1>1. WellOrdered(DjangoPre, "pre")
  BY DEF WellOrdered, PastIn, DjangoPre
<1>2. WellOrdered(DjangoPost, "post")
  BY DEF WellOrdered, PastIn, DjangoPost
<1>3. WellOrdered(DjangoStream, "stream")
  BY DEF WellOrdered, PastIn, DjangoStream
<1>4. WellOrdered(DjangoMessage, "message")
  BY DEF WellOrdered, PastIn, DjangoMessage
<1> QED  BY <1>1, <1>2, <1>3, <1>4

(* So are those of the other three frameworks.                             *)
LEMMA OthersAreOrdered ==
    /\ WellOrdered(FastApiPre, "pre") /\ WellOrdered(FastApiPost, "post")
    /\ WellOrdered(FlaskPre, "pre") /\ WellOrdered(FlaskPost, "post")
    /\ WellOrdered(TornadoPre, "pre") /\ WellOrdered(TornadoPost, "post")
    /\ WellOrdered(FastApiStream, "stream") /\ WellOrdered(FlaskStream, "stream")
    /\ WellOrdered(TornadoStream, "stream")
<1>1. WellOrdered(FastApiPre, "pre") /\ WellOrdered(FlaskPre, "pre")
  BY DEF WellOrdered, PastIn, FastApiPre, FlaskPre
<1>2. WellOrdered(FastApiPost, "post") /\ WellOrdered(FlaskPost, "post")
  BY DEF WellOrdered, PastIn, FastApiPost, FlaskPost
<1>3. WellOrdered(TornadoPre, "pre")
  BY DEF WellOrdered, PastIn, TornadoPre
<1>4. WellOrdered(TornadoPost, "post")
  BY DEF WellOrdered, PastIn, TornadoPost
<1>5. WellOrdered(FastApiStream, "stream") /\ WellOrdered(FlaskStream, "stream")
        /\ WellOrdered(TornadoStream, "stream")
  BY DEF WellOrdered, PastIn, FastApiStream, FlaskStream, TornadoStream
<1> QED  BY <1>1, <1>2, <1>3, <1>4, <1>5

(* Every program of every framework is well ordered.                       *)
LEMMA ProgramsAreOrdered ==
    ASSUME NEW name \in FrameworkNames, NEW entry \in DOMAIN Programs[name]
    PROVE  WellOrdered(Programs[name][entry], entry)
BY DjangoIsOrdered, OthersAreOrdered DEF FrameworkNames, Programs

-----------------------------------------------------------------------------
(* What a request knows of the decision                                    *)

(* The request holds what the client made of the PDP's words.              *)
Holds(call) ==
    /\ call.told \in Response
    /\ call.verb = DecisionOf(call.told).verb
    /\ call.obliges = DecisionOf(call.told).obliges

Live(call) == call.entry # "none" /\ call.entry # "over"

CallOK(name, call) ==
    /\ DOMAIN NoCall \subseteq DOMAIN call
    /\ Live(call) =>
         /\ call.entry \in DOMAIN Programs[name]
         /\ call.at \in DOMAIN Programs[name][call.entry]
         /\ call.answer = "none"
         /\ PastIn(Programs[name][call.entry], call.at, "asks") => Holds(call)
         /\ PastIn(Programs[name][call.entry], call.at, "plans") => Authorized(call)

DecisionInv ==
    /\ framework \in FrameworkNames
    /\ DOMAIN calls = Requests
    /\ \A r \in Requests : CallOK(framework, calls[r])

(* A move that keeps this, and serves only at the end of the program.      *)
MovesWell(r) ==
    \E call : /\ Moves(r, call)
              /\ CallOK(framework, call)
              /\ call.answer = "served" => calls[r].at >= Len(Program(r))

(* Nothing that bears on the decision is touched.                          *)
Same(call, old) ==
    /\ DOMAIN NoCall \subseteq DOMAIN call
    /\ call.entry = old.entry /\ call.at = old.at /\ call.answer = old.answer
    /\ call.told = old.told /\ call.verb = old.verb /\ call.obliges = old.obliges
    /\ call.planner = old.planner

(* A request that asked, and is permitted as far as the client can tell,   *)
(* is permitted in the PDP's own words.                                    *)
LEMMA PermittedIsAuthorized ==
    ASSUME NEW call, Holds(call), call.verb = "PERMIT",
           \A o \in call.obliges : IsClaimed(o, call.planner)
    PROVE  Authorized(call)
<1>1. call.told \in [status : {"ok", "refused", "error"}, verb : STRING,
                     obliges : SUBSET STRING, listed : BOOLEAN]
  BY DEF Holds, Response
<1>2. call.told.status = "ok" /\ call.told.verb # "garbled"
  BY <1>1 DEF Holds, DecisionOf
<1>3. call.verb = call.told.verb
  BY <1>1, <1>2 DEF Holds, DecisionOf
<1>4. call.told.listed => call.obliges = call.told.obliges
  BY <1>1, <1>2 DEF Holds, DecisionOf
<1> QED  BY <1>2, <1>3, <1>4 DEF Authorized

(* The end of a request is nothing to check.                               *)
LEMMA EndsIsOK ==
    ASSUME NEW call, NEW answer, NEW fate
    PROVE  /\ CallOK(framework, Ends(call, answer)) /\ Ends(call, answer).answer = answer
           /\ CallOK(framework, Settled(Ends(call, answer), fate))
           /\ Settled(Ends(call, answer), fate).answer = answer
BY DEF CallOK, Ends, Settled, Live, NoCall

(* Nor is a denial ...                                                     *)
LEMMA DeniedMovesWell ==
    ASSUME NEW r, Denied(r)
    PROVE  MovesWell(r)
BY EndsIsOK DEF Denied, MovesWell

(* ... or a failure.                                                       *)
LEMMA FailsMovesWell ==
    ASSUME NEW r, Fails(r)
    PROVE  MovesWell(r)
BY EndsIsOK DEF Fails, MovesWell

(* What a request must bring to the end of its step.                       *)
Carries(r, call) ==
    /\ DOMAIN NoCall \subseteq DOMAIN call
    /\ call.entry = calls[r].entry /\ call.at = calls[r].at /\ call.answer = "none"
    /\ \A i \in DOMAIN Program(r) :
         i <= call.at => /\ Program(r)[i] = "asks" => Holds(call)
                         /\ Program(r)[i] = "plans" => Authorized(call)

(* A live request's place is one of its program, which is well ordered.    *)
LEMMA LivePlace ==
    ASSUME DecisionInv, NEW r \in Requests, Live(calls[r])
    PROVE  /\ WellOrdered(Program(r), calls[r].entry)
           /\ calls[r].at \in DOMAIN Program(r)
           /\ calls[r].answer = "none"
           /\ DOMAIN NoCall \subseteq DOMAIN calls[r]
BY ProgramsAreOrdered DEF DecisionInv, CallOK, Program

(* With that a request goes on.                                            *)
LEMMA ForwardMovesWell ==
    ASSUME DecisionInv, NEW r \in Requests, Live(calls[r]), NEW call,
           Carries(r, call), Forward(r, call)
    PROVE  MovesWell(r)
<1> DEFINE p == Program(r)
<1>1. /\ DOMAIN p = 1..Len(p) /\ Len(p) \in Nat /\ call.at \in 1..Len(p)
      /\ call.entry \in DOMAIN Programs[framework]
      /\ p = Programs[framework][call.entry]
  BY LivePlace DEF WellOrdered, Carries, DecisionInv, CallOK, Program
<1>2. CASE call.at < Len(p)
  <2> DEFINE next == [call EXCEPT !.at = @ + 1, !.waits = "-"]
  <2>1. Moves(r, next)
    BY <1>2 DEF Forward
  <2>2. /\ DOMAIN NoCall \subseteq DOMAIN next /\ next.at = call.at + 1
        /\ next.entry = call.entry /\ next.answer = "none" /\ next.told = call.told
        /\ next.verb = call.verb /\ next.obliges = call.obliges /\ next.planner = call.planner
    BY DEF Carries, NoCall
  <2> HIDE DEF next
  <2>3. /\ Holds(call) => Holds(next)
        /\ Authorized(call) => Authorized(next)
    BY <2>2 DEF Holds, Authorized
  <2>4. PastIn(p, next.at, "asks") => Holds(next)
    BY <1>1, <2>2, <2>3 DEF Carries, PastIn
  <2>5. PastIn(p, next.at, "plans") => Authorized(next)
    BY <1>1, <2>2, <2>3 DEF Carries, PastIn
  <2>6. next.at \in DOMAIN p
    BY <1>1, <1>2, <2>2
  <2>7. CallOK(framework, next)
    BY <1>1, <2>2, <2>4, <2>5, <2>6 DEF CallOK
  <2> QED  BY <2>1, <2>2, <2>7 DEF MovesWell
<1>3. CASE ~(call.at < Len(p))
  <2>1. Moves(r, Ends(call, "served"))
    BY <1>3 DEF Forward
  <2>2. calls[r].at >= Len(p)
    BY <1>1, <1>3 DEF Carries
  <2> QED  BY <2>1, <2>2, EndsIsOK DEF MovesWell
<1> QED  BY <1>2, <1>3

(* A step that leaves the decision alone brings what is needed, unless it  *)
(* is the one that asks or plans.                                          *)
LEMMA SameCarries ==
    ASSUME DecisionInv, NEW r \in Requests, Live(calls[r]), NEW call, Same(call, calls[r]),
           Program(r)[calls[r].at] # "asks", Program(r)[calls[r].at] # "plans"
    PROVE  Carries(r, call)
<1>1. /\ PastIn(Program(r), calls[r].at, "asks") => Holds(call)
      /\ PastIn(Program(r), calls[r].at, "plans") => Authorized(call)
  BY DEF DecisionInv, CallOK, Same, Holds, Authorized, Program
<1>2. DOMAIN Program(r) = 1..Len(Program(r)) /\ calls[r].at \in DOMAIN Program(r)
        /\ Len(Program(r)) \in Nat
  BY LivePlace DEF WellOrdered
<1>3. ASSUME NEW i \in DOMAIN Program(r), i <= call.at
      PROVE  /\ Program(r)[i] = "asks" => Holds(call)
             /\ Program(r)[i] = "plans" => Authorized(call)
  BY <1>1, <1>2, <1>3 DEF PastIn, Same
<1> QED  BY <1>3, LivePlace DEF Carries, Same

(* A request that stays where it is stays well.                            *)
LEMMA SameMovesWell ==
    ASSUME DecisionInv, NEW r \in Requests, Live(calls[r]), NEW call, Same(call, calls[r]),
           Moves(r, call)
    PROVE  MovesWell(r)
<1>1. CallOK(framework, call)
  BY DEF DecisionInv, CallOK, Same, Live, Holds, Authorized
<1>2. call.answer = "none"
  BY LivePlace DEF Same
<1> QED  BY <1>1, <1>2 DEF MovesWell

(* A step of the program finds the request live and at its place.          *)
LEMMA AtIsLive ==
    ASSUME NEW r, NEW step, At(r, step)
    PROVE  Live(calls[r]) /\ Program(r)[calls[r].at] = step
BY DEF At, Begun, Over, Live

(* Every step of a request moves it well.                                  *)
LEMMA StepMovesWell ==
    ASSUME DecisionInv, NEW r \in Requests, Step(r)
    PROVE  MovesWell(r)
<1>0. ASSUME Live(calls[r])
      PROVE  /\ DOMAIN NoCall \subseteq DOMAIN calls[r]
             /\ Same(calls[r], calls[r])
             /\ \A w : Same([calls[r] EXCEPT !.waits = w], calls[r])
             /\ \A w : Same([calls[r] EXCEPT !.writes = w], calls[r])
  BY <1>0, LivePlace DEF Same, NoCall
<1>1. CASE Builds(r)
  <2>1. Same([calls[r] EXCEPT !.subject = Subject(calls[r].entry, calls[r].attributes),
                              !.attributes = NoCall.attributes], calls[r])
    BY <1>0, <1>1, AtIsLive DEF Builds, Same, NoCall
  <2> QED  BY <1>1, <2>1, AtIsLive, SameCarries, ForwardMovesWell, FailsMovesWell DEF Builds
<1>2. CASE ChecksConfigured(r) \/ ConfiguresLazily(r)
  BY <1>0, <1>2, AtIsLive, SameMovesWell, FailsMovesWell DEF ChecksConfigured, ConfiguresLazily
<1>3. CASE ReadsClient(r)
  <2>1. Same([calls[r] EXCEPT !.client = pdp_client], calls[r])
    BY <1>0, <1>3, AtIsLive DEF ReadsClient, Same, NoCall
  <2> QED  BY <1>3, <2>1, AtIsLive, SameCarries, ForwardMovesWell, FailsMovesWell DEF ReadsClient
<1>4. CASE ReadsPlanner(r)
  <2> DEFINE call == [calls[r] EXCEPT !.planner = planner, !.knew = {}]
  <2>1. Live(calls[r]) /\ Program(r)[calls[r].at] = "planner"
    BY <1>4, AtIsLive DEF ReadsPlanner
  <2>2. /\ DOMAIN NoCall \subseteq DOMAIN call /\ call.entry = calls[r].entry
        /\ call.at = calls[r].at /\ call.answer = "none" /\ call.told = calls[r].told
        /\ call.verb = calls[r].verb /\ call.obliges = calls[r].obliges
    BY <1>0, <2>1, LivePlace DEF NoCall
  <2>3. Forward(r, call) \/ Fails(r)
    BY <1>4 DEF ReadsPlanner
  <2> HIDE DEF call
  <2>4. /\ PastIn(Program(r), calls[r].at, "asks") => Holds(call)
        /\ ~PastIn(Program(r), calls[r].at, "plans")
    BY <2>1, <2>2, LivePlace DEF DecisionInv, CallOK, Holds, Program, WellOrdered, PastIn
  <2>5. Carries(r, call)
    BY <2>1, <2>2, <2>4, LivePlace DEF Carries, PastIn, WellOrdered
  <2> QED  BY <2>1, <2>3, <2>5, ForwardMovesWell, FailsMovesWell
<1>5. CASE ReadsTransaction(r)
  <2>1. Same([calls[r] EXCEPT !.transaction = transaction_provider], calls[r])
    BY <1>0, <1>5, AtIsLive DEF ReadsTransaction, Same, NoCall
  <2> QED  BY <1>5, <2>1, AtIsLive, SameCarries, ForwardMovesWell DEF ReadsTransaction
<1>6. CASE Runs(r) \/ Handles(r)
  <2>1. \/ \E w : Forward(r, [calls[r] EXCEPT !.writes = w])
        \/ \E call, answer :
              answer # "served" /\ Moves(r, Settled(Ends(call, answer), "rolled_back"))
        \/ \E call : Moves(r, Ends(call, "error"))
    BY <1>6 DEF Runs, Handles
  <2>2. Live(calls[r]) /\ Program(r)[calls[r].at] \in {"runs", "handles"}
    BY <1>6, AtIsLive DEF Runs, Handles
  <2>3. \A w : Carries(r, [calls[r] EXCEPT !.writes = w])
    BY <1>0, <2>2, SameCarries
  <2>4. ASSUME NEW w, Forward(r, [calls[r] EXCEPT !.writes = w])
        PROVE  MovesWell(r)
    <3>1. Carries(r, [calls[r] EXCEPT !.writes = w])
      BY <2>3
    <3> QED  BY <2>2, <2>4, <3>1, ForwardMovesWell
  <2>5. ASSUME NEW call, NEW answer, answer # "served",
               \/ Moves(r, Settled(Ends(call, answer), "rolled_back"))
               \/ Moves(r, Ends(call, answer))
        PROVE  MovesWell(r)
    BY <2>5, EndsIsOK DEF MovesWell
  <2> QED  BY <2>1, <2>4, <2>5
<1>7. CASE AuthorizationFails(r)
  BY <1>7, FailsMovesWell DEF AuthorizationFails
<1>8. CASE ChecksPool(r) \/ RebuildsPool(r) \/ StampsPool(r) \/ Posts(r) \/ PostsAsync(r)
  <2>1. (\E w : Moves(r, [calls[r] EXCEPT !.waits = w])) \/ Fails(r)
    BY <1>8 DEF ChecksPool, RebuildsPool, StampsPool, Posts, PostsAsync
  <2>2. Live(calls[r])
    BY <1>8, AtIsLive DEF ChecksPool, RebuildsPool, StampsPool, Posts, PostsAsync
  <2> QED  BY <1>0, <2>1, <2>2, SameMovesWell, FailsMovesWell
<1>9. ASSUME NEW response \in Responses[r], GetsResponse(r, response)
      PROVE  MovesWell(r)
  <2> DEFINE again == [calls[r] EXCEPT !.retried = TRUE, !.waits = "-"]
             call  == [calls[r] EXCEPT !.subject = "none", !.client = 0, !.retried = FALSE,
                                       !.told = response, !.verb = DecisionOf(response).verb,
                                       !.obliges = DecisionOf(response).obliges]
  <2>1. Live(calls[r]) /\ Program(r)[calls[r].at] = "asks"
    BY <1>9, AtIsLive DEF GetsResponse
  <2>2. Same(again, calls[r])
    BY <1>0, <2>1 DEF Same, NoCall
  <2>3. /\ DOMAIN NoCall \subseteq DOMAIN call /\ call.entry = calls[r].entry
        /\ call.at = calls[r].at /\ call.answer = "none" /\ Holds(call)
    BY <1>0, <2>1, LivePlace, FrameworksAssumption DEF NoCall, Holds
  <2>4. Moves(r, again) \/ Forward(r, call)
    BY <1>9 DEF GetsResponse
  <2> HIDE DEF again, call
  <2>5. ~PastIn(Program(r), calls[r].at, "plans")
    BY <2>1, LivePlace DEF WellOrdered, PastIn
  <2>6. Carries(r, call)
    BY <2>1, <2>3, <2>5, LivePlace DEF Carries, PastIn, WellOrdered
  <2> QED  BY <2>1, <2>2, <2>4, <2>6, SameMovesWell, ForwardMovesWell
<1>10. CASE Permits(r) \/ Renders(r)
  BY <1>0, <1>10, AtIsLive, SameCarries, ForwardMovesWell, DeniedMovesWell, FailsMovesWell
     DEF Permits, Renders
<1>11. CASE Plans(r)
  <2>1. Live(calls[r]) /\ Program(r)[calls[r].at] = "plans"
    BY <1>11, AtIsLive DEF Plans
  <2>2. Holds(calls[r])
    BY <2>1, LivePlace DEF WellOrdered, DecisionInv, CallOK, Program
  <2>3. CASE Denied(r)
    BY <2>3, DeniedMovesWell
  <2>4. CASE Forward(r, calls[r]) /\ Authorized(calls[r])
    <3>1. Carries(r, calls[r])
      BY <2>1, <2>2, <2>4, LivePlace DEF Carries
    <3> QED  BY <2>1, <2>4, <3>1, ForwardMovesWell
  <2> QED  BY <1>11, <2>2, <2>3, <2>4, PermittedIsAuthorized DEF Plans
<1>12. CASE Discharges(r)
  <2>1. Live(calls[r]) /\ Program(r)[calls[r].at] = "discharges"
    BY <1>12, AtIsLive DEF Discharges
  <2>2. Same(Settled(calls[r], "committed"), calls[r])
    BY <1>0, <2>1 DEF Settled
  <2>3. \/ Forward(r, Settled(calls[r], "committed")) \/ Denied(r)
        \/ \E fate : Moves(r, Settled(Ends(calls[r], "error"), fate))
    BY <1>12 DEF Discharges
  <2>4. ASSUME NEW fate, Moves(r, Settled(Ends(calls[r], "error"), fate))
        PROVE  MovesWell(r)
    BY <2>4, EndsIsOK DEF MovesWell
  <2> QED  BY <2>1, <2>2, <2>3, <2>4, SameCarries, ForwardMovesWell, DeniedMovesWell
<1> QED  BY <1>1, <1>2, <1>3, <1>4, <1>5, <1>6, <1>7, <1>8, <1>9, <1>10, <1>11, <1>12 DEF Step
-----------------------------------------------------------------------------
(* What is served                                                          *)

(* Before a request asks there is nothing to hold.                         *)
LEMMA ArrivesWell ==
    ASSUME DecisionInv, NEW r \in Requests, Arrives(r)
    PROVE  MovesWell(r)
<1>1. PICK e, a : /\ e[1] \in DOMAIN Programs[framework]
                  /\ Moves(r, [NoCall EXCEPT !.entry = e[1], !.mode = e[2], !.attributes = a,
                                             !.knew = Range(providers)])
  BY DEF Arrives
<1> DEFINE call == [NoCall EXCEPT !.entry = e[1], !.mode = e[2], !.attributes = a,
                                 !.knew = Range(providers)]
<1>2. /\ DOMAIN NoCall \subseteq DOMAIN call /\ call.entry = e[1] /\ call.at = 1
      /\ call.answer = "none"
  BY DEF NoCall
<1>3. Moves(r, call)
  BY <1>1
<1> HIDE DEF call
<1>4. 1 \in DOMAIN Programs[framework][e[1]]
  BY <1>1 DEF DecisionInv, FrameworkNames, Programs, DjangoPre, DjangoPost, DjangoStream,
              DjangoMessage, FastApiPre, FastApiPost, FastApiStream, FlaskPre, FlaskPost,
              FlaskStream, TornadoPre, TornadoPost, TornadoStream
<1>5. \A step : ~PastIn(Programs[framework][e[1]], 1, step)
  BY <1>1, ProgramsAreOrdered DEF WellOrdered, PastIn, DecisionInv
<1>6. CallOK(framework, call)
  BY <1>1, <1>2, <1>4, <1>5 DEF CallOK
<1> QED  BY <1>2, <1>3, <1>6 DEF MovesWell

(* Every request holds what the PDP told it, and is authorized once it is  *)
(* past its plan.                                                          *)
THEOREM DecisionHolds == Spec => []DecisionInv
<1>1. Init => DecisionInv
  BY DEF Init, DecisionInv, CallOK, Live, NoCall
<1>2. DecisionInv /\ [Next]_vars => DecisionInv'
  <2> SUFFICES ASSUME DecisionInv, [Next]_vars
               PROVE  DecisionInv'
    OBVIOUS
  <2>1. CASE UNCHANGED <<framework, calls>>
    BY <2>1 DEF DecisionInv
  <2>2. ASSUME NEW r \in Requests, Arrives(r) \/ Step(r)
        PROVE  DecisionInv'
    <3>1. PICK call : Moves(r, call) /\ CallOK(framework, call)
      BY <2>2, ArrivesWell, StepMovesWell DEF MovesWell
    <3>2. framework' = framework
      BY <2>2 DEF Arrives, Step, Builds, ChecksConfigured, ConfiguresLazily, ReadsClient,
                  ReadsPlanner, ReadsTransaction, Runs, AuthorizationFails, ChecksPool,
                  RebuildsPool, StampsPool, Posts, PostsAsync, GetsResponse, Permits, Plans,
                  Discharges, Renders, Handles
    <3> QED  BY <3>1, <3>2 DEF DecisionInv, Moves
  <2> QED  BY <2>1, <2>2 DEF Next, Application, vars
<1> QED  BY <1>1, <1>2, PTL DEF Spec

(* What runs after a decision, and what leaves after one, is what the PDP  *)
(* permitted with obligations the planner has exactly one provider for.    *)
THEOREM ServingIsPermitted == Spec => ServedIsPermitted
<1> DEFINE RunsNow(r)   == /\ calls[r].entry \in {"pre", "message"}
                           /\ At(r, "runs") \/ At(r, "handles")
                           /\ calls'[r] # calls[r]
           LeavesNow(r) == /\ calls[r].entry = "post" /\ calls[r].answer = "none"
                           /\ calls'[r].answer = "served"
<1>1. ASSUME DecisionInv, [Next]_vars, NEW r \in Requests, RunsNow(r) \/ LeavesNow(r)
      PROVE  Authorized(calls[r])
  <2>1. Live(calls[r])
    BY <1>1 DEF Live
  <2>2. WellOrdered(Program(r), calls[r].entry) /\ calls[r].at \in DOMAIN Program(r)
    BY <1>1, <2>1, LivePlace
  <2>3. CASE RunsNow(r)
    <3>1. Program(r)[calls[r].at] \in {"runs", "handles"}
      BY <2>3, AtIsLive
    <3> QED  BY <1>1, <2>1, <2>2, <2>3, <3>1 DEF WellOrdered, DecisionInv, CallOK, Program
  <2>4. CASE LeavesNow(r)
    <3>1. calls' # calls
      BY <2>4
    <3>2. PICK s \in Requests : Arrives(s) \/ Step(s)
      BY <1>1, <3>1 DEF Next, Application, vars
    <3>3. PICK call : /\ Moves(s, call)
                      /\ call.answer = "served" => calls[s].at >= Len(Program(s))
      BY <1>1, <3>2, ArrivesWell, StepMovesWell DEF MovesWell
    <3>4. calls[r].at >= Len(Program(r))
      BY <1>1, <2>4, <3>3 DEF Moves, DecisionInv
    <3>5. PastIn(Program(r), calls[r].at, "plans")
      BY <2>2, <2>4, <3>4 DEF WellOrdered, PastIn
    <3> QED  BY <1>1, <2>1, <3>5 DEF DecisionInv, CallOK, Program
  <2> QED  BY <1>1, <2>3, <2>4
<1>2. DecisionInv /\ [Next]_vars
        => [\A r \in Requests :
              \/ calls[r].entry \in {"pre", "message"} /\ (At(r, "runs") \/ At(r, "handles"))
                   /\ calls'[r] # calls[r]
              \/ calls[r].entry = "post" /\ calls[r].answer = "none"
                   /\ calls'[r].answer = "served"
              => Authorized(calls[r])]_vars
  BY <1>1
<1> QED  BY DecisionHolds, <1>2, PTL DEF Spec, ServedIsPermitted
-----------------------------------------------------------------------------
(* What is denied                                                          *)

(* Once the transaction scope was left, no step of a program denies.       *)
SettlesLast(p) ==
    \A i, j \in DOMAIN p :
        i < j /\ p[i] = "discharges" => p[j] \notin {"permits", "plans", "discharges"}

(* That holds of all programs.                                             *)
LEMMA ProgramsSettleLast ==
    ASSUME NEW name \in FrameworkNames, NEW entry \in DOMAIN Programs[name]
    PROVE  SettlesLast(Programs[name][entry])
<1>1. /\ SettlesLast(DjangoPre) /\ SettlesLast(DjangoPost)
      /\ SettlesLast(DjangoStream) /\ SettlesLast(DjangoMessage)
  BY DEF SettlesLast, DjangoPre, DjangoPost, DjangoStream, DjangoMessage
<1>2. SettlesLast(FastApiPre) /\ SettlesLast(FastApiPost) /\ SettlesLast(FastApiStream)
  BY DEF SettlesLast, FastApiPre, FastApiPost, FastApiStream
<1>3. SettlesLast(FlaskPre) /\ SettlesLast(FlaskPost) /\ SettlesLast(FlaskStream)
  BY DEF SettlesLast, FlaskPre, FlaskPost, FlaskStream
<1>4. SettlesLast(TornadoPre) /\ SettlesLast(TornadoPost) /\ SettlesLast(TornadoStream)
  BY DEF SettlesLast, TornadoPre, TornadoPost, TornadoStream
<1> QED  BY <1>1, <1>2, <1>3, <1>4 DEF FrameworkNames, Programs

(* Nothing is committed before the step that discharges, and nothing of a  *)
(* denied request is committed or left open.                               *)
Undone(name, call) ==
    /\ call.answer = "denied" => call.writes \notin {"pending", "committed"}
    /\ Live(call) /\ call.writes = "committed"
         => PastIn(Programs[name][call.entry], call.at, "discharges")

RollbackInv == \A r \in Requests : Undone(framework, calls[r])

MovesUndone(r) == \E call : Moves(r, call) /\ Undone(framework, call)

(* A call whose writes are not committed unless they were, or are now.     *)
Writes(r, call) ==
    /\ DOMAIN NoCall \subseteq DOMAIN call
    /\ call.entry = calls[r].entry /\ call.at = calls[r].at /\ call.answer = "none"
    /\ call.writes = "committed"
         => calls[r].writes = "committed" \/ Program(r)[calls[r].at] = "discharges"

(* Whoever ends without being denied has nothing to undo.                  *)
LEMMA EndsUndone ==
    ASSUME NEW call, NEW answer, answer # "denied", NEW fate
    PROVE  /\ Undone(framework, Ends(call, answer))
           /\ Undone(framework, Settled(Ends(call, answer), fate))
BY DEF Undone, Ends, Settled, Live, NoCall

(* A step that denies comes before the commit, and so rolls back.          *)
LEMMA DeniedUndone ==
    ASSUME DecisionInv, RollbackInv, NEW r \in Requests, Live(calls[r]), Denied(r),
           Program(r)[calls[r].at] \in {"permits", "plans", "discharges"}
    PROVE  MovesUndone(r)
<1>1. SettlesLast(Program(r)) /\ calls[r].at \in DOMAIN Program(r)
  BY ProgramsSettleLast, LivePlace DEF DecisionInv, CallOK, Program
<1>2. calls[r].writes # "committed"
  BY <1>1 DEF RollbackInv, Undone, PastIn, SettlesLast, Program
<1>3. Undone(framework, Settled(Ends(calls[r], "denied"), "rolled_back"))
  BY <1>2 DEF Undone, Settled, Ends, Live, NoCall
<1> QED  BY <1>3 DEF Denied, MovesUndone

(* A failure is no denial.                                                 *)
LEMMA FailsUndone ==
    ASSUME NEW r, Fails(r)
    PROVE  MovesUndone(r)
BY EndsUndone DEF Fails, MovesUndone

(* A request that goes on keeps what it wrote, and where.                  *)
LEMMA ForwardUndone ==
    ASSUME DecisionInv, RollbackInv, NEW r \in Requests, Live(calls[r]), NEW call,
           Writes(r, call), Forward(r, call)
    PROVE  MovesUndone(r)
<1> DEFINE p    == Program(r)
           next == [call EXCEPT !.at = @ + 1, !.waits = "-"]
<1>1. /\ DOMAIN p = 1..Len(p) /\ Len(p) \in Nat /\ call.at \in 1..Len(p)
      /\ p = Programs[framework][call.entry]
  BY LivePlace DEF WellOrdered, Writes, Program
<1>2. CASE call.at < Len(p)
  <2>1. Moves(r, next)
    BY <1>2 DEF Forward
  <2>2. /\ next.at = call.at + 1 /\ next.entry = call.entry
        /\ next.answer = "none" /\ next.writes = call.writes
    BY DEF Writes, NoCall
  <2> HIDE DEF next
  <2>3. next.writes = "committed" => PastIn(p, next.at, "discharges")
    <3>1. CASE calls[r].writes = "committed"
      <4>1. PastIn(p, call.at, "discharges")
        BY <3>1 DEF RollbackInv, Undone, Program, Writes
      <4> QED  BY <1>1, <2>2, <4>1 DEF PastIn
    <3>2. CASE p[call.at] = "discharges"
      BY <1>1, <2>2, <3>2 DEF PastIn
    <3> QED  BY <2>2, <3>1, <3>2 DEF Writes
  <2>4. Undone(framework, next)
    BY <1>1, <2>2, <2>3 DEF Undone
  <2> QED  BY <2>1, <2>4 DEF MovesUndone
<1>3. CASE ~(call.at < Len(p))
  BY <1>3, EndsUndone DEF Forward, MovesUndone
<1> QED  BY <1>2, <1>3

(* A request that stays where it is keeps what it wrote.                   *)
LEMMA StaysUndone ==
    ASSUME DecisionInv, RollbackInv, NEW r \in Requests, Live(calls[r]), NEW call,
           Same(call, calls[r]), call.writes = calls[r].writes, Moves(r, call)
    PROVE  MovesUndone(r)
<1>1. Undone(framework, call)
  BY DEF RollbackInv, Undone, Same, Live
<1> QED  BY <1>1 DEF MovesUndone

(* Every step of a request leaves nothing of what is denied.               *)
LEMMA StepUndone ==
    ASSUME DecisionInv, RollbackInv, NEW r \in Requests, Step(r)
    PROVE  MovesUndone(r)
<1> DEFINE c == calls[r]
<1>0. ASSUME Live(c)
      PROVE  /\ Writes(r, c) /\ Same(c, c)
             /\ \A w : /\ Same([c EXCEPT !.waits = w], c)
                       /\ [c EXCEPT !.waits = w].writes = c.writes
  BY <1>0, LivePlace DEF Same, NoCall, Writes
<1>1. CASE Builds(r)
  <2>1. Live(c)
    BY <1>1, AtIsLive DEF Builds
  <2>2. Writes(r, [c EXCEPT !.subject = Subject(c.entry, c.attributes),
                            !.attributes = NoCall.attributes])
    BY <2>1, LivePlace DEF NoCall, Writes
  <2> QED  BY <1>1, <2>1, <2>2, ForwardUndone, FailsUndone DEF Builds
<1>2. CASE ChecksConfigured(r) \/ ConfiguresLazily(r)
  BY <1>0, <1>2, AtIsLive, StaysUndone, FailsUndone DEF ChecksConfigured, ConfiguresLazily
<1>3. CASE ReadsClient(r)
  <2>1. Live(c)
    BY <1>3, AtIsLive DEF ReadsClient
  <2>2. Writes(r, [c EXCEPT !.client = pdp_client])
    BY <2>1, LivePlace DEF NoCall, Writes
  <2> QED  BY <1>3, <2>1, <2>2, ForwardUndone, FailsUndone DEF ReadsClient
<1>4. CASE ReadsPlanner(r)
  <2>1. Live(c)
    BY <1>4, AtIsLive DEF ReadsPlanner
  <2>2. Writes(r, [c EXCEPT !.planner = planner, !.knew = {}])
    BY <2>1, LivePlace DEF NoCall, Writes
  <2> QED  BY <1>4, <2>1, <2>2, ForwardUndone, FailsUndone DEF ReadsPlanner
<1>5. CASE ReadsTransaction(r)
  <2>1. Live(c)
    BY <1>5, AtIsLive DEF ReadsTransaction
  <2>2. Writes(r, [c EXCEPT !.transaction = transaction_provider])
    BY <2>1, LivePlace DEF NoCall, Writes
  <2> QED  BY <1>5, <2>1, <2>2, ForwardUndone DEF ReadsTransaction
<1>6. CASE Runs(r) \/ Handles(r)
  <2>1. Live(c)
    BY <1>6, AtIsLive DEF Runs, Handles
  <2>2. \A w \in {"pending", "kept"} : Writes(r, [c EXCEPT !.writes = w])
    BY <2>1, LivePlace DEF NoCall, Writes
  <2>3. \/ \E w \in {"pending", "kept"} : Forward(r, [c EXCEPT !.writes = w])
        \/ \E w \in {"pending", "kept"}, answer \in {"error", "denied"} :
              Moves(r, Settled(Ends([c EXCEPT !.writes = w], answer), "rolled_back"))
        \/ \E call : Moves(r, Ends(call, "error"))
    BY <1>6 DEF Runs, Handles
  <2>4. ASSUME NEW w \in {"pending", "kept"}, Forward(r, [c EXCEPT !.writes = w])
        PROVE  MovesUndone(r)
    <3>1. Writes(r, [c EXCEPT !.writes = w])
      BY <2>2
    <3> QED  BY <2>1, <2>4, <3>1, ForwardUndone
  <2>5. ASSUME NEW w \in {"pending", "kept"}, NEW answer,
               Moves(r, Settled(Ends([c EXCEPT !.writes = w], answer), "rolled_back"))
        PROVE  MovesUndone(r)
    <3> DEFINE call == [c EXCEPT !.writes = w]
    <3>1. call.writes = w
      BY <1>0, <2>1, LivePlace DEF NoCall
    <3> HIDE DEF call
    <3>2. Undone(framework, Settled(Ends(call, answer), "rolled_back"))
      BY <3>1 DEF Undone, Settled, Ends, Live, NoCall
    <3> QED  BY <2>5, <3>2 DEF MovesUndone, call
  <2>6. ASSUME NEW call, Moves(r, Ends(call, "error"))
        PROVE  MovesUndone(r)
    BY <2>6, EndsUndone DEF MovesUndone
  <2> QED  BY <2>3, <2>4, <2>5, <2>6
<1>7. CASE AuthorizationFails(r)
  BY <1>7, FailsUndone DEF AuthorizationFails
<1>8. CASE ChecksPool(r) \/ RebuildsPool(r) \/ StampsPool(r) \/ Posts(r) \/ PostsAsync(r)
  <2>1. (\E w : Moves(r, [c EXCEPT !.waits = w])) \/ Fails(r)
    BY <1>8 DEF ChecksPool, RebuildsPool, StampsPool, Posts, PostsAsync
  <2>2. Live(c)
    BY <1>8, AtIsLive DEF ChecksPool, RebuildsPool, StampsPool, Posts, PostsAsync
  <2> QED  BY <1>0, <2>1, <2>2, StaysUndone, FailsUndone
<1>9. ASSUME NEW response \in Responses[r], GetsResponse(r, response)
      PROVE  MovesUndone(r)
  <2> DEFINE again == [c EXCEPT !.retried = TRUE, !.waits = "-"]
             call  == [c EXCEPT !.subject = "none", !.client = 0, !.retried = FALSE,
                                !.told = response, !.verb = DecisionOf(response).verb,
                                !.obliges = DecisionOf(response).obliges]
  <2>1. Live(c)
    BY <1>9, AtIsLive DEF GetsResponse
  <2>2. Same(again, c) /\ again.writes = c.writes /\ Writes(r, call)
    BY <1>0, <2>1, LivePlace DEF Same, NoCall, Writes
  <2>3. Moves(r, again) \/ Forward(r, call)
    BY <1>9 DEF GetsResponse
  <2> HIDE DEF again, call
  <2> QED  BY <2>1, <2>2, <2>3, StaysUndone, ForwardUndone
<1>10. CASE Permits(r) \/ Plans(r) \/ Renders(r)
  <2>1. Forward(r, c) \/ Fails(r)
          \/ (Denied(r) /\ Program(r)[c.at] \in {"permits", "plans", "discharges"})
    BY <1>10, AtIsLive DEF Permits, Plans, Renders
  <2>2. Live(c)
    BY <1>10, AtIsLive DEF Permits, Plans, Renders
  <2> QED  BY <1>0, <2>1, <2>2, ForwardUndone, FailsUndone, DeniedUndone
<1>11. CASE Discharges(r)
  <2>1. Live(c) /\ Program(r)[c.at] = "discharges"
    BY <1>11, AtIsLive DEF Discharges
  <2>2. Writes(r, Settled(c, "committed"))
    BY <2>1, LivePlace DEF Settled, NoCall, Writes
  <2>3. \/ Forward(r, Settled(c, "committed")) \/ Denied(r)
        \/ \E fate : Moves(r, Settled(Ends(c, "error"), fate))
    BY <1>11 DEF Discharges
  <2>4. ASSUME NEW fate, Moves(r, Settled(Ends(c, "error"), fate))
        PROVE  MovesUndone(r)
    BY <2>4, EndsUndone DEF MovesUndone
  <2> QED  BY <2>1, <2>2, <2>3, <2>4, ForwardUndone, DeniedUndone
<1> QED  BY <1>1, <1>2, <1>3, <1>4, <1>5, <1>6, <1>7, <1>8, <1>9, <1>10, <1>11 DEF Step

(* A request that is denied leaves nothing of a transactional view behind, *)
(* in any framework: every step that denies lies within the scope, and     *)
(* what fails after it, as rendering does, is no denial.                   *)
THEOREM DeniedLeavesNothing == Spec => []DeniedIsRolledBack
<1>1. Init => RollbackInv
  BY DEF Init, RollbackInv, Undone, Live, NoCall
<1>2. DecisionInv /\ RollbackInv /\ [Next]_vars => RollbackInv'
  <2> SUFFICES ASSUME DecisionInv, RollbackInv, [Next]_vars
               PROVE  RollbackInv'
    OBVIOUS
  <2>1. CASE UNCHANGED <<framework, calls>>
    BY <2>1 DEF RollbackInv
  <2>2. ASSUME NEW r \in Requests, Arrives(r) \/ Step(r)
        PROVE  RollbackInv'
    <3>1. MovesUndone(r)
      <4>1. CASE Arrives(r)
        <5>1. PICK e, a : Moves(r, [NoCall EXCEPT !.entry = e[1], !.mode = e[2],
                                                  !.attributes = a,
                                                  !.knew = Range(providers)])
          BY <4>1 DEF Arrives
        <5> DEFINE call == [NoCall EXCEPT !.entry = e[1], !.mode = e[2],
                                          !.attributes = a, !.knew = Range(providers)]
        <5>2. call.answer = "none" /\ call.writes = "none"
          BY DEF NoCall
        <5>3. Moves(r, call)
          BY <5>1
        <5> HIDE DEF call
        <5> QED  BY <5>2, <5>3 DEF MovesUndone, Undone
      <4> QED  BY <2>2, <4>1, StepUndone
    <3>2. PICK call : Moves(r, call) /\ Undone(framework, call)
      BY <3>1 DEF MovesUndone
    <3>3. framework' = framework
      BY <2>2 DEF Arrives, Step, Builds, ChecksConfigured, ConfiguresLazily, ReadsClient,
                  ReadsPlanner, ReadsTransaction, Runs, AuthorizationFails, ChecksPool,
                  RebuildsPool, StampsPool, Posts, PostsAsync, GetsResponse, Permits, Plans,
                  Discharges, Renders, Handles
    <3> QED  BY <3>2, <3>3 DEF RollbackInv, Moves, DecisionInv
  <2> QED  BY <2>1, <2>2 DEF Next, Application, vars
<1>3. RollbackInv => DeniedIsRolledBack
  BY DEF RollbackInv, Undone, DeniedIsRolledBack
<1> QED  BY <1>1, <1>2, <1>3, DecisionHolds, PTL DEF Spec
-----------------------------------------------------------------------------
(* Whom the PDP is asked about                                             *)

(* In every framework the authenticated user is the subject.               *)
LEMMA NamedIsTheSubject ==
    ASSUME NEW entry, entry # "message", NEW a, a.explicit = "none", a.user = "named"
    PROVE  Subject(entry, a) = "user"
BY DEF Subject, DjangoSubject, FlaskSubject, FastApiSubject, TornadoSubject

(* A call whose subject is that of r, or none.                             *)
Silent(r, call) ==
    /\ DOMAIN NoCall \subseteq DOMAIN call
    /\ call.subject \in {calls[r].subject, "none"}

(* Going on and ending leave the subject alone, or drop it.                *)
LEMMA SilentMoves ==
    ASSUME NEW r, NEW call, Silent(r, call), Forward(r, call)
    PROVE  \E next : Moves(r, next) /\ Silent(r, next)
<1>1. Silent(r, [call EXCEPT !.at = @ + 1, !.waits = "-"]) /\ Silent(r, Ends(call, "served"))
  BY DEF Silent, Ends, NoCall
<1> QED  BY <1>1 DEF Forward

(* So does ending without being served.                                    *)
LEMMA SilentEnds ==
    ASSUME NEW r, NEW call, NEW answer, NEW fate
    PROVE  /\ Silent(r, Ends(call, answer))
           /\ Silent(r, Settled(Ends(call, answer), fate))
BY DEF Silent, Settled, Ends, NoCall

(* Only the builder of the subscription sets it.                           *)
LEMMA OthersAreSilent ==
    ASSUME DecisionInv, NEW r \in Requests, Step(r), ~Builds(r)
    PROVE  \E call : Moves(r, call) /\ Silent(r, call)
<1> DEFINE c == calls[r]
<1>0. ASSUME Live(c)
      PROVE  /\ Silent(r, c) /\ Silent(r, Settled(c, "committed"))
             /\ \A w : Silent(r, [c EXCEPT !.waits = w])
             /\ \A w : Silent(r, [c EXCEPT !.writes = w])
             /\ Silent(r, [c EXCEPT !.client = pdp_client])
             /\ Silent(r, [c EXCEPT !.planner = planner, !.knew = {}])
             /\ Silent(r, [c EXCEPT !.transaction = transaction_provider])
             /\ Silent(r, [c EXCEPT !.retried = TRUE, !.waits = "-"])
             /\ \A response : Silent(r, [c EXCEPT !.subject = "none", !.client = 0,
                                                  !.retried = FALSE, !.told = response,
                                                  !.verb = DecisionOf(response).verb,
                                                  !.obliges = DecisionOf(response).obliges])
  BY <1>0, LivePlace DEF Silent, NoCall, Settled
<1>1. Denied(r) \/ Fails(r) => \E call : Moves(r, call) /\ Silent(r, call)
  BY SilentEnds DEF Denied, Fails
<1>2. CASE ChecksConfigured(r) \/ ConfiguresLazily(r)
  BY <1>0, <1>1, <1>2, AtIsLive DEF ChecksConfigured, ConfiguresLazily
<1>3. CASE ReadsClient(r) \/ ReadsPlanner(r) \/ ReadsTransaction(r)
  BY <1>0, <1>1, <1>3, AtIsLive, SilentMoves DEF ReadsClient, ReadsPlanner, ReadsTransaction
<1>4. CASE Runs(r) \/ Handles(r)
  <2>1. Live(c)
    BY <1>4, AtIsLive DEF Runs, Handles
  <2>2. \/ \E w : Forward(r, [c EXCEPT !.writes = w])
        \/ \E call, answer : Moves(r, Settled(Ends(call, answer), "rolled_back"))
        \/ \E call : Moves(r, Ends(call, "error"))
    BY <1>4 DEF Runs, Handles
  <2>3. ASSUME NEW w, Forward(r, [c EXCEPT !.writes = w])
        PROVE  \E call : Moves(r, call) /\ Silent(r, call)
    <3>1. Silent(r, [c EXCEPT !.writes = w])
      BY <1>0, <2>1
    <3> QED  BY <2>3, <3>1, SilentMoves
  <2> QED  BY <2>2, <2>3, SilentEnds
<1>5. CASE AuthorizationFails(r)
  BY <1>1, <1>5 DEF AuthorizationFails
<1>6. CASE ChecksPool(r) \/ RebuildsPool(r) \/ StampsPool(r) \/ Posts(r) \/ PostsAsync(r)
  <2>1. (\E w : Moves(r, [c EXCEPT !.waits = w])) \/ Fails(r)
    BY <1>6 DEF ChecksPool, RebuildsPool, StampsPool, Posts, PostsAsync
  <2>2. Live(c)
    BY <1>6, AtIsLive DEF ChecksPool, RebuildsPool, StampsPool, Posts, PostsAsync
  <2> QED  BY <1>0, <1>1, <2>1, <2>2
<1>7. ASSUME NEW response \in Responses[r], GetsResponse(r, response)
      PROVE  \E call : Moves(r, call) /\ Silent(r, call)
  <2> DEFINE call == [c EXCEPT !.subject = "none", !.client = 0, !.retried = FALSE,
                               !.told = response, !.verb = DecisionOf(response).verb,
                               !.obliges = DecisionOf(response).obliges]
  <2>1. Live(c)
    BY <1>7, AtIsLive DEF GetsResponse
  <2>2. Moves(r, [c EXCEPT !.retried = TRUE, !.waits = "-"]) \/ Forward(r, call)
    BY <1>7 DEF GetsResponse
  <2>3. Silent(r, call)
    BY <1>0, <2>1
  <2> HIDE DEF call
  <2> QED  BY <1>0, <2>1, <2>2, <2>3, SilentMoves
<1>8. CASE Permits(r) \/ Plans(r) \/ Discharges(r) \/ Renders(r)
  <2>1. \/ Forward(r, c) \/ Forward(r, Settled(c, "committed")) \/ Denied(r) \/ Fails(r)
        \/ \E fate : Moves(r, Settled(Ends(c, "error"), fate))
    BY <1>8 DEF Permits, Plans, Discharges, Renders
  <2>2. Live(c)
    BY <1>8, AtIsLive DEF Permits, Plans, Discharges, Renders
  <2> QED  BY <1>0, <1>1, <2>1, <2>2, SilentMoves, SilentEnds
<1> QED  BY <1>2, <1>3, <1>4, <1>5, <1>6, <1>7, <1>8 DEF Step

(* Unless the decorator names a subject, the PDP is asked about the user   *)
(* the framework authenticated, never about a bearer token's claims; a     *)
(* consumer's message is asked about as its application says.              *)
THEOREM UserIsTheSubject == Spec => SubjectIsTheUser
<1> DEFINE Asked(r) == /\ calls[r].subject = "none" /\ calls'[r].subject # "none"
                       /\ calls[r].entry # "message"
                       /\ calls[r].attributes.explicit = "none"
                       /\ calls[r].attributes.user = "named"
<1>1. ASSUME DecisionInv, [Next]_vars, NEW r \in Requests, Asked(r)
      PROVE  calls'[r].subject = "user"
  <2>1. calls' # calls
    BY <1>1
  <2>2. PICK s \in Requests : Arrives(s) \/ Step(s)
    BY <1>1, <2>1 DEF Next, Application, vars
  <2>3. CASE Arrives(s)
    <3>1. PICK e, a : Moves(s, [NoCall EXCEPT !.entry = e[1], !.mode = e[2],
                                              !.attributes = a,
                                              !.knew = Range(providers)])
      BY <2>3 DEF Arrives
    <3> QED  BY <1>1, <3>1 DEF Moves, NoCall, DecisionInv
  <2>4. CASE Step(s) /\ ~Builds(s)
    <3>1. PICK call : Moves(s, call) /\ Silent(s, call)
      BY <1>1, <2>4, OthersAreSilent
    <3> QED  BY <1>1, <3>1 DEF Moves, Silent, DecisionInv
  <2>5. CASE Builds(s)
    <3> DEFINE a    == calls[s].attributes
               who  == Subject(calls[s].entry, a)
               call == [calls[s] EXCEPT !.subject = who,
                                        !.attributes = NoCall.attributes]
    <3>1. Fails(s) \/ Forward(s, call)
      BY <2>5 DEF Builds
    <3>2. CASE Fails(s)
      <4>1. Moves(s, Settled(Ends(calls[s], "error"), "rolled_back"))
        BY <3>2 DEF Fails
      <4> QED  BY <1>1, <4>1, SilentEnds DEF Moves, Silent, DecisionInv
    <3>3. CASE Forward(s, call)
      <4>1. call.subject = who /\ DOMAIN NoCall \subseteq DOMAIN call
        BY <1>1, <2>5, AtIsLive, LivePlace DEF Builds, NoCall
      <4> HIDE DEF call
      <4>2. /\ [call EXCEPT !.at = @ + 1, !.waits = "-"].subject = who
            /\ Ends(call, "served").subject = "none"
        BY <4>1 DEF Ends, NoCall
      <4>3. PICK next : Moves(s, next) /\ next.subject \in {who, "none"}
        BY <3>3, <4>2 DEF Forward
      <4>4. r = s
        BY <1>1, <4>3 DEF Moves, DecisionInv
      <4>5. calls'[s] = next
        BY <1>1, <4>3 DEF Moves, DecisionInv
      <4> QED  BY <1>1, <4>3, <4>4, <4>5, NamedIsTheSubject
    <3> QED  BY <3>1, <3>2, <3>3
  <2> QED  BY <2>2, <2>3, <2>4, <2>5
<1>2. DecisionInv /\ [Next]_vars
        => [\A r \in Requests :
              /\ calls[r].subject = "none" /\ calls'[r].subject # "none"
              /\ calls[r].entry # "message"
              /\ calls[r].attributes.explicit = "none" /\ calls[r].attributes.user = "named"
              => calls'[r].subject = "user"]_vars
  BY <1>1
<1> QED  BY DecisionHolds, <1>2, PTL DEF Spec, SubjectIsTheUser
-----------------------------------------------------------------------------
(* Types                                                                   *)

(* The types of what a request holds, when n clients were built.           *)
Typed(call, n) ==
    /\ call.waits \in {"-", "read", "configure", "make", "stamp", "take", "response"}
    /\ call.client \in 0..n
    /\ call.writes \in {"none", "kept", "pending", "committed", "rolled_back"}
    /\ call.answer \in Answers

TypeInv == RuntimeTypeOK /\ \A r \in Requests : Typed(calls[r], clients)

MovesTyped(r) == \E call : Moves(r, call) /\ Typed(call, clients)

(* The transaction scope ends in one of two ways.                          *)
LEMMA SettledTyped ==
    ASSUME NEW n, NEW call, DOMAIN NoCall \subseteq DOMAIN call, Typed(call, n),
           NEW fate \in {"committed", "rolled_back"}
    PROVE  DOMAIN NoCall \subseteq DOMAIN Settled(call, fate) /\ Typed(Settled(call, fate), n)
BY DEF Settled, Typed, NoCall

(* Whoever ends keeps only what was written.                               *)
LEMMA EndsTyped ==
    ASSUME NEW n \in Nat, NEW call, Typed(call, n), NEW answer \in Answers
    PROVE  /\ DOMAIN NoCall \subseteq DOMAIN Ends(call, answer)
           /\ Typed(Ends(call, answer), n)
BY DEF Ends, Typed, NoCall

(* A request that is denied or fails ...                                   *)
LEMMA LeavesTyped ==
    ASSUME clients \in Nat, NEW r, Typed(calls[r], clients), Denied(r) \/ Fails(r)
    PROVE  MovesTyped(r)
<1>1. /\ Typed(Settled(Ends(calls[r], "denied"), "rolled_back"), clients)
      /\ Typed(Settled(Ends(calls[r], "error"), "rolled_back"), clients)
  BY EndsTyped, SettledTyped DEF Answers
<1> QED  BY <1>1 DEF Denied, Fails, MovesTyped

(* ... or goes on stays within the types.                                  *)
LEMMA ForwardTyped ==
    ASSUME clients \in Nat, NEW r, NEW call, DOMAIN NoCall \subseteq DOMAIN call,
           Typed(call, clients), Forward(r, call)
    PROVE  MovesTyped(r)
<1>1. Typed(Ends(call, "served"), clients)
  BY EndsTyped DEF Answers
<1>2. Typed([call EXCEPT !.at = @ + 1, !.waits = "-"], clients)
  BY DEF Typed, NoCall
<1> QED  BY <1>1, <1>2 DEF Forward, MovesTyped

(* The application's steps keep the runtime's types.                       *)
LEMMA ApplicationTyped ==
    ASSUME RuntimeTypeOK, Application
    PROVE  RuntimeTypeOK' /\ clients' \in Nat /\ clients <= clients'
<1> USE PepRuntimeAssumption DEF RuntimeTypeOK, Client
<1>1. CASE Configure
  <2>1. planner' \in [built : BOOLEAN, providers : Seq(Custom)]
    BY <1>1 DEF Configure, Built
  <2> QED  BY <1>1, <2>1 DEF Configure, transport
<1>2. ASSUME NEW p \in Custom, RegisterProvider(p)
      PROVE  RuntimeTypeOK' /\ clients' \in Nat /\ clients <= clients'
  <2>1. providers' \in Seq(Custom)
    BY <1>2 DEF RegisterProvider
  <2>2. planner' \in [built : BOOLEAN, providers : Seq(Custom)]
    BY <1>2, <2>1 DEF RegisterProvider, Built
  <2> QED  BY <1>2, <2>1, <2>2 DEF RegisterProvider, transport
<1>3. CASE SetTransactionProvider
  BY <1>3 DEF SetTransactionProvider, transport
<1>4. CASE TakesClientOut
  BY <1>4 DEF TakesClientOut
<1>5. CASE ClosesPool
  <2>1. closing \in Client /\ http[closing] \in [loop : Loops, closed : BOOLEAN]
    BY <1>5 DEF ClosesPool, NoPool
  <2>2. [http[closing] EXCEPT !.closed = TRUE] \in [loop : Loops, closed : BOOLEAN]
    BY <2>1
  <2>3. http' \in [Client -> [loop : Loops, closed : BOOLEAN] \cup {NoPool}]
    BY <1>5, <2>1, <2>2 DEF ClosesPool
  <2> QED  BY <1>5, <2>3 DEF ClosesPool, runtime
<1>6. CASE CloseEnds
  <2>1. http' \in [Client -> [loop : Loops, closed : BOOLEAN] \cup {NoPool}]
    <3>1. http' = [http EXCEPT ![closing] = NoPool] \/ http' = http
      BY <1>6 DEF CloseEnds
    <3> QED  BY <3>1
  <2>2. UNCHANGED <<pdp_client, planner, providers, transaction_provider, clients, http_loop>>
          /\ closing' = 0 /\ draining' = FALSE
    BY <1>6 DEF CloseEnds, runtime
  <2>3. clients' \in 0..MaxClients /\ closing' \in 0..clients' /\ pdp_client' \in 0..clients'
    BY <2>2
  <2>4. UNCHANGED <<planner, providers, transaction_provider, http_loop>> /\ draining' = FALSE
    BY <2>2
  <2>5. /\ planner' \in [built : BOOLEAN, providers : Seq(Custom)] /\ providers' \in Seq(Custom)
        /\ transaction_provider' \in BOOLEAN /\ draining' \in BOOLEAN
        /\ http_loop' \in [Client -> Loops \cup {NoLoop}]
    BY <2>4
  <2>6. clients' \in Nat /\ clients <= clients'
    BY <2>2
  <2> QED  BY <2>1, <2>3, <2>5, <2>6, Zenon
<1> QED  BY <1>1, <1>2, <1>3, <1>4, <1>5, <1>6 DEF Application, Closes

(* So do those of a request, which may configure and use a pool.           *)
LEMMA StepTypesRuntime ==
    ASSUME RuntimeTypeOK, NEW r \in Requests, Step(r)
    PROVE  RuntimeTypeOK' /\ clients' \in Nat /\ clients <= clients'
<1> USE PepRuntimeAssumption DEF RuntimeTypeOK, Client
<1>0. Loop(r) \in Loops /\ "main" \in Loops
  BY FrameworksAssumption DEF Loop
<1>1. \A c : \A l \in Loops :
        /\ [http EXCEPT ![c] = [loop |-> l, closed |-> FALSE]]
             \in [Client -> [loop : Loops, closed : BOOLEAN] \cup {NoPool}]
        /\ [http_loop EXCEPT ![c] = l] \in [Client -> Loops \cup {NoLoop}]
  OBVIOUS
<1>2. CASE Configure
  <2>1. planner' \in [built : BOOLEAN, providers : Seq(Custom)]
    BY <1>2 DEF Configure, Built
  <2> QED  BY <1>2, <2>1 DEF Configure, transport
<1>3. CASE RebuildsPool(r) \/ StampsPool(r) \/ PostsAsync(r)
  <2>1. /\ http' \in [Client -> [loop : Loops, closed : BOOLEAN] \cup {NoPool}]
        /\ http_loop' \in [Client -> Loops \cup {NoLoop}]
    <3>1. CASE RebuildsPool(r)
      BY <1>0, <1>1, <3>1 DEF RebuildsPool, MakesPool
    <3>2. CASE StampsPool(r)
      BY <1>0, <1>1, <3>2 DEF StampsPool, NotesLoop
    <3>3. CASE PostsAsync(r)
      <4>1. \/ UNCHANGED <<http, http_loop>>
            \/ /\ http' = [http EXCEPT ![calls[r].client] = [loop |-> "main",
                                                             closed |-> FALSE]]
               /\ http_loop' = [http_loop EXCEPT ![calls[r].client] = "main"]
        BY <3>3 DEF PostsAsync
      <4>2. CASE UNCHANGED <<http, http_loop>>
        BY <4>2
      <4>3. CASE /\ http' = [http EXCEPT ![calls[r].client] = [loop |-> "main",
                                                               closed |-> FALSE]]
                 /\ http_loop' = [http_loop EXCEPT ![calls[r].client] = "main"]
        BY <1>0, <1>1, <4>3, Zenon
      <4> QED  BY <4>1, <4>2, <4>3
    <3> QED  BY <1>3, <3>1, <3>2, <3>3
  <2>2. UNCHANGED <<pdp_client, planner, providers, transaction_provider, clients, closing,
                    draining>>
    BY <1>3 DEF RebuildsPool, StampsPool, PostsAsync, MakesPool, NotesLoop, runtime
  <2> QED  BY <2>1, <2>2
<1>6. CASE UNCHANGED <<runtime, transport>>
  BY <1>6 DEF runtime, transport
<1>7. CASE Builds(r) \/ ChecksConfigured(r) \/ ReadsClient(r) \/ ReadsPlanner(r)
              \/ ReadsTransaction(r) \/ Runs(r) \/ AuthorizationFails(r) \/ ChecksPool(r)
  BY <1>6, <1>7 DEF Builds, ChecksConfigured, ReadsClient, ReadsPlanner, ReadsTransaction,
                    Runs, AuthorizationFails, ChecksPool
<1>8. CASE Posts(r) \/ Permits(r) \/ Plans(r) \/ Discharges(r) \/ Renders(r) \/ Handles(r)
              \/ (\E response \in Responses[r] : GetsResponse(r, response))
  <2>1. UNCHANGED <<runtime, transport>>
    BY <1>8, Zenon DEF Posts, GetsResponse, Permits, Plans, Discharges, Renders, Handles
  <2> QED  BY <1>6, <2>1
<1>9. CASE ConfiguresLazily(r)
  BY <1>2, <1>6, <1>9 DEF ConfiguresLazily
<1> QED  BY <1>3, <1>7, <1>8, <1>9 DEF Step

(* Every step of a request stays within the types.                         *)
LEMMA StepTyped ==
    ASSUME DecisionInv, TypeInv, NEW r \in Requests, Step(r)
    PROVE  MovesTyped(r)
<1> DEFINE c == calls[r]
<1>0. clients \in Nat /\ pdp_client \in 0..clients /\ Typed(c, clients)
        /\ DOMAIN NoCall \subseteq DOMAIN c
  BY PepRuntimeAssumption DEF TypeInv, RuntimeTypeOK, DecisionInv, CallOK
<1>1. ASSUME NEW w \in {"-", "read", "configure", "make", "stamp", "take", "response"},
             Moves(r, [c EXCEPT !.waits = w])
      PROVE  MovesTyped(r)
  BY <1>0, <1>1 DEF MovesTyped, Typed, NoCall
<1>2. Denied(r) \/ Fails(r) => MovesTyped(r)
  BY <1>0, LeavesTyped
<1>3. CASE Builds(r)
  <2> DEFINE call == [c EXCEPT !.subject = Subject(c.entry, c.attributes),
                               !.attributes = NoCall.attributes]
  <2>1. DOMAIN NoCall \subseteq DOMAIN call /\ Typed(call, clients)
    BY <1>0 DEF Typed, NoCall
  <2>2. Fails(r) \/ Forward(r, call)
    BY <1>3 DEF Builds
  <2> HIDE DEF call
  <2> QED  BY <1>0, <1>2, <2>1, <2>2, ForwardTyped
<1>4. CASE ChecksConfigured(r) \/ ConfiguresLazily(r)
  BY <1>1, <1>2, <1>4 DEF ChecksConfigured, ConfiguresLazily
<1>5. CASE ReadsClient(r) \/ ReadsPlanner(r) \/ ReadsTransaction(r)
  <2>1. \/ Fails(r) \/ Forward(r, [c EXCEPT !.client = pdp_client])
        \/ Forward(r, [c EXCEPT !.planner = planner, !.knew = {}])
        \/ Forward(r, [c EXCEPT !.transaction = transaction_provider])
    BY <1>5 DEF ReadsClient, ReadsPlanner, ReadsTransaction
  <2>2. \A call \in {[c EXCEPT !.client = pdp_client],
                     [c EXCEPT !.planner = planner, !.knew = {}],
                     [c EXCEPT !.transaction = transaction_provider]} :
            DOMAIN NoCall \subseteq DOMAIN call /\ Typed(call, clients)
    BY <1>0 DEF Typed, NoCall
  <2> QED  BY <1>0, <1>2, <2>1, <2>2, ForwardTyped
<1>6. CASE Runs(r) \/ Handles(r)
  <2>1. \A w \in {"pending", "kept"} :
            /\ DOMAIN NoCall \subseteq DOMAIN [c EXCEPT !.writes = w]
            /\ Typed([c EXCEPT !.writes = w], clients)
    BY <1>0 DEF Typed, NoCall
  <2>2. PICK w \in {"pending", "kept"}, answer \in {"error", "denied"} :
            \/ Forward(r, [c EXCEPT !.writes = w])
            \/ Moves(r, Settled(Ends([c EXCEPT !.writes = w], answer), "rolled_back"))
            \/ Moves(r, Ends([c EXCEPT !.writes = w], answer))
    BY <1>6 DEF Runs, Handles
  <2> DEFINE call == [c EXCEPT !.writes = w]
  <2>3. DOMAIN NoCall \subseteq DOMAIN call /\ Typed(call, clients)
    BY <2>1
  <2> HIDE DEF call
  <2>4. /\ Typed(Ends(call, answer), clients)
        /\ Typed(Settled(Ends(call, answer), "rolled_back"), clients)
    BY <1>0, <2>3, EndsTyped, SettledTyped DEF Answers
  <2>5. \/ Forward(r, call) \/ Moves(r, Ends(call, answer))
        \/ Moves(r, Settled(Ends(call, answer), "rolled_back"))
    BY <2>2 DEF call
  <2> QED  BY <1>0, <2>3, <2>4, <2>5, ForwardTyped DEF MovesTyped
<1>7. CASE AuthorizationFails(r)
  BY <1>2, <1>7 DEF AuthorizationFails
<1>8. CASE ChecksPool(r) \/ RebuildsPool(r) \/ StampsPool(r) \/ Posts(r) \/ PostsAsync(r)
  BY <1>1, <1>2, <1>8 DEF ChecksPool, RebuildsPool, StampsPool, Posts, PostsAsync
<1>9. ASSUME NEW response \in Responses[r], GetsResponse(r, response)
      PROVE  MovesTyped(r)
  <2> DEFINE again == [c EXCEPT !.retried = TRUE, !.waits = "-"]
             call  == [c EXCEPT !.subject = "none", !.client = 0, !.retried = FALSE,
                                !.told = response, !.verb = DecisionOf(response).verb,
                                !.obliges = DecisionOf(response).obliges]
  <2>1. /\ Typed(again, clients) /\ Typed(call, clients)
        /\ DOMAIN NoCall \subseteq DOMAIN call
    BY <1>0 DEF Typed, NoCall
  <2>2. Moves(r, again) \/ Forward(r, call)
    BY <1>9 DEF GetsResponse
  <2> HIDE DEF again, call
  <2> QED  BY <1>0, <2>1, <2>2, ForwardTyped DEF MovesTyped
<1>10. CASE Permits(r) \/ Plans(r) \/ Discharges(r) \/ Renders(r)
  <2>1. \/ Forward(r, c) \/ Forward(r, Settled(c, "committed")) \/ Denied(r) \/ Fails(r)
        \/ \E fate \in {"committed", "rolled_back"} :
              Moves(r, Settled(Ends(c, "error"), fate))
    BY <1>10 DEF Permits, Plans, Discharges, Renders
  <2>2. \A fate \in {"committed", "rolled_back"} : Typed(Settled(Ends(c, "error"), fate), clients)
    BY <1>0, EndsTyped, SettledTyped DEF Answers
  <2> QED  BY <1>0, <1>2, <2>1, <2>2, SettledTyped, ForwardTyped DEF MovesTyped
<1> QED  BY <1>3, <1>4, <1>5, <1>6, <1>7, <1>8, <1>9, <1>10 DEF Step

(* The types of the runtime and of every request's locals hold throughout. *)
LEMMA TypesHold == Spec => []TypeInv
<1>1. Init => TypeInv
  <2> SUFFICES ASSUME Init  PROVE  TypeInv
    OBVIOUS
  <2>1. RuntimeTypeOK
    <3>1. planner \in [built : BOOLEAN, providers : Seq(Custom)] /\ providers \in Seq(Custom)
      BY DEF Init, RuntimeInit, NoPlanner
    <3>2. /\ http \in [Client -> [loop : Loops, closed : BOOLEAN] \cup {NoPool}]
          /\ http_loop \in [Client -> Loops \cup {NoLoop}]
      BY DEF Init, RuntimeInit
    <3>3. transaction_provider \in BOOLEAN /\ draining \in BOOLEAN
      BY Zenon DEF Init, RuntimeInit
    <3>4. clients = 0 /\ pdp_client = 0 /\ closing = 0
      BY DEF Init, RuntimeInit
    <3>5. clients \in 0..MaxClients /\ pdp_client \in 0..clients /\ closing \in 0..clients
      BY <3>4, PepRuntimeAssumption
    <3> QED  BY <3>1, <3>2, <3>3, <3>5, Zenon DEF RuntimeTypeOK
  <2>2. \A r \in Requests : Typed(calls[r], clients)
    BY DEF Init, RuntimeInit, Typed, NoCall, Answers
  <2> QED  BY <2>1, <2>2 DEF TypeInv
<1>2. DecisionInv /\ TypeInv /\ [Next]_vars => TypeInv'
  <2> SUFFICES ASSUME DecisionInv, TypeInv, [Next]_vars
               PROVE  TypeInv'
    OBVIOUS
  <2>0. clients \in Nat /\ RuntimeTypeOK
    BY PepRuntimeAssumption DEF TypeInv, RuntimeTypeOK
  <2>1. ASSUME NEW call, Typed(call, clients), clients' \in Nat, clients <= clients'
        PROVE  Typed(call, clients')
    BY <2>0, <2>1 DEF Typed
  <2>2. CASE UNCHANGED vars
    BY <2>2 DEF vars, runtime, transport, TypeInv, RuntimeTypeOK
  <2>3. CASE Application
    BY <2>0, <2>1, <2>3, ApplicationTyped DEF TypeInv, Application
  <2>4. ASSUME NEW r \in Requests, Arrives(r) \/ Step(r)
        PROVE  TypeInv'
    <3>1. RuntimeTypeOK' /\ clients' \in Nat /\ clients <= clients'
      <4>1. CASE Arrives(r)
        BY <2>0, <4>1 DEF Arrives, runtime, transport, RuntimeTypeOK
      <4> QED  BY <2>0, <2>4, <4>1, StepTypesRuntime
    <3>2. MovesTyped(r)
      <4>1. CASE Arrives(r)
        <5>1. PICK e, a : Moves(r, [NoCall EXCEPT !.entry = e[1], !.mode = e[2],
                                                  !.attributes = a,
                                                  !.knew = Range(providers)])
          BY <4>1, Zenon DEF Arrives
        <5>2. Typed([NoCall EXCEPT !.entry = e[1], !.mode = e[2], !.attributes = a,
                                   !.knew = Range(providers)], clients)
          BY <2>0 DEF Typed, NoCall, Answers
        <5> QED  BY <5>1, <5>2 DEF MovesTyped
      <4> QED  BY <2>4, <4>1, StepTyped
    <3>3. PICK call : Moves(r, call) /\ Typed(call, clients)
      BY <3>2 DEF MovesTyped
    <3>4. ASSUME NEW s \in Requests
          PROVE  Typed(calls'[s], clients)
      BY <3>3 DEF Moves, DecisionInv, TypeInv
    <3> QED  BY <2>1, <3>1, <3>4 DEF TypeInv
  <2> QED  BY <2>2, <2>3, <2>4 DEF Next
<1> QED  BY <1>1, <1>2, DecisionHolds, PTL DEF Spec

(* What holds of a request in every state: the types, its place in its     *)
(* program, and that no denial leaves a transaction's writes behind.       *)
THEOREM RequestsHold == Spec => []RequestInv
<1>1. TypeInv /\ DecisionInv => TypeOK
  <2> SUFFICES ASSUME TypeInv, DecisionInv, NEW r \in Requests
               PROVE  /\ RuntimeTypeOK /\ framework \in FrameworkNames
                      /\ calls[r].entry \in DOMAIN Programs[framework] \cup {"none", "over"}
                      /\ Begun(r) /\ ~Over(r) => calls[r].at \in 1..Len(Program(r))
    BY DEF TypeOK, TypeInv, DecisionInv, Typed
  <2>1. Begun(r) /\ ~Over(r) => calls[r].at \in 1..Len(Program(r))
    BY LivePlace DEF Live, Begun, Over, WellOrdered
  <2> QED  BY <2>1 DEF TypeInv, DecisionInv, CallOK, Live
<1> QED  BY <1>1, TypesHold, DecisionHolds, DeniedLeavesNothing, PTL DEF RequestInv
=============================================================================
