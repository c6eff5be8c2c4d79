------------------------------ MODULE HttpPdpStream ------------------------------
(***************************************************************************)
(* One subscription stream of the HTTP client: _stream_sse and _sse_lines  *)
(* of sapl_base/transport/http_pdp_client.py, with the server and the      *)
(* network as far as the client can tell.  An action is what the generator *)
(* does between two awaits or yields, or one step of the server.           *)
(*                                                                         *)
(* An emission is a function from the subscriptions it speaks of to their  *)
(* decisions: of all of them on the multi-decide-all route (decide is that *)
(* route with one subscription), of one on the multi-decide route.         *)
(***************************************************************************)
EXTENDS Naturals, Sequences

CONSTANTS
    Ids,                (* the subscriptions                                   *)
    SeedOrder,          (* list(subscription.subscriptions.keys())             *)
    Verdicts,           (* the decisions other than INDETERMINATE              *)
    INDETERMINATE,
    HasTokenProvider,   (* the client authenticates with a token provider      *)
    FloatExponent,      (* 2 ** n is no float for n >= FloatExponent; 1024     *)
    MaxWire             (* bound on the frames in flight                       *)

None == "none"

ASSUME HttpStreamAssumption ==
    /\ SeedOrder \in Seq(Ids)
    /\ \A i \in Ids : \E k \in DOMAIN SeedOrder : SeedOrder[k] = i
    /\ INDETERMINATE \notin Verdicts
    /\ None \notin Verdicts \cup {INDETERMINATE}
    /\ HasTokenProvider \in BOOLEAN
    /\ FloatExponent \in Nat \ {0}
    /\ MaxWire \in Nat

VARIABLES
    route,          (* "multi_decide" or "multi_decide_all"                    *)
    stage,          (* where the generator is suspended                        *)
    attempt,        (* connections that broke since the last decision          *)
    last_emitted,   (* for the suppression of repeated emissions               *)
    seeded,         (* how many INDETERMINATE seeds of this outage are done    *)
    link,           (* what became of the connection                           *)
    wire,           (* the frames on their way to the client                   *)
    shown,          (* the latest decision the consumer has, per subscription  *)
    told            (* history: the latest the server sent on this connection  *)

vars == <<route, stage, attempt, last_emitted, seeded, link, wire, shown, told>>

Decisions == Verdicts \cup {INDETERMINATE}
Routes    == {"multi_decide", "multi_decide_all"}
Links     == {"none", "alive", "silent", "ended"}

\* "requested" waits for the response's headers, "yielding" for the consumer.
Stages ==
    {"connecting", "requested", "reading", "yielding", "seeding", "sleeping",
     "closed", "raised"}
Over == {"closed", "raised"}

Nobody == [i \in {} |-> None]       \* _UNSET

\* A frame the parser or the validator rejects: no JSON, or no subscription id.
Garbled == Nobody

\* A malformed decision is validated as INDETERMINATE.
ValidFrames ==
    IF route = "multi_decide_all" THEN [Ids -> Decisions]
    ELSE UNION {[{i} -> Decisions] : i \in Ids}

Seeds ==
    IF route = "multi_decide_all" THEN <<[i \in Ids |-> INDETERMINATE]>>
    ELSE [k \in DOMAIN SeedOrder |-> [i \in {SeedOrder[k]} |-> INDETERMINATE]]

Nothing == [i \in Ids |-> None]

\* What is held once an emission came on top of it.
Merged(emission, held) ==
    [i \in Ids |-> IF i \in DOMAIN emission THEN emission[i] ELSE held[i]]

Init ==
    /\ route \in Routes
    /\ stage = "connecting"
    /\ attempt = 0
    /\ last_emitted = Nobody
    /\ seeded = 0
    /\ link = "none"
    /\ wire = <<>>
    /\ shown = Nothing
    /\ told = Nothing
-----------------------------------------------------------------------------
(* The server and the network                                              *)

Sends(frame) ==
    /\ stage \in {"reading", "yielding"}
    /\ link = "alive"
    /\ Len(wire) < MaxWire
    /\ wire' = Append(wire, frame)
    /\ told' = Merged(frame, told)
    /\ UNCHANGED <<route, stage, attempt, last_emitted, seeded, link, shown>>

\* A partition: nothing arrives any more, and nothing says so.
GoesSilent ==
    /\ link = "alive"
    /\ link' = "silent"
    /\ UNCHANGED <<route, stage, attempt, last_emitted, seeded, wire, shown, told>>

\* The server completes the response, or the connection is reset and frames are lost.
Ends ==
    /\ stage \in {"reading", "yielding"}
    /\ link = "alive"
    /\ link' = "ended"
    /\ \E n \in 0..Len(wire) : wire' = SubSeq(wire, 1, n)
    /\ UNCHANGED <<route, stage, attempt, last_emitted, seeded, shown, told>>
-----------------------------------------------------------------------------
(* The client                                                              *)

\* base * 2 ** (n - 1) raises OverflowError before the cap is applied.
BackoffOverflows(n) == n > FloatExponent

\* The connection is over: count the attempt and compute the delay; then the seeds are
\* due.
Breaks ==
    /\ attempt' = attempt + 1
    /\ seeded' = 0
    /\ stage' = IF BackoffOverflows(attempt + 1) THEN "raised" ELSE "seeding"
    /\ link' = "none"
    /\ wire' = <<>>
    /\ UNCHANGED <<route, last_emitted, shown, told>>

Requests ==
    /\ stage = "connecting"
    /\ stage' = "requested"
    /\ link' = "alive"
    /\ UNCHANGED <<route, attempt, last_emitted, seeded, wire, shown, told>>

\* Anything but an HTTP error from the token provider is caught by no clause.
AuthorizationRaises ==
    /\ HasTokenProvider
    /\ stage = "connecting"
    /\ stage' = "raised"
    /\ UNCHANGED <<route, attempt, last_emitted, seeded, link, wire, shown, told>>

\* Refused, timed out connecting, or an HTTP error from the token provider.
ConnectFails ==
    /\ stage = "connecting"
    /\ Breaks

\* The headers are awaited without a timeout (read=None): a server that fell silent
\* keeps the client here.
Responds ==
    /\ stage = "requested"
    /\ link = "alive"
    /\ stage' = "reading"
    /\ told' = Nothing
    /\ UNCHANGED <<route, attempt, last_emitted, seeded, link, wire, shown>>

\* An HTTP status of 400 or more, or the connection is reset before the headers.
RespondsWithError ==
    /\ stage = "requested"
    /\ link = "alive"
    /\ Breaks

\* Equal consecutive emissions are suppressed.
Emit(emission, otherwise) ==
    IF emission = last_emitted
    THEN /\ stage' = otherwise
         /\ UNCHANGED <<last_emitted, shown>>
    ELSE /\ stage' = "yielding"
         /\ last_emitted' = emission
         /\ shown' = Merged(emission, shown)

Reads ==
    /\ stage = "reading"
    /\ wire # <<>>
    /\ wire' = Tail(wire)
    /\ IF Head(wire) = Garbled
       THEN UNCHANGED <<attempt, stage, last_emitted, shown>>
       ELSE /\ attempt' = 0
            /\ Emit(Head(wire), "reading")
    /\ UNCHANGED <<route, seeded, link, told>>

\* Mutant: the inactivity window is not enforced on a connection that stays open.
TimesOutUnlessSilent ==
    /\ stage = "reading"
    /\ wire = <<>>
    /\ link = "alive"
    /\ Breaks

\* No chunk arrived within the window (asyncio.wait_for around the read).
TimesOut ==
    /\ stage = "reading"
    /\ wire = <<>>
    /\ link \in {"alive", "silent"}
    /\ Breaks

\* The end of the response, or an httpx error.
SeesTheEnd ==
    /\ stage = "reading"
    /\ wire = <<>>
    /\ link = "ended"
    /\ Breaks

\* A chunk makes the buffer exceed its cap; the frames in it are lost.
Overflows ==
    /\ stage = "reading"
    /\ link = "alive"
    /\ Breaks

\* Mutant: the seeds are yielded without taking note of them.
SeedUnrecorded ==
    /\ stage = "seeding"
    /\ seeded < Len(Seeds)
    /\ seeded' = seeded + 1
    /\ IF Seeds[seeded + 1] = last_emitted
       THEN UNCHANGED <<stage, shown>>
       ELSE stage' = "yielding" /\ shown' = Merged(Seeds[seeded + 1], shown)
    /\ UNCHANGED <<route, attempt, last_emitted, link, wire, told>>

\* Mutant: one seed for the whole stream.
SeedFirstOnly ==
    /\ stage = "seeding"
    /\ seeded < Len(Seeds)
    /\ seeded' = Len(Seeds)
    /\ Emit(Seeds[1], "seeding")
    /\ UNCHANGED <<route, attempt, link, wire, told>>

Seed ==
    /\ stage = "seeding"
    /\ seeded < Len(Seeds)
    /\ seeded' = seeded + 1
    /\ Emit(Seeds[seeded + 1], "seeding")
    /\ UNCHANGED <<route, attempt, link, wire, told>>

BacksOff ==
    /\ stage = "seeding"
    /\ seeded = Len(Seeds)
    /\ stage' = "sleeping"
    /\ UNCHANGED <<route, attempt, last_emitted, seeded, link, wire, shown, told>>

Wakes ==
    /\ stage = "sleeping"
    /\ stage' = "connecting"
    /\ UNCHANGED <<route, attempt, last_emitted, seeded, link, wire, shown, told>>

\* After a decision attempt is 0; during an outage it is not.
ConsumerResumes ==
    /\ stage = "yielding"
    /\ stage' = IF attempt = 0 THEN "reading" ELSE "seeding"
    /\ UNCHANGED <<route, attempt, last_emitted, seeded, link, wire, shown, told>>

\* The consumer closes the generator, or its task is cancelled at an await of it.
ConsumerLeaves ==
    /\ stage \notin Over \cup {"seeding"}
    /\ stage' = "closed"
    /\ link' = "none"
    /\ wire' = <<>>
    /\ UNCHANGED <<route, attempt, last_emitted, seeded, shown, told>>

Next ==
    \/ \E frame \in ValidFrames \cup {Garbled} : Sends(frame)
    \/ GoesSilent
    \/ Ends
    \/ Requests
    \/ AuthorizationRaises
    \/ ConnectFails
    \/ Responds
    \/ RespondsWithError
    \/ Reads
    \/ TimesOut
    \/ SeesTheEnd
    \/ Overflows
    \/ Seed
    \/ BacksOff
    \/ Wakes
    \/ ConsumerResumes
    \/ ConsumerLeaves

\* The event loop, the timers, and a consumer that keeps iterating (_pump_pdp puts
\* every decision on an unbounded queue).  Nothing is assumed of the server.
Fairness ==
    /\ WF_vars(Reads)
    /\ WF_vars(link = "silent" /\ TimesOut)
    /\ WF_vars(SeesTheEnd)
    /\ WF_vars(Seed)
    /\ WF_vars(BacksOff)
    /\ WF_vars(Wakes)
    /\ WF_vars(Requests)
    /\ WF_vars(ConsumerResumes)

Spec     == Init /\ [][Next]_vars
FairSpec == Spec /\ Fairness
-----------------------------------------------------------------------------
(* Properties                                                              *)

(* The type invariant of the stream.                                       *)
TypeOK ==
    /\ route \in Routes
    /\ stage \in Stages
    /\ attempt \in 0..(FloatExponent + 1)
    /\ last_emitted \in ValidFrames \cup {Nobody}
    /\ seeded \in 0..Len(Seeds)
    /\ link \in Links
    /\ wire \in Seq(ValidFrames \cup {Garbled}) /\ Len(wire) <= MaxWire
    /\ shown \in [Ids -> Decisions \cup {None}]
    /\ told \in [Ids -> Decisions \cup {None}]
    /\ stage \in {"connecting", "seeding", "sleeping"} => link = "none" /\ wire = <<>>

NoVerdict == \A i \in Ids : shown[i] \in {None, INDETERMINATE}

Connected == (stage = "reading") \/ (stage = "yielding" /\ attempt = 0)

(* A consumer that has caught up with a connection holds, for every        *)
(* subscription, the last decision sent on that connection, and no verdict *)
(* of an earlier connection for those not spoken of: neither the           *)
(* suppression of repeats nor the seeds of an outage make a decision stale *)
(* (last_emitted of _stream_sse).                                          *)
FollowsServer ==
    stage = "reading" /\ wire = <<>> /\ link \in {"alive", "silent"} =>
        \A i \in Ids :
            IF told[i] = None THEN shown[i] \in {None, INDETERMINATE}
            ELSE shown[i] = told[i]

Feed == INSTANCE PdpFeed WITH link <- IF Connected THEN "up" ELSE "down"

(* The stream keeps the promise of PdpFeed: INDETERMINATE for every        *)
(* subscription across every gap, before the next connection is tried.     *)
KeepsThePromise == Feed!Spec

(* Once an established connection has ended or fallen silent, the verdicts *)
(* it left with the consumer are withdrawn, or the stream is over          *)
(* (the inactivity window of _sse_lines).                                  *)
OutageIsShown ==
    (Connected /\ link # "alive") ~> (NoVerdict \/ stage \in Over)
=============================================================================
