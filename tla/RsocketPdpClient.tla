---------------------------- MODULE RsocketPdpClient ----------------------------
(***************************************************************************)
(* The RSocket client of sapl_base/transport/rsocket_pdp_client.py: one    *)
(* connection that every stream and every one-shot request of the client   *)
(* shares, opened under a lock and thrown away without it.  Streams,       *)
(* requests and close() are tasks of one event loop; an action is what a   *)
(* task does between two awaits or yields, or one step of the server.  The *)
(* RSocket library is external: a connection that is over tells its        *)
(* streams so.                                                             *)
(***************************************************************************)
EXTENDS Naturals, Sequences, FiniteSets

CONSTANTS
    Streams,            (* calls of decide, multi_decide or multi_decide_all           *)
    Askers,             (* calls of decide_once or multi_decide_all_once               *)
    Closers,            (* calls of close                                              *)
    Ids,                (* the subscriptions of each stream, in order                  *)
    Route,              (* the route of each stream                                    *)
    Verdicts,           (* the decisions other than INDETERMINATE                      *)
    INDETERMINATE,
    HasTokenProvider,   (* the setup payload needs a token of a provider               *)
    SetupMayFail,       (* a connect may end between its socket and its client         *)
    MaxConnections,     (* bound on the connections that matter at one time            *)
    MaxInbox            (* bound on the decisions of a stream that are in flight       *)

None   == "none"
NoConn == 0

Processes   == Streams \cup Askers \cup Closers
Connections == 1..MaxConnections
Decisions   == Verdicts \cup {INDETERMINATE}

ASSUME RsocketAssumption ==
    /\ Streams \cap Askers = {} /\ Streams \cap Closers = {} /\ Askers \cap Closers = {}
    /\ \A s \in Streams : 1 \in DOMAIN Ids[s]
    /\ Route \in [Streams -> {"decide", "multi_decide", "multi_decide_all"}]
    /\ INDETERMINATE \notin Verdicts
    /\ None \notin Decisions
    /\ HasTokenProvider \in BOOLEAN /\ SetupMayFail \in BOOLEAN
    /\ MaxConnections \in Nat /\ MaxInbox \in Nat

VARIABLES
    client,     (* _client: a connection, or NoConn                                    *)
    writer,     (* _writer                                                             *)
    lock,       (* _connect_lock: its holder, and those that wait for it after it      *)
    conn,       (* what became of each connection                                      *)
    pc,         (* where each task is suspended                                        *)
    mine,       (* the connection a task uses                                          *)
    inbox,      (* the queue of each stream                                            *)
    phase,      (* what the stream's queue has held: no decision, some, the end        *)
    leaving,    (* why a stream that resets the connection will not go on              *)
    last,       (* the last emission of each stream                                    *)
    shown       (* the latest decision each consumer has, per subscription             *)

shared  == <<client, writer, lock, conn>>
streams == <<inbox, phase, leaving, last, shown>>
vars    == <<client, writer, lock, conn, pc, mine, inbox, phase, leaving, last, shown>>

Over == {"ended", "raised", "answered"}
Pcs  == {"idle", "waiting", "opening", "using", "closing client", "closing writer",
         "seeding", "sleeping"} \cup Over

IdSet(s) == {Ids[s][k] : k \in DOMAIN Ids[s]}
Nobody   == [i \in {} |-> None]
Unset    == [i \in {None} |-> None]      \* _UNSET

\* What a payload decodes to.  A snapshot that cannot be parsed is an empty snapshot, a
\* tagged decision that cannot be parsed is none at all, any other is INDETERMINATE.
Emissions(s) ==
    CASE Route[s] = "decide"           -> [IdSet(s) -> Decisions]
      [] Route[s] = "multi_decide"     -> {Nobody} \cup UNION {[{i} -> Decisions] : i \in IdSet(s)}
      [] Route[s] = "multi_decide_all" -> UNION {[S -> Decisions] : S \in SUBSET IdSet(s)}

IsNone(s, emission) == Route[s] = "multi_decide" /\ emission = Nobody

\* Mutant: the fallback of multi_decide_all names one subscription too.
FallbackOfFirst(s) == [i \in {Ids[s][1]} |-> INDETERMINATE]

\* The fallback of multi_decide names the first subscription only.
Fallback(s) ==
    [i \in IF Route[s] = "multi_decide" THEN {Ids[s][1]} ELSE IdSet(s) |-> INDETERMINATE]

Merged(emission, held) ==
    [i \in DOMAIN held |-> IF i \in DOMAIN emission THEN emission[i] ELSE held[i]]

Init ==
    /\ client = NoConn
    /\ writer = NoConn
    /\ lock = <<>>
    /\ conn = [c \in Connections |-> "dead"]
    /\ pc = [p \in Processes |-> "idle"]
    /\ mine = [p \in Processes |-> NoConn]
    /\ inbox = [s \in Streams |-> <<>>]
    /\ phase = [s \in Streams |-> "first"]
    /\ leaving = [s \in Streams |-> None]
    /\ last = [s \in Streams |-> Unset]
    /\ shown = [s \in Streams |-> [i \in IdSet(s) |-> None]]

Go(p, stage) == pc' = [pc EXCEPT ![p] = stage]
-----------------------------------------------------------------------------
(* _connect: first come, first served                                      *)

HasLock(p) == lock # <<>> /\ Head(lock) = p

Begins(p) ==
    /\ pc[p] = "idle"
    /\ lock' = Append(lock, p)
    /\ Go(p, "waiting")
    /\ UNCHANGED <<client, writer, conn, mine, streams>>

\* Mutant: the lock is given back before the connection is opened.
EntersUnlocked(p) ==
    /\ p \notin Closers
    /\ pc[p] = "waiting"
    /\ HasLock(p)
    /\ lock' = Tail(lock)
    /\ IF client # NoConn
       THEN mine' = [mine EXCEPT ![p] = client] /\ Go(p, "using")
       ELSE UNCHANGED mine /\ Go(p, "opening")
    /\ UNCHANGED <<client, writer, conn, streams>>

\* A client is used, whatever became of its connection.
Enters(p) ==
    /\ p \notin Closers
    /\ pc[p] = "waiting"
    /\ HasLock(p)
    /\ IF client # NoConn
       THEN /\ lock' = Tail(lock)
            /\ mine' = [mine EXCEPT ![p] = client]
            /\ Go(p, "using")
       ELSE Go(p, "opening") /\ UNCHANGED <<lock, mine>>
    /\ UNCHANGED <<client, writer, conn, streams>>

\* Connections nobody refers to lend their number to a new one.
Unused == {c \in Connections : c \notin {client, writer} /\ \A p \in Processes : mine[p] # c}

\* The lock is released, or the wait for it given up: a task is in the queue only once.
Without(p) ==
    IF \A k \in DOMAIN lock : lock[k] # p THEN lock
    ELSE LET at == CHOOSE k \in DOMAIN lock : lock[k] = p
         IN  [k \in 1..(Len(lock) - 1) |-> IF k < at THEN lock[k] ELSE lock[k + 1]]

\* The token is there, the socket is connected and the setup frame is sent.
Opened(p) ==
    /\ pc[p] = "opening"
    /\ Unused # {}
    /\ LET c == CHOOSE x \in Unused : TRUE
       IN  /\ client' = c
           /\ writer' = c
           /\ conn' = [conn EXCEPT ![c] = "open"]
           /\ mine' = [mine EXCEPT ![p] = c]
    /\ lock' = Without(p)
    /\ Go(p, "using")
    /\ UNCHANGED streams

\* A connect that ends without a client may have its socket by then, of which nobody else
\* knows and which nobody closes.  (A bound: one such socket at a time.)
LeavesSocket(p) ==
    SetupMayFail /\ pc[p] = "opening" /\ Unused # {} /\ \A c \in Unused : conn[c] = "dead"

\* The connections when p no longer opens one.
Left(p) ==
    {conn} \cup IF LeavesSocket(p) THEN {[conn EXCEPT ![CHOOSE c \in Unused : TRUE] = "open"]}
               ELSE {}

\* A stream goes on without a reset; a request resets what it did not connect.
OpeningFails(p) ==
    /\ pc[p] = "opening"
    /\ p \in Streams
    /\ conn' \in Left(p)
    /\ lock' = Without(p)
    /\ Go(p, "seeding")
    /\ UNCHANGED <<client, writer, mine, streams>>

\* Mutant: the lock is not released when the token provider raises.
AuthorizationRaisesInLock(p) ==
    /\ HasTokenProvider
    /\ pc[p] = "opening"
    /\ Go(p, "raised")
    /\ UNCHANGED <<client, writer, lock, conn, mine, streams>>

\* What the token provider raises is none of the errors that are caught.
AuthorizationRaises(p) ==
    /\ HasTokenProvider
    /\ pc[p] = "opening"
    /\ lock' = Without(p)
    /\ Go(p, "raised")
    /\ UNCHANGED <<client, writer, conn, mine, streams>>
-----------------------------------------------------------------------------
(* _close_locked, which _reset_connection calls without the lock           *)

AfterReset(p) ==
    CASE p \in Askers                          -> "answered"
      [] p \in Closers                         -> "ended"
      [] p \in Streams /\ leaving'[p] = None   -> "seeding"
      [] p \in Streams /\ leaving'[p] # None   -> leaving'[p]

\* _writer.close() and the await of wait_closed(), when there is a writer.  Only close()
\* is in the lock by now.
ClosesWriter(p) ==
    IF writer # NoConn
    THEN /\ conn' = [conn EXCEPT ![writer] = "dead"]
         /\ Go(p, "closing writer")
         /\ UNCHANGED lock
    ELSE /\ Go(p, AfterReset(p))
         /\ lock' = Without(p)
         /\ UNCHANGED conn

\* Up to the first await.  While client.close() is awaited _client still refers to it.
Resets(p) ==
    /\ mine' = [mine EXCEPT ![p] = NoConn]
    /\ IF client # NoConn
       THEN /\ conn' = [conn EXCEPT ![client] = "dead"]
            /\ Go(p, "closing client")
            /\ UNCHANGED lock
       ELSE ClosesWriter(p)
    /\ UNCHANGED <<client, writer>>

\* Whatever _client refers to by now is forgotten.  A cancellation only cuts the await
\* short: _close_locked catches it, and the task goes on.
ClientClosed(p) ==
    /\ pc[p] = "closing client"
    /\ client' = NoConn
    /\ UNCHANGED leaving
    /\ ClosesWriter(p)
    /\ UNCHANGED <<writer, mine, inbox, phase, last, shown>>

WriterClosed(p) ==
    /\ pc[p] = "closing writer"
    /\ writer' = NoConn
    /\ UNCHANGED leaving
    /\ Go(p, AfterReset(p))
    /\ lock' = Without(p)
    /\ UNCHANGED <<client, conn, mine, inbox, phase, last, shown>>

Close(p) ==
    /\ p \in Closers
    /\ pc[p] = "waiting"
    /\ HasLock(p)
    /\ UNCHANGED leaving
    /\ Resets(p)
    /\ UNCHANGED <<inbox, phase, last, shown>>
-----------------------------------------------------------------------------
(* _request_response                                                       *)

Answers(p) ==
    /\ p \in Askers
    /\ pc[p] = "using"
    /\ conn[mine[p]] = "open"
    /\ mine' = [mine EXCEPT ![p] = NoConn]
    /\ Go(p, "answered")
    /\ UNCHANGED <<shared, streams>>

\* An error, or no answer within the timeout: the shared connection is reset.
RequestFails(p) ==
    /\ p \in Askers
    /\ pc[p] = "using"
    /\ UNCHANGED streams
    /\ Resets(p)

\* Its task is the holder of the lock until it has failed to connect.
ConnectFails(p) ==
    /\ p \in Askers
    /\ pc[p] = "opening"
    /\ client = NoConn
    /\ mine' = [mine EXCEPT ![p] = NoConn]
    /\ lock' = Without(p)
    /\ \E left \in Left(p) :
         IF writer # NoConn
         THEN conn' = [left EXCEPT ![writer] = "dead"] /\ Go(p, "closing writer")
         ELSE conn' = left /\ Go(p, "answered")
    /\ UNCHANGED <<client, writer, streams>>

\* A cancellation passes through every except clause but that of _close_locked.
RequestCancelled(p) ==
    /\ p \in Askers
    /\ pc[p] \in {"waiting", "opening", "using"}
    /\ mine' = [mine EXCEPT ![p] = NoConn]
    /\ conn' \in Left(p)
    /\ lock' = Without(p)
    /\ Go(p, "ended")
    /\ UNCHANGED <<client, writer, streams>>
-----------------------------------------------------------------------------
(* _request_stream                                                         *)

Sends(s, emission) ==
    /\ pc[s] = "using"
    /\ conn[mine[s]] = "open"
    /\ phase[s] # "over"
    /\ Len(inbox[s]) < MaxInbox
    /\ inbox' = [inbox EXCEPT ![s] = Append(@, emission)]
    /\ UNCHANGED <<shared, pc, mine, phase, leaving, last, shown>>

\* The server completes the stream, or ends it with an error.
Completes(s) ==
    /\ pc[s] = "using"
    /\ conn[mine[s]] = "open"
    /\ phase' = [phase EXCEPT ![s] = "over"]
    /\ UNCHANGED <<shared, pc, mine, inbox, leaving, last, shown>>

\* Equal consecutive emissions are suppressed.
Yield(s, emission) ==
    IF emission = last[s] THEN UNCHANGED <<last, shown>>
    ELSE /\ last' = [last EXCEPT ![s] = emission]
         /\ shown' = [shown EXCEPT ![s] = Merged(emission, @)]

Reads(s) ==
    /\ pc[s] = "using"
    /\ inbox[s] # <<>>
    /\ inbox' = [inbox EXCEPT ![s] = Tail(@)]
    /\ phase' = [phase EXCEPT ![s] = IF @ = "first" THEN "later" ELSE @]
    /\ IF IsNone(s, Head(inbox[s])) THEN UNCHANGED <<last, shown>>
       ELSE Yield(s, Head(inbox[s]))
    /\ UNCHANGED <<shared, pc, mine, leaving>>

\* The stream leaves the try block: the finally clause resets the connection.
LeavesTry(s, why) ==
    /\ inbox' = [inbox EXCEPT ![s] = <<>>]
    /\ phase' = [phase EXCEPT ![s] = "first"]
    /\ leaving' = [leaving EXCEPT ![s] = why]
    /\ Resets(s)
    /\ UNCHANGED <<last, shown>>

\* A number in the payload that is none makes the decoder raise what nobody catches.
DecodingRaises(s) ==
    /\ pc[s] = "using"
    /\ inbox[s] # <<>>
    /\ LeavesTry(s, "raised")

\* Mutant: the end of the stream is not noticed when an error ended it.
SeesCompletion(s) ==
    /\ pc[s] = "using"
    /\ inbox[s] = <<>>
    /\ phase[s] = "over"
    /\ LeavesTry(s, None)

SeesTheEnd(s) ==
    /\ pc[s] = "using"
    /\ inbox[s] = <<>>
    /\ phase[s] = "over" \/ conn[mine[s]] = "dead"
    /\ LeavesTry(s, None)

\* Only the wait for the first decision is bounded.
TimesOut(s) ==
    /\ pc[s] = "using"
    /\ inbox[s] = <<>>
    /\ phase[s] = "first"
    /\ LeavesTry(s, None)

\* The fallback is yielded; the delay is computed after it.
Seeds(s) ==
    /\ pc[s] = "seeding"
    /\ Yield(s, Fallback(s))
    /\ Go(s, "sleeping")
    /\ UNCHANGED <<shared, mine, inbox, phase, leaving>>

Wakes(s) ==
    /\ pc[s] = "sleeping"
    /\ lock' = Append(lock, s)
    /\ Go(s, "waiting")
    /\ UNCHANGED <<client, writer, conn, mine, streams>>

\* 2 ** (attempt - 1) is no float after a long outage (_backoff_delay).
BackoffOverflows(s) ==
    /\ pc[s] = "sleeping"
    /\ Go(s, "raised")
    /\ UNCHANGED <<shared, mine, streams>>

\* The consumer closes the generator, or its task is cancelled, with a connection ...
LeavesConnected(s) ==
    /\ pc[s] = "using"
    /\ LeavesTry(s, "ended")

\* ... or without one.
LeavesUnconnected(s) ==
    /\ pc[s] \in {"waiting", "opening", "sleeping"}
    /\ conn' \in Left(s)
    /\ lock' = Without(s)
    /\ Go(s, "ended")
    /\ UNCHANGED <<client, writer, mine, streams>>
-----------------------------------------------------------------------------
(* The server and the network                                              *)

Breaks(c) ==
    /\ conn[c] # "dead"
    /\ conn' = [conn EXCEPT ![c] = "dead"]
    /\ UNCHANGED <<client, writer, lock, pc, mine, streams>>

\* Nothing arrives any more, and nothing says so.
GoesSilent(c) ==
    /\ conn[c] = "open"
    /\ conn' = [conn EXCEPT ![c] = "silent"]
    /\ UNCHANGED <<client, writer, lock, pc, mine, streams>>

StreamStep(s) ==
    \/ \E emission \in Emissions(s) : Sends(s, emission)
    \/ Completes(s)
    \/ Reads(s)
    \/ DecodingRaises(s)
    \/ SeesTheEnd(s)
    \/ TimesOut(s)
    \/ OpeningFails(s)
    \/ Seeds(s)
    \/ Wakes(s)
    \/ BackoffOverflows(s)
    \/ LeavesConnected(s)
    \/ LeavesUnconnected(s)

Next ==
    \/ \E p \in Processes :
         Begins(p) \/ Enters(p) \/ Opened(p) \/ AuthorizationRaises(p)
         \/ ClientClosed(p) \/ WriterClosed(p) \/ Close(p)
    \/ \E s \in Streams : StreamStep(s)
    \/ \E a \in Askers : Answers(a) \/ RequestFails(a) \/ ConnectFails(a) \/ RequestCancelled(a)
    \/ \E c \in Connections : Breaks(c) \/ GoesSilent(c)

Ends(p) == Opened(p) \/ (p \in Streams /\ OpeningFails(p)) \/ ConnectFails(p)

\* The event loop and its timers, sockets that connect or fail to, and a consumer that
\* keeps iterating.  Nothing is assumed of the server.
Fairness ==
    /\ \A p \in Processes :
         WF_vars(Enters(p) \/ Ends(p) \/ Close(p) \/ ClientClosed(p) \/ WriterClosed(p)
                 \/ RequestFails(p))
    /\ \A s \in Streams : WF_vars(Reads(s) \/ SeesTheEnd(s) \/ Seeds(s))

Spec     == Init /\ [][Next]_vars
FairSpec == Spec /\ Fairness
-----------------------------------------------------------------------------
(* Properties                                                              *)

(* The type invariant of the client.                                       *)
TypeOK ==
    /\ client \in Connections \cup {NoConn}
    /\ writer \in Connections \cup {NoConn}
    /\ lock \in Seq(Processes)
    /\ conn \in [Connections -> {"open", "silent", "dead"}]
    /\ pc \in [Processes -> Pcs]
    /\ mine \in [Processes -> Connections \cup {NoConn}]
    /\ phase \in [Streams -> {"first", "later", "over"}]
    /\ leaving \in [Streams -> {None, "ended", "raised"}]
    /\ DOMAIN inbox = Streams /\ DOMAIN last = Streams /\ DOMAIN shown = Streams
    /\ \A s \in Streams :
         /\ inbox[s] \in Seq(Emissions(s))
         /\ last[s] \in Emissions(s) \cup {Unset, Fallback(s)}
         /\ shown[s] \in [IdSet(s) -> Decisions \cup {None}]

(* The tasks that throw a connection away do not take the lock, and yet a  *)
(* connection is only opened when the client has none: no task overwrites  *)
(* a client another one has just stored, and no two of them open one at    *)
(* the same time (_connect).                                               *)
OpensAlone ==
    \A p \in Processes :
        pc[p] = "opening" =>
            client = NoConn /\ \A q \in Processes \ {p} : pc[q] # "opening"

(* close() holds the lock while it awaits: nothing it waits for is         *)
(* replaced under it, so what _client and _writer refer to when it is done *)
(* is nothing at all (close of pdp_client.py: "release persistent          *)
(* resources").                                                            *)
ClosesWhatThereIs ==
    \A p \in Closers :
        pc[p] \in {"closing client", "closing writer"} =>
            /\ client # NoConn => conn[client] = "dead"
            /\ writer # NoConn => conn[writer] = "dead"

(* What holds of the shared connection in every state: the types, and what *)
(* the lock protects although resets ignore it (_connect_lock).            *)
ConnectionInv == TypeOK /\ OpensAlone /\ ClosesWhatThereIs

NoVerdict(s) == \A i \in IdSet(s) : shown[s][i] \in {None, INDETERMINATE}

Feed(s) ==
    INSTANCE PdpFeed WITH
        Ids <- IdSet(s),
        shown <- shown[s],
        link <- IF pc[s] = "using" THEN "up" ELSE "down"

(* Every stream keeps the promise of PdpFeed, whatever the other users of  *)
(* the connection do: INDETERMINATE for every subscription across every    *)
(* gap, before the stream is connected again.                              *)
KeepsThePromise ==
    /\ \A s \in Streams : Feed(s)!Init
    /\ [][\A s \in Streams : Feed(s)!Next \/ UNCHANGED Feed(s)!vars]_vars

(* When the connection of a stream is over, whoever ended it, the verdicts *)
(* it left with the consumer are withdrawn, or the stream is over: also    *)
(* when another task resets the connection under the stream.               *)
OutageIsShown ==
    \A s \in Streams :
        (pc[s] = "using" /\ conn[mine[s]] = "dead") ~> (NoVerdict(s) \/ pc[s] \in Over)

(* The lock is never kept for good: whoever waits for it to ask the PDP or *)
(* to close the client comes to an end, whatever the connection does.      *)
RequestsEnd ==
    \A p \in Askers \cup Closers : pc[p] = "waiting" ~> pc[p] \in Over

(* pdp_client.py, close: "Release persistent resources (connection pools,  *)
(* refresh timers, sockets)."  A connection that is still open is one the  *)
(* client refers to, or a task uses and will reset.                        *)
NothingLeaks ==
    \A c \in Connections :
        conn[c] = "open" => c \in {client, writer} \/ \E p \in Processes : mine[p] = c
=============================================================================
