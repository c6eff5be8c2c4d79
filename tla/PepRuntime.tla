------------------------------- MODULE PepRuntime -------------------------------
(***************************************************************************)
(* What a process shares between its requests: the PepRuntime of           *)
(* sapl_base/pep/runtime.py (PDP client, planner, providers, transaction   *)
(* provider, each read and written under its lock) and the connection pool *)
(* that HttpPdpClient keeps for the event loop it was last used on         *)
(* (sapl_base/transport/http_pdp_client.py).                               *)
(***************************************************************************)
EXTENDS Naturals, Sequences, FiniteSets

CONSTANTS
    Loops,          (* the event loops                                         *)
    Custom,         (* the providers an application may register               *)
    MaxClients,     (* bound on the clients built                              *)
    MaxProviders    (* bound on the registrations                              *)

ASSUME PepRuntimeAssumption ==
    /\ MaxClients \in Nat \ {0}
    /\ MaxProviders \in Nat

Built(list) == [built |-> TRUE, providers |-> list]
NoPlanner   == [built |-> FALSE, providers |-> <<>>]

NoLoop == "none"
NoPool == [loop |-> NoLoop, closed |-> TRUE]

VARIABLES
    pdp_client,     (* the current client, or 0 for None                       *)
    planner,        (* the current planner                                     *)
    providers,      (* the registered providers, the built-in ones apart       *)
    transaction_provider,   (* one is set                                      *)
    clients,        (* the number of clients built                             *)
    http,           (* per client its pool                                     *)
    http_loop,      (* per client the loop it noted for its pool               *)
    closing,        (* the client whose close is under way, or 0               *)
    draining        (* aclose() has marked that client's pool closed           *)

runtime == <<pdp_client, planner, providers, transaction_provider, clients>>
transport == <<http, http_loop, closing, draining>>

Client == 1..MaxClients

RuntimeInit ==
    /\ pdp_client = 0
    /\ planner = NoPlanner
    /\ providers = <<>>
    /\ transaction_provider = FALSE
    /\ clients = 0
    /\ http = [c \in Client |-> NoPool]
    /\ http_loop = [c \in Client |-> NoLoop]
    /\ closing = 0
    /\ draining = FALSE

RuntimeTypeOK ==
    /\ pdp_client \in 0..clients
    /\ planner \in [built : BOOLEAN, providers : Seq(Custom)]
    /\ providers \in Seq(Custom)
    /\ transaction_provider \in BOOLEAN
    /\ clients \in 0..MaxClients
    /\ http \in [Client -> [loop : Loops, closed : BOOLEAN] \cup {NoPool}]
    /\ http_loop \in [Client -> Loops \cup {NoLoop}]
    /\ closing \in 0..clients
    /\ draining \in BOOLEAN
-----------------------------------------------------------------------------
(* The runtime                                                             *)

IsConfigured == pdp_client # 0

\* Mutant: a reconfigured runtime starts over with the built-in providers.
ConfigureForgets ==
    /\ clients < MaxClients
    /\ clients' = clients + 1
    /\ pdp_client' = clients + 1
    /\ planner' = Built(<<>>)
    /\ UNCHANGED <<providers, transaction_provider, transport>>

\* The client that was there before is neither closed nor kept.  Options the constructor
\* rejects change nothing: what it raises leaves before the first assignment.
Configure ==
    /\ clients < MaxClients
    /\ clients' = clients + 1
    /\ pdp_client' = clients + 1
    /\ planner' = Built(providers)
    /\ UNCHANGED <<providers, transaction_provider, transport>>

RegisterProvider(p) ==
    /\ Len(providers) < MaxProviders
    /\ providers' = Append(providers, p)
    /\ planner' = IF planner.built THEN Built(providers') ELSE planner
    /\ UNCHANGED <<pdp_client, transaction_provider, clients, transport>>

SetTransactionProvider ==
    /\ transaction_provider' = ~transaction_provider
    /\ UNCHANGED <<pdp_client, planner, providers, clients, transport>>

\* close() takes the client out under the lock; the planner stays.
TakesClientOut ==
    /\ IsConfigured /\ closing = 0
    /\ closing' = pdp_client
    /\ pdp_client' = 0
    /\ UNCHANGED <<planner, providers, transaction_provider, clients, http, http_loop, draining>>
-----------------------------------------------------------------------------
(* The client's pool                                                       *)

\* aclose() marks the pool closed, then waits for its connections.
ClosesPool ==
    /\ closing # 0 /\ ~draining /\ ~http[closing].closed
    /\ http' = [http EXCEPT ![closing].closed = TRUE]
    /\ draining' = TRUE
    /\ UNCHANGED <<runtime, http_loop, closing>>

\* ... after which whatever pool the client has by then is forgotten, unless closing the
\* connections raises, as it may for those of another loop.
CloseEnds ==
    /\ closing # 0
    /\ draining \/ http[closing].closed
    /\ \/ http' = [http EXCEPT ![closing] = NoPool]
       \/ draining /\ UNCHANGED http
    /\ closing' = 0
    /\ draining' = FALSE
    /\ UNCHANGED <<runtime, http_loop>>

\* Whether _get_client would build a pool for the running loop.
NeedsPool(c, loop) == http[c].closed \/ http_loop[c] # loop

\* self._client = httpx.AsyncClient(...)
MakesPool(c, loop) ==
    /\ http' = [http EXCEPT ![c] = [loop |-> loop, closed |-> FALSE]]
    /\ UNCHANGED <<runtime, http_loop, closing, draining>>

\* self._client_loop = current_loop
NotesLoop(c, loop) ==
    /\ http_loop' = [http_loop EXCEPT ![c] = loop]
    /\ UNCHANGED <<runtime, http, closing, draining>>
=============================================================================
