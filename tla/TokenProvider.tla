----------------------------- MODULE TokenProvider -----------------------------
(***************************************************************************)
(* One-shot requests of the HTTP client that authenticate with OAuth2:     *)
(* _post_json of sapl_base/transport/http_pdp_client.py over               *)
(* AuthlibOAuth2TokenProvider of sapl_base/transport/oauth2.py.  Requests  *)
(* are tasks of one event loop that share the provider; each runs once.    *)
(* An action is what a task does between two awaits.  The i-th refresh     *)
(* task acquires token i.                                                  *)
(***************************************************************************)
EXTENDS Naturals, Sequences, SequencesExt, FiniteSets

CONSTANTS
    Requests,
    Cancellable,    (* bound: the requests whose tasks may be cancelled               *)
    MaxRejected     (* bound on the tokens that the PDP rejects                       *)

None == "none"

ASSUME TokenAssumption ==
    None \notin Requests /\ Cancellable \subseteq Requests /\ MaxRejected \in Nat

VARIABLES
    cached,         (* the cached token while it is fresh enough, or 0         *)
    lock,           (* _refresh_lock: the request that holds it, or None       *)
    lock_waiters,   (* the requests waiting for the lock, first come first     *)
    pending,        (* _pending_refresh: a refresh, or 0                       *)
    refreshes,      (* every refresh task: [status, waiters]                   *)
    requests,       (* every request: see Request                              *)
    rejected        (* history: the tokens the PDP has rejected                *)

vars == <<cached, lock, lock_waiters, pending, refreshes, requests, rejected>>

Ended  == {"done", "unreachable", "failed", "cancelled"}
Status == {"running", "cancelling"} \cup Ended

Over   == {"answered", "raised", "cancelled"}
Stages == {"idle", "locking", "sharing", "owning", "posting"} \cup Over

\* "refresh" is the task it waits for, "token" the one it posts with; "asked" says that
\* its task was cancelled.  "stale" is history: the tokens rejected before it last called
\* get_access_token.
Request ==
    [stage : Stages, retried : BOOLEAN, refresh : Nat, token : Nat,
     asked : BOOLEAN, stale : SUBSET Nat]

At(stage) ==
    [stage |-> stage, retried |-> FALSE, refresh |-> 0, token |-> 0,
     asked |-> FALSE, stale |-> {}]

Init ==
    /\ cached = 0
    /\ lock = None
    /\ lock_waiters = <<>>
    /\ pending = 0
    /\ refreshes = <<>>
    /\ requests = [r \in Requests |-> At("idle")]
    /\ rejected = {}

To(r, request) == requests' = [requests EXCEPT ![r] = request]

-----------------------------------------------------------------------------
(* get_access_token                                                        *)

\* r has the lock and there is no cached token: it awaits the pending refresh under the
\* lock, or creates one and gives the lock back.
HoldsLock(r, request) ==
    IF pending # 0 /\ refreshes[pending].status \notin Ended
    THEN /\ lock' = r
         /\ refreshes' = [refreshes EXCEPT ![pending].waiters = Append(@, r)]
         /\ To(r, [request EXCEPT !.stage = "sharing", !.refresh = pending])
         /\ UNCHANGED pending
    ELSE /\ refreshes' = Append(refreshes, [status |-> "running", waiters |-> <<r>>])
         /\ pending' = Len(refreshes) + 1
         /\ To(r, [request EXCEPT !.stage = "owning", !.refresh = Len(refreshes) + 1])
         /\ UNCHANGED lock

\* There is no cached token; a request does not overtake those that wait for the lock.
Refreshes(r, request) ==
    IF lock = None /\ lock_waiters = <<>>
    THEN HoldsLock(r, request) /\ UNCHANGED lock_waiters
    ELSE /\ lock_waiters' = Append(lock_waiters, r)
         /\ To(r, [request EXCEPT !.stage = "locking"])
         /\ UNCHANGED <<lock, pending, refreshes>>

UsesCached(r, request) ==
    /\ To(r, [request EXCEPT !.stage = "posting", !.token = cached])
    /\ UNCHANGED <<lock, lock_waiters, pending, refreshes>>

Begins(r) ==
    /\ requests[r].stage = "idle"
    /\ LET request == [requests[r] EXCEPT !.stale = rejected]
       IN  IF cached # 0 THEN UsesCached(r, request) ELSE Refreshes(r, request)
    /\ UNCHANGED <<cached, rejected>>

GetsLock(r) ==
    /\ lock = None
    /\ lock_waiters # <<>> /\ Head(lock_waiters) = r
    /\ lock_waiters' = Tail(lock_waiters)
    /\ IF cached # 0
       THEN /\ To(r, [requests[r] EXCEPT !.stage = "posting", !.token = cached])
            /\ UNCHANGED <<lock, pending, refreshes>>
       ELSE HoldsLock(r, requests[r])
    /\ UNCHANGED <<cached, rejected>>

\* What the end of its refresh means to a request.  _post_json catches what httpx raises
\* when nobody answers; HTTP statuses, OAuth errors and a missing token pass through it.
Continued(request, status) ==
    CASE request.asked \/ status = "cancelled"       -> At("cancelled")
      [] ~request.asked /\ status = "done"           ->
            [request EXCEPT !.stage = "posting", !.token = request.refresh, !.refresh = 0]
      [] ~request.asked /\ status = "unreachable"    -> At("answered")
      [] ~request.asked /\ status = "failed"         -> At("raised")

Waits(r) == requests[r].stage \in {"sharing", "owning"}

\* Mutant: the lock is released on success only.
ResumesHoldingLock(r) ==
    /\ Waits(r)
    /\ LET i == requests[r].refresh
       IN  /\ refreshes[i].status \in Ended
           /\ refreshes[i].waiters # <<>> /\ Head(refreshes[i].waiters) = r
           /\ refreshes' = [refreshes EXCEPT ![i].waiters = Tail(@)]
           /\ To(r, Continued(requests[r], refreshes[i].status))
           /\ lock' = IF requests[r].stage = "sharing" /\ refreshes[i].status = "done"
                      THEN None ELSE lock
    /\ pending' = IF requests[r].stage = "owning" THEN 0 ELSE pending
    /\ UNCHANGED <<cached, lock_waiters, rejected>>

\* The awaited refresh is over; its waiters go on in the order in which they came.
\* Whoever created it clears the reference, to whichever refresh that is by now.
Resumes(r) ==
    /\ Waits(r)
    /\ LET i == requests[r].refresh
       IN  /\ refreshes[i].status \in Ended
           /\ refreshes[i].waiters # <<>> /\ Head(refreshes[i].waiters) = r
           /\ refreshes' = [refreshes EXCEPT ![i].waiters = Tail(@)]
           /\ To(r, Continued(requests[r], refreshes[i].status))
    /\ lock' = IF requests[r].stage = "sharing" THEN None ELSE lock
    /\ pending' = IF requests[r].stage = "owning" THEN 0 ELSE pending
    /\ UNCHANGED <<cached, lock_waiters, rejected>>

-----------------------------------------------------------------------------
(* The refresh task and the clock                                          *)

RefreshTo(i, status) == refreshes' = [refreshes EXCEPT ![i].status = status]

\* A token whose lifetime is within the refresh guard is never fresh enough.
RefreshSucceeds(i) ==
    /\ refreshes[i].status = "running"
    /\ RefreshTo(i, "done")
    /\ cached' \in {0, i}
    /\ UNCHANGED <<lock, lock_waiters, pending, requests, rejected>>

RefreshFails(i, how) ==
    /\ refreshes[i].status = "running"
    /\ RefreshTo(i, how)
    /\ UNCHANGED <<cached, lock, lock_waiters, pending, requests, rejected>>

RefreshUnwinds(i) ==
    /\ refreshes[i].status = "cancelling"
    /\ RefreshTo(i, "cancelled")
    /\ UNCHANGED <<cached, lock, lock_waiters, pending, requests, rejected>>

Expires ==
    /\ cached # 0
    /\ cached' = 0
    /\ UNCHANGED <<lock, lock_waiters, pending, refreshes, requests, rejected>>

-----------------------------------------------------------------------------
(* The request                                                             *)

\* A decision, an error status that is no 401 or 403, a timeout, a failed connection.
PdpAnswers(r) ==
    /\ requests[r].stage = "posting"
    /\ To(r, At("answered"))
    /\ UNCHANGED <<cached, lock, lock_waiters, pending, refreshes, rejected>>

\* Mutant: the cached token survives its rejection.
PdpRejectsKeepsToken(r) ==
    /\ requests[r].stage = "posting"
    /\ rejected' = rejected \cup {requests[r].token}
    /\ Cardinality(rejected') <= MaxRejected
    /\ IF requests[r].retried
       THEN To(r, At("answered")) /\ UNCHANGED <<lock, lock_waiters, pending, refreshes>>
       ELSE LET request == [requests[r] EXCEPT !.retried = TRUE, !.stale = rejected']
            IN  IF cached # 0 THEN UsesCached(r, request) ELSE Refreshes(r, request)
    /\ UNCHANGED cached

\* 401 or 403: the cached token is dropped, and the first time the request is repeated.
PdpRejects(r) ==
    /\ requests[r].stage = "posting"
    /\ rejected' = rejected \cup {requests[r].token}
    /\ Cardinality(rejected') <= MaxRejected
    /\ cached' = 0
    /\ IF requests[r].retried
       THEN To(r, At("answered")) /\ UNCHANGED <<lock, lock_waiters, pending, refreshes>>
       ELSE Refreshes(r, [requests[r] EXCEPT !.retried = TRUE, !.token = 0,
                                             !.stale = rejected \cup {requests[r].token}])

\* Mutant: the shared refresh is shielded, and its waiter just goes away.
IsCancelledShielded(r) ==
    /\ r \in Cancellable
    /\ requests[r].stage \notin Over \cup {"idle"}
    /\ ~requests[r].asked
    /\ lock' = IF lock = r THEN None ELSE lock
    /\ lock_waiters' = SelectSeq(lock_waiters, LAMBDA q : q # r)
    /\ refreshes' = [i \in DOMAIN refreshes |->
                       [refreshes[i] EXCEPT !.waiters = SelectSeq(@, LAMBDA q : q # r)]]
    /\ pending' = IF requests[r].stage = "owning" THEN 0 ELSE pending
    /\ To(r, At("cancelled"))
    /\ UNCHANGED <<cached, rejected>>

\* Task.cancel of the request: a refresh it awaits is cancelled in its stead, and with it
\* everyone who shares it; one that is over already changes nothing but the request.
IsCancelled(r) ==
    /\ r \in Cancellable
    /\ requests[r].stage \notin Over \cup {"idle"}
    /\ ~requests[r].asked
    /\ To(r, IF Waits(r) THEN [requests[r] EXCEPT !.asked = TRUE] ELSE At("cancelled"))
    /\ \/ requests[r].stage # "locking" /\ UNCHANGED lock_waiters
       \/ \E k \in DOMAIN lock_waiters :
             lock_waiters[k] = r /\ lock_waiters' = RemoveAt(lock_waiters, k)
    /\ refreshes' =
         IF Waits(r) /\ refreshes[requests[r].refresh].status = "running"
         THEN [refreshes EXCEPT ![requests[r].refresh].status = "cancelling"]
         ELSE refreshes
    /\ UNCHANGED <<cached, lock, pending, rejected>>

Next ==
    \/ \E r \in Requests :
          \/ Begins(r)
          \/ GetsLock(r)
          \/ Resumes(r)
          \/ PdpAnswers(r)
          \/ PdpRejects(r)
          \/ IsCancelled(r)
    \/ \E i \in DOMAIN refreshes :
          \/ RefreshSucceeds(i)
          \/ \E how \in {"unreachable", "failed"} : RefreshFails(i, how)
          \/ RefreshUnwinds(i)
    \/ Expires

\* The event loop runs what is ready; httpx bounds every exchange with a timeout.
Fairness ==
    /\ WF_vars(\E r \in Requests : GetsLock(r) \/ Resumes(r) \/ PdpAnswers(r))
    /\ WF_vars(\E i \in DOMAIN refreshes : RefreshFails(i, "unreachable") \/ RefreshUnwinds(i))

Spec     == Init /\ [][Next]_vars
FairSpec == Spec /\ Fairness
-----------------------------------------------------------------------------
(* Properties                                                              *)

(* The type invariant of the provider; the lock is held by exactly the     *)
(* request that shares a refresh, and a refresh knows who waits for it.    *)
TypeOK ==
    /\ cached \in 0..Len(refreshes)
    /\ pending \in 0..Len(refreshes)
    /\ lock_waiters \in Seq(Requests)
    /\ refreshes \in Seq([status : Status, waiters : Seq(Requests)])
    /\ requests \in [Requests -> Request]
    /\ rejected \subseteq 1..Len(refreshes)
    /\ \A r \in Requests : lock = r <=> requests[r].stage = "sharing"
    /\ \A r \in Requests : Waits(r) => requests[r].refresh \in DOMAIN refreshes

(* A request posts with no token that had been rejected before it asked    *)
(* for one, its own retry included, however refreshes overlap with         *)
(* rejections (invalidate, and the retry of _post_json).                   *)
PostsFreshToken ==
    \A r \in Requests :
        requests[r].stage = "posting" => requests[r].token \notin requests[r].stale

(* A refresh that runs has somebody waiting for it: cancelled and failed   *)
(* requests leave no task behind whose outcome nobody takes.               *)
NoOrphanRefresh ==
    \A i \in DOMAIN refreshes : refreshes[i].status = "running" => refreshes[i].waiters # <<>>

(* In the end every request that began is over: whoever is cancelled,      *)
(* fails or is rejected with the lock or a refresh strands nobody.         *)
EveryRequestEnds ==
    <>[](\A r \in Requests : requests[r].stage \in {"idle"} \cup Over)
=============================================================================
