-------------------------- MODULE TokenProviderProofs --------------------------
(***************************************************************************)
(* Proofs about TokenProvider, for any set of requests, whichever of them  *)
(* are cancelled and however often the PDP rejects a token: type           *)
(* correctness, and that no request posts a token it could know to be      *)
(* rejected.                                                               *)
(***************************************************************************)
EXTENDS TokenProvider, SequenceTheorems, TLAPS

RefreshRecord == [status : Status, waiters : Seq(Requests)]

\* S are refreshes that are over; only those have tokens that can be rejected.
OverIn(S, rs) == \A i \in S : i \in 1..Len(rs) /\ rs[i].status \in Ended

\* A usable token is that of a refresh that is over and not in bad.
Usable(token, bad, rs) == token \notin bad /\ OverIn({token}, rs)

\* What a request waits for or posts with is not among the tokens that were rejected
\* before it asked.
RequestIsGood(request, rs) ==
    /\ request.stage \in {"sharing", "owning"} => request.refresh \notin request.stale
    /\ request.stage = "posting" => Usable(request.token, request.stale, rs)

IInv ==
    /\ TypeOK
    /\ OverIn(rejected, refreshes)
    /\ cached # 0 => Usable(cached, rejected, refreshes)
    /\ \A r \in Requests :
          requests[r].stale \subseteq rejected /\ RequestIsGood(requests[r], refreshes)
-----------------------------------------------------------------------------
(* What steps have in common                                               *)

\* The refreshes of the next state: as many or more, none taken back.
RefreshesGrow ==
    /\ refreshes' \in Seq(RefreshRecord)
    /\ Len(refreshes) <= Len(refreshes')
    /\ \A i \in 1..Len(refreshes) :
          refreshes[i].status \in Ended => refreshes'[i].status \in Ended

LEMMA OverStays ==
    ASSUME TypeOK, RefreshesGrow, NEW S, OverIn(S, refreshes)
    PROVE  OverIn(S, refreshes')
<1>1. Len(refreshes) \in Nat /\ Len(refreshes') \in Nat
  BY DEF TypeOK, RefreshesGrow
<1> QED BY <1>1 DEF OverIn, RefreshesGrow

LEMMA GoodStays ==
    ASSUME TypeOK, RefreshesGrow, NEW request, RequestIsGood(request, refreshes)
    PROVE  RequestIsGood(request, refreshes')
BY OverStays DEF RequestIsGood, Usable

\* A step of one request.
LEMMA RequestStep ==
    ASSUME IInv, RefreshesGrow, NEW r \in Requests, NEW q \in Request,
           requests' = [requests EXCEPT ![r] = q],
           pending' \in 0..Len(refreshes'),
           lock_waiters' \in Seq(Requests),
           rejected \subseteq rejected', OverIn(rejected', refreshes'),
           cached' \in {0, cached}, cached' # 0 => cached' \notin rejected',
           q.stale \subseteq rejected', RequestIsGood(q, refreshes'),
           q.stage \in {"sharing", "owning"} => q.refresh \in 1..Len(refreshes'),
           lock' = r <=> q.stage = "sharing",
           \A p \in Requests \ {r} : lock' = p <=> lock = p
    PROVE  IInv'
<1>1. Len(refreshes) \in Nat /\ Len(refreshes') \in Nat
      /\ DOMAIN refreshes = 1..Len(refreshes) /\ DOMAIN refreshes' = 1..Len(refreshes')
  BY DEF IInv, TypeOK, RefreshesGrow
<1>2. requests' \in [Requests -> Request] /\ requests'[r] = q
      /\ \A p \in Requests \ {r} : requests'[p] = requests[p]
  BY DEF IInv, TypeOK
<1>3. TypeOK'
  <2>1. cached' \in 0..Len(refreshes') /\ rejected' \subseteq 1..Len(refreshes')
    BY <1>1 DEF IInv, TypeOK, RefreshesGrow, OverIn
  <2>2. \A p \in Requests : lock' = p <=> requests'[p].stage = "sharing"
    BY <1>2 DEF IInv, TypeOK
  <2>3. \A p \in Requests : Waits(p)' => requests'[p].refresh \in DOMAIN refreshes'
    BY <1>1, <1>2 DEF IInv, TypeOK, Waits, RefreshesGrow
  <2> QED BY <1>2, <2>1, <2>2, <2>3 DEF TypeOK, RefreshesGrow, RefreshRecord
<1>4. cached' # 0 => Usable(cached', rejected', refreshes')
  <2>1. cached # 0 => OverIn({cached}, refreshes')
    BY OverStays DEF IInv, Usable
  <2> QED BY <2>1 DEF Usable
<1>5. ASSUME NEW p \in Requests
      PROVE  requests'[p].stale \subseteq rejected' /\ RequestIsGood(requests'[p], refreshes')
  <2>1. CASE p = r
    BY <1>2, <2>1
  <2>2. CASE p # r
    <3>1. /\ requests[p].stale \subseteq rejected /\ RequestIsGood(requests[p], refreshes)
          /\ requests'[p] = requests[p]
      BY <1>2, <2>2 DEF IInv
    <3> QED BY <3>1, GoodStays DEF IInv
  <2> QED BY <2>1, <2>2
<1> QED BY <1>3, <1>4, <1>5 DEF IInv

\* A step of a refresh or of the clock.
LEMMA RefreshStep ==
    ASSUME IInv, RefreshesGrow, Len(refreshes') = Len(refreshes),
           UNCHANGED <<lock, lock_waiters, pending, requests, rejected>>,
           cached' # 0 => Usable(cached', rejected, refreshes'),
           cached' \in 0..Len(refreshes)
    PROVE  IInv'
<1>1. Len(refreshes) \in Nat /\ DOMAIN refreshes = 1..Len(refreshes)
      /\ DOMAIN refreshes' = 1..Len(refreshes')
  BY DEF IInv, TypeOK, RefreshesGrow
<1>2. TypeOK'
  BY <1>1 DEF IInv, TypeOK, Waits, RefreshesGrow, RefreshRecord
<1>3. OverIn(rejected', refreshes')
  BY OverStays DEF IInv
<1>4. ASSUME NEW p \in Requests
      PROVE  requests'[p].stale \subseteq rejected' /\ RequestIsGood(requests'[p], refreshes')
  <2>1. requests[p].stale \subseteq rejected /\ RequestIsGood(requests[p], refreshes)
    BY DEF IInv
  <2> QED BY <2>1, GoodStays DEF IInv
<1> QED BY <1>2, <1>3, <1>4 DEF IInv
-----------------------------------------------------------------------------
(* get_access_token                                                        *)

\* Refreshes that nothing happens to, or that get another waiter, grow.
LEMMA SameRefreshesGrow == ASSUME TypeOK, UNCHANGED refreshes PROVE RefreshesGrow
<1>1. Len(refreshes) \in Nat
  BY DEF TypeOK
<1> QED BY <1>1 DEF TypeOK, RefreshesGrow, RefreshRecord

LEMMA RefreshFacts ==
    ASSUME TypeOK
    PROVE  /\ refreshes \in Seq(RefreshRecord) /\ Len(refreshes) \in Nat
           /\ DOMAIN refreshes = 1..Len(refreshes)
           /\ \A i \in 1..Len(refreshes) :
                 refreshes[i].status \in Status /\ refreshes[i].waiters \in Seq(Requests)
<1>1. refreshes \in Seq(RefreshRecord)
  BY DEF TypeOK, RefreshRecord
<1>2. \A i \in 1..Len(refreshes) : refreshes[i] \in RefreshRecord
  BY <1>1
<1> QED BY <1>1, <1>2 DEF RefreshRecord

LEMMA ReplaceRefresh ==
    ASSUME TypeOK, NEW i \in 1..Len(refreshes), NEW e \in RefreshRecord,
           refreshes[i].status \in Ended => e.status \in Ended,
           refreshes' = [refreshes EXCEPT ![i] = e]
    PROVE  RefreshesGrow /\ Len(refreshes') = Len(refreshes) /\ refreshes'[i] = e
<1>1. refreshes \in Seq(RefreshRecord) /\ Len(refreshes) \in Nat
  BY RefreshFacts
<1>2. refreshes' \in Seq(RefreshRecord) /\ Len(refreshes') = Len(refreshes)
  BY <1>1
<1>3. \A j \in 1..Len(refreshes) : refreshes'[j] = IF j = i THEN e ELSE refreshes[j]
  BY <1>1
<1> QED BY <1>1, <1>2, <1>3 DEF RefreshesGrow

LEMMA WaitersChange ==
    ASSUME TypeOK, NEW i \in 1..Len(refreshes), NEW w \in Seq(Requests),
           refreshes' = [refreshes EXCEPT ![i].waiters = w]
    PROVE  RefreshesGrow /\ Len(refreshes') = Len(refreshes)
<1> DEFINE e == [refreshes[i] EXCEPT !.waiters = w]
<1>1. refreshes[i] \in RefreshRecord
  BY RefreshFacts
<1>2. e \in RefreshRecord /\ e.status = refreshes[i].status
  BY <1>1 DEF RefreshRecord
<1>3. refreshes' = [refreshes EXCEPT ![i] = e]
  OBVIOUS
<1> HIDE DEF e
<1> QED BY <1>2, <1>3, ReplaceRefresh

LEMMA StatusChanges ==
    ASSUME TypeOK, NEW i \in 1..Len(refreshes), NEW status \in Status,
           refreshes[i].status \notin Ended, RefreshTo(i, status)
    PROVE  /\ RefreshesGrow
           /\ Len(refreshes') = Len(refreshes)
           /\ refreshes'[i].status = status
<1> DEFINE e == [refreshes[i] EXCEPT !.status = status]
<1>1. refreshes[i] \in RefreshRecord
  BY RefreshFacts
<1>2. e \in RefreshRecord /\ e.status = status
  BY <1>1 DEF RefreshRecord
<1>3. refreshes' = [refreshes EXCEPT ![i] = e]
  BY DEF RefreshTo
<1> HIDE DEF e
<1> QED BY <1>2, <1>3, ReplaceRefresh

\* A request that finds no token waits for a refresh that is not over, so for none of the
\* tokens rejected so far.  The rejected tokens and the cached one may change with it.
LEMMA HoldsLockKeeps ==
    ASSUME IInv, NEW r \in Requests, NEW request \in Request,
           lock = None, HoldsLock(r, request),
           request.stale \subseteq rejected',
           lock_waiters' \in Seq(Requests),
           rejected \subseteq rejected', OverIn(rejected', refreshes), cached' \in {0, cached},
           cached' # 0 => cached' \notin rejected'
    PROVE  IInv'
<1>0. Len(refreshes) \in Nat /\ refreshes \in Seq(RefreshRecord)
      /\ pending \in 0..Len(refreshes) /\ None \notin Requests
  BY TokenAssumption DEF IInv, TypeOK, RefreshRecord
<1>1. CASE pending # 0 /\ refreshes[pending].status \notin Ended
  <2> DEFINE q == [request EXCEPT !.stage = "sharing", !.refresh = pending]
  <2>1. q \in Request /\ q.stage = "sharing" /\ q.refresh = pending /\ q.stale = request.stale
    <3>1. pending \in Nat
      BY <1>0
    <3> QED BY <3>1 DEF Request, Stages
  <2>2. /\ lock' = r /\ pending' = pending
        /\ requests' = [requests EXCEPT ![r] = q]
        /\ refreshes' = [refreshes EXCEPT ![pending].waiters = Append(@, r)]
    BY <1>1 DEF HoldsLock, To
  <2> HIDE DEF q
  <2>3. refreshes[pending].waiters \in Seq(Requests)
    BY <1>0, <1>1, RefreshFacts DEF IInv
  <2>4. pending \in 1..Len(refreshes)
    BY <1>0, <1>1
  <2>5. RefreshesGrow /\ Len(refreshes') = Len(refreshes)
    <3> DEFINE w == Append(refreshes[pending].waiters, r)
    <3>1. w \in Seq(Requests)
      BY <2>3
    <3>2. refreshes' = [refreshes EXCEPT ![pending].waiters = w]
      BY <2>2
    <3> HIDE DEF w
    <3> QED BY <2>4, <3>1, <3>2, WaitersChange DEF IInv
  <2>6. OverIn(rejected', refreshes')
    BY <2>5, OverStays DEF IInv
  <2>7. pending \notin rejected'
    BY <1>1 DEF OverIn
  <2>8. RequestIsGood(q, refreshes')
    BY <2>1, <2>7 DEF RequestIsGood
  <2>9. q.refresh \in 1..Len(refreshes') /\ pending' \in 0..Len(refreshes')
    BY <1>0, <2>1, <2>2, <2>4, <2>5
  <2>10. \A p \in Requests \ {r} : lock' = p <=> lock = p
    BY <1>0, <2>2
  <2>11. q \in Request /\ q.stage = "sharing" /\ q.stale \subseteq rejected'
    BY <2>1
  <2>12. requests' = [requests EXCEPT ![r] = q] /\ lock' = r
    BY <2>2
  <2> QED BY <2>5, <2>6, <2>8, <2>9, <2>10, <2>11, <2>12, RequestStep
<1>2. CASE ~(pending # 0 /\ refreshes[pending].status \notin Ended)
  <2> DEFINE n == Len(refreshes) + 1
             q == [request EXCEPT !.stage = "owning", !.refresh = n]
             e == [status |-> "running", waiters |-> <<r>>]
  <2>1. q \in Request /\ q.stage = "owning" /\ q.refresh = n /\ q.stale = request.stale
    <3>1. n \in Nat
      BY <1>0
    <3> QED BY <3>1 DEF Request, Stages
  <2>2. /\ lock' = lock /\ pending' = n
        /\ requests' = [requests EXCEPT ![r] = q]
        /\ refreshes' = Append(refreshes, e)
    BY <1>2 DEF HoldsLock, To
  <2>3. e \in RefreshRecord
    BY DEF RefreshRecord, Status
  <2> HIDE DEF q, e
  <2>4. RefreshesGrow /\ Len(refreshes') = n
    BY <1>0, <2>2, <2>3 DEF RefreshesGrow
  <2>5. OverIn(rejected', refreshes')
    BY <2>4, OverStays DEF IInv
  <2>6. n \notin rejected'
    BY <1>0 DEF OverIn
  <2>7. RequestIsGood(q, refreshes')
    BY <2>1, <2>6 DEF RequestIsGood
  <2>8. q.refresh \in 1..Len(refreshes') /\ pending' \in 0..Len(refreshes')
    BY <1>0, <2>1, <2>2, <2>4
  <2>9. q.stage # "sharing" /\ q.stale \subseteq rejected' /\ q \in Request
    BY <2>1
  <2>10. lock' # r /\ \A p \in Requests \ {r} : lock' = p <=> lock = p
    BY <1>0, <2>2
  <2>11. requests' = [requests EXCEPT ![r] = q]
    BY <2>2
  <2> QED BY <2>4, <2>5, <2>7, <2>8, <2>9, <2>10, <2>11, RequestStep
<1> QED BY <1>1, <1>2

LEMMA RefreshesKeeps ==
    ASSUME IInv, NEW r \in Requests, NEW request \in Request,
           requests[r].stage # "sharing", Refreshes(r, request),
           request.stale \subseteq rejected',
           rejected \subseteq rejected', OverIn(rejected', refreshes), cached' \in {0, cached},
           cached' # 0 => cached' \notin rejected'
    PROVE  IInv'
<1>1. CASE lock = None /\ lock_waiters = <<>>
  BY <1>1, HoldsLockKeeps DEF Refreshes, IInv, TypeOK
<1>2. CASE ~(lock = None /\ lock_waiters = <<>>)
  <2> DEFINE q == [request EXCEPT !.stage = "locking"]
  <2>1. q \in Request /\ q.stage = "locking" /\ q.stale = request.stale
    BY DEF Request, Stages
  <2>2. /\ requests' = [requests EXCEPT ![r] = q]
        /\ lock_waiters' = Append(lock_waiters, r)
        /\ UNCHANGED <<lock, pending, refreshes>>
    BY <1>2 DEF Refreshes, To
  <2> HIDE DEF q
  <2>3. RefreshesGrow
    BY <2>2, SameRefreshesGrow DEF IInv
  <2>4. OverIn(rejected', refreshes')
    BY <2>3, OverStays DEF IInv
  <2>5. RequestIsGood(q, refreshes')
    BY <2>1 DEF RequestIsGood
  <2>6. lock_waiters' \in Seq(Requests) /\ pending' \in 0..Len(refreshes') /\ lock # r
    BY <2>2 DEF IInv, TypeOK
  <2> QED BY <2>1, <2>2, <2>3, <2>4, <2>5, <2>6, RequestStep
<1> QED BY <1>1, <1>2

\* A request that finds a cached token posts with it.
LEMMA UsesCachedKeeps ==
    ASSUME IInv, NEW r \in Requests, NEW request \in Request,
           requests[r].stage # "sharing", UsesCached(r, request), UNCHANGED <<cached, rejected>>,
           cached # 0, request.stale \subseteq rejected
    PROVE  IInv'
<1> DEFINE q == [request EXCEPT !.stage = "posting", !.token = cached]
<1>1. cached \in Nat
  BY DEF IInv, TypeOK
<1>2. q \in Request /\ q.stage = "posting" /\ q.token = cached /\ q.stale = request.stale
  BY <1>1 DEF Request, Stages
<1>3. requests' = [requests EXCEPT ![r] = q] /\ UNCHANGED <<lock, lock_waiters, pending, refreshes>>
  BY DEF UsesCached, To
<1> HIDE DEF q
<1>4. RefreshesGrow
  BY <1>3, SameRefreshesGrow DEF IInv
<1>5. Usable(cached, rejected, refreshes) /\ OverIn(rejected, refreshes)
  BY DEF IInv
<1>6. RequestIsGood(q, refreshes') /\ q.stale \subseteq rejected'
  BY <1>2, <1>3, <1>5 DEF RequestIsGood, Usable
<1>7. lock_waiters' \in Seq(Requests) /\ pending' \in 0..Len(refreshes') /\ lock # r
  BY <1>3 DEF IInv, TypeOK
<1> QED BY <1>2, <1>3, <1>4, <1>5, <1>6, <1>7, RequestStep DEF Usable

LEMMA BeginsKeeps == ASSUME IInv, NEW r \in Requests, Begins(r) PROVE IInv'
<1> DEFINE request == [requests[r] EXCEPT !.stale = rejected]
<1>1. rejected \subseteq Nat /\ requests[r] \in Request
  BY DEF IInv, TypeOK
<1>2. request \in Request /\ request.stale = rejected
  BY <1>1 DEF Request
<1>3. /\ requests[r].stage # "sharing" /\ UNCHANGED <<cached, rejected>>
      /\ IF cached # 0 THEN UsesCached(r, request) ELSE Refreshes(r, request)
  BY DEF Begins
<1> HIDE DEF request
<1>4. CASE cached # 0
  BY <1>2, <1>3, <1>4, UsesCachedKeeps
<1>5. CASE cached = 0
  BY <1>2, <1>3, <1>5, RefreshesKeeps DEF IInv
<1> QED BY <1>4, <1>5

LEMMA GetsLockKeeps == ASSUME IInv, NEW r \in Requests, GetsLock(r) PROVE IInv'
<1>1. /\ requests[r] \in Request /\ requests[r].stale \subseteq rejected
      /\ lock # r /\ lock_waiters' \in Seq(Requests) /\ UNCHANGED <<cached, rejected>>
  BY TokenAssumption DEF IInv, TypeOK, GetsLock
<1>2. CASE cached # 0
  <2> DEFINE q == [requests[r] EXCEPT !.stage = "posting", !.token = cached]
  <2>1. cached \in Nat
    BY DEF IInv, TypeOK
  <2>2. q \in Request /\ q.stage = "posting" /\ q.token = cached /\ q.stale = requests[r].stale
    BY <1>1, <2>1 DEF Request, Stages
  <2>3. requests' = [requests EXCEPT ![r] = q] /\ UNCHANGED <<lock, pending, refreshes>>
    BY <1>2 DEF GetsLock, To
  <2> HIDE DEF q
  <2>4. RefreshesGrow
    BY <2>3, SameRefreshesGrow DEF IInv
  <2>5. Usable(cached, rejected, refreshes) /\ OverIn(rejected, refreshes)
    BY <1>2 DEF IInv
  <2>6. RequestIsGood(q, refreshes') /\ q.stale \subseteq rejected'
    BY <1>1, <2>2, <2>3, <2>5 DEF RequestIsGood, Usable
  <2>7. pending' \in 0..Len(refreshes')
    BY <2>3 DEF IInv, TypeOK
  <2> QED BY <1>1, <2>2, <2>3, <2>4, <2>5, <2>6, <2>7, RequestStep DEF Usable
<1>3. CASE cached = 0
  <2>1. lock = None /\ HoldsLock(r, requests[r])
    BY <1>3 DEF GetsLock
  <2> QED BY <1>1, <1>3, <2>1, HoldsLockKeeps DEF IInv
<1> QED BY <1>2, <1>3

\* A request that is over waits for nothing and posts nothing.
LEMMA AtOver ==
    ASSUME NEW s \in Over, NEW rs
    PROVE  /\ At(s) \in Request /\ At(s).stage = s /\ At(s).stale = {}
           /\ RequestIsGood(At(s), rs)
<1>1. At(s) \in Request /\ At(s).stage = s /\ At(s).stale = {}
  BY DEF At, Request, Stages
<1> QED BY <1>1 DEF RequestIsGood, Over

LEMMA ResumesKeeps == ASSUME IInv, NEW r \in Requests, Resumes(r) PROVE IInv'
<1> DEFINE i == requests[r].refresh
           q == Continued(requests[r], refreshes[i].status)
           w == Tail(refreshes[i].waiters)
<1>1. /\ i \in 1..Len(refreshes) /\ requests[r] \in Request /\ i \in Nat
      /\ requests[r].stale \subseteq rejected /\ i \notin requests[r].stale
  BY RefreshFacts DEF IInv, TypeOK, Resumes, Waits, RequestIsGood, Request
<1>2. /\ refreshes[i].status \in Ended /\ refreshes[i].waiters # <<>>
      /\ refreshes' = [refreshes EXCEPT ![i].waiters = w]
      /\ requests' = [requests EXCEPT ![r] = q]
      /\ lock' = IF requests[r].stage = "sharing" THEN None ELSE lock
      /\ pending' \in {0, pending}
      /\ UNCHANGED <<cached, lock_waiters, rejected>>
  BY DEF Resumes, To
<1>3. w \in Seq(Requests)
  <2>1. refreshes[i].waiters \in Seq(Requests)
    BY <1>1, RefreshFacts DEF IInv
  <2> QED BY <1>2, <2>1, HeadTailProperties
<1>4. /\ q \in Request /\ q.stale \subseteq rejected
      /\ q.stage \in Over \cup {"posting"}
      /\ q.stage = "posting" => q.token = i /\ q.stale = requests[r].stale
  <2> DEFINE p == [requests[r] EXCEPT !.stage = "posting", !.token = i, !.refresh = 0]
  <2>1. p \in Request /\ p.stale = requests[r].stale /\ p.stage = "posting" /\ p.token = i
    BY <1>1 DEF Request, Stages
  <2>2. q \in {p, At("cancelled"), At("answered"), At("raised")}
    BY <1>2 DEF Continued, Ended
  <2> HIDE DEF p, q
  <2> QED BY <1>1, <2>1, <2>2, AtOver DEF Over
<1> HIDE DEF q, w
<1>5. RefreshesGrow /\ Len(refreshes') = Len(refreshes)
  BY <1>1, <1>2, <1>3, WaitersChange DEF IInv
<1>6. OverIn({i}, refreshes') /\ OverIn(rejected', refreshes')
  <2>1. OverIn({i}, refreshes) /\ OverIn(rejected, refreshes)
    BY <1>1, <1>2 DEF IInv, OverIn
  <2> QED BY <1>2, <1>5, <2>1, OverStays DEF IInv
<1>7. RequestIsGood(q, refreshes')
  BY <1>1, <1>4, <1>6 DEF RequestIsGood, Usable, Over
<1>8. lock_waiters' \in Seq(Requests) /\ pending' \in 0..Len(refreshes')
  BY <1>2, <1>5 DEF IInv, TypeOK
<1>9. /\ q.stage # "sharing" /\ q.stage # "owning" /\ lock' # r
      /\ \A p \in Requests \ {r} : lock' = p <=> lock = p
  BY <1>2, <1>4, TokenAssumption DEF IInv, TypeOK, Over
<1>10. cached' = cached /\ rejected' = rejected /\ (cached # 0 => cached \notin rejected)
  BY <1>2 DEF IInv, Usable
<1> QED BY <1>2, <1>4, <1>5, <1>6, <1>7, <1>8, <1>9, <1>10, RequestStep
-----------------------------------------------------------------------------
(* The refresh task and the clock                                          *)

LEMMA RefreshSucceedsKeeps ==
    ASSUME IInv, NEW i \in DOMAIN refreshes, RefreshSucceeds(i) PROVE IInv'
<1>1. i \in 1..Len(refreshes) /\ Len(refreshes) \in Nat
  BY RefreshFacts DEF IInv
<1>2. /\ refreshes[i].status \notin Ended /\ RefreshTo(i, "done") /\ cached' \in {0, i}
      /\ UNCHANGED <<lock, lock_waiters, pending, requests, rejected>>
  BY DEF RefreshSucceeds, Ended
<1>3. RefreshesGrow /\ Len(refreshes') = Len(refreshes) /\ refreshes'[i].status = "done"
  BY <1>1, <1>2, StatusChanges DEF IInv, Status, Ended
<1>4. i \notin rejected
  BY <1>2 DEF IInv, OverIn
<1>5. cached' # 0 => Usable(cached', rejected, refreshes')
  BY <1>1, <1>2, <1>3, <1>4 DEF Usable, OverIn, Ended
<1>6. cached' \in 0..Len(refreshes)
  BY <1>1, <1>2
<1> QED BY <1>2, <1>3, <1>5, <1>6, RefreshStep

\* The end of a refresh that brings no token.
LEMMA RefreshEndsKeeps ==
    ASSUME IInv, NEW i \in DOMAIN refreshes, NEW status \in Status,
           refreshes[i].status \notin Ended, RefreshTo(i, status),
           UNCHANGED <<cached, lock, lock_waiters, pending, requests, rejected>>
    PROVE  IInv'
<1>1. i \in 1..Len(refreshes)
  BY RefreshFacts DEF IInv
<1>2. RefreshesGrow /\ Len(refreshes') = Len(refreshes)
  BY <1>1, StatusChanges DEF IInv
<1>3. cached' # 0 => Usable(cached', rejected, refreshes')
  <2>1. cached # 0 => OverIn({cached}, refreshes) /\ cached \notin rejected
    BY DEF IInv, Usable
  <2> QED BY <1>2, <2>1, OverStays DEF IInv, Usable
<1>4. cached' \in 0..Len(refreshes)
  BY DEF IInv, TypeOK
<1> QED BY <1>2, <1>3, <1>4, RefreshStep

LEMMA ExpiresKeeps == ASSUME IInv, Expires PROVE IInv'
<1>1. cached' = 0 /\ UNCHANGED <<lock, lock_waiters, pending, refreshes, requests, rejected>>
  BY DEF Expires
<1>2. RefreshesGrow /\ Len(refreshes') = Len(refreshes) /\ Len(refreshes) \in Nat
  BY <1>1, SameRefreshesGrow, RefreshFacts DEF IInv
<1> QED BY <1>1, <1>2, RefreshStep
-----------------------------------------------------------------------------
(* The request                                                             *)

LEMMA PdpAnswersKeeps == ASSUME IInv, NEW r \in Requests, PdpAnswers(r) PROVE IInv'
<1> DEFINE q == At("answered")
<1>1. /\ requests' = [requests EXCEPT ![r] = q] /\ requests[r].stage = "posting"
      /\ UNCHANGED <<cached, lock, lock_waiters, pending, refreshes, rejected>>
  BY DEF PdpAnswers, To
<1>2. q \in Request /\ q.stage = "answered" /\ q.stale = {} /\ RequestIsGood(q, refreshes')
  BY AtOver DEF Over
<1> HIDE DEF q
<1>3. RefreshesGrow
  BY <1>1, SameRefreshesGrow DEF IInv
<1>4. /\ OverIn(rejected', refreshes') /\ (cached # 0 => cached \notin rejected')
      /\ lock_waiters' \in Seq(Requests) /\ pending' \in 0..Len(refreshes') /\ lock # r
  BY <1>1 DEF IInv, TypeOK, Usable
<1> QED BY <1>1, <1>2, <1>3, <1>4, RequestStep

LEMMA PdpRejectsKeeps == ASSUME IInv, NEW r \in Requests, PdpRejects(r) PROVE IInv'
<1>1. /\ requests[r] \in Request /\ requests[r].stage = "posting"
      /\ rejected' = rejected \cup {requests[r].token} /\ cached' = 0
  BY DEF PdpRejects, IInv, TypeOK
<1>2. OverIn(rejected', refreshes)
  <2>1. OverIn(rejected, refreshes) /\ OverIn({requests[r].token}, refreshes)
    BY <1>1 DEF IInv, RequestIsGood, Usable
  <2> QED BY <1>1, <2>1 DEF OverIn
<1>3. CASE requests[r].retried
  <2> DEFINE q == At("answered")
  <2>1. /\ requests' = [requests EXCEPT ![r] = q]
        /\ UNCHANGED <<lock, lock_waiters, pending, refreshes>>
    BY <1>3 DEF PdpRejects, To
  <2>2. q \in Request /\ q.stage = "answered" /\ q.stale = {} /\ RequestIsGood(q, refreshes')
    BY AtOver DEF Over
  <2> HIDE DEF q
  <2>3. RefreshesGrow
    BY <2>1, SameRefreshesGrow DEF IInv
  <2>4. /\ OverIn(rejected', refreshes') /\ rejected \subseteq rejected'
        /\ lock_waiters' \in Seq(Requests) /\ pending' \in 0..Len(refreshes') /\ lock # r
    BY <1>1, <1>2, <2>1 DEF IInv, TypeOK
  <2> QED BY <1>1, <2>1, <2>2, <2>3, <2>4, RequestStep
<1>4. CASE ~requests[r].retried
  <2> DEFINE stale == rejected \cup {requests[r].token}
             request == [requests[r] EXCEPT !.retried = TRUE, !.token = 0, !.stale = stale]
  <2>1. stale \subseteq Nat
    <3>1. requests[r].token \in Nat
      BY <1>1 DEF Request
    <3>2. rejected \subseteq Nat
      BY RefreshFacts DEF IInv, TypeOK
    <3> QED BY <3>1, <3>2
  <2>2. request \in Request /\ request.stale = stale
    BY <1>1, <2>1 DEF Request
  <2>3. Refreshes(r, request)
    BY <1>4 DEF PdpRejects
  <2> HIDE DEF request
  <2> QED BY <1>1, <1>2, <2>2, <2>3, RefreshesKeeps
<1> QED BY <1>3, <1>4

\* A request that gives up waiting for the lock leaves a queue of requests.
LEMMA RemovedFromQueue ==
    ASSUME NEW S, NEW s \in Seq(S), NEW k \in 1..Len(s) PROVE RemoveAt(s, k) \in Seq(S)
<1>1. \A j \in 1..Len(s) : s[j] \in S
  OBVIOUS
<1>2. SubSeq(s, 1, k - 1) \in Seq(S)
  <2>1. \A j \in 1..(k - 1) : s[j] \in S
    BY <1>1
  <2> QED BY <2>1, SubSeqProperties
<1>3. SubSeq(s, k + 1, Len(s)) \in Seq(S)
  <2>1. \A j \in (k + 1)..Len(s) : s[j] \in S
    BY <1>1
  <2> QED BY <2>1, SubSeqProperties
<1> QED BY <1>2, <1>3, ConcatProperties DEF RemoveAt

LEMMA IsCancelledKeeps == ASSUME IInv, NEW r \in Requests, IsCancelled(r) PROVE IInv'
<1> DEFINE q == IF Waits(r) THEN [requests[r] EXCEPT !.asked = TRUE] ELSE At("cancelled")
<1>1. /\ requests[r] \in Request /\ requests[r].stage \notin Over
      /\ requests' = [requests EXCEPT ![r] = q]
      /\ UNCHANGED <<cached, lock, pending, rejected>>
  BY DEF IsCancelled, To, IInv, TypeOK
<1>2. lock_waiters' \in Seq(Requests)
  <2>1. lock_waiters \in Seq(Requests) /\ DOMAIN lock_waiters = 1..Len(lock_waiters)
    BY DEF IInv, TypeOK
  <2>2. \/ lock_waiters' = lock_waiters
        \/ \E k \in 1..Len(lock_waiters) : lock_waiters' = RemoveAt(lock_waiters, k)
    BY <2>1 DEF IsCancelled
  <2>3. ASSUME NEW k \in 1..Len(lock_waiters)
        PROVE  RemoveAt(lock_waiters, k) \in Seq(Requests)
    BY <2>1, RemovedFromQueue
  <2> QED BY <2>1, <2>2, <2>3
<1>3. RefreshesGrow /\ Len(refreshes') = Len(refreshes)
  <2>1. CASE refreshes' = refreshes
    BY <2>1, SameRefreshesGrow DEF IInv
  <2>2. CASE refreshes' # refreshes
    <3> DEFINE i == requests[r].refresh
    <3>1. /\ Waits(r) /\ refreshes[i].status = "running"
          /\ refreshes' = [refreshes EXCEPT ![i].status = "cancelling"]
      BY <2>2 DEF IsCancelled
    <3>2. i \in 1..Len(refreshes)
      BY <3>1, RefreshFacts DEF IInv, TypeOK
    <3> QED BY <3>1, <3>2, StatusChanges DEF IInv, RefreshTo, Status, Ended
  <2> QED BY <2>1, <2>2
<1>4. OverIn(rejected', refreshes')
  BY <1>1, <1>3, OverStays DEF IInv
<1>5. /\ q \in Request /\ q.stale \subseteq rejected' /\ RequestIsGood(q, refreshes')
      /\ q.stage \in {"sharing", "owning"} => q.refresh \in 1..Len(refreshes')
      /\ q.stage = "sharing" <=> requests[r].stage = "sharing"
  <2>1. CASE Waits(r)
    <3>1. q = [requests[r] EXCEPT !.asked = TRUE]
      BY <2>1
    <3>2. /\ q \in Request /\ q.stage = requests[r].stage /\ q.stale = requests[r].stale
          /\ q.refresh = requests[r].refresh
      BY <1>1, <3>1 DEF Request
    <3>3. /\ requests[r].stale \subseteq rejected /\ RequestIsGood(requests[r], refreshes)
          /\ requests[r].refresh \in 1..Len(refreshes)
      BY <2>1, RefreshFacts DEF IInv, TypeOK
    <3> HIDE DEF q
    <3> QED BY <1>1, <1>3, <2>1, <3>2, <3>3 DEF RequestIsGood, Waits
  <2>2. CASE ~Waits(r)
    <3>1. q = At("cancelled")
      BY <2>2
    <3>2. q \in Request /\ q.stage = "cancelled" /\ q.stale = {} /\ RequestIsGood(q, refreshes')
      BY <3>1, AtOver DEF Over
    <3> HIDE DEF q
    <3> QED BY <2>2, <3>2 DEF Waits
  <2> QED BY <2>1, <2>2
<1> HIDE DEF q
<1>6. pending' \in 0..Len(refreshes')
  BY <1>1, <1>3 DEF IInv, TypeOK
<1>7. lock' = r <=> q.stage = "sharing"
  BY <1>1, <1>5 DEF IInv, TypeOK
<1>8. cached' = cached /\ rejected' = rejected /\ (cached # 0 => cached \notin rejected)
  BY <1>1 DEF IInv, Usable
<1> QED BY <1>1, <1>2, <1>3, <1>4, <1>5, <1>6, <1>7, <1>8, RequestStep
-----------------------------------------------------------------------------
(* The theorems                                                            *)

LEMMA InitIInv == Init => IInv
<1> SUFFICES ASSUME Init PROVE IInv
  OBVIOUS
<1>1. \A r \in Requests : requests[r] = At("idle")
  BY DEF Init
<1>2. At("idle") \in Request /\ At("idle").stage = "idle" /\ At("idle").stale = {}
  BY DEF At, Request, Stages
<1>3. requests \in [Requests -> Request]
  BY <1>2 DEF Init
<1>4. TypeOK
  BY <1>1, <1>2, <1>3, TokenAssumption DEF Init, TypeOK, Waits
<1>5. \A r \in Requests :
        requests[r].stale \subseteq rejected /\ RequestIsGood(requests[r], refreshes)
  BY <1>1, <1>2 DEF RequestIsGood
<1> QED BY <1>4, <1>5 DEF Init, IInv, OverIn

LEMMA NextIInv == IInv /\ [Next]_vars => IInv'
<1> SUFFICES ASSUME IInv, [Next]_vars PROVE IInv'
  OBVIOUS
<1>1. CASE \E r \in Requests : \/ Begins(r) \/ GetsLock(r) \/ Resumes(r)
                               \/ PdpAnswers(r) \/ PdpRejects(r) \/ IsCancelled(r)
  BY <1>1, BeginsKeeps, GetsLockKeeps, ResumesKeeps, PdpAnswersKeeps, PdpRejectsKeeps,
     IsCancelledKeeps
<1>2. CASE \E i \in DOMAIN refreshes : RefreshSucceeds(i)
  BY <1>2, RefreshSucceedsKeeps
<1>3. CASE \E i \in DOMAIN refreshes :
             (\E how \in {"unreachable", "failed"} : RefreshFails(i, how)) \/ RefreshUnwinds(i)
  BY <1>3, RefreshEndsKeeps DEF RefreshFails, RefreshUnwinds, Status, Ended
<1>4. CASE Expires
  BY <1>4, ExpiresKeeps
<1>5. CASE UNCHANGED vars
  <2>1. RefreshesGrow /\ Len(refreshes') = Len(refreshes)
    BY <1>5, SameRefreshesGrow DEF IInv, vars
  <2>2. cached' \in 0..Len(refreshes) /\ (cached' # 0 => Usable(cached', rejected, refreshes'))
    BY <1>5 DEF IInv, TypeOK, vars
  <2> QED BY <1>5, <2>1, <2>2, RefreshStep DEF vars
<1> QED BY <1>1, <1>2, <1>3, <1>4, <1>5 DEF Next

(* The inductive invariant of the provider and its requests: tokens that   *)
(* were rejected come from refreshes that are over, so a refresh under way *)
(* when get_access_token is called always brings another one.              *)
THEOREM TokenInvariant == Spec => []IInv
BY InitIInv, NextIInv, PTL DEF Spec

(* The provider's state is well-typed, and the lock of get_access_token is *)
(* held by exactly the request that shares a refresh.                      *)
THEOREM TokenTypeOK == Spec => []TypeOK
<1>1. IInv => TypeOK
  BY DEF IInv
<1> QED BY <1>1, TokenInvariant, PTL

(* No request posts a token that had been rejected before it called        *)
(* get_access_token, the retry of _post_json after a 401 or 403 included.  *)
THEOREM TokenPostsFresh == Spec => []PostsFreshToken
<1>1. IInv => PostsFreshToken
  BY DEF IInv, RequestIsGood, Usable, PostsFreshToken
<1> QED BY <1>1, TokenInvariant, PTL
-----------------------------------------------------------------------------
(* The waiters of a refresh                                                *)

\* What steps do to refreshes: none that runs loses a waiter, and none comes without.
WaitersStay ==
    \A i \in DOMAIN refreshes' :
        refreshes'[i].status = "running" =>
            \/ refreshes'[i].waiters # <<>>
            \/ i \in DOMAIN refreshes /\ refreshes'[i] = refreshes[i]

LEMMA HoldsLockWaiters ==
    ASSUME TypeOK, NEW r \in Requests, NEW request, HoldsLock(r, request)
    PROVE  WaitersStay
<1>1. refreshes \in Seq(RefreshRecord) /\ Len(refreshes) \in Nat
      /\ DOMAIN refreshes = 1..Len(refreshes)
  BY RefreshFacts
<1>2. CASE pending # 0 /\ refreshes[pending].status \notin Ended
  <2>1. refreshes' = [refreshes EXCEPT ![pending].waiters = Append(@, r)]
    BY <1>2 DEF HoldsLock
  <2>2. pending \in 1..Len(refreshes)
    BY <1>1, <1>2 DEF TypeOK
  <2>3. refreshes[pending].waiters \in Seq(Requests)
    BY <2>2, RefreshFacts
  <2>4. Append(refreshes[pending].waiters, r) # <<>>
    BY <2>3
  <2>5. refreshes'[pending].waiters = Append(refreshes[pending].waiters, r)
    <3>1. refreshes[pending] \in RefreshRecord
      BY <1>1, <2>2
    <3> QED BY <1>1, <2>1, <2>2, <3>1 DEF RefreshRecord
  <2>6. DOMAIN refreshes' = DOMAIN refreshes
        /\ \A i \in DOMAIN refreshes : i # pending => refreshes'[i] = refreshes[i]
    BY <2>1
  <2> QED BY <2>4, <2>5, <2>6 DEF WaitersStay
<1>3. CASE ~(pending # 0 /\ refreshes[pending].status \notin Ended)
  <2>1. refreshes' = Append(refreshes, [status |-> "running", waiters |-> <<r>>])
    BY <1>3 DEF HoldsLock
  <2>2. /\ DOMAIN refreshes' = 1..(Len(refreshes) + 1)
        /\ refreshes'[Len(refreshes) + 1] = [status |-> "running", waiters |-> <<r>>]
        /\ \A i \in 1..Len(refreshes) : refreshes'[i] = refreshes[i]
    BY <1>1, <2>1
  <2>3. refreshes'[Len(refreshes) + 1].waiters # <<>>
    BY <2>2
  <2>4. ASSUME NEW i \in DOMAIN refreshes'
        PROVE  \/ refreshes'[i].waiters # <<>>
               \/ i \in DOMAIN refreshes /\ refreshes'[i] = refreshes[i]
    <3>1. i = Len(refreshes) + 1 \/ i \in 1..Len(refreshes)
      BY <1>1, <2>2, <2>4
    <3>2. CASE i = Len(refreshes) + 1
      BY <2>3, <3>2
    <3>3. CASE i \in 1..Len(refreshes)
      BY <1>1, <2>2, <3>3
    <3> QED BY <3>1, <3>2, <3>3
  <2> QED BY <2>4 DEF WaitersStay
<1> QED BY <1>2, <1>3

\* A change of one refresh that is over, or to one that does not run.
LEMMA ChangedWaiters ==
    ASSUME NEW i \in DOMAIN refreshes, DOMAIN refreshes' = DOMAIN refreshes,
           \A j \in DOMAIN refreshes : j # i => refreshes'[j] = refreshes[j],
           refreshes'[i].status # "running"
    PROVE  WaitersStay
BY DEF WaitersStay

LEMMA StepsKeepWaiters ==
    ASSUME TypeOK, Next
    PROVE  WaitersStay
<1>1. UNCHANGED refreshes => WaitersStay
  BY DEF WaitersStay
<1>2. ASSUME NEW r \in Requests, NEW request, Refreshes(r, request)
      PROVE  WaitersStay
  BY <1>1, <1>2, HoldsLockWaiters DEF Refreshes
<1>3. ASSUME NEW r \in Requests, Begins(r) \/ GetsLock(r) \/ PdpAnswers(r) \/ PdpRejects(r)
      PROVE  WaitersStay
  <2>1. \/ UNCHANGED refreshes
        \/ \E request : Refreshes(r, request) \/ HoldsLock(r, request)
    BY <1>3 DEF Begins, GetsLock, PdpAnswers, PdpRejects, UsesCached
  <2> QED BY <1>1, <1>2, <2>1, HoldsLockWaiters
<1>4. ASSUME NEW r \in Requests, Resumes(r)
      PROVE  WaitersStay
  <2> DEFINE i == requests[r].refresh
  <2>1. /\ i \in DOMAIN refreshes /\ refreshes[i].status \in Ended
        /\ refreshes' = [refreshes EXCEPT ![i].waiters = Tail(@)]
    BY <1>4 DEF Resumes, TypeOK
  <2>2. refreshes[i] \in RefreshRecord
    BY <2>1, RefreshFacts
  <2>3. refreshes'[i].status = refreshes[i].status
    BY <2>1, <2>2 DEF RefreshRecord
  <2> QED BY <2>1, <2>3, ChangedWaiters DEF Ended
<1>5. ASSUME NEW i \in DOMAIN refreshes, NEW status, status # "running", RefreshTo(i, status)
      PROVE  WaitersStay
  <2>1. refreshes[i] \in RefreshRecord
    BY RefreshFacts
  <2>2. refreshes'[i].status = status
    BY <1>5, <2>1 DEF RefreshTo, RefreshRecord
  <2> QED BY <1>5, <2>2, ChangedWaiters DEF RefreshTo
<1>6. ASSUME NEW r \in Requests, IsCancelled(r)
      PROVE  WaitersStay
  <2>1. CASE UNCHANGED refreshes
    BY <1>1, <2>1
  <2>2. CASE ~UNCHANGED refreshes
    <3>1. Waits(r) /\ RefreshTo(requests[r].refresh, "cancelling")
      BY <1>6, <2>2 DEF IsCancelled, RefreshTo
    <3>2. requests[r].refresh \in DOMAIN refreshes
      BY <3>1 DEF TypeOK
    <3> QED BY <1>5, <3>1, <3>2
  <2> QED BY <2>1, <2>2
<1>7. ASSUME NEW i \in DOMAIN refreshes,
             RefreshSucceeds(i) \/ RefreshUnwinds(i)
               \/ \E how \in {"unreachable", "failed"} : RefreshFails(i, how)
      PROVE  WaitersStay
  BY <1>5, <1>7 DEF RefreshSucceeds, RefreshUnwinds, RefreshFails
<1>8. Expires => UNCHANGED refreshes
  BY DEF Expires
<1> QED BY <1>1, <1>3, <1>4, <1>6, <1>7, <1>8 DEF Next

(* A refresh that runs has somebody waiting for it, whoever is cancelled   *)
(* and however many share it: get_access_token leaves no task behind.      *)
THEOREM TokenNoOrphan == Spec => []NoOrphanRefresh
<1>1. Init => NoOrphanRefresh
  BY DEF Init, NoOrphanRefresh
<1>2. TypeOK /\ NoOrphanRefresh /\ [Next]_vars => NoOrphanRefresh'
  <2>1. CASE UNCHANGED vars
    BY <2>1 DEF vars, NoOrphanRefresh
  <2>2. ASSUME TypeOK, NoOrphanRefresh, Next
        PROVE  NoOrphanRefresh'
    BY <2>2, StepsKeepWaiters DEF WaitersStay, NoOrphanRefresh
  <2> QED BY <2>1, <2>2
<1> QED BY <1>1, <1>2, TokenTypeOK, PTL DEF Spec
=============================================================================
