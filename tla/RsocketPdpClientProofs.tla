------------------------- MODULE RsocketPdpClientProofs -------------------------
(***************************************************************************)
(* Proofs about RsocketPdpClient, for any number of streams, requests and  *)
(* closes: what the lock protects although resets ignore it, and that      *)
(* every stream keeps the promise of PdpFeed.                              *)
(*                                                                         *)
(* The invariant of the connection (LinkInv) says that a task that opens a *)
(* connection, and a close() that awaits, is at the head of the lock; that *)
(* of the streams (ShownInv) that what a stream last yielded is what its   *)
(* consumer has, which is why a fallback may be suppressed as a repetition.*)
(***************************************************************************)
EXTENDS RsocketPdpClient, TLAPS

Closing == {"closing client", "closing writer"}

\* The tasks that are inside the lock.
InLock(p) == pc[p] = "opening" \/ (p \in Closers /\ pc[p] \in Closing)

SharedOK ==
    /\ client \in Connections \cup {NoConn}
    /\ writer \in Connections \cup {NoConn}
    /\ lock \in Seq(Processes)
    /\ conn \in [Connections -> {"open", "silent", "dead"}]
    /\ pc \in [Processes -> Pcs]
    /\ mine \in [Processes -> Connections \cup {NoConn}]

LockInv    == \A p \in Processes : InLock(p) => HasLock(p)
OpeningInv == \A p \in Processes : pc[p] = "opening" => client = NoConn
SameInv    == client # NoConn /\ writer # NoConn => client = writer
LinkInv    == SharedOK /\ LockInv /\ OpeningInv /\ SameInv /\ ClosesWhatThereIs

LeavingOK == leaving \in [Streams -> {None, "ended", "raised"}]
-----------------------------------------------------------------------------
(* The lock                                                                *)

(* A new task waits behind those that are there.                           *)
LEMMA AppendFacts ==
    ASSUME lock \in Seq(Processes), NEW p \in Processes
    PROVE  /\ Append(lock, p) \in Seq(Processes)
           /\ lock # <<>> => /\ Append(lock, p) # <<>>
                             /\ Head(Append(lock, p)) = Head(lock)
OBVIOUS

(* Only the task that leaves the queue loses its place at the head.        *)
LEMMA WithoutFacts ==
    ASSUME lock \in Seq(Processes), NEW p \in Processes
    PROVE  /\ Without(p) \in Seq(Processes)
           /\ lock # <<>> /\ Head(lock) # p =>
                /\ Without(p) # <<>>
                /\ Head(Without(p)) = Head(lock)
<1>1. CASE \A k \in DOMAIN lock : lock[k] # p
  BY <1>1 DEF Without
<1>2. CASE ~(\A k \in DOMAIN lock : lock[k] # p)
  <2> DEFINE at == CHOOSE k \in DOMAIN lock : lock[k] = p
  <2>1. at \in DOMAIN lock /\ lock[at] = p
    BY <1>2
  <2>2. Len(lock) \in Nat /\ DOMAIN lock = 1..Len(lock)
        /\ \A k \in 1..Len(lock) : lock[k] \in Processes
    OBVIOUS
  <2>3. Without(p) = [k \in 1..(Len(lock) - 1) |-> IF k < at THEN lock[k] ELSE lock[k + 1]]
    BY <1>2 DEF Without
  <2> HIDE DEF at
  <2>4. Len(lock) - 1 \in Nat /\ at \in 1..Len(lock)
    BY <2>1, <2>2
  <2>5. Without(p) \in Seq(Processes) /\ Len(Without(p)) = Len(lock) - 1
    BY <2>2, <2>3, <2>4
  <2>6. ASSUME lock # <<>>, Head(lock) # p
        PROVE  Without(p) # <<>> /\ Head(Without(p)) = Head(lock)
    <3>1. Head(lock) = lock[1] /\ at # 1
      BY <2>1, <2>6
    <3>2. 1 \in 1..(Len(lock) - 1) /\ Without(p)[1] = lock[1]
      BY <2>3, <2>4, <3>1
    <3> QED BY <2>5, <3>1, <3>2
  <2> QED BY <2>5, <2>6
<1> QED BY <1>1, <1>2

(* Whoever joins or leaves, the task at the head stays there.              *)
LEMMA HeadStays ==
    ASSUME SharedOK, NEW p \in Processes, NEW q \in Processes, q # p, HasLock(q),
           lock' \in {lock, Without(p), Append(lock, p)}
    PROVE  HasLock(q)'
<1>1. lock \in Seq(Processes) /\ lock # <<>> /\ Head(lock) = q
  BY DEF SharedOK, HasLock
<1>2. CASE lock' = lock
  BY <1>1, <1>2 DEF HasLock
<1>3. CASE lock' = Without(p)
  BY <1>1, <1>3, WithoutFacts DEF HasLock
<1>4. CASE lock' = Append(lock, p)
  BY <1>1, <1>4, AppendFacts DEF HasLock
<1> QED BY <1>2, <1>3, <1>4
-----------------------------------------------------------------------------
(* The connection                                                          *)

\* Where a task neither opens nor closes anything.
Aside == {"waiting", "using", "seeding", "sleeping"} \cup Over

(* Where a task goes after a reset: on, or to its end.                     *)
LEMMA AfterResetFacts ==
    ASSUME NEW p \in Processes, LeavingOK'
    PROVE  AfterReset(p) \in {"seeding"} \cup Over
<1>1. /\ p \in Askers => AfterReset(p) = "answered"
      /\ p \in Closers => AfterReset(p) = "ended"
  BY RsocketAssumption DEF AfterReset
<1>2. p \in Streams => AfterReset(p) = IF leaving'[p] = None THEN "seeding" ELSE leaving'[p]
  BY RsocketAssumption DEF AfterReset
<1>3. p \in Streams => leaving'[p] \in {None, "ended", "raised"}
  BY DEF LeavingOK
<1> QED BY <1>1, <1>2, <1>3 DEF Processes, Over

\* The connections the client refers to stay as they are.
SocketsKept ==
    /\ conn' \in [Connections -> {"open", "silent", "dead"}]
    /\ \A c \in {client, writer} \ {NoConn} : conn'[c] = conn[c]

(* A socket that is left open is none the client refers to.                *)
LEMMA LeftFacts ==
    ASSUME SharedOK, NEW p \in Processes, NEW left \in Left(p)
    PROVE  /\ left \in [Connections -> {"open", "silent", "dead"}]
           /\ \A c \in {client, writer} \ {NoConn} : left[c] = conn[c]
<1> DEFINE at == CHOOSE c \in Unused : TRUE
<1>1. CASE left = conn
  BY <1>1 DEF SharedOK
<1>2. CASE Unused # {} /\ left = [conn EXCEPT ![at] = "open"]
  <2>1. at \in Unused
    BY <1>2
  <2> HIDE DEF at
  <2>2. at \in Connections /\ at \notin {client, writer}
    BY <2>1 DEF Unused
  <2> QED BY <1>2, <2>2 DEF SharedOK
<1> QED BY <1>1, <1>2 DEF Left, LeavesSocket

(* A task that steps aside, gives the lock or its place up, or joins the   *)
(* queue, does not disturb those inside the lock.                          *)
LEMMA AsideKeeps ==
    ASSUME LinkInv, NEW p \in Processes, NEW stage \in Aside, Go(p, stage),
           client' \in {client, NoConn}, writer' \in {writer, NoConn}, SocketsKept,
           lock' \in {lock, Without(p), Append(lock, p)},
           mine' \in {mine, [mine EXCEPT ![p] = NoConn], [mine EXCEPT ![p] = client]}
    PROVE  LinkInv'
<1> USE DEF LinkInv
<1>1. pc' = [pc EXCEPT ![p] = stage] /\ pc \in [Processes -> Pcs]
  BY DEF Go, SharedOK
<1>2. SharedOK'
  <2>1. lock' \in Seq(Processes)
    BY WithoutFacts, AppendFacts DEF SharedOK
  <2> QED BY <1>1, <2>1 DEF SharedOK, SocketsKept, Aside, Pcs, Over
<1>3. LockInv'
  <2>1. SUFFICES ASSUME NEW q \in Processes, InLock(q)' PROVE HasLock(q)'
    BY DEF LockInv
  <2>2. q # p /\ pc'[q] = pc[q] /\ InLock(q)
    BY <1>1, <2>1 DEF InLock, Aside, Closing, Over
  <2>3. HasLock(q)
    BY <2>2 DEF LockInv
  <2> QED BY <2>2, <2>3, HeadStays
<1>4. OpeningInv' /\ SameInv'
  BY <1>1 DEF OpeningInv, SameInv, Aside, Over
<1>5. ClosesWhatThereIs'
  BY <1>1, RsocketAssumption DEF ClosesWhatThereIs, SocketsKept, Aside, Over, Processes
<1> QED BY <1>2, <1>3, <1>4, <1>5

(* The awaits of a reset keep the invariant: what is closed is dead, and   *)
(* only a close() is inside the lock meanwhile.                            *)
LEMMA ClosingKeeps ==
    ASSUME LinkInv, NEW p \in Processes, NEW stage \in Closing, Go(p, stage),
           client' \in {client, NoConn}, writer' = writer,
           lock' \in {lock, Without(p)},
           mine' \in {mine, [mine EXCEPT ![p] = NoConn]},
           conn' \in [Connections -> {"open", "silent", "dead"}],
           p \in Closers => HasLock(p) /\ UNCHANGED lock,
           client' # NoConn => conn'[client'] = "dead",
           writer # NoConn => conn'[writer] = "dead"
    PROVE  LinkInv'
<1> USE DEF LinkInv
<1>1. pc' = [pc EXCEPT ![p] = stage] /\ pc \in [Processes -> Pcs]
  BY DEF Go, SharedOK
<1>2. SharedOK'
  <2>1. lock' \in Seq(Processes)
    BY WithoutFacts DEF SharedOK
  <2> QED BY <1>1, <2>1 DEF SharedOK, Closing, Pcs
<1>3. LockInv'
  <2>1. SUFFICES ASSUME NEW q \in Processes, InLock(q)' PROVE HasLock(q)'
    BY DEF LockInv
  <2>2. CASE q = p
    BY <1>1, <2>1, <2>2 DEF InLock, Closing, HasLock
  <2>3. CASE q # p
    <3>1. InLock(q)
      BY <1>1, <2>1, <2>3 DEF InLock
    <3>2. HasLock(q)
      BY <3>1 DEF LockInv
    <3> QED BY <2>3, <3>2, HeadStays
  <2> QED BY <2>2, <2>3
<1>4. OpeningInv' /\ SameInv'
  BY <1>1 DEF OpeningInv, SameInv, Closing
<1>5. ClosesWhatThereIs'
  BY <1>1, <1>2 DEF ClosesWhatThereIs, SharedOK
<1> QED BY <1>2, <1>3, <1>4, <1>5

(* The second half of a reset: the writer, or nothing.                     *)
LEMMA ClosesWriterKeeps ==
    ASSUME LinkInv, LeavingOK', NEW p \in Processes, ClosesWriter(p),
           client' = NoConn, writer' = writer,
           mine' \in {mine, [mine EXCEPT ![p] = NoConn]},
           p \in Closers => HasLock(p)
    PROVE  LinkInv'
<1>1. CASE writer # NoConn
  <2>1. conn' = [conn EXCEPT ![writer] = "dead"] /\ Go(p, "closing writer") /\ UNCHANGED lock
    BY <1>1 DEF ClosesWriter
  <2>2. conn'[writer] = "dead" /\ conn' \in [Connections -> {"open", "silent", "dead"}]
    BY <1>1, <2>1 DEF LinkInv, SharedOK
  <2>3. "closing writer" \in Closing
    BY DEF Closing
  <2> QED BY <2>1, <2>2, <2>3, ClosingKeeps
<1>2. CASE writer = NoConn
  <2>1. Go(p, AfterReset(p)) /\ lock' = Without(p) /\ UNCHANGED conn
    BY <1>2 DEF ClosesWriter
  <2>2. AfterReset(p) \in Aside
    BY AfterResetFacts DEF Aside
  <2>3. SocketsKept
    BY <2>1 DEF SocketsKept, LinkInv, SharedOK
  <2> QED BY <2>1, <2>2, <2>3, AsideKeeps
<1> QED BY <1>1, <1>2

(* A reset up to its first await.                                          *)
LEMMA ResetsKeeps ==
    ASSUME LinkInv, LeavingOK', NEW p \in Processes, Resets(p),
           p \in Closers => HasLock(p)
    PROVE  LinkInv'
<1>1. mine' = [mine EXCEPT ![p] = NoConn] /\ UNCHANGED <<client, writer>>
  BY DEF Resets
<1>2. CASE client # NoConn
  <2>1. conn' = [conn EXCEPT ![client] = "dead"] /\ Go(p, "closing client") /\ UNCHANGED lock
    BY <1>2 DEF Resets
  <2>2. conn'[client] = "dead" /\ conn' \in [Connections -> {"open", "silent", "dead"}]
    BY <1>2, <2>1 DEF LinkInv, SharedOK
  <2>3. writer # NoConn => conn'[writer] = "dead"
    BY <1>2, <2>2 DEF LinkInv, SameInv
  <2>4. "closing client" \in Closing
    BY DEF Closing
  <2> QED BY <1>1, <2>1, <2>2, <2>3, <2>4, ClosingKeeps
<1>3. CASE client = NoConn
  <2>1. ClosesWriter(p)
    BY <1>3 DEF Resets
  <2> QED BY <1>1, <1>3, <2>1, ClosesWriterKeeps
<1> QED BY <1>2, <1>3

(* While a task has the lock, no other task is inside it.                  *)
LEMMA OnlyHolder ==
    ASSUME LinkInv, NEW p \in Processes, HasLock(p), NEW q \in Processes, InLock(q)
    PROVE  q = p
BY DEF LinkInv, LockInv, HasLock

(* Entering the lock, and opening the connection in it.                    *)
LEMMA ConnectKeeps ==
    ASSUME LinkInv, NEW p \in Processes, Enters(p) \/ Opened(p)
    PROVE  LinkInv'
<1> USE DEF LinkInv
<1>1. CASE Enters(p)
  <2>1. p \notin Closers /\ pc[p] = "waiting" /\ HasLock(p) /\ UNCHANGED <<client, writer, conn>>
    BY <1>1 DEF Enters
  <2>2. ~\E q \in Processes : InLock(q)
    <3>1. ~InLock(p)
      BY <2>1 DEF InLock
    <3> QED BY <2>1, <3>1, OnlyHolder
  <2>3. CASE client # NoConn
    <3>1. lock' = Tail(lock) /\ mine' = [mine EXCEPT ![p] = client]
          /\ pc' = [pc EXCEPT ![p] = "using"]
      BY <1>1, <2>3 DEF Enters, Go
    <3>2. SharedOK'
      <4>1. lock' \in Seq(Processes)
        BY <2>1, <3>1 DEF SharedOK, HasLock
      <4> QED BY <2>1, <2>3, <3>1, <4>1 DEF SharedOK, Pcs
    <3>3. ~\E q \in Processes : InLock(q)'
      BY <2>2, <3>1 DEF SharedOK, InLock, Closing
    <3>4. LockInv' /\ OpeningInv' /\ SameInv'
      BY <2>1, <3>3 DEF LockInv, OpeningInv, SameInv, InLock
    <3>5. ClosesWhatThereIs'
      BY <3>3 DEF ClosesWhatThereIs, InLock, Closing, Processes
    <3> QED BY <3>2, <3>4, <3>5
  <2>4. CASE client = NoConn
    <3>1. pc' = [pc EXCEPT ![p] = "opening"] /\ UNCHANGED <<lock, mine>>
      BY <1>1, <2>4 DEF Enters, Go
    <3>2. SharedOK'
      BY <2>1, <3>1 DEF SharedOK, Pcs
    <3>3. \A q \in Processes : InLock(q)' => q = p
      BY <2>2, <3>1 DEF SharedOK, InLock
    <3>4. LockInv' /\ OpeningInv' /\ SameInv'
      BY <2>1, <2>4, <3>1, <3>3 DEF LockInv, OpeningInv, SameInv, HasLock
    <3>5. ClosesWhatThereIs'
      BY <2>1, <3>3 DEF ClosesWhatThereIs, InLock, Closing, Processes
    <3> QED BY <3>2, <3>4, <3>5
  <2> QED BY <2>3, <2>4
<1>2. CASE Opened(p)
  <2>1. PICK c \in Connections :
          /\ client' = c /\ writer' = c
          /\ conn' = [conn EXCEPT ![c] = "open"]
          /\ mine' = [mine EXCEPT ![p] = c]
    BY <1>2 DEF Opened, Unused
  <2>2. pc[p] = "opening" /\ HasLock(p) /\ lock' = Without(p)
        /\ pc' = [pc EXCEPT ![p] = "using"]
    BY <1>2 DEF Opened, Go, LockInv, InLock
  <2>3. \A q \in Processes : InLock(q) => q = p
    BY <2>2, OnlyHolder
  <2>4. SharedOK'
    <3>1. lock' \in Seq(Processes)
      BY <2>2, WithoutFacts DEF SharedOK
    <3> QED BY <2>1, <2>2, <3>1 DEF SharedOK, Pcs
  <2>5. ~\E q \in Processes : InLock(q)'
    BY <2>2, <2>3 DEF SharedOK, InLock, Closing
  <2>6. LockInv' /\ OpeningInv' /\ SameInv'
    BY <2>1, <2>5 DEF LockInv, OpeningInv, SameInv, InLock
  <2>7. ClosesWhatThereIs'
    BY <2>5 DEF ClosesWhatThereIs, InLock, Closing, Processes
  <2> QED BY <2>4, <2>6, <2>7
<1> QED BY <1>1, <1>2

(* The rest of a reset, and what a request that could not connect closes.  *)
LEMMA CloseKeeps ==
    ASSUME LinkInv, LeavingOK', NEW p \in Processes,
           ClientClosed(p) \/ WriterClosed(p) \/ Close(p) \/ (p \in Askers /\ ConnectFails(p))
    PROVE  LinkInv'
<1>1. CASE ClientClosed(p)
  <2>1. /\ client' = NoConn /\ ClosesWriter(p) /\ UNCHANGED <<writer, mine>>
        /\ pc[p] = "closing client"
    BY <1>1 DEF ClientClosed
  <2>2. p \in Closers => HasLock(p)
    BY <2>1 DEF LinkInv, LockInv, InLock, Closing
  <2> QED BY <2>1, <2>2, ClosesWriterKeeps
<1>2. CASE WriterClosed(p)
  <2>1. /\ writer' = NoConn /\ Go(p, AfterReset(p)) /\ lock' = Without(p)
        /\ UNCHANGED <<client, conn, mine>>
    BY <1>2 DEF WriterClosed
  <2>2. AfterReset(p) \in Aside
    BY AfterResetFacts DEF Aside
  <2>3. SocketsKept
    BY <2>1 DEF SocketsKept, LinkInv, SharedOK
  <2> QED BY <2>1, <2>2, <2>3, AsideKeeps
<1>3. CASE Close(p)
  BY <1>3, ResetsKeeps DEF Close
<1>4. CASE p \in Askers /\ ConnectFails(p)
  <2>1. /\ p \in Askers /\ client = NoConn /\ mine' = [mine EXCEPT ![p] = NoConn]
        /\ lock' = Without(p) /\ UNCHANGED <<client, writer>>
    BY <1>4 DEF ConnectFails
  <2>2. p \notin Closers
    BY <2>1, RsocketAssumption
  <2>3. CASE writer # NoConn
    <3>1. PICK left \in Left(p) : /\ conn' = [left EXCEPT ![writer] = "dead"]
                                  /\ Go(p, "closing writer")
      BY <1>4, <2>3 DEF ConnectFails
    <3>2. left \in [Connections -> {"open", "silent", "dead"}]
      BY LeftFacts DEF LinkInv
    <3>3. /\ conn'[writer] = "dead" /\ conn' \in [Connections -> {"open", "silent", "dead"}]
          /\ "closing writer" \in Closing
      BY <2>3, <3>1, <3>2 DEF LinkInv, SharedOK, Closing
    <3> QED BY <2>1, <2>2, <3>1, <3>3, ClosingKeeps
  <2>4. CASE writer = NoConn
    <3>1. conn' \in Left(p) /\ Go(p, "answered")
      BY <1>4, <2>4 DEF ConnectFails
    <3>2. SocketsKept
      BY <3>1, LeftFacts DEF LinkInv, SocketsKept
    <3> QED BY <2>1, <3>1, <3>2, AsideKeeps DEF Aside, Over
  <2> QED BY <2>3, <2>4
<1> QED BY <1>1, <1>2, <1>3, <1>4
-----------------------------------------------------------------------------
(* The steps                                                               *)

StepsAside(p) ==
    /\ \E stage \in Aside : Go(p, stage)
    /\ UNCHANGED <<client, writer>>
    /\ conn' \in Left(p)
    /\ lock' \in {lock, Without(p), Append(lock, p)}
    /\ mine' \in {mine, [mine EXCEPT ![p] = NoConn]}

\* A stream that leaves its try block, for whatever reason.
Leaves(s) == \E why \in {None, "ended", "raised"} : LeavesTry(s, why)

(* What a step is to the connection.                                       *)
LEMMA Steps ==
    ASSUME Next
    PROVE  \/ \E p \in Processes :
                \/ StepsAside(p)
                \/ Enters(p) \/ Opened(p)
                \/ ClientClosed(p) \/ WriterClosed(p) \/ Close(p)
                \/ p \in Askers /\ (ConnectFails(p) \/ RequestFails(p))
                \/ p \in Streams /\ Leaves(p)
           \/ UNCHANGED <<shared, pc, mine>>
           \/ \E c \in Connections : Breaks(c) \/ GoesSilent(c)
<1> USE DEF StepsAside, Aside, Over
<1>0. \A p : conn \in Left(p)
  BY DEF Left
<1>1. ASSUME NEW p \in Processes, Begins(p) \/ AuthorizationRaises(p)
      PROVE  StepsAside(p)
  BY <1>0, <1>1 DEF Begins, AuthorizationRaises
<1>2. ASSUME NEW a \in Askers, Answers(a) \/ RequestCancelled(a)
      PROVE  StepsAside(a)
  BY <1>0, <1>2 DEF Answers, RequestCancelled, shared
<1>3. ASSUME NEW s \in Streams,
             OpeningFails(s) \/ Seeds(s) \/ Wakes(s) \/ BackoffOverflows(s)
               \/ LeavesUnconnected(s)
      PROVE  StepsAside(s)
  BY <1>0, <1>3 DEF OpeningFails, Seeds, Wakes, BackoffOverflows, LeavesUnconnected, shared
<1>4. ASSUME NEW s \in Streams,
             DecodingRaises(s) \/ SeesTheEnd(s) \/ TimesOut(s) \/ LeavesConnected(s)
      PROVE  Leaves(s)
  BY <1>4 DEF DecodingRaises, SeesTheEnd, TimesOut, LeavesConnected, Leaves
<1>5. ASSUME NEW s \in Streams,
             (\E emission \in Emissions(s) : Sends(s, emission)) \/ Completes(s) \/ Reads(s)
      PROVE  UNCHANGED <<shared, pc, mine>>
  BY <1>5 DEF Sends, Completes, Reads
<1>6. Askers \subseteq Processes /\ Streams \subseteq Processes
  BY DEF Processes
<1>7. ASSUME NEW s \in Streams, StreamStep(s)
      PROVE  StepsAside(s) \/ Leaves(s) \/ UNCHANGED <<shared, pc, mine>>
  BY <1>3, <1>4, <1>5, <1>7 DEF StreamStep
<1> HIDE DEF StepsAside
<1> QED BY <1>1, <1>2, <1>6, <1>7 DEF Next

(* Every step keeps the invariant of the connection.                       *)
LEMMA LinkStep ==
    ASSUME LinkInv, LeavingOK', Next
    PROVE  LinkInv'
<1>1. ASSUME NEW p \in Processes, StepsAside(p)
      PROVE  LinkInv'
  <2>1. SocketsKept
    BY <1>1, LeftFacts DEF StepsAside, SocketsKept, LinkInv
  <2> QED BY <1>1, <2>1, AsideKeeps DEF StepsAside
<1>2. ASSUME NEW p \in Processes, Enters(p) \/ Opened(p)
      PROVE  LinkInv'
  BY <1>2, ConnectKeeps
<1>3. ASSUME NEW p \in Processes,
             ClientClosed(p) \/ WriterClosed(p) \/ Close(p) \/ (p \in Askers /\ ConnectFails(p))
      PROVE  LinkInv'
  BY <1>3, CloseKeeps
<1>4. ASSUME NEW p \in Processes, (p \in Askers /\ RequestFails(p)) \/ (p \in Streams /\ Leaves(p))
      PROVE  LinkInv'
  <2>1. p \notin Closers /\ Resets(p)
    BY <1>4, RsocketAssumption DEF RequestFails, Leaves, LeavesTry
  <2> QED BY <2>1, ResetsKeeps
<1>5. CASE UNCHANGED <<shared, pc, mine>>
  <2>1. SharedOK' /\ SameInv'
    BY <1>5 DEF LinkInv, SharedOK, SameInv, shared
  <2>2. LockInv' /\ OpeningInv' /\ ClosesWhatThereIs'
    BY <1>5 DEF LinkInv, LockInv, InLock, HasLock, OpeningInv, ClosesWhatThereIs, shared
  <2> QED BY <2>1, <2>2 DEF LinkInv
<1>6. ASSUME NEW c \in Connections, Breaks(c) \/ GoesSilent(c)
      PROVE  LinkInv'
  <2>1. /\ UNCHANGED <<client, writer, lock, pc, mine>>
        /\ \/ conn' = [conn EXCEPT ![c] = "dead"]
           \/ conn[c] = "open" /\ conn' = [conn EXCEPT ![c] = "silent"]
    BY <1>6 DEF Breaks, GoesSilent
  <2>2. SharedOK' /\ SameInv'
    BY <2>1 DEF LinkInv, SharedOK, SameInv
  <2>3. LockInv' /\ OpeningInv'
    BY <2>1 DEF LinkInv, LockInv, InLock, HasLock, OpeningInv
  <2>4. ClosesWhatThereIs'
    BY <2>1 DEF LinkInv, SharedOK, ClosesWhatThereIs, NoConn
  <2> QED BY <2>2, <2>3, <2>4 DEF LinkInv
<1> QED BY <1>1, <1>2, <1>3, <1>4, <1>5, <1>6, Steps
-----------------------------------------------------------------------------
(* What a stream yields                                                    *)

\* What a stream last yielded is what its consumer has.
LastIsShown(s) ==
    \A i \in IdSet(s) \cap DOMAIN last[s] : last[s][i] # None => shown[s][i] = last[s][i]

StreamOK(s) ==
    /\ inbox[s] \in Seq(Emissions(s))
    /\ last[s] \in Emissions(s) \cup {Unset, Fallback(s)}
    /\ shown[s] \in [IdSet(s) -> Decisions \cup {None}]
    /\ LastIsShown(s)

ShownInv ==
    /\ LeavingOK
    /\ phase \in [Streams -> {"first", "later", "over"}]
    /\ DOMAIN inbox = Streams /\ DOMAIN last = Streams /\ DOMAIN shown = Streams
    /\ \A s \in Streams : StreamOK(s)

(* An emission speaks of subscriptions of its stream and gives them        *)
(* decisions, and so does the fallback.                                    *)
LEMMA EmissionFacts ==
    ASSUME NEW s \in Streams, NEW e \in Emissions(s) \cup {Fallback(s)}
    PROVE  /\ DOMAIN e \subseteq IdSet(s)
           /\ \A i \in DOMAIN e : e[i] \in Decisions /\ e[i] # None
<1>1. None \notin Decisions /\ INDETERMINATE \in Decisions
  BY RsocketAssumption DEF Decisions
<1>2. Route[s] \in {"decide", "multi_decide", "multi_decide_all"} /\ 1 \in DOMAIN Ids[s]
  BY RsocketAssumption
<1>3. CASE e = Fallback(s)
  <2>1. Ids[s][1] \in IdSet(s)
    BY <1>2 DEF IdSet
  <2> QED BY <1>1, <1>3, <2>1 DEF Fallback
<1>4. CASE e \in Emissions(s)
  <2>1. CASE Route[s] = "decide"
    BY <1>1, <1>4, <2>1 DEF Emissions
  <2>2. CASE Route[s] = "multi_decide"
    <3>1. e = Nobody \/ \E i \in IdSet(s) : e \in [{i} -> Decisions]
      BY <1>4, <2>2 DEF Emissions
    <3>2. DOMAIN Nobody = {}
      BY DEF Nobody
    <3> QED BY <1>1, <3>1, <3>2
  <2>3. CASE Route[s] = "multi_decide_all"
    BY <1>1, <1>4, <2>3 DEF Emissions
  <2> QED BY <1>2, <2>1, <2>2, <2>3
<1> QED BY <1>3, <1>4

(* Yielding keeps the consumer's decisions in step with the last emission, *)
(* and takes no decision away without another in its place.                *)
LEMMA YieldFacts ==
    ASSUME ShownInv, NEW s \in Streams, NEW e \in Emissions(s) \cup {Fallback(s)}, Yield(s, e)
    PROVE  /\ DOMAIN last' = Streams /\ DOMAIN shown' = Streams
           /\ \A q \in Streams \ {s} : last'[q] = last[q] /\ shown'[q] = shown[q]
           /\ last'[s] = e
           /\ shown'[s] \in [IdSet(s) -> Decisions \cup {None}]
           /\ \A i \in IdSet(s) : shown'[s][i] = IF i \in DOMAIN e THEN e[i] ELSE shown[s][i]
           /\ LastIsShown(s)'
<1> USE DEF ShownInv
<1>1. StreamOK(s)
  OBVIOUS
<1>2. DOMAIN e \subseteq IdSet(s) /\ \A i \in DOMAIN e : e[i] \in Decisions /\ e[i] # None
  BY EmissionFacts
<1>3. CASE e = last[s]
  <2>1. UNCHANGED <<last, shown>>
    BY <1>3 DEF Yield
  <2> QED BY <1>1, <1>2, <1>3, <2>1 DEF StreamOK, LastIsShown
<1>4. CASE e # last[s]
  <2>1. /\ last' = [last EXCEPT ![s] = e]
        /\ shown' = [shown EXCEPT ![s] = Merged(e, shown[s])]
    BY <1>4 DEF Yield
  <2>2. /\ DOMAIN last' = Streams /\ DOMAIN shown' = Streams
        /\ \A q \in Streams \ {s} : last'[q] = last[q] /\ shown'[q] = shown[q]
        /\ last'[s] = e /\ shown'[s] = Merged(e, shown[s])
    BY <2>1
  <2>3. /\ Merged(e, shown[s]) \in [IdSet(s) -> Decisions \cup {None}]
        /\ \A i \in IdSet(s) :
             Merged(e, shown[s])[i] = IF i \in DOMAIN e THEN e[i] ELSE shown[s][i]
    BY <1>1, <1>2 DEF StreamOK, Merged
  <2> QED BY <1>2, <2>2, <2>3 DEF LastIsShown
<1> QED BY <1>3, <1>4

(* What a step is to what the streams hold and yield.                      *)
LEMMA StreamSteps ==
    ASSUME Next
    PROVE  \/ UNCHANGED streams
           \/ \E s \in Streams :
                \/ \E emission \in Emissions(s) : Sends(s, emission)
                \/ Completes(s) \/ Reads(s) \/ Leaves(s) \/ Seeds(s)
<1>1. ASSUME NEW p \in Processes,
             Begins(p) \/ Enters(p) \/ Opened(p) \/ AuthorizationRaises(p)
               \/ ClientClosed(p) \/ WriterClosed(p) \/ Close(p)
      PROVE  UNCHANGED streams
  BY <1>1 DEF Begins, Enters, Opened, AuthorizationRaises, ClientClosed, WriterClosed, Close,
              streams
<1>2. ASSUME NEW a \in Askers,
             Answers(a) \/ RequestFails(a) \/ ConnectFails(a) \/ RequestCancelled(a)
      PROVE  UNCHANGED streams
  BY <1>2 DEF Answers, RequestFails, ConnectFails, RequestCancelled
<1>3. ASSUME NEW s \in Streams,
             OpeningFails(s) \/ Wakes(s) \/ BackoffOverflows(s) \/ LeavesUnconnected(s)
      PROVE  UNCHANGED streams
  BY <1>3 DEF OpeningFails, Wakes, BackoffOverflows, LeavesUnconnected
<1>4. ASSUME NEW s \in Streams,
             DecodingRaises(s) \/ SeesTheEnd(s) \/ TimesOut(s) \/ LeavesConnected(s)
      PROVE  Leaves(s)
  BY <1>4 DEF DecodingRaises, SeesTheEnd, TimesOut, LeavesConnected, Leaves
<1>5. ASSUME NEW c \in Connections, Breaks(c) \/ GoesSilent(c)
      PROVE  UNCHANGED streams
  BY <1>5 DEF Breaks, GoesSilent
<1>6. ASSUME NEW s \in Streams, StreamStep(s)
      PROVE  \/ UNCHANGED streams
             \/ \E emission \in Emissions(s) : Sends(s, emission)
             \/ Completes(s) \/ Reads(s) \/ Leaves(s) \/ Seeds(s)
  BY <1>3, <1>4, <1>6 DEF StreamStep
<1> QED BY <1>1, <1>2, <1>5, <1>6 DEF Next

(* Every step keeps what the streams hold well-formed and in step.         *)
LEMMA ShownStep ==
    ASSUME ShownInv, Next
    PROVE  ShownInv'
<1> USE DEF ShownInv
<1>1. CASE UNCHANGED streams
  BY <1>1 DEF streams, LeavingOK, StreamOK, LastIsShown
<1>2. ASSUME NEW s \in Streams, NEW emission \in Emissions(s), Sends(s, emission)
      PROVE  ShownInv'
  <2>1. /\ inbox' = [inbox EXCEPT ![s] = Append(@, emission)]
        /\ UNCHANGED <<phase, leaving, last, shown>>
    BY <1>2 DEF Sends
  <2>2. Append(inbox[s], emission) \in Seq(Emissions(s))
    BY <1>2 DEF StreamOK
  <2> QED BY <2>1, <2>2 DEF LeavingOK, StreamOK, LastIsShown
<1>3. ASSUME NEW s \in Streams, Completes(s)
      PROVE  ShownInv'
  BY <1>3 DEF Completes, LeavingOK, StreamOK, LastIsShown
<1>4. ASSUME NEW s \in Streams, Reads(s)
      PROVE  ShownInv'
  <2>1. /\ inbox[s] # <<>> /\ inbox' = [inbox EXCEPT ![s] = Tail(@)]
        /\ phase' = [phase EXCEPT ![s] = IF @ = "first" THEN "later" ELSE @]
        /\ UNCHANGED leaving
        /\ UNCHANGED <<last, shown>> \/ Yield(s, Head(inbox[s]))
    BY <1>4 DEF Reads
  <2>2. Head(inbox[s]) \in Emissions(s) /\ Tail(inbox[s]) \in Seq(Emissions(s))
    BY <2>1 DEF StreamOK
  <2>3. CASE UNCHANGED <<last, shown>>
    BY <2>1, <2>2, <2>3 DEF LeavingOK, StreamOK, LastIsShown
  <2>4. CASE Yield(s, Head(inbox[s]))
    BY <2>1, <2>2, <2>4, YieldFacts DEF LeavingOK, StreamOK, LastIsShown
  <2> QED BY <2>1, <2>3, <2>4
<1>5. ASSUME NEW s \in Streams, Leaves(s)
      PROVE  ShownInv'
  <2>1. PICK why \in {None, "ended", "raised"} :
          /\ inbox' = [inbox EXCEPT ![s] = <<>>]
          /\ phase' = [phase EXCEPT ![s] = "first"]
          /\ leaving' = [leaving EXCEPT ![s] = why]
          /\ UNCHANGED <<last, shown>>
    BY <1>5 DEF Leaves, LeavesTry
  <2>2. <<>> \in Seq(Emissions(s))
    OBVIOUS
  <2> QED BY <2>1, <2>2 DEF LeavingOK, StreamOK, LastIsShown
<1>6. ASSUME NEW s \in Streams, Seeds(s)
      PROVE  ShownInv'
  <2>1. Yield(s, Fallback(s)) /\ UNCHANGED <<inbox, phase, leaving>>
    BY <1>6 DEF Seeds
  <2>2. /\ DOMAIN last' = Streams /\ DOMAIN shown' = Streams
        /\ \A q \in Streams \ {s} : last'[q] = last[q] /\ shown'[q] = shown[q]
        /\ last'[s] = Fallback(s) /\ shown'[s] \in [IdSet(s) -> Decisions \cup {None}]
        /\ LastIsShown(s)'
    BY <2>1, YieldFacts
  <2>3. LeavingOK' /\ phase' \in [Streams -> {"first", "later", "over"}]
        /\ DOMAIN inbox' = Streams
    BY <2>1 DEF LeavingOK
  <2>4. StreamOK(s)'
    BY <2>1, <2>2 DEF StreamOK
  <2>5. \A q \in Streams \ {s} : StreamOK(q)'
    BY <2>1, <2>2 DEF StreamOK, LastIsShown
  <2> QED BY <2>2, <2>3, <2>4, <2>5
<1> QED BY <1>1, <1>2, <1>3, <1>4, <1>5, <1>6, StreamSteps
-----------------------------------------------------------------------------
(* The theorems                                                            *)

(* The invariants of the connection and of the streams hold in every state *)
(* the client can be in.                                                   *)
THEOREM RsocketInvariant == Spec => [](LinkInv /\ ShownInv)
<1>1. Init => LinkInv /\ ShownInv
  <2> SUFFICES ASSUME Init PROVE LinkInv /\ ShownInv
    OBVIOUS
  <2>1. SharedOK
    BY DEF Init, SharedOK, Pcs
  <2>2. LockInv /\ OpeningInv /\ SameInv
    BY DEF Init, LockInv, OpeningInv, SameInv, InLock, Closing
  <2>3. ClosesWhatThereIs
    BY DEF Init, ClosesWhatThereIs
  <2>4. \A s \in Streams : StreamOK(s)
    <3> TAKE s \in Streams
    <3>1. inbox[s] = <<>> /\ last[s] = Unset /\ shown[s] = [i \in IdSet(s) |-> None]
      BY DEF Init
    <3>2. <<>> \in Seq(Emissions(s))
      OBVIOUS
    <3>3. LastIsShown(s)
      BY <3>1 DEF LastIsShown, Unset
    <3> QED BY <3>1, <3>2, <3>3 DEF StreamOK
  <2>5. ShownInv
    BY <2>4 DEF Init, ShownInv, LeavingOK
  <2> QED BY <2>1, <2>2, <2>3, <2>5 DEF LinkInv
<1>2. LinkInv /\ ShownInv /\ [Next]_vars => (LinkInv /\ ShownInv)'
  <2> SUFFICES ASSUME LinkInv, ShownInv, [Next]_vars PROVE LinkInv' /\ ShownInv'
    OBVIOUS
  <2>1. CASE Next
    <3>1. ShownInv'
      BY <2>1, ShownStep
    <3>2. LinkInv'
      BY <2>1, <3>1, LinkStep DEF ShownInv
    <3> QED BY <3>1, <3>2
  <2>2. CASE UNCHANGED vars
    <3>1. SharedOK' /\ SameInv'
      BY <2>2 DEF LinkInv, SharedOK, SameInv, vars
    <3>2. LockInv' /\ OpeningInv' /\ ClosesWhatThereIs'
      BY <2>2 DEF LinkInv, LockInv, InLock, HasLock, OpeningInv, ClosesWhatThereIs, vars
    <3>3. ShownInv'
      BY <2>2 DEF ShownInv, LeavingOK, StreamOK, LastIsShown, vars
    <3> QED BY <3>1, <3>2, <3>3 DEF LinkInv
  <2> QED BY <2>1, <2>2
<1> QED BY <1>1, <1>2, PTL DEF Spec

(* No two tasks open a connection at one time, none does while the client  *)
(* has one, and what close() found is closed when it is done, although     *)
(* resets of the connection ignore the lock.                               *)
THEOREM ConnectionCorrect == Spec => []ConnectionInv
<1>1. LinkInv /\ ShownInv => ConnectionInv
  <2> SUFFICES ASSUME LinkInv, ShownInv PROVE ConnectionInv
    OBVIOUS
  <2>1. TypeOK
    BY DEF LinkInv, SharedOK, ShownInv, LeavingOK, StreamOK, TypeOK
  <2>2. OpensAlone
    <3> SUFFICES ASSUME NEW p \in Processes, pc[p] = "opening"
                 PROVE  client = NoConn /\ \A q \in Processes \ {p} : pc[q] # "opening"
      BY DEF OpensAlone
    <3>1. client = NoConn
      BY DEF LinkInv, OpeningInv
    <3>2. HasLock(p)
      BY DEF LinkInv, LockInv, InLock
    <3>3. ASSUME NEW q \in Processes, pc[q] = "opening"
          PROVE  q = p
      BY <3>2, <3>3, OnlyHolder DEF InLock
    <3> QED BY <3>1, <3>3
  <2> QED BY <2>1, <2>2 DEF ConnectionInv, LinkInv
<1> QED BY <1>1, RsocketInvariant, PTL

-----------------------------------------------------------------------------
(* The promise to a consumer                                               *)

\* The fallback of multi_decide names the first subscription: it speaks of all of them
\* only when there is one.
FallbackSpeaksOfAll == \A s \in Streams : Route[s] = "multi_decide" => IdSet(s) = {Ids[s][1]}

Unlinked == {"idle", "waiting", "opening", "sleeping"}

\* A stream that has no connection and has yielded its fallback left no verdict standing.
WithdrawnInv == \A s \in Streams : pc[s] \in Unlinked => NoVerdict(s)

\* Where a task is that has lost its connection, or is over.
Gone == Closing \cup {"seeding"} \cup Over

(* A reset takes a task nowhere else.                                      *)
LEMMA ResetsGo ==
    ASSUME LeavingOK', NEW p \in Processes, Resets(p) \/ ClosesWriter(p)
    PROVE  \E stage \in Gone : Go(p, stage)
<1>1. AfterReset(p) \in Gone
  BY AfterResetFacts DEF Gone
<1>2. CASE ClosesWriter(p)
  BY <1>1, <1>2 DEF ClosesWriter, Gone, Closing
<1>3. CASE Resets(p)
  BY <1>2, <1>3 DEF Resets, Gone, Closing
<1> QED BY <1>2, <1>3

(* How the tasks move: by the connecting steps, by the fallback, or out of *)
(* reach of the connection.                                                *)
LEMMA Moves ==
    ASSUME LeavingOK', Next
    PROVE  \/ \E p \in Processes :
                \/ \E stage \in Gone : Go(p, stage)
                \/ Begins(p) \/ Enters(p) \/ Opened(p)
                \/ p \in Streams /\ (Wakes(p) \/ Seeds(p))
           \/ UNCHANGED pc
<1>1. ASSUME NEW p \in Processes, AuthorizationRaises(p)
      PROVE  \E stage \in Gone : Go(p, stage)
  BY <1>1 DEF AuthorizationRaises, Gone, Over
<1>2. ASSUME NEW p \in Processes, ClientClosed(p) \/ WriterClosed(p) \/ Close(p)
      PROVE  \E stage \in Gone : Go(p, stage)
  <2>1. CASE WriterClosed(p)
    BY <2>1, AfterResetFacts DEF WriterClosed, Gone
  <2>2. CASE ClientClosed(p) \/ Close(p)
    BY <2>2, ResetsGo DEF ClientClosed, Close
  <2> QED BY <1>2, <2>1, <2>2
<1>3. ASSUME NEW a \in Askers, Answers(a) \/ ConnectFails(a) \/ RequestCancelled(a)
      PROVE  \E stage \in Gone : Go(a, stage)
  BY <1>3 DEF Answers, ConnectFails, RequestCancelled, Gone, Over, Closing
<1>4. ASSUME NEW a \in Askers, RequestFails(a)
      PROVE  \E stage \in Gone : Go(a, stage)
  BY <1>4, ResetsGo DEF RequestFails, Processes
<1>5. ASSUME NEW s \in Streams, OpeningFails(s) \/ BackoffOverflows(s) \/ LeavesUnconnected(s)
      PROVE  \E stage \in Gone : Go(s, stage)
  BY <1>5 DEF OpeningFails, BackoffOverflows, LeavesUnconnected, Gone, Over
<1>6. ASSUME NEW s \in Streams,
             DecodingRaises(s) \/ SeesTheEnd(s) \/ TimesOut(s) \/ LeavesConnected(s)
      PROVE  \E stage \in Gone : Go(s, stage)
  <2>1. Resets(s)
    BY <1>6 DEF DecodingRaises, SeesTheEnd, TimesOut, LeavesConnected, LeavesTry
  <2> QED BY <2>1, ResetsGo DEF Processes
<1>7. ASSUME NEW s \in Streams,
             (\E emission \in Emissions(s) : Sends(s, emission)) \/ Completes(s) \/ Reads(s)
      PROVE  UNCHANGED pc
  BY <1>7 DEF Sends, Completes, Reads
<1>8. ASSUME NEW c \in Connections, Breaks(c) \/ GoesSilent(c)
      PROVE  UNCHANGED pc
  BY <1>8 DEF Breaks, GoesSilent
<1>9. ASSUME NEW s \in Streams, StreamStep(s)
      PROVE  (\E stage \in Gone : Go(s, stage)) \/ Wakes(s) \/ Seeds(s) \/ UNCHANGED pc
  BY <1>5, <1>6, <1>7, <1>9 DEF StreamStep
<1>10. Streams \subseteq Processes /\ Askers \subseteq Processes
  BY DEF Processes
<1> QED BY <1>1, <1>2, <1>3, <1>4, <1>8, <1>9, <1>10 DEF Next

(* Where a stream comes from when it is about to connect, or connected.    *)
LEMMA ComesFrom ==
    ASSUME SharedOK, LeavingOK', Next, NEW s \in Streams
    PROVE  /\ pc'[s] \in Unlinked => pc[s] \in Unlinked \/ Seeds(s)
           /\ pc'[s] = "using" => pc[s] \in {"using", "waiting", "opening"}
<1> USE DEF Unlinked
<1>1. pc \in [Processes -> Pcs] /\ s \in Processes
  BY DEF SharedOK, Processes
<1>2. ASSUME NEW p \in Processes, \E stage \in Gone : Go(p, stage)
      PROVE  pc'[s] = pc[s] \/ pc'[s] \in Gone
  BY <1>1, <1>2 DEF Go
<1>3. ASSUME NEW p \in Processes, Begins(p) \/ Enters(p) \/ Opened(p)
      PROVE  \/ pc'[s] = pc[s]
             \/ pc[s] \in {"idle", "waiting", "opening"} /\ pc'[s] \in {"waiting", "opening"}
             \/ pc[s] \in {"waiting", "opening"} /\ pc'[s] = "using"
  BY <1>1, <1>3 DEF Begins, Enters, Opened, Go
<1>4. ASSUME NEW p \in Streams, Wakes(p)
      PROVE  pc'[s] = pc[s] \/ (pc[s] = "sleeping" /\ pc'[s] = "waiting")
  BY <1>1, <1>4 DEF Wakes, Go
<1>5. ASSUME NEW p \in Streams, Seeds(p)
      PROVE  pc'[s] = pc[s] \/ (p = s /\ pc'[s] = "sleeping")
  BY <1>1, <1>5 DEF Seeds, Go
<1>6. \A stage \in Gone : stage \notin Unlinked /\ stage # "using"
  BY DEF Gone, Closing, Over
<1> QED BY <1>2, <1>3, <1>4, <1>5, <1>6, Moves

(* Of a stream, a step changes what is shown only by reading an emission   *)
(* over the connection, or by yielding the fallback without one.           *)
LEMMA ShowsBy ==
    ASSUME ShownInv, Next, NEW s \in Streams
    PROVE  shown'[s] = shown[s] \/ Reads(s) \/ Seeds(s)
<1>1. ASSUME NEW q \in Streams, q # s, Reads(q) \/ Seeds(q)
      PROVE  shown'[s] = shown[s]
  <2>1. UNCHANGED shown \/ \E e : Yield(q, e)
    BY <1>1 DEF Reads, Seeds
  <2> QED BY <1>1, <2>1 DEF Yield, ShownInv
<1>2. ASSUME NEW q \in Streams,
             (\E emission \in Emissions(q) : Sends(q, emission)) \/ Completes(q) \/ Leaves(q)
      PROVE  shown'[s] = shown[s]
  BY <1>2 DEF Sends, Completes, Leaves, LeavesTry
<1>3. UNCHANGED streams => shown'[s] = shown[s]
  BY DEF streams
<1> QED BY <1>1, <1>2, <1>3, StreamSteps

(* The fallback withdraws whatever verdict was left, whether it is yielded *)
(* or suppressed because it repeats the last emission.                     *)
LEMMA SeedsWithdraw ==
    ASSUME FallbackSpeaksOfAll, ShownInv, NEW s \in Streams, Seeds(s)
    PROVE  \A i \in IdSet(s) : shown'[s][i] = INDETERMINATE
<1>1. \A i \in IdSet(s) :
        shown'[s][i] = IF i \in DOMAIN Fallback(s) THEN Fallback(s)[i] ELSE shown[s][i]
  BY YieldFacts DEF Seeds
<1>2. DOMAIN Fallback(s) = IdSet(s) /\ \A i \in IdSet(s) : Fallback(s)[i] = INDETERMINATE
  BY DEF FallbackSpeaksOfAll, Fallback
<1> QED BY <1>1, <1>2

(* A stream that is about to connect has withdrawn its verdicts.           *)
LEMMA WithdrawnStep ==
    ASSUME FallbackSpeaksOfAll, SharedOK, ShownInv, ShownInv', WithdrawnInv, Next
    PROVE  WithdrawnInv'
<1> SUFFICES ASSUME NEW s \in Streams, pc'[s] \in Unlinked PROVE NoVerdict(s)'
  BY DEF WithdrawnInv
<1>1. CASE Seeds(s)
  BY <1>1, SeedsWithdraw DEF NoVerdict
<1>2. CASE ~Seeds(s)
  <2>1. pc[s] \in Unlinked
    BY <1>2, ComesFrom DEF ShownInv
  <2>2. ~Reads(s)
    BY <2>1 DEF Reads, Unlinked
  <2>3. shown'[s] = shown[s]
    BY <1>2, <2>2, ShowsBy
  <2> QED BY <2>1, <2>3 DEF WithdrawnInv, NoVerdict
<1> QED BY <1>1, <1>2

(* Every step is one PdpFeed allows each stream, or none.                  *)
LEMMA FeedStep ==
    ASSUME FallbackSpeaksOfAll, SharedOK, ShownInv, ShownInv', WithdrawnInv, Next,
           NEW s \in Streams
    PROVE  Feed(s)!Next \/ UNCHANGED Feed(s)!vars
<1> DEFINE link == IF pc[s] = "using" THEN "up" ELSE "down"
<1>1. /\ shown[s] \in [IdSet(s) -> Decisions \cup {None}]
      /\ shown'[s] \in [IdSet(s) -> Decisions \cup {None}]
  BY DEF ShownInv, StreamOK
<1>2. CASE shown'[s] = shown[s] /\ link' = link
  BY <1>2 DEF Feed!vars
<1>3. CASE shown'[s] = shown[s] /\ link = "down" /\ link' = "up"
  <2>1. NoVerdict(s)
    BY <1>3, ComesFrom DEF ShownInv, WithdrawnInv, Unlinked
  <2> QED BY <1>3, <2>1 DEF Feed!Next, Feed!Connects, Feed!NoVerdict, NoVerdict
<1>4. CASE shown'[s] = shown[s] /\ link = "up" /\ link' = "down"
  BY <1>4 DEF Feed!Next, Feed!Breaks
<1>5. CASE Reads(s)
  <2>1. link = "up" /\ link' = "up"
    BY <1>5 DEF Reads
  <2>2. \A i \in IdSet(s) : shown'[s][i] = None => shown[s][i] = None
    <3>1. inbox[s] # <<>> /\ Head(inbox[s]) \in Emissions(s)
      BY <1>5 DEF Reads, ShownInv, StreamOK
    <3>2. UNCHANGED shown \/ Yield(s, Head(inbox[s]))
      BY <1>5 DEF Reads
    <3>3. CASE Yield(s, Head(inbox[s]))
      BY <3>1, <3>3, YieldFacts, EmissionFacts
    <3> QED BY <3>2, <3>3
  <2> QED BY <1>1, <2>1, <2>2 DEF Feed!Next, Feed!Delivers
<1>6. CASE Seeds(s)
  <2>1. link = "down" /\ link' = "down"
    BY <1>6 DEF Seeds, Go, SharedOK, Processes
  <2>2. shown'[s] = [i \in IdSet(s) |-> IF i \in IdSet(s) THEN INDETERMINATE ELSE shown[s][i]]
    BY <1>1, <1>6, SeedsWithdraw
  <2> QED BY <2>1, <2>2 DEF Feed!Next, Feed!Seeds
<1>7. link \in {"up", "down"} /\ link' \in {"up", "down"}
  OBVIOUS
<1> QED BY <1>2, <1>3, <1>4, <1>5, <1>6, <1>7, ShowsBy

(* Every stream keeps the promise of PdpFeed, however many streams,        *)
(* requests and closes share the connection, as long as the fallback       *)
(* speaks of every subscription.                                           *)
THEOREM RsocketKeepsThePromise ==
    ASSUME FallbackSpeaksOfAll
    PROVE  Spec => KeepsThePromise
<1>1. Init => WithdrawnInv
  BY DEF Init, WithdrawnInv, NoVerdict
<1>2. LinkInv /\ ShownInv /\ (LinkInv /\ ShownInv)' /\ WithdrawnInv /\ [Next]_vars
        => WithdrawnInv'
  <2>1. CASE UNCHANGED vars
    BY <2>1 DEF vars, WithdrawnInv, NoVerdict
  <2> QED BY <2>1, WithdrawnStep DEF LinkInv
<1>3. Spec => []WithdrawnInv
  BY <1>1, <1>2, RsocketInvariant, PTL DEF Spec
<1>4. Init => \A s \in Streams : Feed(s)!Init
  BY DEF Init, Processes, Feed!Init
<1>5. LinkInv /\ ShownInv /\ (LinkInv /\ ShownInv)' /\ WithdrawnInv /\ [Next]_vars
        => [\A s \in Streams : Feed(s)!Next \/ UNCHANGED Feed(s)!vars]_vars
  BY FeedStep DEF LinkInv
<1> QED BY <1>3, <1>4, <1>5, RsocketInvariant, PTL DEF Spec, KeepsThePromise
=============================================================================
