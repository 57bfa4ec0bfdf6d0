---------------------- MODULE PipelineOrderBookProofs ----------------------
(***************************************************************************)
(* Proofs about PipelineOrderBook, for every set of prices and quantities, *)
(* every depth limit, every size of the buffers and every length of the    *)
(* exchange's history.                                                     *)
(*                                                                         *)
(* Frames are dropped where the raw buffer is full or a frame does not     *)
(* parse, so the events on their way are no chain.  What is left is their  *)
(* order, through all five queues between the exchange and the book.       *)
(***************************************************************************)
EXTENDS PipelineOrderBook, DepthFeedProofs

\* The queues an event passes, from the book back to the exchange.
Queues == <<buffer, chan, evq, rawq, stream>>

\* Place i of queue k is nearer to the book than place j of queue l.
Nearer(k, i, l, j) == k < l \/ (k = l /\ i < j)

\* All events in the queues are true, later than the book with id, and in order.
Flows(qs, h, s, id) ==
    /\ \A k \in 1..5 : AllGood(qs[k], h, s) /\ StartAfter(qs[k], id)
    /\ \A k, l \in 1..5 : \A i \in DOMAIN qs[k], j \in DOMAIN qs[l] :
           Nearer(k, i, l, j) => qs[k][i].u <= qs[l][j].pu

SyncState ==
    /\ synced => last_u = book_id /\ book_id > 0 /\ buffer = <<>>
    /\ pc = "await_snapshot" => ~synced
    /\ reply # NoReply =>
          /\ pc = "await_snapshot"
          /\ reply.id \in 1..Len(hist)
          /\ reply.levels = SnapshotOf(hist[reply.id])

\* A snapshot is asked for with one event in the buffer, and no other joins it
\* before the answer: nothing can be missing between two buffered events.
OneBuffered == pc = "await_snapshot" => Len(buffer) = 1

BookVouched == book_id > 0 => Vouched(book, hist, book_id)

\* The inductive invariant.
PipelineInv ==
    /\ TypeOK
    /\ Flows(Queues, hist, sent, book_id)
    /\ SyncState
    /\ OneBuffered
    /\ BookVouched

-----------------------------------------------------------------------------
(***************************************************************************)
(* What the steps do to the queues.                                        *)
(***************************************************************************)
QueuesType == [1..5 -> Seq(Event)]

\* An event moves on: the head of a queue goes to the end of the queue before, or
\* is dropped.
LEMMA MoveHead ==
  ASSUME NEW h \in Seq(Book), NEW s \in 1..Len(h), NEW id \in Nat,
         NEW qs \in QueuesType, NEW ns \in QueuesType, Flows(qs, h, s, id),
         NEW k \in 2..5, qs[k] # <<>>, ns[k] = Tail(qs[k]),
         ns[k - 1] = qs[k - 1] \/ ns[k - 1] = Append(qs[k - 1], Head(qs[k])),
         \A l \in 1..5 : l # k /\ l # k - 1 => ns[l] = qs[l]
  PROVE  /\ Flows(ns, h, s, id)
         /\ Head(qs[k]) \in Event /\ GoodEvent(Head(qs[k]), h, s)
         /\ id <= Head(qs[k]).pu
         /\ \A l \in k..5 : StartAfter(ns[l], Head(qs[k]).u)
<1> DEFINE e == Head(qs[k])
           n == Len(qs[k - 1])
<1>0. \A l \in 1..5 : /\ qs[l] \in Seq(Event) /\ DOMAIN qs[l] = 1..Len(qs[l]) /\ Len(qs[l]) \in Nat
                      /\ ns[l] \in Seq(Event) /\ DOMAIN ns[l] = 1..Len(ns[l]) /\ Len(ns[l]) \in Nat
  <2> TAKE l \in 1..5
  <2> DEFINE q == qs[l]
             r == ns[l]
  <2>1. q \in Seq(Event) /\ r \in Seq(Event)
    BY DEF QueuesType
  <2> HIDE DEF q, r
  <2>2. DOMAIN q = 1..Len(q) /\ Len(q) \in Nat /\ DOMAIN r = 1..Len(r) /\ Len(r) \in Nat
    BY <2>1, LenProperties
  <2> QED BY <2>1, <2>2 DEF q, r
<1>0a. ASSUME NEW l \in 1..5, NEW i \in DOMAIN ns[l] PROVE i \in Nat /\ i >= 1
  <2> DEFINE d == Len(ns[l])
  <2>1. i \in 1..d /\ d \in Nat
    BY <1>0
  <2> HIDE DEF d
  <2> QED BY <2>1
<1>1. k \in 1..5 /\ k - 1 \in 1..5 /\ k - 1 # k /\ k - 1 < k
  OBVIOUS
<1>2. /\ 1 \in DOMAIN qs[k] /\ e = qs[k][1] /\ e \in Event
      /\ \A i \in DOMAIN Tail(qs[k]) : i \in Nat /\ i + 1 \in DOMAIN qs[k] /\ Tail(qs[k])[i] = qs[k][i + 1]
  <2>1. qs[k] \in Seq(Event)
    BY <1>0, <1>1
  <2> DEFINE q == qs[k]
  <2> HIDE DEF q
  <2>2. q \in Seq(Event) /\ q # <<>>
    BY <2>1 DEF q
  <2>3. /\ Len(q) \in Nat \ {0} /\ DOMAIN q = 1..Len(q) /\ Head(q) = q[1] /\ q[1] \in Event
        /\ DOMAIN Tail(q) = 1..(Len(q) - 1) /\ \A i \in 1..(Len(q) - 1) : Tail(q)[i] = q[i + 1]
    BY <2>2, HeadTailProperties, EmptySeq
  <2> QED BY <2>3 DEF q
<1>3. ASSUME ns[k - 1] = Append(qs[k - 1], e)
      PROVE  \A i \in DOMAIN ns[k - 1] :
               \/ i \in DOMAIN qs[k - 1] /\ ns[k - 1][i] = qs[k - 1][i]
               \/ i = n + 1 /\ ns[k - 1][i] = e
  <2> DEFINE q == qs[k - 1]
             r == ns[k - 1]
  <2>1. q \in Seq(Event) /\ e \in Event /\ r = Append(q, e) /\ n = Len(q)
    BY <1>0, <1>1, <1>2, <1>3
  <2> HIDE DEF q, r, n, e
  <2>2. /\ DOMAIN q = 1..Len(q) /\ Len(q) \in Nat /\ DOMAIN r = 1..(Len(q) + 1)
        /\ r[Len(q) + 1] = e /\ \A i \in 1..Len(q) : r[i] = q[i]
    BY <2>1, AppendProperties
  <2>3. \A i \in DOMAIN r : (i \in DOMAIN q /\ r[i] = q[i]) \/ (i = n + 1 /\ r[i] = e)
    BY <2>1, <2>2
  <2> QED BY <2>3 DEF q, r
<1> HIDE DEF e, n
\* Where an event was before the step.
<1> DEFINE Stayed(l, i) == l # k /\ i \in DOMAIN qs[l] /\ ns[l][i] = qs[l][i]
           Advanced(l, i) == l = k /\ i + 1 \in DOMAIN qs[k] /\ ns[l][i] = qs[k][i + 1]
           Moved(l, i) == l = k - 1 /\ i \notin DOMAIN qs[k - 1] /\ i = n + 1 /\ ns[l][i] = e
<1>4. ASSUME NEW l \in 1..5, NEW i \in DOMAIN ns[l]
      PROVE  i \in Nat /\ (Stayed(l, i) \/ Advanced(l, i) \/ Moved(l, i))
  <2>0. i \in Nat
    BY <1>0a
  <2>1. CASE l = k
    BY <2>0, <2>1, <1>2
  <2>2. CASE l = k - 1 /\ ns[k - 1] = qs[k - 1]
    BY <2>0, <2>2, <1>1
  <2>3. CASE l = k - 1 /\ ns[k - 1] = Append(qs[k - 1], e)
    <3>1. DOMAIN qs[k - 1] = 1..n /\ n \in Nat
      BY <1>0, <1>1 DEF n
    <3>2. n + 1 \notin DOMAIN qs[k - 1]
      BY <3>1
    <3>3. \/ i \in DOMAIN qs[k - 1] /\ ns[k - 1][i] = qs[k - 1][i]
          \/ i = n + 1 /\ ns[k - 1][i] = e
      BY <2>3, <1>3
    <3> QED BY <2>0, <2>3, <3>2, <3>3, <1>1
  <2>4. CASE l # k /\ l # k - 1
    BY <2>0, <2>4
  <2> QED BY <2>1, <2>2, <2>3, <2>4 DEF e
<1>5. /\ \A l \in 1..5 : \A i \in DOMAIN qs[l] : GoodEvent(qs[l][i], h, s) /\ id <= qs[l][i].pu
      /\ \A l, m \in 1..5 : \A i \in DOMAIN qs[l], j \in DOMAIN qs[m] :
             Nearer(l, i, m, j) => qs[l][i].u <= qs[m][j].pu
  BY DEF Flows, AllGood, StartAfter
<1>5a. GoodEvent(e, h, s) /\ id <= e.pu
  BY <1>1, <1>2, <1>5
<1>5b. ASSUME NEW l \in 1..5, NEW i \in DOMAIN qs[l]
       PROVE  /\ Nearer(l, i, k, 1) => qs[l][i].u <= e.pu
              /\ Nearer(k, 1, l, i) => e.u <= qs[l][i].pu
  <2>1. 1 \in DOMAIN qs[k] /\ k \in 1..5 /\ e = qs[k][1]
    BY <1>1, <1>2
  <2> QED BY <2>1, <1>5
<1>6. ASSUME NEW l \in 1..5, NEW i \in DOMAIN ns[l]
      PROVE  GoodEvent(ns[l][i], h, s) /\ id <= ns[l][i].pu
  <2>1. CASE Stayed(l, i)
    BY <2>1, <1>5
  <2>2. CASE Advanced(l, i)
    BY <2>2, <1>1, <1>5
  <2>3. CASE Moved(l, i)
    BY <2>3, <1>5a
  <2> QED BY <2>1, <2>2, <2>3, <1>4
<1>7. ASSUME NEW l \in 1..5, NEW m \in 1..5, NEW i \in DOMAIN ns[l], NEW j \in DOMAIN ns[m],
             Nearer(l, i, m, j)
      PROVE  ns[l][i].u <= ns[m][j].pu
  <2>0. i \in Nat /\ j \in Nat /\ n \in Nat /\ DOMAIN qs[k - 1] = 1..n
    BY <1>4, <1>0, <1>1 DEF n
  <2>1. CASE Stayed(l, i) /\ Stayed(m, j)
    BY <2>1, <1>7, <1>5
  <2>2. CASE Stayed(l, i) /\ Advanced(m, j)
    <3>1. Nearer(l, i, k, j + 1)
      BY <2>2, <1>7 DEF Nearer
    <3> QED BY <2>2, <3>1, <1>1, <1>5
  <2>3. CASE Stayed(l, i) /\ Moved(m, j)
    <3>1. Nearer(l, i, k, 1)
      BY <2>3, <1>1, <1>7 DEF Nearer
    <3> QED BY <2>3, <3>1, <1>5b
  <2>4. CASE Advanced(l, i) /\ Stayed(m, j)
    <3>1. Nearer(k, i + 1, m, j)
      BY <2>4, <1>7 DEF Nearer
    <3> QED BY <2>4, <3>1, <1>1, <1>5
  <2>5. CASE Advanced(l, i) /\ Advanced(m, j)
    <3>1. Nearer(k, i + 1, k, j + 1)
      BY <2>0, <2>5, <1>7 DEF Nearer
    <3> QED BY <2>5, <3>1, <1>1, <1>5
  <2>6. CASE Advanced(l, i) /\ Moved(m, j)
    BY <2>6, <1>1, <1>7 DEF Nearer
  <2>7. CASE Moved(l, i) /\ Stayed(m, j)
    <3>1. Nearer(k, 1, m, j)
      BY <2>0, <2>7, <1>1, <1>7 DEF Nearer
    <3> QED BY <2>7, <3>1, <1>5b
  <2>8. CASE Moved(l, i) /\ Advanced(m, j)
    <3>0. j >= 1
      BY <1>0a
    <3>1. Nearer(k, 1, k, j + 1)
      BY <2>0, <3>0 DEF Nearer
    <3> QED BY <2>8, <3>1, <1>1, <1>5b
  <2>9. CASE Moved(l, i) /\ Moved(m, j)
    BY <2>0, <2>9, <1>1, <1>7 DEF Nearer
  <2>10. /\ Stayed(l, i) \/ Advanced(l, i) \/ Moved(l, i)
         /\ Stayed(m, j) \/ Advanced(m, j) \/ Moved(m, j)
    BY <1>4
  <2> HIDE DEF Stayed, Advanced, Moved
  <2> QED BY <2>10, <2>1, <2>2, <2>3, <2>4, <2>5, <2>6, <2>7, <2>8, <2>9
<1>8. Flows(ns, h, s, id)
  BY <1>6, <1>7 DEF Flows, AllGood, StartAfter
<1>9. e \in Event /\ GoodEvent(e, h, s) /\ id <= e.pu
  BY <1>2, <1>5a
<1>10. ASSUME NEW l \in k..5, NEW j \in DOMAIN ns[l]
       PROVE  e.u <= ns[l][j].pu
  <2>00. l \in 1..5 /\ l # k - 1
    OBVIOUS
  <2>0. l \in 1..5 /\ l # k - 1 /\ j \in Nat /\ j >= 1
    BY <2>00, <1>0a
  <2>1. CASE Stayed(l, j)
    <3>1. Nearer(k, 1, l, j)
      BY <2>1 DEF Nearer
    <3> QED BY <2>0, <2>1, <3>1, <1>5b
  <2>2. CASE Advanced(l, j)
    <3>1. Nearer(k, 1, k, j + 1)
      BY <2>0 DEF Nearer
    <3> QED BY <2>0, <2>2, <3>1, <1>1, <1>5b
  <2> QED BY <2>0, <2>1, <2>2, <1>4
<1> QED BY <1>8, <1>9, <1>10 DEF e, StartAfter

\* Queues are thrown away: by a new call, at its end, or with a snapshot.
LEMMA Emptied ==
  ASSUME NEW h, NEW s, NEW id, NEW qs, NEW ns, Flows(qs, h, s, id),
         \A k \in 1..5 : ns[k] = qs[k] \/ ns[k] = <<>>
  PROVE  Flows(ns, h, s, id)
<1>1. \A k \in 1..5 : \A i \in DOMAIN ns[k] : ns[k] = qs[k] /\ i \in DOMAIN qs[k]
  <2> TAKE k \in 1..5
  <2>1. CASE ns[k] = <<>>
    BY <2>1
  <2>2. CASE ns[k] = qs[k]
    BY <2>2
  <2> QED BY <2>1, <2>2
<1>2. \A k \in 1..5 : AllGood(ns[k], h, s) /\ StartAfter(ns[k], id)
  BY <1>1 DEF Flows, AllGood, StartAfter
<1>3. \A k, l \in 1..5 : \A i \in DOMAIN ns[k], j \in DOMAIN ns[l] :
          Nearer(k, i, l, j) => ns[k][i].u <= ns[l][j].pu
  BY <1>1 DEF Flows
<1> QED BY <1>2, <1>3 DEF Flows

\* The exchange makes an update: what the events say stays true.
LEMMA FlowsOn ==
  ASSUME NEW h \in Seq(Book), NEW s \in 1..Len(h), NEW x \in Book, NEW id,
         NEW qs \in QueuesType, Flows(qs, h, s, id)
  PROVE  Flows(qs, Append(h, x), s, id)
<1>1. \A k \in 1..5 : AllGood(qs[k], Append(h, x), s)
  <2> TAKE k \in 1..5
  <2>1. qs[k] \in Seq(Event) /\ AllGood(qs[k], h, s)
    BY DEF Flows, QueuesType
  <2> QED BY <2>1, GoodStays
<1> QED BY <1>1 DEF Flows

\* The exchange sends an event: it comes after everything in the queues.
LEMMA Emitted ==
  ASSUME NEW h \in Seq(Book), NEW s \in 1..Len(h), NEW id \in 0..s,
         NEW qs \in QueuesType, NEW ns \in QueuesType, Flows(qs, h, s, id),
         NEW e \in Event, GoodEvent(e, h, Len(h)), e.pu = s,
         ns[5] = Append(qs[5], e), \A k \in 1..4 : ns[k] = qs[k]
  PROVE  Flows(ns, h, Len(h), id)
<1>1. ASSUME NEW k \in 1..5
      PROVE  /\ qs[k] \in Seq(Event) /\ AllGood(qs[k], h, Len(h)) /\ StartAfter(qs[k], id)
             /\ DOMAIN qs[k] = 1..Len(qs[k]) /\ Len(qs[k]) \in Nat
             /\ \A i \in DOMAIN qs[k] : qs[k][i].u <= s
  <2> DEFINE q == qs[k]
  <2>1. q \in Seq(Event) /\ AllGood(q, h, s) /\ StartAfter(q, id)
    BY DEF Flows, QueuesType
  <2> HIDE DEF q
  <2>2. AllGood(q, h, Len(h))
    BY <2>1, GoodStays
  <2>3. \A i \in DOMAIN q : q[i].u <= s
    <3> TAKE i \in DOMAIN q
    <3>1. q[i].u \in 1..s
      BY <2>1 DEF AllGood, GoodEvent
    <3> QED BY <3>1
  <2> QED BY <2>1, <2>2, <2>3, LenProperties DEF q
<1> DEFINE n == Len(qs[5])
<1>2. /\ DOMAIN qs[5] = 1..n /\ n \in Nat /\ n + 1 \notin DOMAIN qs[5]
      /\ \A i \in DOMAIN ns[5] : \/ i \in DOMAIN qs[5] /\ ns[5][i] = qs[5][i]
                                 \/ i = n + 1 /\ ns[5][i] = e
  <2> DEFINE q == qs[5]
             r == ns[5]
  <2>1. q \in Seq(Event) /\ r = Append(q, e) /\ n = Len(q)
    BY <1>1
  <2> HIDE DEF q, r, n
  <2>2. /\ DOMAIN q = 1..Len(q) /\ Len(q) \in Nat /\ DOMAIN r = 1..(Len(q) + 1)
        /\ r[Len(q) + 1] = e /\ \A i \in 1..Len(q) : r[i] = q[i]
    BY <2>1, AppendProperties
  <2>3. /\ DOMAIN q = 1..n /\ n \in Nat /\ n + 1 \notin DOMAIN q
        /\ \A i \in DOMAIN r : (i \in DOMAIN q /\ r[i] = q[i]) \/ (i = n + 1 /\ r[i] = e)
    BY <2>1, <2>2
  <2> QED BY <2>3 DEF q, r
<1> HIDE DEF n
<1> DEFINE Old(k, i) == i \in DOMAIN qs[k] /\ ns[k][i] = qs[k][i]
           New(k, i) == k = 5 /\ i = n + 1 /\ ns[k][i] = e
<1>3. ASSUME NEW k \in 1..5, NEW i \in DOMAIN ns[k] PROVE Old(k, i) \/ New(k, i)
  <2>1. CASE k = 5
    BY <2>1, <1>2
  <2>2. CASE k \in 1..4
    BY <2>2
  <2> QED BY <2>1, <2>2
<1>4. ASSUME NEW k \in 1..5, NEW i \in DOMAIN ns[k]
      PROVE  GoodEvent(ns[k][i], h, Len(h)) /\ id <= ns[k][i].pu
  <2>1. CASE Old(k, i)
    BY <2>1, <1>1 DEF AllGood, StartAfter
  <2>2. CASE New(k, i)
    BY <2>2
  <2> QED BY <2>1, <2>2, <1>3
<1>5. ASSUME NEW k \in 1..5, NEW l \in 1..5, NEW i \in DOMAIN ns[k], NEW j \in DOMAIN ns[l],
             Nearer(k, i, l, j)
      PROVE  ns[k][i].u <= ns[l][j].pu
  <2>1. CASE Old(k, i) /\ Old(l, j)
    BY <2>1, <1>5 DEF Flows
  <2>2. CASE Old(k, i) /\ New(l, j)
    BY <2>2, <1>1
  <2>3. CASE New(k, i) /\ Old(l, j)
    <3>1. k = 5 /\ l = 5 /\ j \in 1..n /\ i = n + 1 /\ n \in Nat
      BY <2>3, <1>2, <1>5 DEF Nearer
    <3> QED BY <3>1, <1>5 DEF Nearer
  <2>4. CASE New(k, i) /\ New(l, j)
    BY <2>4, <1>2, <1>5 DEF Nearer
  <2>5. (Old(k, i) \/ New(k, i)) /\ (Old(l, j) \/ New(l, j))
    BY <1>3
  <2> HIDE DEF Old, New
  <2> QED BY <2>1, <2>2, <2>3, <2>4, <2>5
<1> QED BY <1>4, <1>5 DEF Flows, AllGood, StartAfter

\* The five queues as one function.
LEMMA FiveQueues ==
  ASSUME NEW a \in Seq(Event), NEW b \in Seq(Event), NEW c \in Seq(Event),
         NEW d \in Seq(Event), NEW e \in Seq(Event)
  PROVE  LET qs == <<a, b, c, d, e>>
         IN  /\ qs \in QueuesType
             /\ qs[1] = a /\ qs[2] = b /\ qs[3] = c /\ qs[4] = d /\ qs[5] = e
BY DEF QueuesType

LEMMA QueuesTyped ==
  ASSUME TypeOK
  PROVE  /\ Queues \in QueuesType
         /\ Queues[1] = buffer /\ Queues[2] = chan /\ Queues[3] = evq
         /\ Queues[4] = rawq /\ Queues[5] = stream
<1>1. /\ buffer \in Seq(Event) /\ chan \in Seq(Event) /\ evq \in Seq(Event)
      /\ rawq \in Seq(Event) /\ stream \in Seq(Event)
  BY DEF TypeOK, FeedTypeOK
<1> QED BY <1>1, FiveQueues DEF Queues

\* The same before and after a step.
LEMMA QueuesAfter ==
  ASSUME TypeOK, TypeOK'
  PROVE  /\ Queues \in QueuesType /\ Queues' \in QueuesType
         /\ Queues[1] = buffer /\ Queues'[1] = buffer'
         /\ Queues[2] = chan /\ Queues'[2] = chan'
         /\ Queues[3] = evq /\ Queues'[3] = evq'
         /\ Queues[4] = rawq /\ Queues'[4] = rawq'
         /\ Queues[5] = stream /\ Queues'[5] = stream'
<1>1. /\ buffer' \in Seq(Event) /\ chan' \in Seq(Event) /\ evq' \in Seq(Event)
      /\ rawq' \in Seq(Event) /\ stream' \in Seq(Event)
  BY DEF TypeOK, FeedTypeOK
<1>2. Queues' = <<buffer', chan', evq', rawq', stream'>>
  BY DEF Queues
<1> QED BY <1>1, <1>2, FiveQueues, QueuesTyped

-----------------------------------------------------------------------------
(***************************************************************************)
(* The invariant is inductive.  First the steps of the exchange and of the *)
(* threads that do not touch the logic loop.                               *)
(***************************************************************************)

\* The invariant holds initially: the queues are empty, nothing is published.
LEMMA InvInit == Init => PipelineInv
<1> SUFFICES ASSUME Init PROVE PipelineInv
  OBVIOUS
<1>1. EmptyBook \in Book
  BY DEF EmptyBook, Book, Quantity
<1>2. FeedTypeOK /\ reply \in Snapshot
  BY <1>1 DEF Init, FeedInit, FeedTypeOK, NoReply, Snapshot
<1>3. /\ buffer = <<>> /\ chan = <<>> /\ evq = <<>> /\ rawq = <<>> /\ stream = <<>>
      /\ Len(rawq) = 0 /\ Len(evq) = 0 /\ Len(chan) = 0
  BY DEF Init, FeedInit
<1>4. {rawq, evq, chan} \subseteq Seq(Event) /\ buffer \in Seq(Event)
  BY <1>3
<1>5. running \in BOOLEAN /\ synced \in BOOLEAN
  BY DEF Init
<1>6. TypeOK
  BY <1>1, <1>2, <1>3, <1>4, <1>5, BufferAssumption DEF TypeOK, Init, FeedInit
<1>7. Flows(Queues, hist, sent, book_id)
  <2>1. \A k \in 1..5 : Queues[k] = <<>>
    BY <1>3, <1>6, QueuesTyped
  <2>2. \A k \in 1..5 : DOMAIN Queues[k] = {}
    BY <2>1
  <2> QED BY <2>2 DEF Flows, AllGood, StartAfter
<1>8. SyncState /\ OneBuffered /\ BookVouched
  BY DEF SyncState, OneBuffered, BookVouched, Init
<1> QED BY <1>6, <1>7, <1>8 DEF PipelineInv

\* The types of what a step of the exchange leaves alone.
LEMMA TypeOfFeed ==
  ASSUME TypeOK, FeedNext, UNCHANGED <<stageVars, chan, running, logicVars>>
  PROVE  TypeOK'
<1>1. FeedTypeOK /\ FeedTypeOK'
  BY FeedTypeNext DEF TypeOK
<1>2. sent' \in Nat /\ sent \in Nat /\ sent <= sent'
  <2>1. sent \in 1..Len(hist) /\ Len(hist) \in Nat
    BY <1>1 DEF FeedTypeOK
  <2>2. sent' = sent \/ sent' = Len(hist)
    BY DEF FeedNext, Update, UpdateElsewhere, Emit
  <2> QED BY <2>1, <2>2
<1>3. book_id' \in 0..sent'
  BY <1>2 DEF TypeOK, logicVars, bookVars
<1> QED BY <1>1, <1>3 DEF TypeOK, stageVars, logicVars, syncVars, bookVars

\* The exchange moves on: the past does not change, and what it sends comes last.
LEMMA InvFeed ==
  ASSUME PipelineInv, FeedNext, UNCHANGED <<stageVars, chan, running, logicVars>>
  PROVE  PipelineInv'
<1>0. TypeOK /\ FeedTypeOK /\ TypeOK'
  BY TypeOfFeed DEF PipelineInv, TypeOK
<1>1. /\ buffer' = buffer /\ chan' = chan /\ evq' = evq /\ rawq' = rawq
      /\ reply' = reply /\ book' = book /\ book_id' = book_id /\ synced' = synced
      /\ last_u' = last_u /\ pc' = pc
  BY DEF stageVars, logicVars, syncVars, bookVars
<1>2. hist \in Seq(Book) /\ sent \in 1..Len(hist) /\ book_id \in 0..sent
  BY <1>0 DEF TypeOK, FeedTypeOK
<1>3. ASSUME NEW x \in Book, hist' = Append(hist, x), UNCHANGED <<sent, stream>>
      PROVE  PipelineInv'
  <2>1. Queues' = Queues /\ Queues \in QueuesType
    BY <1>0, <1>1, <1>3, QueuesTyped DEF Queues
  <2>2. Flows(Queues, Append(hist, x), sent, book_id)
    BY <2>1, <1>2, FlowsOn DEF PipelineInv
  <2>3. \A v \in 1..Len(hist) : hist'[v] = hist[v] /\ v \in 1..Len(hist')
    <3>1. /\ Len(Append(hist, x)) = Len(hist) + 1 /\ Len(hist) \in Nat
          /\ \A v \in 1..Len(hist) : Append(hist, x)[v] = hist[v]
      BY <1>2, HistoryGrows
    <3> QED BY <1>3, <3>1
  <2>4. SyncState' /\ OneBuffered'
    BY <1>1, <2>3 DEF PipelineInv, SyncState, OneBuffered
  <2>5. BookVouched'
    <3>1. book_id > 0 => book_id \in 1..Len(hist)
      BY <1>2
    <3> QED BY <1>1, <1>2, <1>3, <3>1, VouchedStays DEF PipelineInv, BookVouched
  <2> QED BY <1>0, <1>1, <1>3, <2>1, <2>2, <2>4, <2>5 DEF PipelineInv
<1>4. ASSUME NEW first \in 1..MaxVersion, Emit(first)
      PROVE  PipelineInv'
  <2> DEFINE e == NextEvent(first)
  <2>1. /\ hist' = hist /\ stream' = Append(stream, e) /\ sent' = Len(hist) /\ sent < Len(hist)
        /\ first \in (sent + 1)..Len(hist)
    BY <1>4 DEF Emit
  <2>2. e.pu = sent /\ e.u = Len(hist) /\ GoodEvent(e, hist, Len(hist)) /\ e \in Event
    <3>1. [p \in Touched(hist, sent, Len(hist)) |-> hist[Len(hist)][p]] \in Levels
      <4>1. Len(hist) \in 1..Len(hist)
        BY <1>2
      <4> QED BY <1>2, <4>1, TouchedLevels
    <3> QED BY <1>2, <2>1, <3>1 DEF GoodEvent, NextEvent, Event
  <2> HIDE DEF e
  <2>3. Queues \in QueuesType /\ Queues' \in QueuesType
    BY <1>0, QueuesAfter
  <2>4. Queues'[5] = Append(Queues[5], e) /\ \A k \in 1..4 : Queues'[k] = Queues[k]
    BY <1>0, <1>1, <2>1, QueuesAfter
  <2>5. Flows(Queues', hist, Len(hist), book_id)
    BY <1>2, <2>2, <2>3, <2>4, Emitted DEF PipelineInv
  <2> QED BY <1>0, <1>1, <2>1, <2>5 DEF PipelineInv, SyncState, OneBuffered, BookVouched
<1>5. \/ \E x \in Book : hist' = Append(hist, x) /\ UNCHANGED <<sent, stream>>
      \/ \E first \in 1..MaxVersion : Emit(first)
  BY <1>0, FeedSteps
<1> QED BY <1>3, <1>4, <1>5

\* An event moves from queue k to the one before, or is dropped: what every step
\* that takes an event from a queue uses.
LEMMA Taken ==
  ASSUME PipelineInv, TypeOK', UNCHANGED <<hist, sent>>, NEW k \in 2..5,
         Queues[k] # <<>>, Queues'[k] = Tail(Queues[k]),
         Queues'[k - 1] = Queues[k - 1] \/ Queues'[k - 1] = Append(Queues[k - 1], Head(Queues[k])),
         \A l \in 1..5 : l # k /\ l # k - 1 => Queues'[l] = Queues[l]
  PROVE  /\ Flows(Queues', hist', sent', book_id)
         /\ Head(Queues[k]) \in Event /\ GoodEvent(Head(Queues[k]), hist, sent)
         /\ book_id <= Head(Queues[k]).pu
         /\ \A l \in k..5 : StartAfter(Queues'[l], Head(Queues[k]).u)
<1>1. hist \in Seq(Book) /\ sent \in 1..Len(hist) /\ book_id \in Nat
  BY DEF PipelineInv, TypeOK, FeedTypeOK
<1>2. Queues \in QueuesType /\ Queues' \in QueuesType
  BY QueuesAfter DEF PipelineInv
<1>3. Flows(Queues, hist, sent, book_id) /\ hist' = hist /\ sent' = sent
  BY DEF PipelineInv
<1> DEFINE qs == Queues
           ns == Queues'
<1> HIDE DEF qs, ns
<1>4. /\ qs \in QueuesType /\ ns \in QueuesType /\ Flows(qs, hist, sent, book_id)
      /\ qs[k] # <<>> /\ ns[k] = Tail(qs[k])
      /\ ns[k - 1] = qs[k - 1] \/ ns[k - 1] = Append(qs[k - 1], Head(qs[k]))
      /\ \A l \in 1..5 : l # k /\ l # k - 1 => ns[l] = qs[l]
  BY <1>2, <1>3 DEF qs, ns
<1>5. /\ Flows(ns, hist, sent, book_id)
      /\ Head(qs[k]) \in Event /\ GoodEvent(Head(qs[k]), hist, sent)
      /\ book_id <= Head(qs[k]).pu
      /\ \A l \in k..5 : StartAfter(ns[l], Head(qs[k]).u)
  BY <1>1, <1>4, MoveHead
<1> QED BY <1>3, <1>5 DEF qs, ns

\* Queues that are kept or thrown away.
LEMMA Kept5 ==
  ASSUME PipelineInv, TypeOK', UNCHANGED <<hist, sent>>,
         buffer' \in {buffer, <<>>}, chan' \in {chan, <<>>}, evq' \in {evq, <<>>},
         rawq' \in {rawq, <<>>}, stream' \in {stream, <<>>}
  PROVE  Flows(Queues', hist', sent', book_id)
<1>1. \A k \in 1..5 : Queues'[k] = Queues[k] \/ Queues'[k] = <<>>
  BY QueuesAfter DEF PipelineInv
<1>2. Flows(Queues, hist, sent, book_id) /\ hist' = hist /\ sent' = sent
  BY DEF PipelineInv
<1> DEFINE ns == Queues'
<1> HIDE DEF ns
<1>3. \A k \in 1..5 : ns[k] = Queues[k] \/ ns[k] = <<>>
  BY <1>1 DEF ns
<1>4. Flows(ns, hist, sent, book_id)
  BY <1>2, <1>3, Emptied
<1> QED BY <1>2, <1>4 DEF ns

\* The head of a queue and what is left behind it.
LEMMA QueueHead ==
  ASSUME NEW q \in Seq(Event), q # <<>>
  PROVE  /\ Head(q) \in Event /\ Tail(q) \in Seq(Event) /\ Len(Tail(q)) < Len(q)
         /\ Len(q) \in Nat /\ Len(Tail(q)) \in Nat
BY HeadTailProperties

\* The network thread, the parser and the forwarder move events or end.
LEMMA InvThreads ==
  ASSUME PipelineInv, Network \/ Parser \/ Forward
  PROVE  PipelineInv'
<1> USE BufferAssumption
<1>0. /\ TypeOK /\ FeedTypeOK /\ {rawq, evq, chan, stream} \subseteq Seq(Event)
      /\ Len(rawq) <= 2 * BufferSize /\ Len(evq) <= BufferSize /\ Len(chan) <= BufferSize
      /\ Len(rawq) \in Nat /\ Len(evq) \in Nat /\ Len(chan) \in Nat
  BY DEF PipelineInv, TypeOK, FeedTypeOK
<1>1. /\ hist' = hist /\ sent' = sent /\ buffer' = buffer /\ reply' = reply
      /\ book' = book /\ book_id' = book_id /\ synced' = synced /\ last_u' = last_u
      /\ pc' = pc /\ running' = running
  BY DEF Network, Parser, NetworkReads, NetworkFails, Parse, ParseFails, ParserEnds, Forward,
     feedVars, logicVars, syncVars, bookVars
<1>2. ASSUME TypeOK', Flows(Queues', hist', sent', book_id) PROVE PipelineInv'
  BY <1>1, <1>2 DEF PipelineInv, SyncState, OneBuffered, BookVouched
<1>3. CASE NetworkReads
  <2>1. /\ stream # <<>> /\ stream' = Tail(stream) /\ evq' = evq /\ chan' = chan
        /\ parser' = parser /\ net' \in {"reading", "closed"}
        /\ \/ Len(rawq) < 2 * BufferSize /\ rawq' = Append(rawq, Head(stream))
           \/ rawq' = rawq
    BY <1>3 DEF NetworkReads
  <2>2. Head(stream) \in Event /\ stream' \in Seq(Event)
    BY <1>0, <2>1, QueueHead
  <2>3. rawq' \in Seq(Event) /\ Len(rawq') <= 2 * BufferSize
    <3>1. CASE rawq' = rawq
      BY <1>0, <3>1
    <3>2. CASE Len(rawq) < 2 * BufferSize /\ rawq' = Append(rawq, Head(stream))
      <4>1. rawq' \in Seq(Event) /\ Len(rawq') = Len(rawq) + 1
        BY <1>0, <2>2, <3>2, AppendProperties
      <4> QED BY <1>0, <3>2, <4>1
    <3> QED BY <2>1, <3>1, <3>2
  <2>4. TypeOK'
    BY <1>0, <1>1, <2>1, <2>2, <2>3 DEF TypeOK, FeedTypeOK
  <2>5. /\ Queues[5] # <<>> /\ Queues'[5] = Tail(Queues[5])
        /\ Queues'[4] = Queues[4] \/ Queues'[4] = Append(Queues[4], Head(Queues[5]))
    BY <1>0, <1>1, <2>1, <2>4, QueuesAfter
  <2>5a. \A l \in 1..5 : l # 5 /\ l # 4 => Queues'[l] = Queues[l]
    <3>1. Queues'[1] = Queues[1] /\ Queues'[2] = Queues[2] /\ Queues'[3] = Queues[3]
      BY <1>0, <1>1, <2>1, <2>4, QueuesAfter
    <3> QED BY <3>1
  <2>6. Flows(Queues', hist', sent', book_id)
    BY <1>1, <2>4, <2>5, <2>5a, Taken, 5 - 1 = 4
  <2> QED BY <1>2, <2>4, <2>6
<1>4. CASE NetworkFails \/ ParserEnds
  <2>1. /\ stream' = stream /\ rawq' = rawq /\ evq' = evq /\ chan' = chan
        /\ net' \in {net, "closed"} /\ parser' \in {parser, "closed"}
    BY <1>4 DEF NetworkFails, ParserEnds, feedVars
  <2>2. TypeOK'
    BY <1>0, <1>1, <2>1 DEF TypeOK, FeedTypeOK
  <2> QED BY <1>1, <1>2, <2>1, <2>2, Kept5
<1>5. CASE Parse \/ ParseFails
  <2>1. /\ rawq # <<>> /\ rawq' = Tail(rawq) /\ stream' = stream /\ chan' = chan
        /\ net' = net /\ parser' = parser
        /\ \/ Len(evq) < BufferSize /\ evq' = Append(evq, Head(rawq))
           \/ evq' = evq
    BY <1>5 DEF Parse, ParseFails, feedVars
  <2>2. Head(rawq) \in Event /\ rawq' \in Seq(Event) /\ Len(rawq') <= 2 * BufferSize
    BY <1>0, <2>1, QueueHead
  <2>3. evq' \in Seq(Event) /\ Len(evq') <= BufferSize
    <3>1. CASE evq' = evq
      BY <1>0, <3>1
    <3>2. CASE Len(evq) < BufferSize /\ evq' = Append(evq, Head(rawq))
      <4>1. evq' \in Seq(Event) /\ Len(evq') = Len(evq) + 1
        BY <1>0, <2>2, <3>2, AppendProperties
      <4> QED BY <1>0, <3>2, <4>1
    <3> QED BY <2>1, <3>1, <3>2
  <2>4. TypeOK'
    BY <1>0, <1>1, <2>1, <2>2, <2>3 DEF TypeOK, FeedTypeOK
  <2>5. /\ Queues[4] # <<>> /\ Queues'[4] = Tail(Queues[4])
        /\ Queues'[3] = Queues[3] \/ Queues'[3] = Append(Queues[3], Head(Queues[4]))
    BY <1>0, <1>1, <2>1, <2>4, QueuesAfter
  <2>5a. \A l \in 1..5 : l # 4 /\ l # 3 => Queues'[l] = Queues[l]
    <3>1. Queues'[1] = Queues[1] /\ Queues'[2] = Queues[2] /\ Queues'[5] = Queues[5]
      BY <1>0, <1>1, <2>1, <2>4, QueuesAfter
    <3> QED BY <3>1
  <2>6. Flows(Queues', hist', sent', book_id)
    BY <1>1, <2>4, <2>5, <2>5a, Taken, 4 - 1 = 3
  <2> QED BY <1>2, <2>4, <2>6
<1>6. CASE Forward
  <2>1. /\ evq # <<>> /\ evq' = Tail(evq) /\ stream' = stream /\ rawq' = rawq
        /\ net' = net /\ parser' = parser
        /\ Len(chan) < BufferSize /\ chan' = Append(chan, Head(evq))
    BY <1>6 DEF Forward, feedVars
  <2>2. Head(evq) \in Event /\ evq' \in Seq(Event) /\ Len(evq') <= BufferSize
    BY <1>0, <2>1, QueueHead
  <2>3. chan' \in Seq(Event) /\ Len(chan') <= BufferSize
    <3>1. chan' \in Seq(Event) /\ Len(chan') = Len(chan) + 1
      BY <1>0, <2>1, <2>2, AppendProperties
    <3> QED BY <1>0, <2>1, <3>1
  <2>4. TypeOK'
    BY <1>0, <1>1, <2>1, <2>2, <2>3 DEF TypeOK, FeedTypeOK
  <2>5. /\ Queues[3] # <<>> /\ Queues'[3] = Tail(Queues[3])
        /\ Queues'[2] = Queues[2] \/ Queues'[2] = Append(Queues[2], Head(Queues[3]))
    BY <1>0, <1>1, <2>1, <2>4, QueuesAfter
  <2>5a. \A l \in 1..5 : l # 3 /\ l # 2 => Queues'[l] = Queues[l]
    <3>1. Queues'[1] = Queues[1] /\ Queues'[4] = Queues[4] /\ Queues'[5] = Queues[5]
      BY <1>0, <1>1, <2>1, <2>4, QueuesAfter
    <3> QED BY <3>1
  <2>6. Flows(Queues', hist', sent', book_id)
    BY <1>1, <2>4, <2>5, <2>5a, Taken, 3 - 1 = 2
  <2> QED BY <1>2, <2>4, <2>6
<1> QED BY <1>3, <1>4, <1>5, <1>6 DEF Network, Parser

-----------------------------------------------------------------------------
(***************************************************************************)
(* The steps of the logic loop.                                            *)
(***************************************************************************)

\* The calls from outside, and the steps that leave all events where they are.
LEMMA InvCalls ==
  ASSUME PipelineInv, AsyncRun \/ Stop \/ ChannelClosed \/ Return
  PROVE  PipelineInv' /\ UNCHANGED <<hist, book, book_id>>
<1>0. /\ TypeOK /\ FeedTypeOK /\ <<>> \in Seq(Event)
      /\ Len(<<>>) = 0 /\ BufferSize \in Nat
  BY BufferAssumption DEF PipelineInv, TypeOK
<1>1. /\ hist' = hist /\ sent' = sent /\ book' = book /\ book_id' = book_id /\ reply' = reply
      /\ stream' \in {stream, <<>>} /\ buffer' \in {buffer, <<>>} /\ chan' \in {chan, <<>>}
      /\ evq' \in {evq, <<>>} /\ rawq' \in {rawq, <<>>}
      /\ last_u' \in {last_u, 0} /\ running' \in {running, TRUE, FALSE}
      /\ pc' \in {pc, "await_event", "ended", "idle"}
      /\ net' \in {net, "reading", "off"} /\ parser' \in {parser, "parsing", "off"}
      /\ \/ synced' = FALSE
         \/ synced' = synced /\ last_u' = last_u /\ buffer' = buffer
      /\ pc' = pc \/ (pc # "await_snapshot" /\ pc' # "await_snapshot")
  BY DEF AsyncRun, Stop, ChannelClosed, Return, feedVars, stageVars, logicVars, syncVars, bookVars
<1>2. /\ {rawq', evq', chan'} \subseteq Seq(Event) /\ buffer' \in Seq(Event)
      /\ Len(rawq') <= 2 * BufferSize /\ Len(evq') <= BufferSize /\ Len(chan') <= BufferSize
  <2>1. /\ rawq \in Seq(Event) /\ evq \in Seq(Event) /\ chan \in Seq(Event) /\ buffer \in Seq(Event)
        /\ Len(rawq) <= 2 * BufferSize /\ Len(evq) <= BufferSize /\ Len(chan) <= BufferSize
    BY <1>0 DEF TypeOK
  <2>2. 0 <= 2 * BufferSize /\ 0 <= BufferSize
    BY <1>0
  <2>3. rawq' \in Seq(Event) /\ Len(rawq') <= 2 * BufferSize
    <3>1. CASE rawq' = rawq
      BY <2>1, <3>1
    <3>2. CASE rawq' = <<>>
      BY <1>0, <2>2, <3>2
    <3> QED BY <1>1, <3>1, <3>2
  <2>4. evq' \in Seq(Event) /\ Len(evq') <= BufferSize
    <3>1. CASE evq' = evq
      BY <2>1, <3>1
    <3>2. CASE evq' = <<>>
      BY <1>0, <2>2, <3>2
    <3> QED BY <1>1, <3>1, <3>2
  <2>5. chan' \in Seq(Event) /\ Len(chan') <= BufferSize
    <3>1. CASE chan' = chan
      BY <2>1, <3>1
    <3>2. CASE chan' = <<>>
      BY <1>0, <2>2, <3>2
    <3> QED BY <1>1, <3>1, <3>2
  <2>6. buffer' \in Seq(Event)
    BY <1>0, <1>1, <2>1
  <2> QED BY <2>3, <2>4, <2>5, <2>6
<1>3. FeedTypeOK'
  BY <1>0, <1>1 DEF FeedTypeOK
<1>4. /\ running' \in BOOLEAN /\ synced' \in BOOLEAN /\ last_u' \in Nat
      /\ pc' \in {"idle", "await_event", "await_snapshot", "ended"}
      /\ net' \in {"off", "reading", "closed"} /\ parser' \in {"off", "parsing", "closed"}
  <2>1. /\ running \in BOOLEAN /\ synced \in BOOLEAN /\ last_u \in Nat
        /\ pc \in {"idle", "await_event", "await_snapshot", "ended"}
        /\ net \in {"off", "reading", "closed"} /\ parser \in {"off", "parsing", "closed"}
    BY <1>0 DEF TypeOK
  <2>2. running' \in BOOLEAN /\ synced' \in BOOLEAN
    BY <1>1, <2>1, Zenon
  <2>3. last_u' \in Nat
    BY <1>1, <2>1
  <2>4. pc' \in {"idle", "await_event", "await_snapshot", "ended"}
    BY <1>1, <2>1
  <2>5. net' \in {"off", "reading", "closed"} /\ parser' \in {"off", "parsing", "closed"}
    BY <1>1, <2>1
  <2> QED BY <2>2, <2>3, <2>4, <2>5
<1>5. TypeOK'
  BY <1>0, <1>1, <1>2, <1>3, <1>4 DEF TypeOK
<1>6. Flows(Queues', hist', sent', book_id)
  BY <1>1, <1>5, Kept5
<1>7. SyncState'
  BY <1>1 DEF PipelineInv, SyncState
<1>8. OneBuffered'
  <2>1. pc' = "await_snapshot" => pc = "await_snapshot" /\ buffer' = buffer
    BY DEF AsyncRun, Stop, ChannelClosed, Return, logicVars, syncVars
  <2> QED BY <2>1 DEF PipelineInv, OneBuffered
<1> QED BY <1>1, <1>5, <1>6, <1>7, <1>8 DEF PipelineInv, BookVouched

\* What a step that takes the next event from the channel finds.
LEMMA ReceiveFacts ==
  ASSUME PipelineInv, Receive
  PROVE  /\ Head(chan) \in Event /\ GoodEvent(Head(chan), hist, sent)
         /\ Head(chan).pu \in Nat /\ Head(chan).u \in 1..sent /\ Head(chan).u \in Nat
         /\ Head(chan).pu < Head(chan).u /\ book_id <= Head(chan).pu
         /\ chan' \in Seq(Event) /\ Len(chan') <= BufferSize /\ reply = NoReply
         /\ hist' = hist /\ sent' = sent /\ evq' = evq /\ rawq' = rawq /\ stream' = stream
         /\ net' = net /\ parser' = parser /\ running' = running /\ pc = "await_event"
<1>1. TypeOK /\ FeedTypeOK /\ chan # <<>> /\ chan' = Tail(chan) /\ pc = "await_event"
  BY DEF PipelineInv, TypeOK, Receive
<1>2. /\ hist' = hist /\ sent' = sent /\ evq' = evq /\ rawq' = rawq /\ stream' = stream
      /\ net' = net /\ parser' = parser /\ running' = running
  BY DEF Receive, feedVars, stageVars
<1>3. chan \in Seq(Event) /\ Len(chan) <= BufferSize /\ BufferSize \in Nat
  BY <1>1, BufferAssumption DEF TypeOK
<1>4. Head(chan) \in Event /\ chan' \in Seq(Event) /\ Len(chan') <= BufferSize
  BY <1>1, <1>3, QueueHead
<1>5. GoodEvent(Head(chan), hist, sent) /\ book_id <= Head(chan).pu
  <2>1. Queues[2] = chan
    BY <1>1, QueuesTyped
  <2>2. AllGood(chan, hist, sent) /\ StartAfter(chan, book_id)
    BY <2>1 DEF PipelineInv, Flows
  <2>3. 1 \in DOMAIN chan /\ Head(chan) = chan[1]
    BY <1>1, <1>3, EmptySeq
  <2> QED BY <2>2, <2>3 DEF AllGood, StartAfter
<1>6. sent \in Nat
  BY <1>1 DEF FeedTypeOK
<1>7. reply = NoReply
  BY <1>1 DEF PipelineInv, SyncState
<1> QED BY <1>1, <1>2, <1>4, <1>5, <1>6, <1>7, GoodIds

\* The order of what is left when the next event is put into the buffer or applied.
LEMMA ReceiveFlows ==
  ASSUME PipelineInv, Receive, TypeOK', buffer' = buffer \/ buffer' = Append(buffer, Head(chan))
  PROVE  /\ Flows(Queues', hist', sent', book_id)
         /\ \A l \in 2..5 : StartAfter(Queues'[l], Head(chan).u)
<1>1. /\ hist' = hist /\ sent' = sent /\ evq' = evq /\ rawq' = rawq /\ stream' = stream
      /\ chan # <<>> /\ chan' = Tail(chan)
  BY DEF Receive, feedVars, stageVars
<1>2. TypeOK
  BY DEF PipelineInv
<1>3. /\ Queues[2] = chan /\ Queues'[2] = Tail(Queues[2])
      /\ Queues'[1] = Queues[1] \/ Queues'[1] = Append(Queues[1], Head(Queues[2]))
  BY <1>1, <1>2, QueuesAfter
<1>4. \A l \in 1..5 : l # 2 /\ l # 1 => Queues'[l] = Queues[l]
  <2>1. Queues'[3] = Queues[3] /\ Queues'[4] = Queues[4] /\ Queues'[5] = Queues[5]
    BY <1>1, <1>2, QueuesAfter
  <2> QED BY <2>1
<1>5. 2 \in 2..5 /\ 2 - 1 = 1
  OBVIOUS
<1>6. /\ Flows(Queues', hist', sent', book_id)
      /\ \A l \in 2..5 : StartAfter(Queues'[l], Head(Queues[2]).u)
  BY <1>1, <1>3, <1>4, <1>5, Taken
<1> QED BY <1>3, <1>6

\* An event is kept: not synced yet, or no longer, because it does not follow.
LEMMA InvKeepEvent ==
  ASSUME PipelineInv, RequestSnapshot \/ BufferEvent \/ DetectGap
  PROVE  PipelineInv' /\ UNCHANGED <<hist, book, book_id>>
<1>0. TypeOK /\ Receive
  BY DEF PipelineInv, RequestSnapshot, BufferEvent, DetectGap
<1>1. /\ ~synced' /\ last_u' = last_u /\ reply' = reply /\ book' = book /\ book_id' = book_id
      /\ pc' \in {"await_event", "await_snapshot", "ended"}
  BY DEF RequestSnapshot, BufferEvent, DetectGap, Loop, bookVars
<1>2. buffer' = Append(buffer, Head(chan)) /\ buffer' \in Seq(Event)
  <2>1. buffer \in Seq(Event) /\ Head(chan) \in Event
    BY <1>0, ReceiveFacts DEF TypeOK
  <2>2. CASE RequestSnapshot \/ DetectGap
    <3>1. buffer = <<>> /\ buffer' = <<Head(chan)>>
      BY <2>2 DEF RequestSnapshot, DetectGap, PipelineInv, SyncState
    <3>2. Append(<<>>, Head(chan)) = <<Head(chan)>>
      OBVIOUS
    <3> QED BY <2>1, <3>1, <3>2
  <2>3. CASE BufferEvent
    BY <2>1, <2>3, AppendProperties DEF BufferEvent
  <2> QED BY <2>2, <2>3
<1>3. TypeOK'
  <2>1. FeedTypeOK' /\ {rawq', evq', chan'} \subseteq Seq(Event) /\ synced' \in BOOLEAN
    <3>1. synced' \in BOOLEAN
      BY <1>0 DEF RequestSnapshot, BufferEvent, DetectGap, TypeOK
    <3> QED BY <1>0, <3>1, ReceiveFacts DEF TypeOK, FeedTypeOK
  <2> QED BY <1>0, <1>1, <1>2, <2>1, ReceiveFacts DEF TypeOK
<1>4. Flows(Queues', hist', sent', book_id)
  BY <1>0, <1>2, <1>3, ReceiveFlows
<1>5. (SyncState /\ BookVouched)'
  BY <1>0, <1>1, ReceiveFacts DEF PipelineInv, SyncState, BookVouched
<1>6. OneBuffered'
  <2>1. CASE RequestSnapshot
    BY <2>1 DEF RequestSnapshot, OneBuffered
  <2>2. CASE BufferEvent \/ DetectGap
    BY <2>2 DEF BufferEvent, DetectGap, Loop, OneBuffered
  <2> QED BY <2>1, <2>2
<1> QED BY <1>0, <1>1, <1>3, <1>4, <1>5, <1>6, ReceiveFacts DEF PipelineInv

\* An event that follows is applied.
LEMMA InvApplyEvent ==
  ASSUME PipelineInv, ApplyEvent
  PROVE  PipelineInv' /\ book_id' > book_id /\ UNCHANGED hist
<1> DEFINE e == Head(chan)
<1>0. TypeOK /\ FeedTypeOK /\ Receive
  BY DEF PipelineInv, ApplyEvent, TypeOK
<1>1. /\ e \in Event /\ GoodEvent(e, hist, sent) /\ e.pu \in Nat /\ e.u \in 1..sent /\ e.u \in Nat
      /\ e.pu < e.u /\ hist' = hist /\ sent' = sent /\ reply = NoReply
  BY <1>0, ReceiveFacts
<1>2. /\ synced /\ synced' = synced /\ e.pu = last_u /\ last_u' = e.u
      /\ book' = ApplyLevels(e.levels, book) /\ book_id' = e.u
      /\ buffer' = buffer /\ reply' = reply /\ pc' \in {"await_event", "ended"}
  BY DEF ApplyEvent, Loop
<1>3. e.pu = book_id /\ buffer = <<>> /\ book_id > 0
  BY <1>2 DEF PipelineInv, SyncState
<1>4. book' \in Book
  BY <1>0, <1>1, <1>2, ApplyLevelsType DEF Event, TypeOK
<1>5. TypeOK'
  <2>1. FeedTypeOK' /\ {rawq', evq', chan'} \subseteq Seq(Event)
    BY <1>0, ReceiveFacts DEF TypeOK, FeedTypeOK
  <2>2. book_id' \in 0..sent'
    BY <1>1, <1>2
  <2> QED BY <1>0, <1>1, <1>2, <1>4, <2>1, <2>2, ReceiveFacts DEF TypeOK
<1>6. Flows(Queues', hist', sent', book_id) /\ \A l \in 2..5 : StartAfter(Queues'[l], e.u)
  BY <1>0, <1>2, <1>5, ReceiveFlows
<1> HIDE DEF e
<1>7. Flows(Queues', hist', sent', book_id')
  <2>1. Queues'[1] = <<>>
    BY <1>0, <1>2, <1>3, <1>5, QueuesAfter
  <2>2. StartAfter(Queues'[1], e.u)
    <3>1. DOMAIN Queues'[1] = {}
      BY <2>1
    <3> QED BY <3>1 DEF StartAfter
  <2>3. \A l \in 1..5 : StartAfter(Queues'[l], book_id')
    BY <1>2, <1>6, <2>2
  <2> QED BY <1>6, <2>3 DEF Flows
<1>8. book_id' > book_id /\ book_id' > 0
  BY <1>1, <1>2, <1>3
<1>9. SyncState' /\ OneBuffered'
  BY <1>1, <1>2, <1>3, <1>8 DEF PipelineInv, SyncState, OneBuffered
<1>10. BookVouched'
  <2>1. hist \in Seq(Book) /\ sent \in 1..Len(hist)
    BY <1>0 DEF FeedTypeOK
  <2>2. Vouched(book, hist, e.pu) => Vouched(ApplyLevels(e.levels, book), hist, e.u)
    BY <1>1, <2>1, ApplyVouched
  <2> QED BY <1>1, <1>2, <1>3, <2>2 DEF PipelineInv, BookVouched
<1> QED BY <1>1, <1>5, <1>7, <1>8, <1>9, <1>10 DEF PipelineInv

\* The REST server answers: when it is not behind, after everything buffered.
LEMMA InvAnswer ==
  ASSUME PipelineInv, NEW id \in 1..MaxVersion, AnswerSnapshot(id)
  PROVE  PipelineInv' /\ UNCHANGED <<hist, book, book_id>>
<1>0. TypeOK /\ FeedTypeOK
  BY DEF PipelineInv, TypeOK
<1>1. /\ buffer' = buffer /\ chan' = chan /\ evq' = evq /\ rawq' = rawq /\ stream' = stream
      /\ book' = book /\ book_id' = book_id /\ synced' = synced /\ last_u' = last_u
      /\ pc' = pc /\ hist' = hist /\ sent' = sent /\ pc = "await_snapshot"
      /\ net' = net /\ parser' = parser /\ running' = running
      /\ id \in 1..Len(hist) /\ id + MaxLag >= Len(hist)
      /\ reply' = [id |-> id, levels |-> SnapshotOf(hist[id])]
  BY DEF AnswerSnapshot, feedVars, stageVars, syncVars, bookVars
<1>2. reply' \in Snapshot
  <2>1. hist[id] \in Book /\ id \in Nat
    BY <1>0, <1>1 DEF FeedTypeOK
  <2> QED BY <1>1, <2>1, SnapshotLevels DEF Snapshot
<1>3. TypeOK'
  BY <1>0, <1>1, <1>2 DEF TypeOK, FeedTypeOK
<1>4. Flows(Queues', hist', sent', book_id)
  BY <1>1, <1>3, Kept5
<1>5. SyncState' /\ BookVouched'
  BY <1>1 DEF PipelineInv, SyncState, BookVouched
<1>6. OneBuffered'
  BY <1>1 DEF PipelineInv, OneBuffered
<1> QED BY <1>1, <1>3, <1>4, <1>5, <1>6 DEF PipelineInv

\* The request fails, or the snapshot does not fit and the buffer is thrown away.
LEMMA InvMiss ==
  ASSUME PipelineInv, SnapshotFails \/ SnapshotMisses
  PROVE  PipelineInv' /\ UNCHANGED <<hist, book, book_id>>
<1>0. TypeOK /\ FeedTypeOK
  BY DEF PipelineInv, TypeOK
<1>1. /\ buffer' \in {buffer, <<>>} /\ chan' = chan /\ evq' = evq /\ rawq' = rawq
      /\ stream' = stream /\ book' = book /\ book_id' = book_id /\ synced' = synced
      /\ last_u' = last_u /\ pc' \in {"await_event", "ended"} /\ hist' = hist /\ sent' = sent
      /\ net' = net /\ parser' = parser /\ running' = running /\ reply' = NoReply
      /\ pc = "await_snapshot"
  BY DEF SnapshotFails, SnapshotMisses, Loop, feedVars, stageVars, syncVars, bookVars
<1>2. reply' \in Snapshot /\ buffer' \in Seq(Event)
  <2>1. EmptyBook \in Book
    BY DEF EmptyBook, Book, Quantity
  <2>2. buffer \in Seq(Event) /\ <<>> \in Seq(Event)
    BY <1>0 DEF TypeOK
  <2>3. reply' \in Snapshot
    BY <1>1, <2>1 DEF NoReply, Snapshot
  <2>4. buffer' \in Seq(Event)
    BY <1>1, <2>2
  <2> QED BY <2>3, <2>4
<1>3. TypeOK'
  BY <1>0, <1>1, <1>2 DEF TypeOK, FeedTypeOK
<1>4. Flows(Queues', hist', sent', book_id)
  BY <1>1, <1>3, Kept5
<1>5. (SyncState /\ OneBuffered /\ BookVouched)'
  BY <1>1 DEF PipelineInv, SyncState, OneBuffered, BookVouched
<1> QED BY <1>1, <1>3, <1>4, <1>5 DEF PipelineInv

\* A snapshot that fits: the published book is the exchange's at a later id, and
\* before everything still in the queues.
LEMMA InvFits ==
  ASSUME PipelineInv, SnapshotFits
  PROVE  PipelineInv' /\ book_id' > book_id /\ UNCHANGED hist
<1>0. /\ TypeOK /\ FeedTypeOK /\ buffer \in Seq(Event) /\ hist \in Seq(Book)
      /\ sent \in 1..Len(hist) /\ sent \in Nat /\ book_id \in Nat
  BY DEF PipelineInv, TypeOK, FeedTypeOK
<1>1. /\ hist' = hist /\ sent' = sent /\ stream' = stream /\ chan' = chan /\ evq' = evq
      /\ rawq' = rawq /\ net' = net /\ parser' = parser /\ running' = running
      /\ buffer' = <<>> /\ synced' = TRUE /\ reply' = NoReply
      /\ reply # NoReply /\ Brackets(buffer, reply.id)
      /\ book' = ApplyBuffered(buffer, reply.id, reply.levels)
      /\ book_id' = IdAfter(buffer, reply.id)
      /\ last_u' = buffer[Max(Kept(buffer, reply.id))].u
      /\ pc' \in {"await_event", "ended"}
  BY DEF SnapshotFits, feedVars, stageVars, Loop
<1> DEFINE n == Len(buffer)
           id == reply.id
<1>2. /\ id \in 1..Len(hist) /\ id \in Nat /\ reply.levels = SnapshotOf(hist[id])
      /\ AllGood(buffer, hist, sent) /\ InOrder(buffer) /\ StartAfter(buffer, book_id)
  <2>1. id \in 1..Len(hist) /\ reply.levels = SnapshotOf(hist[id])
    BY <1>1 DEF PipelineInv, SyncState
  <2>2. Queues[1] = buffer
    BY <1>0, QueuesTyped
  <2>3. AllGood(buffer, hist, sent) /\ StartAfter(buffer, book_id)
    BY <2>2 DEF PipelineInv, Flows
  <2>4. InOrder(buffer)
    <3>1. \A i, j \in DOMAIN buffer : Nearer(1, i, 1, j) => buffer[i].u <= buffer[j].pu
      BY <2>2 DEF PipelineInv, Flows
    <3> QED BY <3>1 DEF Nearer, InOrder
  <2> QED BY <2>1, <2>3, <2>4
<1>3. /\ n \in DOMAIN buffer /\ Max(Kept(buffer, id)) = n
      /\ IdAfter(buffer, id) = buffer[n].u
  <2>1. Brackets(buffer, id)
    BY <1>1
  <2>2. n \in 1..n /\ Max(Kept(buffer, id)) = n /\ IdAfter(buffer, id) = buffer[n].u
    BY <1>0, <1>2, <2>1, BufferEnd
  <2> QED BY <1>0, <2>2
<1>4. last_u' = buffer[n].u /\ book_id' = buffer[n].u
  BY <1>1, <1>3
<1> HIDE DEF n, id
<1>5. /\ buffer[n].u \in Nat /\ buffer[n].u \in 1..sent /\ buffer[n].pu \in Nat
      /\ buffer[n].pu < buffer[n].u /\ book_id <= buffer[n].pu
  <2>1. GoodEvent(buffer[n], hist, sent) /\ buffer[n] \in Event
    BY <1>0, <1>2, <1>3 DEF AllGood
  <2>2. book_id <= buffer[n].pu
    BY <1>2, <1>3 DEF StartAfter
  <2> QED BY <1>0, <2>1, <2>2, GoodIds
<1>6. book_id' > book_id /\ book_id' > 0
  BY <1>0, <1>4, <1>5
<1>7. TypeOK'
  <2>1. reply.levels \in Book /\ EmptyBook \in Book
    BY <1>0 DEF TypeOK, Snapshot, EmptyBook, Book, Quantity
  <2>2. book' \in Book
    BY <1>0, <1>1, <1>2, <2>1, BufferedType DEF id
  <2>3. reply' \in Snapshot
    BY <1>1, <2>1 DEF NoReply, Snapshot
  <2>4. book_id' \in 0..sent' /\ last_u' \in Nat
    BY <1>0, <1>1, <1>4, <1>5
  <2>5. buffer' \in Seq(Event) /\ synced' \in BOOLEAN
    BY <1>1
  <2>6. FeedTypeOK'
    BY <1>0, <1>1 DEF FeedTypeOK
  <2> QED BY <1>0, <1>1, <2>2, <2>3, <2>4, <2>5, <2>6 DEF TypeOK
<1>8. Flows(Queues', hist', sent', book_id')
  <2>1. Flows(Queues', hist', sent', book_id)
    BY <1>1, <1>7, Kept5
  <2>2. /\ Queues[1] = buffer /\ Queues'[1] = <<>> /\ Queues'[2] = Queues[2]
        /\ Queues'[3] = Queues[3] /\ Queues'[4] = Queues[4] /\ Queues'[5] = Queues[5]
    BY <1>0, <1>1, <1>7, QueuesAfter
  <2>3. ASSUME NEW k \in 1..5 PROVE StartAfter(Queues'[k], buffer[n].u)
    <3>1. CASE k = 1
      <4>1. DOMAIN Queues'[1] = {}
        BY <2>2
      <4> QED BY <3>1, <4>1 DEF StartAfter
    <3>2. CASE k \in 2..5
      <4>1. Queues'[k] = Queues[k]
        BY <2>2, <3>2
      <4>2. \A j \in DOMAIN Queues[k] : Nearer(1, n, k, j) => buffer[n].u <= Queues[k][j].pu
        BY <1>3, <2>2 DEF PipelineInv, Flows
      <4>3. \A j \in DOMAIN Queues[k] : buffer[n].u <= Queues[k][j].pu
        BY <3>2, <4>2 DEF Nearer
      <4> QED BY <4>1, <4>3 DEF StartAfter
    <3> QED BY <3>1, <3>2
  <2>4. \A k \in 1..5 : StartAfter(Queues'[k], book_id')
    BY <1>4, <2>3
  <2> QED BY <2>1, <2>4 DEF Flows
<1>9. SyncState' /\ OneBuffered'
  BY <1>1, <1>4, <1>6 DEF SyncState, OneBuffered
<1>10. BookVouched'
  <2>1. pc = "await_snapshot" /\ Brackets(buffer, id)
    BY <1>1 DEF SnapshotFits, id
  <2>2. DOMAIN buffer = 1..1
    BY <1>0, <2>1 DEF PipelineInv, OneBuffered
  <2>3. NoHole(buffer, hist)
    BY <2>2 DEF NoHole
  <2>4. Vouched(ApplyBuffered(buffer, id, SnapshotOf(hist[id])), hist, IdAfter(buffer, id))
    BY <1>0, <1>2, <2>1, <2>3, FitsVouched
  <2> QED BY <2>4, <1>1, <1>2 DEF BookVouched, id
<1> QED BY <1>1, <1>6, <1>7, <1>8, <1>9, <1>10 DEF PipelineInv

\* Every step keeps the invariant, and publishes nothing or a later book while
\* the exchange's history stands still.
LEMMA InvNext ==
  ASSUME PipelineInv, [Next]_vars
  PROVE  /\ PipelineInv'
         /\ \/ UNCHANGED <<book, book_id>>
            \/ book_id' > book_id /\ UNCHANGED hist
<1>1. CASE FeedNext /\ UNCHANGED <<stageVars, chan, running, logicVars>>
  BY <1>1, InvFeed DEF logicVars, bookVars
<1>2. CASE AsyncRun \/ Stop \/ ChannelClosed \/ Return
  BY <1>2, InvCalls
<1>3. CASE Network \/ Parser \/ Forward
  <2>1. UNCHANGED <<book, book_id>>
    BY <1>3 DEF Network, Parser, NetworkReads, NetworkFails, Parse, ParseFails, ParserEnds,
       Forward, logicVars, bookVars
  <2> QED BY <1>3, <2>1, InvThreads
<1>4. CASE RequestSnapshot \/ BufferEvent \/ DetectGap
  BY <1>4, InvKeepEvent
<1>5. CASE ApplyEvent
  BY <1>5, InvApplyEvent
<1>6. ASSUME NEW id \in 1..MaxVersion, AnswerSnapshot(id)
      PROVE  PipelineInv' /\ UNCHANGED <<book, book_id>>
  BY <1>6, InvAnswer
<1>7. CASE SnapshotFails \/ SnapshotMisses
  BY <1>7, InvMiss
<1>8. CASE SnapshotFits
  BY <1>8, InvFits
<1>9. CASE UNCHANGED vars
  BY <1>9 DEF vars, feedVars, stageVars, logicVars, syncVars, bookVars, PipelineInv, TypeOK,
     FeedTypeOK, Queues, SyncState, OneBuffered, BookVouched
<1> QED BY <1>1, <1>2, <1>3, <1>4, <1>5, <1>6, <1>7, <1>8, <1>9
        DEF Next, HandleEvent, HandleSnapshot

\* The inductive invariant holds in every behaviour of the pipeline.
THEOREM PipelineInvariance == Spec => []PipelineInv
BY InvInit, InvNext, PTL DEF Spec

-----------------------------------------------------------------------------
(***************************************************************************)
(* What follows from the invariant.                                        *)
(***************************************************************************)

\* The queues keep to the sizes that async_run gives the buffers, and every
\* variable of the logic loop keeps its range.
THEOREM PipelineTypeCorrect == Spec => []TypeOK
<1>1. PipelineInv => TypeOK
  BY DEF PipelineInv
<1> QED BY <1>1, PipelineInvariance, PTL

\* Three threads and the queues between them do not reorder anything: the
\* last_update_id that snapshot() shows goes forward only.
THEOREM PipelineMonotonic == Spec => NeverGoesBack
<1>1. PipelineInv /\ [Next]_vars => [book_id' >= book_id]_vars
  BY InvNext DEF PipelineInv, TypeOK
<1> QED BY <1>1, PipelineInvariance, PTL DEF Spec, NeverGoesBack

\* A published book is the exchange's.
LEMMA ExactFromInv ==
  ASSUME PipelineInv
  PROVE  BookExact
<1> SUFFICES ASSUME book_id > 0, Complete PROVE book = hist[book_id]
  BY DEF BookExact, Complete
<1>1. book_id \in 1..Len(hist)
  BY DEF PipelineInv, TypeOK, FeedTypeOK
<1>2. book \in [Price -> Quantity] /\ hist[book_id] \in [Price -> Quantity]
  BY <1>1 DEF PipelineInv, TypeOK, FeedTypeOK, Book
<1>3. \A p \in Price : book[p] = hist[book_id][p]
  BY DEF PipelineInv, BookVouched, Vouched
<1> QED BY <1>2, <1>3

\* Whatever frames the raw buffer drops or the parser rejects, however far the REST
\* server is behind the stream when it answers, and however far the stream has gone
\* on when the answer arrives: the book is exactly the exchange's.
THEOREM PipelineExactBook == Spec => []BookExact
<1>1. PipelineInv => BookExact
  BY ExactFromInv
<1> QED BY <1>1, PipelineInvariance, PTL

\* With complete snapshots the pipeline implements the same replica as
\* local_order_book: every step of any of its threads publishes a later state of
\* the exchange's history or publishes nothing, whatever is dropped or late.
THEOREM PipelineRefinement ==
  ASSUME Complete
  PROVE  Spec => ImplementsReplica
<1>1. Init => Replica!Init
  <2>1. EmptyBook \in Book
    BY DEF EmptyBook, Book, Quantity
  <2> QED BY <2>1 DEF Init, FeedInit, Replica!Init
<1>2. ASSUME PipelineInv, PipelineInv', [Next]_vars
      PROVE  [Replica!Next]_(Replica!replicaVars)
  <2>1. CASE UNCHANGED <<book, book_id>>
    <3>1. (\E x \in Book : hist' = Append(hist, x)) \/ UNCHANGED hist
      <4>1. CASE FeedNext
        BY <1>2, <4>1, FeedSteps DEF PipelineInv, TypeOK, Emit
      <4>2. CASE ~FeedNext
        BY <1>2, <4>2 DEF Next, AsyncRun, Stop, Network, NetworkReads, NetworkFails, Parser, Parse,
           ParseFails, ParserEnds, Forward, HandleEvent, RequestSnapshot, BufferEvent, ApplyEvent,
           DetectGap, Receive, ChannelClosed, Return, AnswerSnapshot, HandleSnapshot, SnapshotFails,
           SnapshotMisses, SnapshotFits, vars, feedVars
      <4> QED BY <4>1, <4>2
    <3> QED BY <2>1, <3>1 DEF Replica!Next, Replica!ExchangeUpdates, Replica!replicaVars
  <2>2. CASE book_id' > book_id /\ UNCHANGED hist
    <3>1. /\ book_id \in Nat /\ book_id' \in 0..sent' /\ hist' = hist
          /\ sent' \in 1..Len(hist') /\ hist \in Seq(Book)
      BY <1>2, <2>2 DEF PipelineInv, TypeOK, FeedTypeOK
    <3>2. book_id' \in (book_id + 1)..Len(hist) /\ book_id' > 0
      BY <2>2, <3>1
    <3>3. BookExact'
      BY <1>2, ExactFromInv, PTL
    <3>4. book' = hist[book_id']
      BY <3>1, <3>2, <3>3 DEF BookExact, Complete
    <3> QED BY <2>2, <3>2, <3>4 DEF Replica!Next, Replica!Publish
  <2> QED BY <2>1, <2>2, <1>2, InvNext
<1> QED BY <1>1, <1>2, PipelineInvariance, PTL DEF Spec, ImplementsReplica, Replica!Spec
=============================================================================
