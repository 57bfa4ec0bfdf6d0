----------------------- MODULE LocalOrderBookProofs -----------------------
(***************************************************************************)
(* Proofs about LocalOrderBook, for every set of prices and quantities,    *)
(* every depth limit and every length of the exchange's history.           *)
(***************************************************************************)
EXTENDS LocalOrderBook, DepthFeedProofs

-----------------------------------------------------------------------------
(***************************************************************************)
(* Type correctness.                                                       *)
(***************************************************************************)

\* The wait after a failure stays within max_wait.
LEMMA BackoffType ==
  ASSUME wait \in 0..max_wait
  PROVE  Backoff \in 0..max_wait
<1> DEFINE w == Max({wait, 1})
<1>1. w \in {wait, 1}
  BY MaxIsGreatest, max_wait \in Nat DEF max_wait
<1>2. w * 2 \in Nat
  BY <1>1 DEF max_wait
<1> HIDE DEF w
<1>3. {max_wait, w * 2} \in SUBSET Nat /\ max_wait \in Nat
  BY <1>2 DEF max_wait
<1>4. /\ Min({max_wait, w * 2}) \in {max_wait, w * 2}
      /\ Min({max_wait, w * 2}) <= max_wait
  BY <1>3, MinIsLeast
<1> QED BY <1>2, <1>3, <1>4 DEF Backoff, w

\* What Receive leaves of the stream, and the event it takes.
LEMMA ReceiveType ==
  ASSUME FeedTypeOK, Receive
  PROVE  FeedTypeOK' /\ Head(stream) \in Event
BY DEF FeedTypeOK, Receive

\* The initial state is well typed.
LEMMA TypeInit == Init => TypeOK
<1> SUFFICES ASSUME Init PROVE TypeOK
  OBVIOUS
<1>1. EmptyBook \in Book
  BY DEF EmptyBook, Book, Quantity
<1>2. FeedTypeOK
  BY <1>1 DEF Init, FeedInit, FeedTypeOK
<1>3. reply \in Snapshot
  BY <1>1 DEF Init, NoReply, Snapshot
<1>4. buffer \in Seq(Event) /\ last_u \in Nat /\ wait \in 0..max_wait
  BY DEF Init, max_wait
<1>5. running \in BOOLEAN /\ synced \in BOOLEAN
  BY DEF Init
<1> QED BY <1>1, <1>2, <1>3, <1>4, <1>5 DEF Init, TypeOK

\* Every step keeps the state well typed.
LEMMA TypeNext ==
  ASSUME TypeOK, [Next]_vars
  PROVE  TypeOK'
<1> USE DEF TypeOK
<1>0. NoReply \in Snapshot /\ EmptyBook \in Book
  BY DEF NoReply, Snapshot, EmptyBook, Book, Quantity
<1>1. CASE FeedNext /\ UNCHANGED clientVars
  BY <1>1, FeedTypeNext DEF clientVars, ctlVars, syncVars, bookVars
<1>2. CASE AsyncRun
  <2>1. FeedTypeOK'
    BY <1>2 DEF AsyncRun, FeedTypeOK
  <2>2. (buffer \in Seq(Event) /\ last_u \in Nat /\ wait \in 0..max_wait)'
    BY <1>2 DEF AsyncRun, max_wait
  <2>3. (running \in BOOLEAN /\ synced \in BOOLEAN)'
    BY <1>2 DEF AsyncRun
  <2> QED BY <1>2, <2>1, <2>2, <2>3 DEF AsyncRun, bookVars
<1>3. CASE Stop
  BY <1>3 DEF Stop, FeedTypeOK, feedVars, syncVars, bookVars
<1>4. CASE BufferEvent
  <2>1. wait - 1 \in 0..max_wait
    BY <1>4 DEF BufferEvent, max_wait
  <2> QED BY <1>4, <2>1, ReceiveType DEF BufferEvent, Loop, bookVars, Receive
<1>5. CASE RequestSnapshot
  BY <1>5, ReceiveType DEF RequestSnapshot, bookVars, Receive
<1>6. CASE ApplyEvent
  <2>1. FeedTypeOK' /\ Head(stream) \in Event
    BY <1>6, ReceiveType DEF ApplyEvent
  <2>2. ApplyLevels(Head(stream).levels, book) \in Book
    BY <2>1, ApplyLevelsType DEF Event
  <2> QED BY <1>6, <2>1, <2>2 DEF ApplyEvent, Receive, Loop, Event
<1>7. CASE DetectGap
  <2>1. FeedTypeOK' /\ <<Head(stream)>> \in Seq(Event)
    BY <1>7, ReceiveType DEF DetectGap
  <2> QED BY <1>7, <2>1 DEF DetectGap, Loop, bookVars, Receive
<1>8. ASSUME NEW id \in 1..MaxVersion, AnswerSnapshot(id)
      PROVE  TypeOK'
  <2>1. hist[id] \in Book
    BY <1>8 DEF AnswerSnapshot, FeedTypeOK
  <2>2. reply' \in Snapshot
    BY <1>8, <2>1, SnapshotLevels DEF AnswerSnapshot, Snapshot
  <2> QED BY <1>8, <2>2 DEF AnswerSnapshot, FeedTypeOK, feedVars, ctlVars, syncVars, bookVars
<1>9. CASE SnapshotFails
  BY <1>9, <1>0, BackoffType DEF SnapshotFails, Loop, feedVars, bookVars, FeedTypeOK
<1>10. CASE SnapshotMisses
  <2>1. EraseOlder(buffer, reply.id) \in Seq(Event)
    BY <1>0, BufferedType DEF Snapshot
  <2> QED BY <1>10, <1>0, <2>1, BackoffType
          DEF SnapshotMisses, Loop, feedVars, bookVars, FeedTypeOK
<1>11. CASE SnapshotFits
  <2>1. reply.id \in Nat /\ reply.levels \in Book
    BY DEF Snapshot
  <2>2. /\ ApplyBuffered(buffer, reply.id, reply.levels) \in Book
        /\ IdAfter(buffer, reply.id) \in Nat
    BY <2>1, BufferedType
  <2>3. Max(Kept(buffer, reply.id)) \in 1..Len(buffer)
    <3>1. Kept(buffer, reply.id) # {}
      BY <1>11 DEF SnapshotFits, Brackets
    <3> QED BY <2>1, <3>1, BufferedType, MaxIsGreatest, Len(buffer) \in Nat
  <2>4. buffer[Max(Kept(buffer, reply.id))].u \in Nat
    <3>1. buffer[Max(Kept(buffer, reply.id))] \in Event
      BY <2>3
    <3> QED BY <3>1 DEF Event
  <2> QED BY <1>11, <1>0, <2>2, <2>4 DEF SnapshotFits, Loop, feedVars, FeedTypeOK
<1>12. CASE GeneratorFails
  BY <1>12 DEF GeneratorFails, feedVars, syncVars, bookVars, FeedTypeOK
<1>13. CASE Disconnect
  BY <1>13 DEF Disconnect, clientVars, ctlVars, syncVars, bookVars, FeedTypeOK
<1>14. CASE UNCHANGED vars
  BY <1>14 DEF vars, feedVars, clientVars, ctlVars, syncVars, bookVars, FeedTypeOK
<1> QED BY <1>1, <1>2, <1>3, <1>4, <1>5, <1>6, <1>7, <1>8, <1>9, <1>10, <1>11,
           <1>12, <1>13, <1>14 DEF Next, HandleEvent, HandleSnapshot

\* The variables of async_run and of the feed keep their types: in particular
\* the wait never exceeds max_wait and book_ is always a total map of levels.
THEOREM TypeCorrect == Spec => []TypeOK
BY TypeInit, TypeNext, PTL DEF Spec

-----------------------------------------------------------------------------
(***************************************************************************)
(* The inductive invariant.  BookExact is not inductive: whether an event  *)
(* or a buffer may be applied depends on what the events on their way say  *)
(* about the exchange's history, in which order they are, and how far the  *)
(* published book is behind them.                                          *)
(***************************************************************************)

EventsGood == AllGood(stream, hist, sent) /\ AllGood(buffer, hist, sent)

\* The buffer, and the published book, are behind what is still to come.
Behind ==
    /\ EndBefore(buffer, NextPu(stream, sent))
    /\ book_id <= NextPu(stream, sent)
    /\ StartAfter(buffer, book_id)

SyncState ==
    /\ synced => last_u = book_id /\ book_id > 0 /\ buffer = <<>>
    /\ pc = "await_snapshot" => ~synced
    /\ reply # NoReply =>
          /\ pc = "await_snapshot"
          /\ reply.id \in 1..Len(hist)
          /\ reply.levels = SnapshotOf(hist[reply.id])

\* A REST server that is not behind answers after everything buffered.
ReplyAhead == MaxLag = 0 /\ reply # NoReply => EndBefore(buffer, reply.id)

\* Without loss the client is at the head of the chain.
Lossless ==
    ~CanLose =>
        /\ buffer # <<>> => buffer[Len(buffer)].u = NextPu(stream, sent)
        /\ synced => last_u = NextPu(stream, sent)
        /\ NoHole(buffer, hist)

BookVouched ==
    MaxLag = 0 \/ ~CanLose => (book_id > 0 => Vouched(book, hist, book_id))

IInv ==
    /\ TypeOK
    /\ EventsGood
    /\ Linked(stream, sent)
    /\ InOrder(buffer)
    /\ Behind
    /\ SyncState
    /\ ReplyAhead
    /\ Lossless
    /\ BookVouched

-----------------------------------------------------------------------------
(***************************************************************************)
(* The invariant is inductive: one lemma per kind of step.                 *)
(***************************************************************************)

\* The invariant holds initially: nothing is in flight, nothing is published.
LEMMA InvInit == Init => IInv
<1> SUFFICES ASSUME Init PROVE IInv
  OBVIOUS
<1>1. TypeOK
  BY TypeInit
<1>2. DOMAIN stream = {} /\ DOMAIN buffer = {} /\ stream = <<>> /\ buffer = <<>>
  BY DEF Init, FeedInit
<1>3. EventsGood /\ Linked(stream, sent) /\ InOrder(buffer) /\ NoHole(buffer, hist)
  BY <1>2 DEF EventsGood, AllGood, Linked, InOrder, NoHole
<1>4. Behind
  BY <1>2 DEF Behind, EndBefore, StartAfter, NextPu, Init, FeedInit
<1>5. SyncState /\ ReplyAhead /\ BookVouched /\ ~synced
  BY DEF SyncState, ReplyAhead, BookVouched, Init
<1>6. Lossless
  BY <1>2, <1>3, <1>5 DEF Lossless
<1> QED BY <1>1, <1>3, <1>4, <1>5, <1>6 DEF IInv

\* The exchange makes an update: everything said about the history stays true.
LEMMA InvUpdate ==
  ASSUME IInv, TypeOK', NEW x \in Book, hist' = Append(hist, x),
         UNCHANGED <<sent, stream>>, UNCHANGED clientVars
  PROVE  IInv'
<1> USE DEF IInv, TypeOK, FeedTypeOK
<1>0. /\ buffer' = buffer /\ reply' = reply /\ book' = book /\ book_id' = book_id
      /\ synced' = synced /\ last_u' = last_u /\ pc' = pc /\ stream' = stream /\ sent' = sent
  BY DEF clientVars, ctlVars, syncVars, bookVars
<1>1. EventsGood'
  BY <1>0, GoodStays DEF EventsGood
<1>2. (Linked(stream, sent) /\ InOrder(buffer) /\ Behind)'
  BY <1>0 DEF Behind
<1>3. SyncState'
  <2>1. ASSUME reply # NoReply
        PROVE  reply.id \in 1..Len(hist') /\ hist'[reply.id] = hist[reply.id]
    BY <2>1, HistoryGrows DEF SyncState
  <2> QED BY <1>0, <2>1 DEF SyncState
<1>4. (ReplyAhead)'
  BY <1>0 DEF ReplyAhead
<1>5. Lossless'
  <2>1. ~CanLose => NoHole(buffer, hist')
    BY NoHoleStays DEF Lossless, EventsGood
  <2> QED BY <1>0, <2>1 DEF Lossless
<1>6. BookVouched'
  <2>1. NextPu(stream, sent) \in 1..sent
    BY NextPuType DEF EventsGood
  <2>2. book_id > 0 => book_id \in 1..Len(hist)
    BY <2>1 DEF Behind
  <2> QED BY <1>0, <2>2, VouchedStays DEF BookVouched
<1> QED BY <1>1, <1>2, <1>3, <1>4, <1>5, <1>6

\* The exchange sends an event: it is good and it continues the chain.
LEMMA InvEmit ==
  ASSUME IInv, TypeOK', NEW first \in 1..MaxVersion, Emit(first), UNCHANGED clientVars
  PROVE  IInv'
<1> USE DEF IInv, TypeOK, FeedTypeOK
<1> DEFINE e == NextEvent(first)
           n == Len(stream) + 1
<1>0. /\ buffer' = buffer /\ reply' = reply /\ book' = book /\ book_id' = book_id
      /\ synced' = synced /\ last_u' = last_u /\ pc' = pc /\ hist' = hist
      /\ stream' = Append(stream, e) /\ sent' = Len(hist) /\ sent < Len(hist)
      /\ first \in (sent + 1)..Len(hist)
  BY DEF Emit, clientVars, ctlVars, syncVars, bookVars
<1>1. e.pu = sent /\ e.u = Len(hist) /\ GoodEvent(e, hist, Len(hist))
  BY <1>0 DEF GoodEvent, NextEvent
<1>2. /\ n \in Nat /\ DOMAIN stream' = 1..n /\ Len(stream') = n
      /\ DOMAIN stream = 1..(n - 1) /\ Len(stream) = n - 1
      /\ stream'[n] = e /\ \A i \in 1..(n - 1) : stream'[i] = stream[i]
  BY <1>0, AppendProperties
<1> HIDE DEF e, n
<1>3. EventsGood'
  <2>1. AllGood(stream, hist, Len(hist)) /\ AllGood(buffer, hist, Len(hist))
    BY GoodStays DEF EventsGood
  <2>2. AllGood(stream', hist, Len(hist))
    <3> SUFFICES ASSUME NEW i \in 1..n PROVE GoodEvent(stream'[i], hist, Len(hist))
      BY <1>2 DEF AllGood
    <3>1. CASE i = n
      BY <3>1, <1>1, <1>2
    <3>2. CASE i \in 1..(n - 1)
      BY <3>2, <2>1, <1>2 DEF AllGood
    <3> QED BY <3>1, <3>2, <1>2
  <2> QED BY <1>0, <2>1, <2>2 DEF EventsGood
<1>4. Linked(stream, sent)'
  <2> SUFFICES ASSUME NEW i \in 1..n
               PROVE  stream'[i].u = IF i = n THEN Len(hist) ELSE stream'[i + 1].pu
    BY <1>0, <1>2 DEF Linked
  <2>1. CASE i = n
    BY <2>1, <1>1, <1>2
  <2>2. CASE i # n /\ i + 1 = n
    <3>0. n \in Nat
      BY <1>2
    <3>1. i \in 1..(n - 1) /\ i = n - 1
      <4> HIDE DEF IInv, TypeOK, FeedTypeOK
      <4> QED BY <2>2, <3>0
    <3>2. stream[i].u = sent
      BY <3>1, <1>2 DEF Linked
    <3> QED BY <2>2, <3>1, <3>2, <1>1, <1>2
  <2>3. CASE i # n /\ i + 1 # n
    <3>0. n \in Nat
      BY <1>2
    <3>1. i \in 1..(n - 1) /\ i # n - 1 /\ i + 1 \in 1..(n - 1)
      <4> HIDE DEF IInv, TypeOK, FeedTypeOK
      <4> QED BY <2>3, <3>0
    <3>2. stream[i].u = stream[i + 1].pu
      BY <3>1, <1>2 DEF Linked
    <3> QED BY <2>3, <3>1, <3>2, <1>2
  <2> QED BY <2>1, <2>2, <2>3
<1>5. NextPu(stream', sent') = NextPu(stream, sent)
  <2>1. stream' # <<>>
    BY <1>2
  <2>2. CASE stream = <<>>
    <3>1. n = 1
      BY <2>2 DEF n
    <3> QED BY <2>1, <2>2, <3>1, <1>1, <1>2 DEF NextPu
  <2>3. CASE stream # <<>>
    <3>1. 1 \in 1..(n - 1)
      BY <2>3, <1>2, EmptySeq
    <3> QED BY <2>1, <2>3, <3>1, <1>2 DEF NextPu
  <2> QED BY <2>2, <2>3
<1>6. (InOrder(buffer) /\ Behind /\ SyncState /\ ReplyAhead /\ BookVouched /\ Lossless)'
  BY <1>0, <1>5 DEF Behind, SyncState, ReplyAhead, BookVouched, Lossless
<1> QED BY <1>3, <1>4, <1>6

\* The stream is thrown away: by a reconnect, or by a new subscription.
LEMMA InvDropStream ==
  ASSUME IInv
  PROVE  /\ AllGood(<<>>, hist, sent) /\ Linked(<<>>, sent)
         /\ NextPu(<<>>, sent) = sent
         /\ NextPu(stream, sent) <= sent
         /\ EndBefore(buffer, sent) /\ book_id <= sent
<1> USE DEF IInv, TypeOK, FeedTypeOK
<1>1. AllGood(<<>>, hist, sent) /\ Linked(<<>>, sent) /\ NextPu(<<>>, sent) = sent
  BY DEF AllGood, Linked, NextPu
<1>2. NextPu(stream, sent) \in 1..sent
  BY NextPuType DEF EventsGood
<1>3. EndBefore(buffer, sent)
  <2> SUFFICES ASSUME NEW i \in DOMAIN buffer PROVE buffer[i].u <= sent
    BY DEF EndBefore
  <2>1. GoodEvent(buffer[i], hist, sent)
    BY DEF EventsGood, AllGood
  <2> QED BY <2>1 DEF GoodEvent
<1>4. book_id <= sent
  BY <1>2 DEF Behind
<1> QED BY <1>1, <1>2, <1>3, <1>4

\* A reconnect loses events only where loss is allowed for.
LEMMA InvDisconnect ==
  ASSUME IInv, TypeOK', Disconnect
  PROVE  IInv'
<1> USE DEF IInv
<1>0. /\ buffer' = buffer /\ reply' = reply /\ book' = book /\ book_id' = book_id
      /\ synced' = synced /\ last_u' = last_u /\ pc' = pc /\ hist' = hist
      /\ sent' = sent /\ stream' = <<>> /\ CanLose
  BY DEF Disconnect, clientVars, ctlVars, syncVars, bookVars
<1>1. (EventsGood /\ Linked(stream, sent) /\ InOrder(buffer))'
  BY <1>0, InvDropStream DEF EventsGood
<1>2. Behind'
  BY <1>0, InvDropStream DEF Behind
<1>3. (SyncState /\ ReplyAhead /\ BookVouched /\ Lossless)'
  BY <1>0 DEF SyncState, ReplyAhead, BookVouched, Lossless
<1> QED BY <1>1, <1>2, <1>3

\* A new call of async_run starts with nothing buffered and the old book_.
LEMMA InvAsyncRun ==
  ASSUME IInv, TypeOK', AsyncRun
  PROVE  IInv'
<1> USE DEF IInv
<1>0. /\ buffer' = <<>> /\ reply' = reply /\ book' = book /\ book_id' = book_id
      /\ ~synced' /\ pc' = "await_event" /\ hist' = hist
      /\ sent' = sent /\ stream' = <<>> /\ pc # "await_snapshot"
  BY DEF AsyncRun, bookVars
<1>1. DOMAIN buffer' = {}
  BY <1>0
<1>2. (EventsGood /\ Linked(stream, sent) /\ InOrder(buffer) /\ NoHole(buffer, hist))'
  BY <1>0, <1>1, InvDropStream DEF EventsGood, AllGood, InOrder, NoHole
<1>3. Behind'
  BY <1>0, <1>1, InvDropStream DEF Behind, EndBefore, StartAfter
<1>4. reply' = NoReply
  BY <1>0 DEF SyncState
<1>5. (SyncState /\ ReplyAhead /\ BookVouched /\ Lossless)'
  BY <1>0, <1>2, <1>4 DEF SyncState, ReplyAhead, BookVouched, Lossless
<1> QED BY <1>2, <1>3, <1>5

\* The facts about the next event that every receiving step uses.
LEMMA ReceiveFacts ==
  ASSUME IInv, Receive
  PROVE  /\ Head(stream) \in Event /\ GoodEvent(Head(stream), hist, sent)
         /\ Head(stream).pu = NextPu(stream, sent)
         /\ Head(stream).u = NextPu(stream', sent')
         /\ Head(stream).pu \in Nat /\ Head(stream).u \in Nat
         /\ Head(stream).pu < Head(stream).u
         /\ AllGood(stream', hist, sent) /\ Linked(stream', sent)
         /\ EndBefore(buffer, Head(stream).pu) /\ book_id <= Head(stream).pu
         /\ hist' = hist /\ sent' = sent /\ pc = "await_event"
         /\ reply = NoReply
<1> USE DEF IInv, TypeOK, FeedTypeOK
<1>1. /\ stream # <<>> /\ stream' = Tail(stream) /\ hist' = hist /\ sent' = sent
      /\ pc = "await_event"
  BY DEF Receive
<1>2. AllGood(stream, hist, sent)
  BY DEF EventsGood
<1> QED BY <1>1, <1>2, HeadOfStream DEF Behind, SyncState

\* The client keeps the event (BufferEvent, RequestSnapshot).
LEMMA InvKeepEvent ==
  ASSUME IInv, TypeOK', Receive, ~synced, buffer' = Append(buffer, Head(stream)),
         UNCHANGED <<synced, last_u, reply, book, book_id>>
  PROVE  IInv'
<1> USE DEF IInv, TypeOK, FeedTypeOK
<1> DEFINE e == Head(stream)
<1>1. /\ e \in Event /\ GoodEvent(e, hist, sent)
      /\ e.pu = NextPu(stream, sent) /\ e.u = NextPu(stream', sent')
      /\ e.pu \in Nat /\ e.u \in Nat /\ e.pu < e.u
      /\ AllGood(stream', hist, sent) /\ Linked(stream', sent)
      /\ EndBefore(buffer, e.pu) /\ book_id <= e.pu
      /\ hist' = hist /\ sent' = sent /\ reply = NoReply
      /\ buffer' = Append(buffer, e)
  BY ReceiveFacts
<1> HIDE DEF e
<1>2. AllGood(buffer, hist, sent) /\ InOrder(buffer)
  BY DEF EventsGood
<1>3. /\ AllGood(buffer', hist, sent) /\ InOrder(buffer') /\ EndBefore(buffer', e.u)
      /\ buffer'[Len(buffer')] = e
      /\ NoHole(buffer, hist) /\ (buffer # <<>> => buffer[Len(buffer)].u = e.pu)
            => NoHole(buffer', hist)
  <2>1. buffer \in Seq(Event) /\ hist \in Seq(Book) /\ sent \in 1..Len(hist)
    OBVIOUS
  <2>2. /\ e \in Event /\ GoodEvent(e, hist, sent) /\ EndBefore(buffer, e.pu)
        /\ buffer' = Append(buffer, e)
    BY <1>1
  <2> HIDE DEF IInv, TypeOK, FeedTypeOK
  <2> QED BY <2>1, <2>2, <1>2, AppendEvent
<1>4. StartAfter(buffer', book_id)
  <2> SUFFICES ASSUME NEW i \in DOMAIN buffer' PROVE book_id <= buffer'[i].pu
    BY DEF StartAfter
  <2>1. /\ i \in DOMAIN buffer => buffer'[i] = buffer[i]
        /\ i \notin DOMAIN buffer => buffer'[i] = e
    <3>1. buffer \in Seq(Event) /\ e \in Event /\ buffer' = Append(buffer, e)
      BY <1>1
    <3> HIDE DEF IInv, TypeOK, FeedTypeOK
    <3>2. /\ Len(buffer) \in Nat /\ DOMAIN buffer = 1..Len(buffer)
          /\ DOMAIN buffer' = 1..(Len(buffer) + 1)
      BY <3>1, AppendProperties
    <3>3. /\ \A k \in 1..Len(buffer) : buffer'[k] = buffer[k]
          /\ buffer'[Len(buffer) + 1] = e
      BY <3>1, AppendProperties
    <3> QED BY <3>2, <3>3
  <2>2. i \in DOMAIN buffer => book_id <= buffer[i].pu
    BY DEF Behind, StartAfter
  <2> QED BY <2>1, <2>2, <1>1
<1>5. Behind'
  BY <1>1, <1>3, <1>4 DEF Behind
<1>6. (SyncState /\ ReplyAhead /\ BookVouched)'
  BY <1>1 DEF SyncState, ReplyAhead, BookVouched
<1>7. Lossless'
  BY <1>1, <1>3 DEF Lossless
<1> QED BY <1>1, <1>3, <1>5, <1>6, <1>7 DEF EventsGood

\* The client applies an event that continues its book.
LEMMA InvApplyEvent ==
  ASSUME IInv, TypeOK', ApplyEvent
  PROVE  IInv' /\ book_id' > book_id
<1> USE DEF IInv, TypeOK, FeedTypeOK
<1> DEFINE e == Head(stream)
<1>0. Receive
  BY DEF ApplyEvent
<1>1. /\ e \in Event /\ GoodEvent(e, hist, sent)
      /\ e.pu = NextPu(stream, sent) /\ e.u = NextPu(stream', sent')
      /\ e.pu \in Nat /\ e.u \in Nat /\ e.pu < e.u
      /\ AllGood(stream', hist, sent) /\ Linked(stream', sent)
      /\ hist' = hist /\ sent' = sent /\ reply = NoReply
  BY <1>0, ReceiveFacts
<1>2. /\ synced /\ synced' = synced /\ e.pu = last_u /\ last_u' = e.u
      /\ book' = ApplyLevels(e.levels, book) /\ book_id' = e.u
      /\ buffer' = buffer /\ reply' = reply
      /\ pc' \in {"await_event", "done"}
  BY DEF ApplyEvent, Loop
<1> HIDE DEF e
<1>3. e.pu = book_id /\ buffer = <<>> /\ DOMAIN buffer = {}
  BY <1>2 DEF SyncState
<1>4. (EventsGood /\ Linked(stream, sent) /\ InOrder(buffer))'
  BY <1>1, <1>2 DEF EventsGood
<1>5. Behind'
  BY <1>1, <1>2, <1>3 DEF Behind, EndBefore, StartAfter
<1>6. SyncState' /\ ReplyAhead'
  BY <1>1, <1>2, <1>3 DEF SyncState, ReplyAhead
<1>7. Lossless'
  BY <1>1, <1>2, <1>3 DEF Lossless
<1>8. BookVouched'
  <2>1. book_id > 0
    BY <1>2 DEF SyncState
  <2>2. Vouched(book, hist, e.pu) => Vouched(ApplyLevels(e.levels, book), hist, e.u)
    BY <1>1, ApplyVouched
  <2> QED BY <1>1, <1>2, <1>3, <2>1, <2>2 DEF BookVouched
<1>9. book_id' > book_id
  BY <1>1, <1>2, <1>3
<1> QED BY <1>4, <1>5, <1>6, <1>7, <1>8, <1>9

\* The client sees a gap: only where loss is allowed for.
LEMMA InvDetectGap ==
  ASSUME IInv, TypeOK', DetectGap
  PROVE  IInv'
<1> USE DEF IInv, TypeOK, FeedTypeOK
<1> DEFINE e == Head(stream)
<1>0. Receive
  BY DEF DetectGap
<1>1. /\ e \in Event /\ GoodEvent(e, hist, sent)
      /\ e.pu = NextPu(stream, sent) /\ e.u = NextPu(stream', sent')
      /\ e.pu \in Nat /\ e.u \in Nat /\ e.pu < e.u
      /\ AllGood(stream', hist, sent) /\ Linked(stream', sent)
      /\ book_id <= e.pu
      /\ hist' = hist /\ sent' = sent /\ reply = NoReply
  BY <1>0, ReceiveFacts
<1>2. /\ synced /\ ~synced' /\ e.pu # last_u /\ buffer' = <<e>>
      /\ book' = book /\ book_id' = book_id /\ reply' = reply
  BY DEF DetectGap, bookVars
<1> HIDE DEF e
<1>3. DOMAIN buffer' = {1} /\ Len(buffer') = 1 /\ buffer'[1] = e
  BY <1>2
<1>4. (EventsGood /\ Linked(stream, sent) /\ InOrder(buffer))'
  BY <1>1, <1>3 DEF EventsGood, AllGood, InOrder
<1>5. Behind'
  BY <1>1, <1>2, <1>3 DEF Behind, EndBefore, StartAfter
<1>6. (SyncState /\ ReplyAhead /\ BookVouched)'
  BY <1>1, <1>2 DEF SyncState, ReplyAhead, BookVouched
<1>7. Lossless'
  BY <1>1, <1>2 DEF Lossless
<1> QED BY <1>4, <1>5, <1>6, <1>7

\* The REST server answers.
LEMMA InvAnswer ==
  ASSUME IInv, TypeOK', NEW id \in 1..MaxVersion, AnswerSnapshot(id)
  PROVE  IInv'
<1> USE DEF IInv, TypeOK, FeedTypeOK
<1>0. /\ buffer' = buffer /\ book' = book /\ book_id' = book_id
      /\ synced' = synced /\ last_u' = last_u /\ pc' = pc /\ hist' = hist
      /\ sent' = sent /\ stream' = stream /\ pc = "await_snapshot"
      /\ id \in 1..Len(hist) /\ id + MaxLag >= Len(hist)
      /\ reply'.id = id /\ reply'.levels = SnapshotOf(hist[id])
  BY DEF AnswerSnapshot, feedVars, ctlVars, syncVars, bookVars
<1>1. (EventsGood /\ Linked(stream, sent) /\ InOrder(buffer) /\ Behind)'
  BY <1>0 DEF EventsGood, Behind
<1>2. SyncState'
  BY <1>0 DEF SyncState
<1>3. ReplyAhead'
  <2> SUFFICES ASSUME MaxLag = 0, NEW i \in DOMAIN buffer PROVE buffer[i].u <= id
    BY <1>0 DEF ReplyAhead, EndBefore
  <2>1. buffer[i].u <= sent /\ buffer[i].u \in Nat
    <3>1. GoodEvent(buffer[i], hist, sent) /\ buffer[i] \in Event /\ sent \in Nat
      BY DEF EventsGood, AllGood
    <3> HIDE DEF IInv, TypeOK, FeedTypeOK
    <3> QED BY <3>1, GoodIds
  <2> QED BY <1>0, <2>1
<1>4. Lossless' /\ BookVouched'
  BY <1>0 DEF Lossless, BookVouched
<1> QED BY <1>1, <1>2, <1>3, <1>4

\* A failed or a missed snapshot: what is left of the buffer is still good.
LEMMA InvMiss ==
  ASSUME IInv, TypeOK', reply' = NoReply, UNCHANGED <<feedVars, synced, last_u, book, book_id>>,
         pc' # "await_snapshot",
         \/ buffer' = buffer
         \/ reply.id \in Nat /\ buffer' = EraseOlder(buffer, reply.id)
  PROVE  IInv'
<1> USE DEF IInv, TypeOK, FeedTypeOK
<1>0. /\ hist' = hist /\ sent' = sent /\ stream' = stream /\ synced' = synced
      /\ last_u' = last_u /\ book' = book /\ book_id' = book_id
  BY DEF feedVars
<1> DEFINE n == NextPu(stream, sent)
<1>1. /\ AllGood(buffer, hist, sent) /\ InOrder(buffer)
      /\ EndBefore(buffer, n) /\ StartAfter(buffer, book_id)
  BY DEF EventsGood, Behind
<1> HIDE DEF n
<1>2. /\ AllGood(buffer', hist, sent) /\ InOrder(buffer')
      /\ EndBefore(buffer', n) /\ StartAfter(buffer', book_id)
      /\ buffer' # <<>> => buffer # <<>> /\ buffer'[Len(buffer')] = buffer[Len(buffer)]
      /\ NoHole(buffer, hist) => NoHole(buffer', hist)
  <2>1. CASE buffer' = buffer
    BY <2>1, <1>1
  <2>2. CASE reply.id \in Nat /\ buffer' = EraseOlder(buffer, reply.id)
    BY <2>2, <1>1, EraseKeeps
  <2> QED BY <2>1, <2>2
<1>3. (EventsGood /\ Linked(stream, sent) /\ InOrder(buffer) /\ Behind)'
  BY <1>0, <1>2 DEF EventsGood, Behind, n
<1>4. SyncState'
  <2>1. buffer = <<>> => buffer' = <<>>
    BY <1>2
  <2> QED BY <1>0, <2>1 DEF SyncState
<1>5. ReplyAhead' /\ BookVouched'
  BY <1>0 DEF ReplyAhead, BookVouched
<1>6. Lossless'
  BY <1>0, <1>2 DEF Lossless
<1> QED BY <1>3, <1>4, <1>5, <1>6

\* A snapshot that fits: the published book is the exchange's at a later id.
LEMMA InvFits ==
  ASSUME IInv, TypeOK', SnapshotFits
  PROVE  IInv' /\ book_id' > book_id
<1> USE DEF IInv, TypeOK, FeedTypeOK
<1>0. /\ hist' = hist /\ sent' = sent /\ stream' = stream
      /\ buffer' = <<>> /\ synced' = TRUE /\ reply' = NoReply
      /\ reply # NoReply /\ Brackets(buffer, reply.id)
      /\ book' = ApplyBuffered(buffer, reply.id, reply.levels)
      /\ book_id' = IdAfter(buffer, reply.id)
      /\ last_u' = buffer[Max(Kept(buffer, reply.id))].u
      /\ pc' # "await_snapshot"
  BY DEF SnapshotFits, feedVars, Loop
<1> DEFINE n == Len(buffer)
           id == reply.id
<1>1. /\ id \in 1..Len(hist) /\ id \in Nat /\ reply.levels = SnapshotOf(hist[id])
      /\ AllGood(buffer, hist, sent) /\ InOrder(buffer)
  BY <1>0 DEF SyncState, EventsGood
<1>2. /\ n \in DOMAIN buffer /\ Max(Kept(buffer, id)) = n
      /\ IdAfter(buffer, id) = buffer[n].u
  BY <1>0, <1>1, BufferEnd
<1>3. last_u' = buffer[n].u /\ book_id' = buffer[n].u
  BY <1>0, <1>2
<1> HIDE DEF n, id
<1>4. /\ buffer[n].u \in Nat /\ buffer[n].pu \in Nat /\ buffer[n].pu < buffer[n].u
      /\ buffer[n].u <= NextPu(stream, sent) /\ book_id <= buffer[n].pu
  <2>1. GoodEvent(buffer[n], hist, sent) /\ buffer[n] \in Event /\ sent \in Nat
    BY <1>1, <1>2 DEF AllGood
  <2>2. buffer[n].u <= NextPu(stream, sent) /\ book_id <= buffer[n].pu
    BY <1>2 DEF Behind, EndBefore, StartAfter
  <2> HIDE DEF IInv, TypeOK, FeedTypeOK
  <2>3. /\ buffer[n].u \in Nat /\ buffer[n].pu \in Nat /\ buffer[n].pu < buffer[n].u
    BY <2>1, GoodIds
  <2> QED BY <2>2, <2>3
<1>5. book_id' > book_id
  <2>1. book_id \in Nat
    OBVIOUS
  <2> HIDE DEF IInv, TypeOK, FeedTypeOK
  <2> QED BY <2>1, <1>3, <1>4
<1>6. DOMAIN buffer' = {}
  BY <1>0
<1>7. (EventsGood /\ Linked(stream, sent) /\ InOrder(buffer) /\ NoHole(buffer, hist))'
  BY <1>0, <1>6 DEF EventsGood, AllGood, InOrder, NoHole
<1>8. Behind'
  BY <1>0, <1>3, <1>4, <1>6 DEF Behind, EndBefore, StartAfter
<1>9. SyncState' /\ ReplyAhead'
  BY <1>0, <1>3, <1>5 DEF SyncState, ReplyAhead
<1>10. Lossless'
  <2>1. ASSUME ~CanLose PROVE buffer[n].u = NextPu(stream, sent)
    <3>1. buffer # <<>>
      BY <1>2
    <3> QED BY <2>1, <3>1 DEF Lossless, n
  <2> QED BY <1>0, <1>3, <1>7, <2>1 DEF Lossless
<1>11. BookVouched'
  <2>1. ASSUME MaxLag = 0 \/ ~CanLose
        PROVE  EndBefore(buffer, id) \/ NoHole(buffer, hist)
    BY <2>1, <1>0 DEF ReplyAhead, Lossless, id
  <2>2. ASSUME MaxLag = 0 \/ ~CanLose
        PROVE  Vouched(book', hist, book_id')
    <3>1. Brackets(buffer, id)
      BY <1>0 DEF id
    <3>2. Vouched(ApplyBuffered(buffer, id, SnapshotOf(hist[id])), hist, IdAfter(buffer, id))
      BY <2>1, <2>2, <3>1, <1>1, FitsVouched
    <3> QED BY <3>2, <1>0, <1>1 DEF id
  <2> QED BY <1>0, <2>2 DEF BookVouched
<1> QED BY <1>5, <1>7, <1>8, <1>9, <1>10, <1>11

\* Every step keeps the invariant, and publishes nothing or a later book
\* while the exchange's history stands still.
LEMMA InvNext ==
  ASSUME IInv, [Next]_vars
  PROVE  /\ IInv'
         /\ \/ UNCHANGED <<book, book_id>>
            \/ book_id' > book_id /\ UNCHANGED hist
<1>0. TypeOK /\ TypeOK'
  BY TypeNext DEF IInv
<1>1. CASE FeedNext /\ UNCHANGED clientVars
  <2>1. FeedTypeOK
    BY <1>0 DEF TypeOK
  <2> QED BY <1>0, <1>1, <2>1, FeedSteps, InvUpdate, InvEmit DEF clientVars, bookVars
<1>2. CASE AsyncRun
  BY <1>0, <1>2, InvAsyncRun DEF AsyncRun, bookVars
<1>3. CASE Stop
  BY <1>0, <1>3 DEF Stop, IInv, feedVars, syncVars, bookVars, EventsGood, Behind,
     SyncState, ReplyAhead, Lossless, BookVouched
<1>4. CASE BufferEvent
  BY <1>0, <1>4, InvKeepEvent DEF BufferEvent, bookVars
<1>5. CASE RequestSnapshot
  BY <1>0, <1>5, InvKeepEvent DEF RequestSnapshot, bookVars
<1>6. CASE ApplyEvent
  BY <1>0, <1>6, InvApplyEvent DEF ApplyEvent, Receive
<1>7. CASE DetectGap
  BY <1>0, <1>7, InvDetectGap DEF DetectGap, bookVars
<1>8. ASSUME NEW id \in 1..MaxVersion, AnswerSnapshot(id)
      PROVE  IInv' /\ UNCHANGED <<book, book_id>>
  BY <1>0, <1>8, InvAnswer DEF AnswerSnapshot, bookVars
<1>9. CASE SnapshotFails
  BY <1>0, <1>9, InvMiss DEF SnapshotFails, Loop, bookVars
<1>10. CASE SnapshotMisses
  <2>1. reply.id \in Nat
    BY <1>0 DEF TypeOK, Snapshot
  <2> QED BY <1>0, <1>10, <2>1, InvMiss DEF SnapshotMisses, Loop, bookVars
<1>11. CASE SnapshotFits
  BY <1>0, <1>11, InvFits DEF SnapshotFits, feedVars
<1>12. CASE GeneratorFails
  <2>1. reply' = NoReply
    BY <1>12 DEF GeneratorFails, IInv, SyncState
  <2> QED BY <1>0, <1>12, <2>1 DEF GeneratorFails, IInv, feedVars, syncVars, bookVars,
          EventsGood, Behind, SyncState, ReplyAhead, Lossless, BookVouched
<1>13. CASE Disconnect
  BY <1>0, <1>13, InvDisconnect DEF Disconnect, clientVars, bookVars
<1>14. CASE UNCHANGED vars
  BY <1>0, <1>14 DEF vars, IInv, feedVars, clientVars, ctlVars, syncVars, bookVars,
     EventsGood, Behind, SyncState, ReplyAhead, Lossless, BookVouched
<1> QED BY <1>1, <1>2, <1>3, <1>4, <1>5, <1>6, <1>7, <1>8, <1>9, <1>10, <1>11,
           <1>12, <1>13, <1>14 DEF Next, HandleEvent, HandleSnapshot

\* The inductive invariant holds in every behaviour.
THEOREM Invariance == Spec => []IInv
BY InvInit, InvNext, PTL DEF Spec

-----------------------------------------------------------------------------
(***************************************************************************)
(* What follows from the invariant.                                        *)
(***************************************************************************)

\* The id of a published book is the id of an update the exchange has sent.
LEMMA PublishedId ==
  ASSUME IInv, book_id > 0
  PROVE  book_id \in 1..Len(hist)
<1>1. NextPu(stream, sent) \in 1..sent
  BY NextPuType DEF IInv, TypeOK, FeedTypeOK, EventsGood
<1> QED BY <1>1 DEF IInv, TypeOK, FeedTypeOK, Behind

\* When no event can be lost, or the REST server is never behind the stream,
\* a complete snapshot leads to the exchange's book and to nothing else.
LEMMA ExactFromInv ==
  ASSUME IInv, MaxLag = 0 \/ ~CanLose
  PROVE  BookExact
<1> SUFFICES ASSUME book_id > 0, Complete PROVE book = hist[book_id]
  BY DEF BookExact, Complete
<1>1. book \in [Price -> Quantity] /\ hist[book_id] \in [Price -> Quantity]
  BY PublishedId DEF IInv, TypeOK, FeedTypeOK, Book
<1>2. \A p \in Price : book[p] = hist[book_id][p]
  BY DEF IInv, BookVouched, Vouched
<1> QED BY <1>1, <1>2

\* The buffered events are in the order of their ids and do not overlap, also
\* across reconnects, and the locals of async_run keep their ranges: erase_if
\* leaves a suffix of the buffer.
THEOREM OrderedBuffer == Spec => []BufferSound
<1>1. IInv => BufferSound
  BY DEF IInv, InOrder, BufferInOrder, BufferSound
<1> QED BY <1>1, Invariance, PTL

\* last_update_id never goes back, whatever is lost, late or repeated.
THEOREM Monotonic == Spec => NeverGoesBack
<1>1. IInv /\ [Next]_vars => [book_id' >= book_id]_vars
  BY InvNext DEF IInv, TypeOK
<1> QED BY <1>1, Invariance, PTL DEF Spec, NeverGoesBack

\* If events cannot be lost, or the REST server is never behind the stream,
\* the book that snapshot() returns is exactly the exchange's.
THEOREM ExactBook ==
  ASSUME MaxLag = 0 \/ ~CanLose
  PROVE  Spec => []BookExact
<1>1. IInv => BookExact
  BY ExactFromInv
<1> QED BY <1>1, Invariance, PTL

\* Under the same condition, and however short the snapshots are, no level of
\* the book is one that the exchange did not have.
THEOREM NoPhantoms ==
  ASSUME MaxLag = 0 \/ ~CanLose
  PROVE  Spec => []NoPhantomLevel
<1>1. IInv => NoPhantomLevel
  BY DEF IInv, BookVouched, Vouched, NoPhantomLevel
<1> QED BY <1>1, Invariance, PTL

\* Without loss a synced client that has drained the stream is up to date.
THEOREM Current == Spec => []CaughtUp
<1>1. IInv => CaughtUp
  BY DEF IInv, Lossless, SyncState, NextPu, CaughtUp
<1> QED BY <1>1, Invariance, PTL

\* With complete snapshots, async_run implements the replica: every step
\* publishes a later state of the exchange's history or publishes nothing.
THEOREM Refinement ==
  ASSUME MaxLag = 0 \/ ~CanLose, Complete
  PROVE  Spec => ImplementsReplica
<1>1. Init => Replica!Init
  <2>1. EmptyBook \in Book
    BY DEF EmptyBook, Book, Quantity
  <2> QED BY <2>1 DEF Init, FeedInit, Replica!Init
<1>2. ASSUME IInv, IInv', [Next]_vars
      PROVE  [Replica!Next]_(Replica!replicaVars)
  <2>1. CASE UNCHANGED <<book, book_id>>
    <3>1. CASE FeedNext /\ UNCHANGED clientVars
      <4>1. (\E x \in Book : hist' = Append(hist, x)) \/ UNCHANGED hist
        BY <3>1, <1>2, FeedSteps DEF IInv, TypeOK, Emit
      <4> QED BY <4>1, <2>1
              DEF Replica!Next, Replica!ExchangeUpdates, Replica!replicaVars
    <3>2. CASE ~(FeedNext /\ UNCHANGED clientVars)
      <4>1. UNCHANGED hist
        BY <1>2, <3>2 DEF Next, HandleEvent, HandleSnapshot, AsyncRun, Stop, BufferEvent,
           RequestSnapshot, ApplyEvent, DetectGap, Receive, AnswerSnapshot, SnapshotFails,
           SnapshotMisses, SnapshotFits, GeneratorFails, Disconnect, vars, feedVars
      <4> QED BY <4>1, <2>1 DEF Replica!replicaVars
    <3> QED BY <3>1, <3>2
  <2>2. CASE book_id' > book_id /\ UNCHANGED hist
    <3>0. book_id \in Nat /\ book_id' \in Nat /\ hist' \in Seq(Book)
      BY <1>2 DEF IInv, TypeOK, FeedTypeOK
    <3>1. (book_id > 0)'
      BY <2>2, <3>0
    <3>2. (book_id \in 1..Len(hist))'
      BY <1>2, <3>1, PublishedId, PTL
    <3>3. BookExact'
      BY <1>2, ExactFromInv, PTL
    <3>4. book' = hist[book_id']
      BY <2>2, <3>1, <3>3 DEF BookExact, Complete
    <3>5. book_id' \in (book_id + 1)..Len(hist)
      BY <2>2, <3>0, <3>2
    <3> QED BY <2>2, <3>4, <3>5 DEF Replica!Next, Replica!Publish
  <2> QED BY <2>1, <2>2, <1>2, InvNext
<1> QED BY <1>1, <1>2, Invariance, PTL DEF Spec, ImplementsReplica, Replica!Spec
=============================================================================
