-------------------------- MODULE LocalOrderBook --------------------------
(***************************************************************************)
(* binapi2::fapi::order_book::local_order_book: the coroutine async_run    *)
(* that keeps a local copy of the exchange's book, composed with DepthFeed.*)
(*                                                                         *)
(* The coroutine is suspended in two places, which are the values of pc:   *)
(* "await_event" (co_await gen) and "await_snapshot" (the REST request).   *)
(* Everything between two suspensions is one step.  While the REST request *)
(* is pending the generator is not read, so events wait in the stream.     *)
(* The market_stream generator reconnects by itself: the events that were  *)
(* on their way are lost and the client is not told (Disconnect).          *)
(***************************************************************************)
EXTENDS DepthFeed

CONSTANT CanLose   \* whether the connection may drop and be re-opened

ASSUME LossAssumption == CanLose \in BOOLEAN

VARIABLES
    pc,       \* where async_run is suspended, or "idle", "done", "failed"
    running,  \* running_
    synced,
    buffer,   \* events kept until a snapshot fits
    last_u,
    wait,     \* events_until_snap
    reply,    \* the REST server's answer, once it has made one
    book,     \* the levels of book_
    book_id   \* book_.last_update_id

ctlVars  == <<pc, running>>
syncVars == <<synced, buffer, last_u, wait>>
bookVars == <<book, book_id>>
clientVars == <<ctlVars, syncVars, reply, bookVars>>
vars == <<feedVars, clientVars>>

max_wait == 50

Snapshot == [id : Nat, levels : Book]
NoReply == [id |-> 0, levels |-> EmptyBook]

Init ==
    /\ FeedInit
    /\ pc = "idle" /\ running = FALSE
    /\ synced = FALSE /\ buffer = <<>> /\ last_u = 0 /\ wait = 0
    /\ reply = NoReply
    /\ book = EmptyBook /\ book_id = 0

-----------------------------------------------------------------------------
\* The loop condition, evaluated after every event.
Loop == pc' = IF running THEN "await_event" ELSE "done"

\* The wait after a failed attempt, as the code computes it: wait is 0 here.
Backoff == Min({max_wait, Max({wait, 1}) * 2})

\* Faulty variant: book_ is emptied as well.
AsyncRun_ClearsBook ==
    /\ pc \in {"idle", "done", "failed"}
    /\ pc' = "await_event" /\ running' = TRUE
    /\ synced' = FALSE /\ buffer' = <<>> /\ last_u' = 0 /\ wait' = 0
    /\ stream' = <<>>
    /\ book' = EmptyBook /\ book_id' = 0
    /\ UNCHANGED <<hist, sent, reply>>

\* A call of async_run: fresh locals, a new subscription, the old book_.
AsyncRun ==
    /\ pc \in {"idle", "done", "failed"}
    /\ pc' = "await_event" /\ running' = TRUE
    /\ synced' = FALSE /\ buffer' = <<>> /\ last_u' = 0 /\ wait' = 0
    /\ stream' = <<>>
    /\ UNCHANGED <<hist, sent, reply, bookVars>>

\* stop(), from any thread; the loop notices after the event it waits for.
Stop ==
    /\ running /\ running' = FALSE
    /\ UNCHANGED <<feedVars, pc, syncVars, reply, bookVars>>

\* Faulty variant: the frame is not taken off the read buffer.
Receive_Again ==
    /\ pc = "await_event"
    /\ stream # <<>>
    /\ UNCHANGED <<feedVars, running>>

Receive ==
    /\ pc = "await_event"
    /\ stream # <<>>
    /\ stream' = Tail(stream)
    /\ UNCHANGED <<hist, sent, running>>

\* Not synced, the back-off has not run out: keep the event.
BufferEvent ==
    /\ Receive
    /\ ~synced /\ wait > 0
    /\ buffer' = Append(buffer, Head(stream))
    /\ wait' = wait - 1
    /\ Loop
    /\ UNCHANGED <<synced, last_u, reply, bookVars>>

\* Not synced and nothing to wait for: keep the event, ask for a snapshot.
RequestSnapshot ==
    /\ Receive
    /\ ~synced /\ wait = 0
    /\ buffer' = Append(buffer, Head(stream))
    /\ pc' = "await_snapshot"
    /\ UNCHANGED <<synced, last_u, wait, reply, bookVars>>

\* The server takes a snapshot that is at most MaxLag updates old.
AnswerSnapshot(id) ==
    /\ pc = "await_snapshot" /\ reply = NoReply
    /\ id \in 1..Len(hist) /\ id + MaxLag >= Len(hist)
    /\ reply' = [id |-> id, levels |-> SnapshotOf(hist[id])]
    /\ UNCHANGED <<feedVars, ctlVars, syncVars, bookVars>>

\* The request failed, before or after the server answered it.
SnapshotFails ==
    /\ pc = "await_snapshot"
    /\ reply' = NoReply
    /\ wait' = Backoff
    /\ Loop
    /\ UNCHANGED <<feedVars, running, synced, buffer, last_u, bookVars>>

\* The first remaining event does not cover the snapshot: try again later.
SnapshotMisses ==
    /\ pc = "await_snapshot" /\ reply # NoReply
    /\ ~Brackets(buffer, reply.id)
    /\ buffer' = EraseOlder(buffer, reply.id)
    /\ wait' = Backoff
    /\ reply' = NoReply
    /\ Loop
    /\ UNCHANGED <<feedVars, running, synced, last_u, bookVars>>

\* The snapshot fits: book_ becomes the snapshot with the buffered events
\* on top, under the mutex, and is handed to the callback.
SnapshotFits ==
    /\ pc = "await_snapshot" /\ reply # NoReply
    /\ Brackets(buffer, reply.id)
    /\ book' = ApplyBuffered(buffer, reply.id, reply.levels)
    /\ book_id' = IdAfter(buffer, reply.id)
    /\ last_u' = buffer[Max(Kept(buffer, reply.id))].u
    /\ buffer' = <<>>
    /\ synced' = TRUE
    /\ reply' = NoReply
    /\ Loop
    /\ UNCHANGED <<feedVars, running, wait>>

\* Faulty variant: pu is not compared with last_u.
ApplyEvent_NoGapCheck ==
    /\ Receive
    /\ synced
    /\ book' = ApplyLevels(Head(stream).levels, book)
    /\ book_id' = Head(stream).u
    /\ last_u' = Head(stream).u
    /\ Loop
    /\ UNCHANGED <<synced, buffer, wait, reply>>

\* Synced and the event continues the last one: apply it.
ApplyEvent ==
    /\ Receive
    /\ synced /\ Head(stream).pu = last_u
    /\ book' = ApplyLevels(Head(stream).levels, book)
    /\ book_id' = Head(stream).u
    /\ last_u' = Head(stream).u
    /\ Loop
    /\ UNCHANGED <<synced, buffer, wait, reply>>

\* Synced but an event is missing: start over with this event.
DetectGap ==
    /\ Receive
    /\ synced /\ Head(stream).pu # last_u
    /\ synced' = FALSE
    /\ buffer' = <<Head(stream)>>
    /\ Loop
    /\ UNCHANGED <<last_u, wait, reply, bookVars>>

\* The generator yields an error: async_run returns it.
GeneratorFails ==
    /\ pc = "await_event"
    /\ pc' = "failed"
    /\ UNCHANGED <<feedVars, running, syncVars, reply, bookVars>>

\* The generator re-opens its connection.
Disconnect ==
    /\ CanLose /\ pc \in {"await_event", "await_snapshot"}
    /\ stream # <<>>
    /\ stream' = <<>>
    /\ UNCHANGED <<hist, sent, clientVars>>

HandleEvent == BufferEvent \/ RequestSnapshot \/ ApplyEvent \/ DetectGap

HandleSnapshot == SnapshotFails \/ SnapshotMisses \/ SnapshotFits

Next ==
    \/ FeedNext /\ UNCHANGED clientVars
    \/ AsyncRun
    \/ Stop
    \/ HandleEvent
    \/ \E id \in 1..MaxVersion : AnswerSnapshot(id)
    \/ HandleSnapshot
    \/ GeneratorFails
    \/ Disconnect

Spec == Init /\ [][Next]_vars

-----------------------------------------------------------------------------
\* The states of async_run and the ranges of its locals.
TypeOK ==
    /\ FeedTypeOK
    /\ pc \in {"idle", "await_event", "await_snapshot", "done", "failed"}
    /\ running \in BOOLEAN /\ synced \in BOOLEAN
    /\ buffer \in Seq(Event)
    /\ last_u \in Nat /\ wait \in 0..max_wait
    /\ reply \in Snapshot
    /\ book \in Book /\ book_id \in Nat

\* Events are buffered in the order of their ids, without overlap, also across
\* reconnects: what erase_if removes and the loop applies is determined by it.
BufferInOrder ==
    \A i, j \in DOMAIN buffer : i < j => buffer[i].u <= buffer[j].pu

\* What async_run keeps while it waits for a snapshot is sound: the locals are
\* in their ranges (the back-off never exceeds max_wait) and the buffer is in
\* order, so that erase_if and the replay see a sorted sequence of events.
BufferSound == TypeOK /\ BufferInOrder

\* Every level that snapshot() shows has the quantity the exchange had at
\* the id the book carries, whatever was lost or delayed on the way: async_run
\* never publishes a level it cannot vouch for.
NoPhantomLevel ==
    book_id > 0 => \A p \in Price : book[p] # 0 => book[p] = hist[book_id][p]

\* When the REST snapshot is not truncated by depth_limit, the book that
\* snapshot() returns is exactly the exchange's book at its last_update_id.
BookExact ==
    book_id > 0 /\ DepthLimit >= Cardinality(Price) => book = hist[book_id]

\* A reader that polls snapshot() sees last_update_id go forward only, also
\* across gaps, re-synchronisations and further calls of async_run.
NeverGoesBack == [][book_id' >= book_id]_vars

\* Without loss, a synced book that has drained the stream has missed
\* nothing: it is at the last event the exchange sent.
CaughtUp ==
    ~CanLose /\ synced /\ stream = <<>> /\ pc = "await_event" => book_id = sent

\* The published book as a replica of the exchange: async_run implements the
\* specification that publishes only complete, ever newer exchange states.
Replica == INSTANCE BookReplica
    WITH Books <- Book, NoBook <- EmptyBook, id <- book_id, levels <- book

ImplementsReplica == Replica!Spec
=============================================================================
