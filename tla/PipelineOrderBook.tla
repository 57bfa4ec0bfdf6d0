------------------------- MODULE PipelineOrderBook -------------------------
(***************************************************************************)
(* binapi2::fapi::order_book::pipeline_order_book: the same book kept by   *)
(* three threads, composed with DepthFeed.                                 *)
(*                                                                         *)
(*   network thread --raw_buf--> parser thread --event_buf--> logic        *)
(*                                                                         *)
(* A buffer is an SPSC queue and a channel of buffer_size items each, with *)
(* a forwarder in between.  raw_buf drops a frame when its SPSC queue is   *)
(* full (push returns false and buffer_consumer ignores it); its two parts *)
(* are one queue here, so a frame may be dropped as soon as one part could *)
(* be full.  The parser spins until event_buf takes the event; the parts of*)
(* event_buf (evq, chan) are kept apart, because its forwarder runs next to*)
(* the logic loop.  How a forwarder is woken is the subject of             *)
(* ThreadsafeStreamBuffer; here it can move an item whenever there is one, *)
(* so a wake-up that is lost or late is one of the behaviours.             *)
(***************************************************************************)
EXTENDS DepthFeed

CONSTANT BufferSize   \* buffer_size_

ASSUME BufferAssumption == BufferSize \in Nat \ {0}

VARIABLES
    net,      \* network thread: "off", "reading" or "closed" (raw_buf closed)
    rawq,     \* frames in raw_buf
    parser,   \* parser thread: "off", "parsing" or "closed" (event_buf closed)
    evq,      \* events in event_buf's SPSC queue
    chan,     \* events in event_buf's channel
    pc,       \* logic loop: "await_event", "await_snapshot", "ended",
              \* or "idle" outside a call of async_run
    running, synced, buffer, last_u, reply, book, book_id

stageVars == <<net, rawq, parser, evq>>
bookVars == <<book, book_id>>
syncVars == <<synced, buffer, last_u>>
logicVars == <<pc, syncVars, reply, bookVars>>
vars == <<feedVars, stageVars, chan, running, logicVars>>

Snapshot == [id : Nat, levels : Book]
NoReply == [id |-> 0, levels |-> EmptyBook]

Init ==
    /\ FeedInit
    /\ net = "off" /\ rawq = <<>>
    /\ parser = "off" /\ evq = <<>> /\ chan = <<>>
    /\ pc = "idle" /\ running = FALSE
    /\ synced = FALSE /\ buffer = <<>> /\ last_u = 0
    /\ reply = NoReply
    /\ book = EmptyBook /\ book_id = 0

-----------------------------------------------------------------------------
\* Faulty variant: book_ is emptied as well.
AsyncRun_ClearsBook ==
    /\ pc = "idle"
    /\ net' = "reading" /\ parser' = "parsing"
    /\ rawq' = <<>> /\ evq' = <<>> /\ chan' = <<>>
    /\ pc' = "await_event" /\ running' = TRUE
    /\ synced' = FALSE /\ buffer' = <<>> /\ last_u' = 0
    /\ stream' = <<>>
    /\ book' = EmptyBook /\ book_id' = 0
    /\ UNCHANGED <<hist, sent, reply>>

\* async_run up to the join: new buffers, both threads started.
AsyncRun ==
    /\ pc = "idle"
    /\ net' = "reading" /\ parser' = "parsing"
    /\ rawq' = <<>> /\ evq' = <<>> /\ chan' = <<>>
    /\ pc' = "await_event" /\ running' = TRUE
    /\ synced' = FALSE /\ buffer' = <<>> /\ last_u' = 0
    /\ stream' = <<>>
    /\ UNCHANGED <<hist, sent, reply, bookVars>>

Stop ==
    /\ running /\ running' = FALSE
    /\ UNCHANGED <<feedVars, stageVars, chan, logicVars>>

\* Network thread: read a frame, push it or lose it, look at running_.
NetworkReads ==
    /\ net = "reading" /\ stream # <<>>
    /\ stream' = Tail(stream)
    /\ \/ Len(rawq) < 2 * BufferSize /\ rawq' = Append(rawq, Head(stream))
       \/ Len(rawq) >= BufferSize /\ UNCHANGED rawq
    /\ net' = IF running THEN "reading" ELSE "closed"
    /\ UNCHANGED <<hist, sent, parser, evq, chan, running, logicVars>>

\* Connecting or reading fails: the thread closes raw_buf and ends.
NetworkFails ==
    /\ net = "reading"
    /\ net' = "closed"
    /\ UNCHANGED <<feedVars, rawq, parser, evq, chan, running, logicVars>>

\* Parser thread: pass a frame on when event_buf has room for it.
Parse ==
    /\ parser = "parsing" /\ rawq # <<>>
    /\ Len(evq) < BufferSize
    /\ rawq' = Tail(rawq)
    /\ evq' = Append(evq, Head(rawq))
    /\ UNCHANGED <<feedVars, net, parser, chan, running, logicVars>>

\* A frame that does not parse is skipped.
ParseFails ==
    /\ parser = "parsing" /\ rawq # <<>>
    /\ rawq' = Tail(rawq)
    /\ UNCHANGED <<feedVars, net, parser, evq, chan, running, logicVars>>

ParserEnds ==
    /\ parser = "parsing" /\ net = "closed" /\ rawq = <<>>
    /\ parser' = "closed"
    /\ UNCHANGED <<feedVars, net, rawq, evq, chan, running, logicVars>>

\* event_buf.async_forward(): one item into the channel, which may be full.
Forward ==
    /\ evq # <<>> /\ Len(chan) < BufferSize
    /\ evq' = Tail(evq) /\ chan' = Append(chan, Head(evq))
    /\ UNCHANGED <<feedVars, net, rawq, parser, running, logicVars>>

-----------------------------------------------------------------------------
Loop == pc' = IF running THEN "await_event" ELSE "ended"

Receive ==
    /\ pc = "await_event" /\ chan # <<>>
    /\ chan' = Tail(chan)
    /\ UNCHANGED <<feedVars, stageVars, running>>

\* Faulty variant: every event that is kept may ask for a snapshot.
RequestSnapshot_Any ==
    /\ Receive
    /\ ~synced
    /\ buffer' = Append(buffer, Head(chan))
    /\ pc' = "await_snapshot"
    /\ UNCHANGED <<synced, last_u, reply, bookVars>>

\* Not synced: the first event in the buffer asks for a snapshot ...
RequestSnapshot ==
    /\ Receive
    /\ ~synced /\ buffer = <<>>
    /\ buffer' = <<Head(chan)>>
    /\ pc' = "await_snapshot"
    /\ UNCHANGED <<synced, last_u, reply, bookVars>>

\* ... any later one is only kept.
BufferEvent ==
    /\ Receive
    /\ ~synced /\ buffer # <<>>
    /\ buffer' = Append(buffer, Head(chan))
    /\ Loop
    /\ UNCHANGED <<synced, last_u, reply, bookVars>>

AnswerSnapshot(id) ==
    /\ pc = "await_snapshot" /\ reply = NoReply
    /\ id \in 1..Len(hist) /\ id + MaxLag >= Len(hist)
    /\ reply' = [id |-> id, levels |-> SnapshotOf(hist[id])]
    /\ UNCHANGED <<feedVars, stageVars, chan, running, pc, syncVars, bookVars>>

SnapshotFails ==
    /\ pc = "await_snapshot"
    /\ reply' = NoReply
    /\ Loop
    /\ UNCHANGED <<feedVars, stageVars, chan, running, syncVars, bookVars>>

SnapshotMisses ==
    /\ pc = "await_snapshot" /\ reply # NoReply
    /\ ~Brackets(buffer, reply.id)
    /\ buffer' = <<>>
    /\ reply' = NoReply
    /\ Loop
    /\ UNCHANGED <<feedVars, stageVars, chan, running, synced, last_u, bookVars>>

SnapshotFits ==
    /\ pc = "await_snapshot" /\ reply # NoReply
    /\ Brackets(buffer, reply.id)
    /\ book' = ApplyBuffered(buffer, reply.id, reply.levels)
    /\ book_id' = IdAfter(buffer, reply.id)
    /\ last_u' = buffer[Max(Kept(buffer, reply.id))].u
    /\ buffer' = <<>>
    /\ synced' = TRUE
    /\ reply' = NoReply
    /\ Loop
    /\ UNCHANGED <<feedVars, stageVars, chan, running>>

\* Faulty variant: pu is not compared with last_u.
ApplyEvent_NoGapCheck ==
    /\ Receive
    /\ synced
    /\ book' = ApplyLevels(Head(chan).levels, book)
    /\ book_id' = Head(chan).u
    /\ last_u' = Head(chan).u
    /\ Loop
    /\ UNCHANGED <<synced, buffer, reply>>

ApplyEvent ==
    /\ Receive
    /\ synced /\ Head(chan).pu = last_u
    /\ book' = ApplyLevels(Head(chan).levels, book)
    /\ book_id' = Head(chan).u
    /\ last_u' = Head(chan).u
    /\ Loop
    /\ UNCHANGED <<synced, buffer, reply>>

DetectGap ==
    /\ Receive
    /\ synced /\ Head(chan).pu # last_u
    /\ synced' = FALSE
    /\ buffer' = <<Head(chan)>>
    /\ Loop
    /\ UNCHANGED <<last_u, reply, bookVars>>

\* The channel is closed and drained: async_read fails and the loop breaks.
ChannelClosed ==
    /\ pc = "await_event" /\ parser = "closed" /\ evq = <<>> /\ chan = <<>>
    /\ pc' = "ended"
    /\ UNCHANGED <<feedVars, stageVars, chan, running, syncVars, reply, bookVars>>

\* The join completes once the loop has ended and the forwarder has emptied
\* its queue and seen the close; then the threads are collected.
Return ==
    /\ pc = "ended" /\ parser = "closed" /\ evq = <<>>
    /\ pc' = "idle"
    /\ net' = "off" /\ parser' = "off" /\ chan' = <<>>
    /\ UNCHANGED <<feedVars, rawq, evq, running, syncVars, reply, bookVars>>

Network == NetworkReads \/ NetworkFails
Parser == Parse \/ ParseFails \/ ParserEnds
HandleEvent ==
    \/ RequestSnapshot \/ BufferEvent \/ ApplyEvent \/ DetectGap
    \/ ChannelClosed \/ Return
HandleSnapshot == SnapshotFails \/ SnapshotMisses \/ SnapshotFits

Next ==
    \/ FeedNext /\ UNCHANGED <<stageVars, chan, running, logicVars>>
    \/ AsyncRun
    \/ Stop
    \/ Network
    \/ Parser
    \/ Forward
    \/ HandleEvent
    \/ \E id \in 1..MaxVersion : AnswerSnapshot(id)
    \/ HandleSnapshot

Spec == Init /\ [][Next]_vars

(***************************************************************************)
(* Every thread that can go on does so: the network thread reads what has  *)
(* arrived, the parser and the forwarder move what they can, the executor  *)
(* resumes the logic loop and a REST request completes.                    *)
(***************************************************************************)
FairSpec ==
    /\ Spec
    /\ WF_vars(NetworkReads) /\ WF_vars(Parser) /\ WF_vars(Forward)
    /\ WF_vars(HandleEvent) /\ WF_vars(HandleSnapshot)

-----------------------------------------------------------------------------
\* The stages and the ranges of the logic loop's variables.
TypeOK ==
    /\ FeedTypeOK
    /\ net \in {"off", "reading", "closed"}
    /\ parser \in {"off", "parsing", "closed"}
    /\ pc \in {"idle", "await_event", "await_snapshot", "ended"}
    /\ {rawq, evq, chan} \subseteq Seq(Event)
    /\ Len(rawq) <= 2 * BufferSize /\ Len(evq) <= BufferSize /\ Len(chan) <= BufferSize
    /\ running \in BOOLEAN /\ synced \in BOOLEAN
    /\ buffer \in Seq(Event) /\ last_u \in Nat
    /\ reply \in Snapshot
    /\ book \in Book /\ book_id \in 0..sent

\* Whatever frames the full raw buffer drops or the parser rejects, the book
\* that snapshot() returns is the exchange's book at its last_update_id, however
\* old the REST server's snapshot is and however far the stream has gone on when
\* it arrives.
BookExact ==
    book_id > 0 /\ DepthLimit >= Cardinality(Price) => book = hist[book_id]

\* Three threads and two queues do not reorder anything: last_update_id as
\* seen through snapshot() goes forward only.
NeverGoesBack == [][book_id' >= book_id]_vars

\* What snapshot() shows, as the replica's published book.
Replica == INSTANCE BookReplica
    WITH Books <- Book, NoBook <- EmptyBook, id <- book_id, levels <- book

\* No step of any of the three threads, the REST server or the network publishes
\* anything but a complete, later state of the exchange: the pipeline implements
\* the same specification as local_order_book.
ImplementsReplica == Replica!Spec

\* "Same sync algorithm as local_order_book" (pipeline_order_book.cpp:141):
\* while it is not synced, the logic loop asks for a snapshot before it has
\* consumed the next three events.
AsksAgain ==
    (pc = "await_event" /\ ~synced /\ Len(chan) >= 3)
        ~> pc \in {"await_snapshot", "ended", "idle"}

\* "Blocks on the caller's executor until stop() is called or an error
\* occurs" (pipeline_order_book.hpp:58): once stop() was called and the
\* network thread has noticed it, async_run returns.
StopReturns == (~running /\ net = "closed") ~> pc = "idle"
=============================================================================
