----------------------- MODULE ThreadsafeStreamBuffer -----------------------
(***************************************************************************)
(* binapi2::fapi::detail::threadsafe_stream_buffer: a lock-free SPSC queue *)
(* filled by a producer thread, a forwarder coroutine that moves it into a *)
(* cobalt channel, and the consumer that reads the channel.                *)
(*                                                                         *)
(* The forwarder sleeps on a timer that never expires.  The producer wakes *)
(* it by posting a handler that cancels the timer; a cancel that finds no  *)
(* waiter does nothing.  The steps of the forwarder are kept apart where a *)
(* handler or another thread can come in between.                          *)
(*                                                                         *)
(* SameExecutor says whether the forwarder runs on the executor of the     *)
(* timer, as the header demands and threaded_stream_recorder does: then a  *)
(* cancel handler runs only where the forwarder is suspended.  In          *)
(* pipeline_order_book the timer's executor is that of the pushing thread  *)
(* and the forwarder runs on another one: a handler runs between two calls *)
(* of the pushing thread, and between any two steps of the forwarder.      *)
(***************************************************************************)
EXTENDS Integers, Sequences

CONSTANTS
    Capacity,        \* buffer_size: slots of the queue and of the channel
    MaxPush,         \* bound: number of calls of push()
    SameExecutor,    \* does the forwarder run on the timer's executor?
    Closers          \* who may call close(): the pushing thread ("producer"),
                     \* another thread ("owner"), or either

ASSUME BufferAssumption ==
    /\ Capacity \in Nat \ {0} /\ MaxPush \in Nat
    /\ SameExecutor \in BOOLEAN
    /\ Closers \subseteq {"producer", "owner"}

VARIABLES
    spsc, closed,   \* spsc_ and closed_
    ready,          \* handlers queued on the timer's executor, in order
    spawned,        \* has async_forward() been spawned?
    fwd,            \* where the forwarder is
    final,          \* is it in the drain loop after the close?
    held,           \* the item it has popped and not yet written, if any
    chan,           \* items in the channel
    prod,           \* where push() or close() of the pushing thread is
    owner,          \* where close() of another thread is
    pushes,         \* calls of push() so far
    accepted,       \* history: items that entered the queue
    early,          \* history: calls of push() before the forwarder's first step
    taken,          \* history: items the consumer has read
    reader          \* the consumer: "reading" or "ended"

queueVars == <<spsc, closed, accepted>>
fwdVars == <<fwd, final, held, chan>>
readVars == <<early, taken, reader>>
callVars == <<prod, owner, pushes>>
bufferVars == <<queueVars, ready, spawned, fwdVars, readVars, callVars>>

BufferInit ==
    /\ spsc = <<>> /\ closed = FALSE /\ accepted = <<>>
    /\ ready = <<>> /\ spawned = FALSE
    /\ fwd = "unstarted" /\ final = FALSE /\ held = <<>> /\ chan = <<>>
    /\ early = MaxPush /\ taken = <<>> /\ reader = "reading"
    /\ prod = "idle" /\ owner = "idle" /\ pushes = 0

-----------------------------------------------------------------------------
\* wake(): post a handler that cancels the timer.
Wake == ready' = Append(ready, "cancel")

\* push(), first step: give up when closed.
PushBegin ==
    /\ prod = "idle" /\ pushes < MaxPush
    /\ pushes' = pushes + 1
    /\ prod' = IF closed THEN "idle" ELSE "push"
    /\ UNCHANGED <<queueVars, ready, spawned, fwdVars, readVars, owner>>

\* push(), second step: into the queue, or refused because it is full.
PushEnqueue ==
    /\ prod = "push"
    /\ \/ /\ Len(spsc) < Capacity
          /\ spsc' = Append(spsc, pushes)
          /\ accepted' = Append(accepted, pushes)
          /\ prod' = "wake"
       \/ /\ Len(spsc) = Capacity
          /\ prod' = "idle"
          /\ UNCHANGED <<spsc, accepted>>
    /\ UNCHANGED <<closed, ready, spawned, fwdVars, readVars, owner, pushes>>

\* Faulty variant: push() does not wake the forwarder.
PushWake_Silent ==
    /\ prod = "wake" /\ prod' = "idle"
    /\ UNCHANGED <<queueVars, ready, spawned, fwdVars, readVars, owner, pushes>>

\* push(), last step.
PushWake ==
    /\ prod = "wake" /\ prod' = "idle"
    /\ Wake
    /\ UNCHANGED <<queueVars, spawned, fwdVars, readVars, owner, pushes>>

\* close(), by the pushing thread or by another one, is a store and a wake.
CloseByProducer ==
    /\ "producer" \in Closers /\ spawned /\ prod = "idle" /\ ~closed
    /\ closed' = TRUE /\ prod' = "wake"
    /\ UNCHANGED <<spsc, accepted, ready, spawned, fwdVars, readVars, owner, pushes>>

CloseByOwner ==
    /\ "owner" \in Closers /\ spawned /\ owner = "idle" /\ ~closed
    /\ closed' = TRUE /\ owner' = "wake"
    /\ UNCHANGED <<spsc, accepted, ready, spawned, fwdVars, readVars, prod, pushes>>

\* Faulty variant: close() does not wake the forwarder.
OwnerWake_Silent ==
    /\ owner = "wake" /\ owner' = "done"
    /\ UNCHANGED <<queueVars, ready, spawned, fwdVars, readVars, prod, pushes>>

OwnerWake ==
    /\ owner = "wake" /\ owner' = "done"
    /\ Wake
    /\ UNCHANGED <<queueVars, spawned, fwdVars, readVars, prod, pushes>>

-----------------------------------------------------------------------------
\* async_forward() is spawned: its first step is a handler like the others.
Spawn ==
    /\ ~spawned /\ spawned' = TRUE
    /\ ready' = IF SameExecutor THEN Append(ready, "start") ELSE ready
    /\ UNCHANGED <<queueVars, fwdVars, readVars, callVars>>

Start ==
    /\ spawned /\ fwd = "unstarted"
    /\ fwd' = "arm" /\ early' = pushes
    /\ IF SameExecutor
          THEN ready # <<>> /\ Head(ready) = "start" /\ ready' = Tail(ready)
          ELSE UNCHANGED ready
    /\ UNCHANGED <<queueVars, spawned, final, held, chan, taken, reader, callVars>>

\* co_await notify_.async_wait
Arm ==
    /\ fwd = "arm" /\ fwd' = "waiting"
    /\ UNCHANGED <<queueVars, ready, spawned, final, held, chan, readVars, callVars>>

\* The posted handler: notify_.cancel() ends a wait, if there is one.
RunCancel ==
    /\ ready # <<>> /\ Head(ready) = "cancel"
    /\ IF SameExecutor THEN fwd \in {"unstarted", "waiting", "write", "done"}
                       ELSE prod = "idle"
    /\ ready' = Tail(ready)
    /\ fwd' = IF fwd = "waiting" THEN "drain" ELSE fwd
    /\ UNCHANGED <<queueVars, spawned, final, held, chan, readVars, callVars>>

Pop ==
    /\ fwd = "drain" /\ spsc # <<>>
    /\ held' = <<Head(spsc)>> /\ spsc' = Tail(spsc)
    /\ fwd' = "write"
    /\ UNCHANGED <<closed, accepted, ready, spawned, final, chan, readVars, callVars>>

\* Faulty variants: a full channel drops the item, or takes it all the same.
WriteChannel_Drops ==
    /\ fwd = "write"
    /\ chan' = IF Len(chan) < Capacity THEN chan \o held ELSE chan
    /\ held' = <<>>
    /\ fwd' = "drain"
    /\ UNCHANGED <<queueVars, ready, spawned, final, readVars, callVars>>

Write_Unbounded ==
    /\ fwd = "write"
    /\ chan' = chan \o held /\ held' = <<>>
    /\ fwd' = "drain"
    /\ UNCHANGED <<queueVars, ready, spawned, final, readVars, callVars>>

\* co_await channel_.write: waits while the channel is full.
WriteChannel ==
    /\ fwd = "write" /\ Len(chan) < Capacity
    /\ chan' = chan \o held /\ held' = <<>>
    /\ fwd' = "drain"
    /\ UNCHANGED <<queueVars, ready, spawned, final, readVars, callVars>>

\* The queue is empty: look at closed_, or close the channel after the final
\* drain.
Drained ==
    /\ fwd = "drain" /\ spsc = <<>>
    /\ fwd' = IF final THEN "done" ELSE "check"
    /\ UNCHANGED <<queueVars, ready, spawned, final, held, chan, readVars, callVars>>

\* Faulty variant: no final drain.
Check_NoFinalDrain ==
    /\ fwd = "check"
    /\ final' = closed
    /\ fwd' = IF closed THEN "done" ELSE "arm"
    /\ UNCHANGED <<queueVars, ready, spawned, held, chan, readVars, callVars>>

Check ==
    /\ fwd = "check"
    /\ final' = closed
    /\ fwd' = IF closed THEN "drain" ELSE "arm"
    /\ UNCHANGED <<queueVars, ready, spawned, held, chan, readVars, callVars>>

-----------------------------------------------------------------------------
\* async_read() by the consumer.
ReadChannel ==
    /\ reader = "reading" /\ chan # <<>>
    /\ taken' = Append(taken, Head(chan)) /\ chan' = Tail(chan)
    /\ UNCHANGED <<queueVars, ready, spawned, fwd, final, held, early, reader, callVars>>

ReadEnds ==
    /\ reader = "reading" /\ chan = <<>> /\ fwd = "done"
    /\ reader' = "ended"
    /\ UNCHANGED <<queueVars, ready, spawned, fwdVars, early, taken, callVars>>

Producer == PushBegin \/ PushEnqueue \/ PushWake
Closer == CloseByProducer \/ CloseByOwner \/ OwnerWake
Forwarder == Start \/ Arm \/ Pop \/ WriteChannel \/ Drained \/ Check
Consumer == ReadChannel \/ ReadEnds

BufferNext == Producer \/ Closer \/ Spawn \/ RunCancel \/ Forwarder \/ Consumer

BufferSpec == BufferInit /\ [][BufferNext]_bufferVars

(***************************************************************************)
(* A call that has begun is finished by its thread, executors run what is  *)
(* queued and resumable, the consumer keeps reading.  Nobody has to call   *)
(* push() or close().                                                      *)
(***************************************************************************)
BufferFairSpec ==
    /\ BufferSpec
    /\ WF_bufferVars(PushEnqueue \/ PushWake) /\ WF_bufferVars(OwnerWake)
    /\ WF_bufferVars(RunCancel) /\ WF_bufferVars(Forwarder) /\ WF_bufferVars(Consumer)

-----------------------------------------------------------------------------
Item == 1..MaxPush

\* The ranges of the queues and the places where the threads can be.
BufferTypeOK ==
    /\ \A q \in {spsc, chan} : q \in Seq(Item) /\ Len(q) <= Capacity
    /\ {accepted, taken} \subseteq Seq(Item)
    /\ held \in Seq(Item) /\ Len(held) = (IF fwd = "write" THEN 1 ELSE 0)
    /\ ready \in Seq({"start", "cancel"})
    /\ fwd \in {"unstarted", "arm", "waiting", "drain", "write", "check", "done"}
    /\ prod \in {"idle", "push", "wake"} /\ owner \in {"idle", "wake", "done"}
    /\ reader \in {"reading", "ended"}
    /\ {closed, spawned, final} \subseteq BOOLEAN
    /\ {pushes, early} \subseteq 0..MaxPush

\* Nothing is lost, duplicated or reordered on the way through queue,
\* forwarder and channel.
Conservation == taken \o chan \o held \o spsc = accepted

\* The forwarder never sleeps on work: if it waits while the close, or an item
\* pushed after its first step, is there to be seen, a wake-up is queued or
\* about to be posted.  (The wake-ups of earlier items find no waiter.)
NeverSleepsOnWork ==
    fwd = "waiting" /\ (closed \/ \E i \in DOMAIN spsc : spsc[i] > early) =>
        ready # <<>> \/ prod = "wake" \/ owner = "wake"

\* "@return true if enqueued" (threadsafe_stream_buffer.hpp:66) and "wait for
\* drain to finish" (threaded_stream_recorder.hpp:94): once the consumer has
\* seen the end, every item that push() accepted was read.
AcceptedIsDelivered == reader = "ended" => taken = accepted

\* The same where the pushing thread itself calls close(), as stream_parser and
\* the network task of pipeline_order_book do: the items it pushed right before,
\* also those from before the forwarder started, are delivered.
ProducerCloseDelivers == reader = "ended" /\ owner = "idle" => taken = accepted

\* "Exits when close() is called and the SPSC queue is drained"
\* (threadsafe_stream_buffer.hpp:87).
ForwarderExits == closed ~> fwd = "done"

\* What both sides of the buffer can rely on at any time.
BufferSafe == BufferTypeOK /\ Conservation /\ NeverSleepsOnWork /\ ProducerCloseDelivers

-----------------------------------------------------------------------------
\* Seen from its two ends the buffer is a bounded queue: the slots of the queue
\* and of the channel, and the item in the forwarder's hands.
Fifo == INSTANCE StreamFifo
    WITH Items <- Item, Room <- 2 * Capacity + 1, ended <- (reader = "ended"),
         closedBy <- (IF ~closed THEN "nobody" ELSE IF owner = "idle" THEN "producer" ELSE "owner")

\* Whatever the forwarder, the handlers and the threads do between two calls, no
\* step of theirs is anything but one of the queue's, or none.
ImplementsFifo == Fifo!Spec
=============================================================================
