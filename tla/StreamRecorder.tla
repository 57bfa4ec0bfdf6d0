-------------------------- MODULE StreamRecorder --------------------------
(***************************************************************************)
(* The recording path of the screener (async-recorder/screener.cpp): one  *)
(* market stream per feed pushes its frames into a bounded stream_buffer,  *)
(* async_stream_recorder drains each buffer into a rotating_file_sink, and *)
(* a watcher closes the buffers when every feed has ended.  All of it runs *)
(* on one thread and interleaves at the awaits; zstd is another process.   *)
(***************************************************************************)
EXTENDS Integers, FiniteSets, Sequences, SequencesExt

CONSTANTS
    Feed,       \* the feeds: bookTicker, markPriceArr and tickerArr in the code
    Size,       \* sizes of a frame and its line end, in bytes
    MaxSize,    \* cfg_.max_size_bytes of a segment
    BufferCapacity, \* frames a stream_buffer holds (16384 in the code)
    MaxFrames   \* bound: frames received by a feed

ASSUME RecorderAssumption ==
    /\ IsFiniteSet(Feed) /\ Size \subseteq Nat \ {0}
    /\ MaxSize \in Nat /\ BufferCapacity \in Nat \ {0} /\ MaxFrames \in Nat

VARIABLES
    feed,       \* feed[f]: "read", "push" (suspended with a frame) or "done"
    received,   \* received[f]: history, the sizes of the frames f has received
    chan,       \* chan[f]: the channel, numbers of frames
    open,       \* is the channel of the recorder's buffers open?
    drain,      \* drain[f]: "read", "write" or "done"; or "threw"
    inHand,     \* inHand[f]: the frame pushed, or being written, outside chan
    file,       \* file[f]: the segments of the sink, each the frames in it
    current_bytes,  \* current_bytes[f]: size of the segment that is open
    synced,     \* synced[f]: segments that were fsync'ed
    children,   \* children[f]: segments given to zstd and not reaped yet
    exited,     \* exited[f]: the children that have ended
    sink        \* sink[f]: "open", or "shut" after its destructor

fileVars == <<feed, received, chan, open, drain, inHand, file, current_bytes, synced,
              children, exited, sink>>
sinkVars == <<file, current_bytes, synced, children, exited, sink>>

None == 0

\* add_stream and the constructor of the sink, which opens its first segment.
FilesInit ==
    /\ feed = [f \in Feed |-> "read"]
    /\ received = [f \in Feed |-> <<>>]
    /\ chan = [f \in Feed |-> <<>>] /\ open = TRUE
    /\ drain = [f \in Feed |-> "read"]
    /\ inHand = [f \in Feed |-> [push |-> None, write |-> None]]
    /\ file = [f \in Feed |-> << <<>> >>]
    /\ current_bytes = [f \in Feed |-> 0]
    /\ synced = [f \in Feed |-> {}]
    /\ children = [f \in Feed |-> {}] /\ exited = [f \in Feed |-> {}]
    /\ sink = [f \in Feed |-> "open"]

\* An exception of one drain ends recorder.run() and with it the screener.
Recording == \A f \in Feed : drain[f] # "threw"

-----------------------------------------------------------------------------
(* run_feed and watch_then_close. *)

\* Faulty variant: a push never waits for room.
Receive_NoWait(f) ==
    /\ Recording /\ feed[f] = "read" /\ Len(received[f]) < MaxFrames
    /\ \E n \in Size : received' = [received EXCEPT ![f] = Append(@, n)]
    /\ chan' = [chan EXCEPT ![f] = Append(@, Len(received[f]) + 1)]
    /\ UNCHANGED <<feed, inHand, open, drain, sinkVars>>

\* The stream delivers a frame and async_push takes it, or suspends on a full
\* channel: backpressure, the stream is not read meanwhile.
Receive(f) ==
    /\ Recording /\ feed[f] = "read" /\ Len(received[f]) < MaxFrames
    /\ \E n \in Size : received' = [received EXCEPT ![f] = Append(@, n)]
    /\ LET k == Len(received[f]) + 1 IN
       \/ /\ Len(chan[f]) < BufferCapacity
          /\ chan' = [chan EXCEPT ![f] = Append(@, k)]
          /\ UNCHANGED <<feed, inHand>>
       \/ /\ Len(chan[f]) >= BufferCapacity
          /\ feed' = [feed EXCEPT ![f] = "push"]
          /\ inHand' = [inHand EXCEPT ![f].push = k]
          /\ UNCHANGED chan
    /\ UNCHANGED <<open, drain, sinkVars>>

\* The generator ends: the stream has given up.
Ends(f) ==
    /\ Recording /\ feed[f] = "read"
    /\ feed' = [feed EXCEPT ![f] = "done"]
    /\ UNCHANGED <<received, chan, open, drain, inHand, sinkVars>>

\* Faulty variant: the watcher closes when any feed has ended.
watch_then_close_Any ==
    /\ Recording /\ open /\ \E f \in Feed : feed[f] = "done"
    /\ open' = FALSE
    /\ UNCHANGED <<feed, received, chan, drain, inHand, sinkVars>>

\* The watcher's poll finds every feed ended and closes the recorder.
watch_then_close ==
    /\ Recording /\ open /\ \A f \in Feed : feed[f] = "done"
    /\ open' = FALSE
    /\ UNCHANGED <<feed, received, chan, drain, inHand, sinkVars>>

-----------------------------------------------------------------------------
(* async_drain_one and the sink. *)

\* The channel (external): a read takes the oldest item, and lets a suspended
\* push put its own in; on a closed channel what is buffered is still read.
Take(f) ==
    /\ chan' = [chan EXCEPT ![f] =
                  IF feed[f] = "push" THEN Append(Tail(@), inHand[f].push) ELSE Tail(@)]
    /\ feed' = [feed EXCEPT ![f] = IF @ = "push" THEN "read" ELSE @]
    /\ inHand' = [inHand EXCEPT ![f] = [push |-> None, write |-> Head(chan[f])]]

\* The segment that is open, by its number.
Current(f) == Len(file[f])

\* Faulty variant: only the bytes already written are compared.
should_rotate_Late(f, pending, old) == current_bytes[f] > MaxSize \/ old

\* The segment would grow past its limit, or is old enough.
should_rotate(f, pending, old) == current_bytes[f] + pending > MaxSize \/ old

\* reap_children_nonblocking forgets the children that have ended.
Reap(f) ==
    /\ children' = [children EXCEPT ![f] = (@ \ exited[f]) \cup {Current(f)}]
    /\ exited' = [exited EXCEPT ![f] = {}]

\* Faulty variant: the closed segment is not fsync'ed.
rotate_NoSync(f) ==
    /\ Reap(f) /\ UNCHANGED synced
    /\ file' = [file EXCEPT ![f] = Append(@, <<>>)]
    /\ current_bytes' = [current_bytes EXCEPT ![f] = 0]

\* Faulty variant: the new segment gets the name of the last one and truncates it.
rotate_SameName(f) ==
    /\ synced' = [synced EXCEPT ![f] = @ \cup {Current(f)}]
    /\ Reap(f)
    /\ file' = [file EXCEPT ![f][Current(f)] = <<>>]
    /\ current_bytes' = [current_bytes EXCEPT ![f] = 0]

\* fsync, close, give the segment to zstd, reap, open the next one: its name
\* holds the number of the rotation, so it is always a new file.
rotate(f) ==
    /\ synced' = [synced EXCEPT ![f] = @ \cup {Current(f)}]
    /\ Reap(f)
    /\ file' = [file EXCEPT ![f] = Append(@, <<>>)]
    /\ current_bytes' = [current_bytes EXCEPT ![f] = 0]

\* async_read returns a frame and the sink is called: it rotates if it has to,
\* and starts the write.  Any amount of time may have passed since the segment
\* was opened.
Read(f) ==
    /\ Recording /\ drain[f] = "read" /\ chan[f] # <<>>
    /\ Take(f)
    /\ drain' = [drain EXCEPT ![f] = "write"]
    /\ \E old \in BOOLEAN :
        LET pending == received[f][Head(chan[f])] IN
        \/ should_rotate(f, pending, old) /\ rotate(f)
        \/ ~should_rotate(f, pending, old)
           /\ UNCHANGED <<file, current_bytes, synced, children, exited>>
    /\ UNCHANGED <<received, open, sink>>

\* The new segment cannot be opened: the frame is gone, the sink is left without
\* a file, and the exception ends the recorder.
SegmentThrows(f) ==
    /\ Recording /\ drain[f] = "read" /\ chan[f] # <<>>
    /\ Take(f)
    /\ drain' = [drain EXCEPT ![f] = "threw"]
    /\ synced' = [synced EXCEPT ![f] = @ \cup {Current(f)}]
    /\ Reap(f)
    /\ UNCHANGED <<received, open, file, current_bytes, sink>>

\* async_write completes.
FrameWritten(f) ==
    /\ Recording /\ drain[f] = "write"
    /\ file' = [file EXCEPT ![f][Current(f)] = Append(@, inHand[f].write)]
    /\ current_bytes' = [current_bytes EXCEPT ![f] = @ + received[f][inHand[f].write]]
    /\ drain' = [drain EXCEPT ![f] = "read"]
    /\ inHand' = [inHand EXCEPT ![f].write = None]
    /\ UNCHANGED <<feed, received, chan, open, synced, children, exited, sink>>

\* async_write fails, on a full disk: the exception ends the recorder.
WriteThrows(f) ==
    /\ Recording /\ drain[f] = "write"
    /\ drain' = [drain EXCEPT ![f] = "threw"]
    /\ UNCHANGED <<feed, received, chan, open, inHand, sinkVars>>

\* Faulty variant: the drain returns as soon as the channel is closed.
Drained_Early(f) ==
    /\ Recording /\ drain[f] = "read" /\ ~open
    /\ drain' = [drain EXCEPT ![f] = "done"]
    /\ UNCHANGED <<feed, received, chan, open, inHand, sinkVars>>

\* The channel is closed and empty: the drain returns.
Drained(f) ==
    /\ Recording /\ drain[f] = "read" /\ chan[f] = <<>> /\ ~open
    /\ drain' = [drain EXCEPT ![f] = "done"]
    /\ UNCHANGED <<feed, received, chan, open, inHand, sinkVars>>

\* The recorder is destroyed when every drain is done, or one has thrown: each
\* sink syncs and compresses its last segment and waits for its children.
Destroy(f) ==
    /\ sink[f] = "open"
    /\ (\A g \in Feed : drain[g] = "done") \/ ~Recording
    /\ synced' = [synced EXCEPT ![f] = @ \cup {Current(f)}]
    /\ children' = [children EXCEPT ![f] = {}] /\ exited' = [exited EXCEPT ![f] = {}]
    /\ sink' = [sink EXCEPT ![f] = "shut"]
    /\ UNCHANGED <<feed, received, chan, open, drain, inHand, file, current_bytes>>

\* zstd (external) ends and has replaced its segment by the compressed one.
ZstdExits(f) ==
    /\ \E i \in children[f] \ exited[f] : exited' = [exited EXCEPT ![f] = @ \cup {i}]
    /\ UNCHANGED <<feed, received, chan, open, drain, inHand, file, current_bytes, synced,
                   children, sink>>

FilesNext ==
    \/ watch_then_close
    \/ \E f \in Feed :
        \/ Receive(f) \/ Ends(f)
        \/ Read(f) \/ SegmentThrows(f) \/ FrameWritten(f) \/ WriteThrows(f) \/ Drained(f)
        \/ Destroy(f) \/ ZstdExits(f)

FilesSpec == FilesInit /\ [][FilesNext]_fileVars

\* The watcher polls for ever, a buffered frame resumes its reader, a write
\* completes or fails, and the destructors run.
FilesFairSpec ==
    /\ FilesSpec /\ WF_fileVars(watch_then_close)
    /\ \A f \in Feed :
        /\ WF_fileVars(Read(f)) /\ WF_fileVars(FrameWritten(f) \/ WriteThrows(f))
        /\ WF_fileVars(Drained(f)) /\ WF_fileVars(Destroy(f))

-----------------------------------------------------------------------------
FilesTypeOK ==
    /\ feed \in [Feed -> {"read", "push", "done"}]
    /\ drain \in [Feed -> {"read", "write", "done", "threw"}]
    /\ sink \in [Feed -> {"open", "shut"}] /\ open \in BOOLEAN
    /\ received \in [Feed -> Seq(Size)]
    /\ \A f \in Feed :
        /\ Len(chan[f]) <= BufferCapacity
        /\ Range(chan[f]) \cup Range(FlattenSeq(file[f])) \subseteq DOMAIN received[f]
        /\ {inHand[f].push, inHand[f].write} \subseteq {None} \cup DOMAIN received[f]
        /\ current_bytes[f] \in Nat
        /\ exited[f] \subseteq children[f] /\ children[f] \subseteq DOMAIN file[f]
        /\ synced[f] \subseteq DOMAIN file[f]

Held(n) == IF n = None THEN <<>> ELSE <<n>>

\* Nothing is lost, repeated or put in another order on the way from the stream
\* to the segments, whenever the sink rotates and whoever waits for whom: the
\* segments one after the other, the frame being written, the buffer and the
\* frame that waits for room are the frames received; and a buffer is not closed
\* before the last feed has pushed its last frame.
Conservation ==
    Recording =>
        /\ \A f \in Feed :
             FlattenSeq(file[f]) \o Held(inHand[f].write) \o chan[f] \o Held(inHand[f].push)
                 = [i \in 1 .. Len(received[f]) |-> i]
        /\ open \/ \A f \in Feed : feed[f] = "done"

\* The size of a run of frames.
Total(sizes, frames) ==
    LET sum[i \in 0 .. Len(frames)] ==
            IF i = 0 THEN 0 ELSE sum[i - 1] + sizes[frames[i]]
    IN  sum[Len(frames)]

Bytes(f, frames) == Total(received[f], frames)

\* No segment is larger than max_size_bytes, unless one frame alone is.
SegmentBound ==
    \A f \in Feed : \A i \in DOMAIN file[f] :
        Bytes(f, file[f][i]) <= MaxSize \/ Len(file[f][i]) = 1

\* "Force durable-on-disk before compressing": what zstd works on was fsync'ed
\* and is not the segment being written.
CompressesFinished ==
    \A f \in Feed : \A i \in children[f] :
        i \in synced[f] /\ (sink[f] = "open" /\ Recording => i < Current(f))

\* When every feed has ended, the recorder ends with every frame in its files,
\* unless writing them failed.
EndsComplete ==
    (\A f \in Feed : feed[f] = "done") ~>
        \/ ~Recording
        \/ \A f \in Feed :
            sink[f] = "shut" /\ Len(FlattenSeq(file[f])) = Len(received[f])

\* What is on the disk can be read back: whole segments within their bound, and
\* compressed only when they are finished.
SegmentsSound == FilesTypeOK /\ SegmentBound /\ CompressesFinished
=============================================================================
