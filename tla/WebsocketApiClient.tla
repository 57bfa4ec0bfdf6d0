------------------------- MODULE WebsocketApiClient -------------------------
(***************************************************************************)
(* websocket_api::client (client.cpp): remote procedure calls over one     *)
(* WebSocket.  async_send_rpc numbers a request, writes it and takes the   *)
(* next frame for the answer; it never compares the frame's id with the    *)
(* one it sent.  The client is used by one coroutine at a time, which may  *)
(* connect, close and call in any order.                                   *)
(***************************************************************************)
EXTENDS Naturals, Sequences, SequencesExt

CONSTANT MaxCalls   \* bound on the calls that are made

ASSUME MaxCallsAssumption == MaxCalls \in Nat

VARIABLES
    link,         \* "none", "open" or "dead" (the peer is gone)
    id_counter_,
    sending,      \* the id of the call that waits for its answer, or 0
    asked,        \* requests that the exchange has not answered yet
    frames,       \* answers on their way to the client
    outcome       \* what the last call returned, and for which frame

clientVars == <<link, id_counter_, sending, asked, frames, outcome>>

\* A frame: an answer with a result, with an error, with neither, or one that
\* glaze cannot read as websocket_api_response_t.
FrameKind == {"result", "error", "bare", "unreadable"}
Frame == [id : 1..MaxCalls, kind : FrameKind]

\* What a call returned without having seen a frame.
Without(call, what) == [call |-> call, frame |-> 0, kind |-> "none", what |-> what]
Nothing == Without(0, "nothing")

ClientInit ==
    /\ link = "none" /\ id_counter_ = 0 /\ sending = 0
    /\ asked = <<>> /\ frames = <<>> /\ outcome = Nothing

\* async_connect: the transport makes a new stream, whatever became of the old.
async_connect ==
    /\ sending = 0
    /\ link' \in {"open", "none"}
    /\ asked' = <<>> /\ frames' = <<>>
    /\ UNCHANGED <<id_counter_, sending, outcome>>

async_close ==
    /\ sending = 0 /\ link # "none"
    /\ link' = "none" /\ asked' = <<>> /\ frames' = <<>>
    /\ UNCHANGED <<id_counter_, sending, outcome>>

\* Faulty variant: the id is incremented once more after it was sent.
Write_NextId ==
    /\ sending = 0 /\ id_counter_ < MaxCalls
    /\ id_counter_' = id_counter_ + 1
    /\ link = "open" /\ sending' = id_counter_' + 1
    /\ asked' = Append(asked, id_counter_')
    /\ UNCHANGED <<outcome, link, frames>>

\* Faulty variant: a call that expects no result does not wait for the answer.
Write_NoWait ==
    /\ sending = 0 /\ id_counter_ < MaxCalls
    /\ id_counter_' = id_counter_ + 1
    /\ \/ /\ link # "none" /\ sending' \in {0, id_counter_'}
          /\ asked' = IF link = "open" THEN Append(asked, id_counter_') ELSE asked
          /\ UNCHANGED outcome
       \/ /\ link # "open"
          /\ outcome' = Without(id_counter_', "transport")
          /\ UNCHANGED <<sending, asked>>
    /\ UNCHANGED <<link, frames>>

\* async_send_rpc up to the end of the write, or its failure.  A write to a
\* peer that is gone may still seem to succeed.
Write ==
    /\ sending = 0 /\ id_counter_ < MaxCalls
    /\ id_counter_' = id_counter_ + 1
    /\ \/ /\ link # "none" /\ sending' = id_counter_'
          /\ asked' = IF link = "open" THEN Append(asked, id_counter_') ELSE asked
          /\ UNCHANGED outcome
       \/ /\ link # "open"
          /\ outcome' = Without(id_counter_', "transport")
          /\ UNCHANGED <<sending, asked>>
    /\ UNCHANGED <<link, frames>>

\* Faulty variant: an error of the exchange is returned as a success.
decode_rpc_response_NoError(kind) ==
    IF kind = "unreadable" THEN "json" ELSE "success"

\* decode_rpc_response.
decode_rpc_response(kind) ==
    CASE kind = "unreadable" -> "json"
      [] kind = "error" -> "binance"
      [] kind \in {"result", "bare"} -> "success"

\* async_send_rpc resumes with the next frame, whatever its id.
Read ==
    /\ sending # 0 /\ frames # <<>>
    /\ outcome' = [call |-> sending, frame |-> Head(frames).id, kind |-> Head(frames).kind,
                   what |-> decode_rpc_response(Head(frames).kind)]
    /\ sending' = 0 /\ frames' = Tail(frames)
    /\ UNCHANGED <<link, id_counter_, asked>>

\* async_send_rpc resumes with an error of the read.  The stream has failed:
\* until the next connect no operation on it succeeds.
ReadFails ==
    /\ sending # 0 /\ link = "dead"
    /\ outcome' = Without(sending, "transport")
    /\ sending' = 0 /\ link' = "none" /\ asked' = <<>> /\ frames' = <<>>
    /\ UNCHANGED id_counter_

\* The exchange answers the requests of a connection in any order.
Answer ==
    /\ link = "open"
    /\ \E i \in DOMAIN asked, kind \in FrameKind :
         /\ frames' = Append(frames, [id |-> asked[i], kind |-> kind])
         /\ asked' = RemoveAt(asked, i)
    /\ UNCHANGED <<link, id_counter_, sending, outcome>>

\* The peer is gone: what it has not answered, it never will.
PeerGone ==
    /\ link = "open" /\ link' = "dead" /\ asked' = <<>>
    /\ UNCHANGED <<id_counter_, sending, frames, outcome>>

\* Every step but the beginning of a call.
ClientStep ==
    \/ async_connect \/ async_close \/ Read \/ ReadFails
    \/ Answer \/ PeerGone

ClientNext == Write \/ ClientStep

-----------------------------------------------------------------------------
ClientTypeOK ==
    /\ link \in {"none", "open", "dead"}
    /\ id_counter_ \in 0..MaxCalls /\ sending \in 0..id_counter_
    /\ asked \in Seq(1..MaxCalls) /\ frames \in Seq(Frame)
    /\ outcome \in [call : 0..MaxCalls, frame : 0..MaxCalls,
         kind : FrameKind \cup {"none"}, what : {"nothing", "success", "binance", "json", "transport"}]

\* A call returns the answer to its own request, although ids are never
\* compared: while one coroutine uses the client there is at most one frame to
\* take, and a new connection does not deliver what the old one left.
AnswersOwnCall ==
    /\ outcome.what \in {"success", "binance", "json"} =>
           outcome.frame = outcome.call
    /\ \A i \in DOMAIN frames : frames[i].id = id_counter_
    /\ Len(frames) + Len(asked) <= 1

\* A call that is told success was answered, and not with an error: no order is
\* taken for placed that the exchange has refused.  (The frame need not carry a
\* result: then the caller gets an empty optional.)
RefusalIsTold == outcome.what = "success" => outcome.kind \in {"result", "bare"}

\* What a caller of the WebSocket API can rely on.
CallsAnswered == ClientTypeOK /\ AnswersOwnCall /\ RefusalIsTold
======================================================================
