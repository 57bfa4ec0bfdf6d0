-------------------------- MODULE WebsocketClient --------------------------
(***************************************************************************)
(* binapi2::fapi::transport::websocket_client, with the executor it runs on*)
(* and the network behind it.                                              *)
(*                                                                         *)
(* A coroutine of the client awaits one operation at a time (op).  The     *)
(* network completes it by queueing "ok" or "error" on the executor; the   *)
(* executor runs what is queued in order (ready).  The deadline of         *)
(* async_connect is a timer on the same executor: once it has expired, its *)
(* handler is in the queue as well, and timer->cancel() cannot take it out *)
(* again.  The handler works on impl_->stream and impl_->resolver, whatever*)
(* they are by then.                                                       *)
(*                                                                         *)
(* async_connect_to is async_connect without the first operation; error    *)
(* texts, logging and the pong reply are left out.                         *)
(***************************************************************************)
EXTENDS Integers, Sequences

CONSTANTS
    Timeout,     \* is connect_timeout_seconds > 0?
    MaxConns,    \* bound: connections the server accepts
    MaxFrames    \* bound: frames the server sends

ASSUME ClientAssumption ==
    Timeout \in BOOLEAN /\ MaxConns \in Nat /\ MaxFrames \in Nat

VARIABLES
    op,         \* the operation that is awaited, or "none"
    ready,      \* the executor's queue of completions
    timer,      \* the deadline: "armed", or "off" (spent or cancelled)
    sock,       \* the TCP socket: "none", "open", "shut" by the deadline
    connected,
    buffer,     \* the frame that the last read has brought, if any
    conn,       \* connections accepted so far: the name of the last one
    live,       \* does the server feed the connection?
    sent,       \* frames the server has sent, to us or to nobody
    wire        \* frames on their way on the connection

netVars == <<conn, live, sent, wire>>
clientVars == <<op, ready, timer, sock, connected, buffer>>
wsVars == <<netVars, clientVars>>

Connecting == {"resolve", "tcp", "tls", "upgrade"}

Pending == op # "none" /\ \A i \in DOMAIN ready : ready[i] = "deadline"

Completed(how) == op # "none" /\ ready # <<>> /\ Head(ready) = how

ClientInit ==
    /\ op = "none" /\ ready = <<>> /\ timer = "off"
    /\ sock = "none" /\ connected = FALSE /\ buffer = <<>>
    /\ conn = 0 /\ live = FALSE /\ sent = 0 /\ wire = <<>>

-----------------------------------------------------------------------------
\* The network and the server.

\* The awaited operation succeeds.  On a socket that was shut none does, and
\* a read needs a frame.
NetworkOk ==
    /\ Pending
    /\ sock # "shut"
    /\ op = "upgrade" => conn < MaxConns
    /\ op = "read" => wire # <<>>
    /\ ready' = Append(ready, "ok")
    /\ IF op = "upgrade" THEN conn' = conn + 1 /\ live' = TRUE
                         ELSE UNCHANGED <<conn, live>>
    /\ IF op = "read" THEN buffer' = <<Head(wire)>> /\ wire' = Tail(wire)
                      ELSE UNCHANGED <<buffer, wire>>
    /\ UNCHANGED <<sent, op, timer, sock, connected>>

\* It fails, and with it the connection.
NetworkError ==
    /\ Pending
    /\ ready' = Append(ready, "error")
    /\ live' = FALSE /\ wire' = <<>>
    /\ UNCHANGED <<conn, sent, op, timer, sock, connected, buffer>>

\* The server goes away, unnoticed until the next read.
Drop ==
    /\ live /\ live' = FALSE
    /\ wire' \in {wire, <<>>}
    /\ UNCHANGED <<conn, sent, clientVars>>

ServerSends ==
    /\ sent < MaxFrames /\ sent' = sent + 1
    /\ wire' = IF live THEN Append(wire, sent') ELSE wire
    /\ UNCHANGED <<conn, live, clientVars>>

TimerExpires ==
    /\ timer = "armed" /\ timer' = "off"
    /\ ready' = Append(ready, "deadline")
    /\ UNCHANGED <<netVars, op, sock, connected, buffer>>

Network == NetworkOk \/ NetworkError \/ Drop \/ ServerSends \/ TimerExpires

\* The handler of the deadline: cancel the resolver, close the socket.  That
\* ends the operation that is awaited, if any.
RunDeadline ==
    /\ ready # <<>> /\ Head(ready) = "deadline"
    /\ ready' = Tail(ready) \o
         (IF Pending /\ (op = "resolve" \/ sock = "open") THEN <<"error">> ELSE <<>>)
    /\ IF sock = "open" THEN sock' = "shut" /\ live' = FALSE /\ wire' = <<>>
                        ELSE UNCHANGED <<sock, live, wire>>
    /\ UNCHANGED <<conn, sent, op, timer, connected, buffer>>

-----------------------------------------------------------------------------
\* The client's coroutines, from one suspension to the next.  Where an operator
\* says nothing of ready or connected, its caller does.

\* Faulty variant: the old stream is not replaced.
Connect_KeepsStream ==
    /\ op' = "resolve"
    /\ timer' = IF Timeout THEN "armed" ELSE "off"
    /\ sock' = "none"
    /\ UNCHANGED <<conn, live, sent, wire, buffer>>

\* async_connect up to async_resolve: a new resolver, stream and deadline.
Connect ==
    /\ op' = "resolve"
    /\ timer' = IF Timeout THEN "armed" ELSE "off"
    /\ sock' = "none" /\ live' = FALSE /\ wire' = <<>>
    /\ UNCHANGED <<conn, sent, buffer>>

\* One of the first three operations has succeeded: start the next.
ConnectStep ==
    /\ Completed("ok") /\ ready' = Tail(ready)
    /\ \/ op = "resolve" /\ op' = "tcp" /\ sock' = "open"
       \/ op = "tcp" /\ sock # "shut" /\ op' = "tls" /\ UNCHANGED sock
       \/ op = "tls" /\ op' = "upgrade" /\ UNCHANGED sock
    /\ UNCHANGED <<netVars, timer, connected, buffer>>

\* async_connect returns success and the caller reads.
ConnectDone ==
    /\ op = "upgrade" /\ Completed("ok") /\ ready' = Tail(ready)
    /\ timer' = "off" /\ connected' = TRUE
    /\ op' = "read" /\ buffer' = <<>>
    /\ UNCHANGED <<netVars, sock>>

\* async_connect fails: in an operation, or in remote_endpoint() on a socket
\* that was shut.
ConnectFailed ==
    /\ op \in Connecting
    /\ Completed("error") \/ (op = "tcp" /\ sock = "shut" /\ Completed("ok"))

\* async_read_text empties the buffer first.
Read ==
    /\ op' = "read" /\ buffer' = <<>>
    /\ UNCHANGED <<netVars, ready, timer, sock, connected>>

ReadDone ==
    /\ op = "read" /\ Completed("ok") /\ ready' = Tail(ready)
    /\ op' = "none"
    /\ UNCHANGED <<netVars, timer, sock, connected, buffer>>

\* The read fails and the caller closes; connected holds here.
ReadFailed ==
    /\ op = "read" /\ Completed("error") /\ ready' = Tail(ready)
    /\ op' = "close"
    /\ UNCHANGED <<netVars, timer, sock, connected, buffer>>

\* async_close, either way.
CloseDone == op = "close" /\ (Completed("ok") \/ Completed("error"))

ClientTypeOK ==
    /\ op \in Connecting \cup {"none", "read", "close"}
    /\ ready \in Seq({"ok", "error", "deadline"})
    /\ timer \in {"off", "armed"} /\ sock \in {"none", "open", "shut"}
    /\ {connected, live} \subseteq BOOLEAN
    /\ conn \in 0..MaxConns /\ sent \in 0..MaxFrames
    /\ {wire, buffer} \subseteq Seq(1..sent) /\ Len(buffer) <= 1
=============================================================================
