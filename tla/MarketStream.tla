--------------------------- MODULE MarketStream ---------------------------
(***************************************************************************)
(* The generator of basic_market_stream::subscribe (and, with the same     *)
(* loop, of basic_user_stream::subscribe) over stream_connection and       *)
(* WebsocketClient: connect, read, yield, and reconnect by itself when the *)
(* connection fails.  The consumer may abandon a generator that has yielded*)
(* and subscribe again on the same stream.  The stream is one without frame*)
(* interception (inline_consumer, no attached buffer).                     *)
(***************************************************************************)
EXTENDS WebsocketClient

CONSTANT MaxReconnects   \* max_reconnects_

ASSUME ReconnectAssumption == MaxReconnects \in Nat

VARIABLES
    gen,       \* "idle", "busy" in an operation, or what it has yielded:
               \* "event", "json" (an error), "last" (last_err); "ended"
    failures,
    last_err,  \* has last_err been set?
    got        \* history: events yielded, each with its connection

genVars == <<gen, failures, last_err>>
vars == <<wsVars, genVars, got>>

Init ==
    /\ ClientInit
    /\ gen = "idle" /\ failures = 0 /\ last_err = FALSE
    /\ got = <<>>

\* subscribe(), also in place of a generator that is suspended in a yield.
Subscribe ==
    /\ gen # "busy" /\ gen' = "busy"
    /\ failures' = 0 /\ last_err' = FALSE
    /\ Connect
    /\ UNCHANGED <<ready, connected, got>>

\* Faulty variant: one attempt too many.
TryAgain_OneMore ==
    /\ failures' = failures + 1
    /\ \/ /\ failures <= MaxReconnects
          /\ Connect
          /\ UNCHANGED gen
       \/ /\ failures > MaxReconnects
          /\ gen' = "last" /\ op' = "none" /\ timer' = "off"
          /\ UNCHANGED <<netVars, sock, buffer>>

\* The loop condition after a failure: connect again, or yield last_err.
TryAgain ==
    /\ failures' = failures + 1
    /\ \/ /\ failures' <= MaxReconnects
          /\ Connect
          /\ UNCHANGED gen
       \/ /\ failures' > MaxReconnects
          /\ gen' = "last" /\ op' = "none" /\ timer' = "off"
          /\ UNCHANGED <<netVars, sock, buffer>>

\* Faulty variant: a failed attempt does not count.
ConnectFails_NotCounted ==
    /\ ConnectFailed /\ ready' = Tail(ready)
    /\ last_err' = TRUE
    /\ Connect
    /\ UNCHANGED <<gen, failures, connected, got>>

ConnectFails ==
    /\ ConnectFailed /\ ready' = Tail(ready)
    /\ last_err' = TRUE
    /\ TryAgain
    /\ UNCHANGED <<connected, got>>

\* async_connect goes on; its last step resets failures and reads.
Connects ==
    /\ \/ ConnectStep /\ UNCHANGED failures
       \/ ConnectDone /\ failures' = 0
    /\ UNCHANGED <<gen, last_err, got>>

\* A frame is parsed and yielded.
YieldEvent ==
    /\ ReadDone
    /\ got' = Append(got, [conn |-> conn, id |-> Head(buffer)])
    /\ gen' = "event"
    /\ UNCHANGED <<failures, last_err>>

\* A frame that does not parse.
YieldJsonError ==
    /\ ReadDone
    /\ gen' = "json"
    /\ UNCHANGED <<failures, last_err, got>>

ReadFails ==
    /\ ReadFailed
    /\ last_err' = TRUE
    /\ UNCHANGED <<gen, failures, got>>

Closes ==
    /\ CloseDone /\ ready' = Tail(ready)
    /\ connected' = FALSE
    /\ TryAgain
    /\ UNCHANGED <<last_err, got>>

\* The consumer takes what was yielded and awaits the generator again.
ResumeRead ==
    /\ gen = "event" /\ gen' = "busy"
    /\ Read
    /\ UNCHANGED <<failures, last_err, got>>

ResumeAfterJson ==
    /\ gen = "json" /\ gen' = "last"
    /\ failures' = MaxReconnects + 1
    /\ UNCHANGED <<wsVars, last_err, got>>

ResumeAfterLast ==
    /\ gen = "last" /\ gen' = "ended"
    /\ UNCHANGED <<wsVars, failures, last_err, got>>

Outside == (Network \/ RunDeadline) /\ UNCHANGED <<genVars, got>>

Generator ==
    \/ ConnectFails \/ Connects \/ YieldEvent \/ YieldJsonError
    \/ ReadFails \/ Closes

Next ==
    \/ Outside
    \/ Subscribe
    \/ Generator
    \/ ResumeRead \/ ResumeAfterJson \/ ResumeAfterLast

Spec == Init /\ [][Next]_vars

(***************************************************************************)
(* The executor runs what is queued, a timer expires, and an operation on a*)
(* socket that was shut fails, as does the closing of a failed connection. *)
(* Nothing else of the network is promised: a read, or a connect whose     *)
(* deadline is spent, may wait for ever.                                   *)
(***************************************************************************)
FairSpec ==
    /\ Spec
    /\ WF_vars(Generator)
    /\ WF_vars(Outside /\ RunDeadline) /\ WF_vars(Outside /\ TimerExpires)
    /\ WF_vars(Outside /\ (sock = "shut" \/ op = "close") /\ NetworkError)

-----------------------------------------------------------------------------
\* The places of the generator and of the client's coroutine.
TypeOK ==
    /\ ClientTypeOK
    /\ gen \in {"idle", "busy", "event", "json", "last", "ended"}
    /\ (op # "none") <=> (gen = "busy")
    /\ failures \in 0..(MaxReconnects + 1) /\ last_err \in BOOLEAN
    /\ failures \in 1..MaxReconnects => last_err
    /\ got \in Seq([conn : 1..conn, id : 1..sent])

\* "Yields events seamlessly across reconnects": no event is yielded twice or
\* out of order, and an event is missed only together with its connection,
\* whatever the deadline handlers of earlier attempts do.
LossOnlyByReconnect ==
    \A i \in 1..(Len(got) - 1) :
        /\ got[i].id < got[i + 1].id
        /\ got[i].conn = got[i + 1].conn => got[i + 1].id = got[i].id + 1

\* "Gives up after max_reconnects consecutive failures": once the server
\* accepts no more connections, a generator that is connecting yields its
\* last error, unless it had just been accepted or hangs in an attempt
\* whose deadline is spent.
GivesUp ==
    (op \in Connecting /\ conn = MaxConns)
        ~> \/ gen = "last" \/ op = "read"
           \/ [](op \in Connecting /\ timer = "off")

\* "A single steady_timer covers the entire 4-step connect sequence ... If it
\* fires, the pending async operation is cancelled" (websocket_client.cpp:89):
\* the deadline of async_connect never closes a connection that async_connect
\* has reported as established.
EstablishedStaysOpen ==
    op = "read" \/ gen = "event" => sock # "shut"
=============================================================================
