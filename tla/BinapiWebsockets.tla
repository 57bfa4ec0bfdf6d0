------------------------- MODULE BinapiWebsockets -------------------------
(***************************************************************************)
(* binapi::ws::websockets: channels that are opened and closed by handle,  *)
(* each a websocket that is kept alive by the handlers of its own chain    *)
(* (resolve, connect, TLS, upgrade, then one read after the other) and     *)
(* reports to a callback.  All handlers run on the io_context's thread; the*)
(* callback may open and close channels before it returns.                 *)
(*                                                                         *)
(* An operation completes in two steps: its handler is queued (ready), then*)
(* it runs.  Beast is external: close() and async_close() on a websocket   *)
(* whose upgrade is not complete do nothing; close() lets a read that is   *)
(* under way fail; after async_close() messages may arrive until the peer  *)
(* has answered.  The shared_ptr's deleter is a static of start_channel: it*)
(* works on the set of the object that first opened a channel of the type. *)
(***************************************************************************)
EXTENDS Integers, Sequences, FiniteSets

CONSTANTS
    Object,        \* the websockets objects of the program
    Socket,        \* the websockets they may create
    MaxMessages    \* bound: messages told to a callback

None == "none"

ASSUME WebsocketsAssumption == MaxMessages \in Nat /\ None \notin Object

VARIABLES
    stage,      \* stage[s]: the operation under way; "new", or "freed"
    ready,      \* ready[s]: its result, once the handler is queued
    link,       \* link[s]: "none", "open", "closing" or "closed"
    m_stop_requested,
    owner,      \* owner[s]: the object that has created s
    m_set,      \* m_set[o]: the sockets o can find by handle
    first,      \* the object that the deleter works on, once there is one
    heard,      \* heard[s]: history, what the callback of s was told
    unsubscribed, \* unsubscribed[s]: history, "no", or how s was stopped by handle:
                \* while "connecting", while "open", or while open by "async_close"
    late,       \* late[s]: history, messages told since s was stopped by handle
    crashed     \* a message that is not JSON was looked into

sockVars == <<stage, ready, link, m_stop_requested>>
stopHistory == <<unsubscribed, late>>
websocketsVars == <<sockVars, owner, m_set, first, heard, stopHistory, crashed>>

WebsocketsInit ==
    /\ stage = [s \in Socket |-> "new"] /\ ready = [s \in Socket |-> None]
    /\ link = [s \in Socket |-> None]
    /\ m_stop_requested = [s \in Socket |-> FALSE]
    /\ owner = [s \in Socket |-> None] /\ m_set = [o \in Object |-> {}] /\ first = None
    /\ heard = [s \in Socket |-> <<>>]
    /\ unsubscribed = [s \in Socket |-> "no"] /\ late = [s \in Socket |-> 0]
    /\ crashed = FALSE

-----------------------------------------------------------------------------
\* start_channel: the chain is started, then the socket enters the set.
start_channel(o, s) ==
    /\ ~crashed /\ stage[s] = "new"
    /\ stage' = [stage EXCEPT ![s] = "resolve"]
    /\ owner' = [owner EXCEPT ![s] = o]
    /\ m_set' = [m_set EXCEPT ![o] = @ \cup {s}]
    /\ first' = IF first = None THEN o ELSE first
    /\ UNCHANGED <<ready, link, m_stop_requested, heard, stopHistory, crashed>>

\* Faulty variant: an open socket is not closed.
Closed_Not(ss, how) == link

\* stop() and async_stop() on the sockets ss: members, connection, history.
Stopped(ss) == [s \in Socket |-> m_stop_requested[s] \/ s \in ss]
Closed(ss, how) ==
    [s \in Socket |-> IF s \in ss /\ link[s] \in {"open", "closing"} THEN how ELSE link[s]]
Noted(ss, how) ==
    [s \in Socket |-> IF s \notin ss \/ unsubscribed[s] # "no" THEN unsubscribed[s]
                     ELSE IF link[s] # "open" THEN "connecting"
                     ELSE IF how = "closed" THEN "open" ELSE "async_close"]

\* unsubscribe(), unsubscribe_all() and their asynchronous forms on the sockets
\* ss of an object: stop each and take it out of the set.
unsubscribe(o, ss, how) ==
    /\ m_stop_requested' = Stopped(ss)
    /\ link' = Closed(ss, how) /\ unsubscribed' = Noted(ss, how)
    /\ m_set' = [m_set EXCEPT ![o] = @ \ ss]

\* What unsubscribe() of one handle and unsubscribe_all() find.  A set with an
\* entry that was freed cannot be searched any more.
Found(o) ==
    IF \E s \in m_set[o] : stage[s] = "freed" THEN {}
    ELSE {{s} : s \in m_set[o]} \cup {m_set[o]}

Unsubscribe(o, ss, how) ==
    /\ ~crashed /\ ss \in Found(o) /\ ss # {}
    /\ unsubscribe(o, ss, how)
    /\ UNCHANGED <<stage, ready, owner, first, heard, late, crashed>>

-----------------------------------------------------------------------------
\* The network completes an operation: its handler is queued.
Complete(s, how) ==
    /\ stage[s] \notin {"new", "freed"} /\ ready[s] = None
    /\ how = "ok" /\ stage[s] = "read" =>
          link[s] \in {"open", "closing"} /\ Len(heard[s]) < MaxMessages
    /\ ready' = [ready EXCEPT ![s] = how]
    /\ UNCHANGED <<stage, link, m_stop_requested, owner, m_set, first, heard, stopHistory, crashed>>

Handler(s, how) == ~crashed /\ ready[s] = how /\ ready' = [ready EXCEPT ![s] = None]

\* Faulty variant: the deleter does not look into the set.
Free_KeepsEntry(s, sets) ==
    /\ stage' = [stage EXCEPT ![s] = "freed"]
    /\ m_set' = sets

\* The last holder is gone: the deleter.  sets is m_set as the handler leaves it.
Free(s, sets) ==
    /\ stage' = [stage EXCEPT ![s] = "freed"]
    /\ m_set' = [sets EXCEPT ![first] = @ \ {s}]

\* Faulty variant: the websocket counts as open once TLS is up.
Advance_EarlyOpen(s) ==
    /\ Handler(s, "ok")
    /\ \/ stage[s] = "resolve" /\ stage' = [stage EXCEPT ![s] = "connect"]
       \/ stage[s] = "connect" /\ stage' = [stage EXCEPT ![s] = "tls"]
       \/ stage[s] = "tls" /\ stage' = [stage EXCEPT ![s] = "upgrade"]
       \/ stage[s] = "upgrade" /\ stage' = [stage EXCEPT ![s] = "read"]
    /\ link' = IF stage[s] = "tls" THEN [link EXCEPT ![s] = "open"] ELSE link
    /\ UNCHANGED <<m_stop_requested, owner, m_set, first, heard, stopHistory, crashed>>

\* The handlers of the first four operations.
Advance(s) ==
    /\ Handler(s, "ok")
    /\ \/ stage[s] = "resolve" /\ stage' = [stage EXCEPT ![s] = "connect"]
       \/ stage[s] = "connect" /\ stage' = [stage EXCEPT ![s] = "tls"]
       \/ stage[s] = "tls" /\ stage' = [stage EXCEPT ![s] = "upgrade"]
       \/ stage[s] = "upgrade" /\ stage' = [stage EXCEPT ![s] = "read"]
    /\ link' = IF stage[s] = "upgrade" THEN [link EXCEPT ![s] = "open"] ELSE link
    /\ UNCHANGED <<m_stop_requested, owner, m_set, first, heard, stopHistory, crashed>>

\* async_connect, SSL_set_tlsext_host_name fails: told in any case.
SniFails(s) ==
    /\ Handler(s, "ok") /\ stage[s] = "resolve"
    /\ heard' = [heard EXCEPT ![s] = Append(@, "error")]
    /\ Free(s, m_set)
    /\ UNCHANGED <<link, m_stop_requested, owner, first, stopHistory, crashed>>

\* Faulty variant: the chain goes on after the error was told.
Fails_GoesOn(s) ==
    /\ Handler(s, "error")
    /\ heard' = IF m_stop_requested[s] THEN heard
                ELSE [heard EXCEPT ![s] = Append(@, "error")]
    /\ UNCHANGED <<stage, link, m_stop_requested, owner, m_set, first, stopHistory, crashed>>

\* An operation fails: told unless a stop was requested, and the chain ends.
\* After a failed upgrade or read stop() is called on the way.
Fails(s) ==
    /\ Handler(s, "error")
    /\ heard' = IF m_stop_requested[s] THEN heard
                ELSE [heard EXCEPT ![s] = Append(@, "error")]
    /\ \/ /\ stage[s] \in {"upgrade", "read"}
          /\ m_stop_requested' = Stopped({s}) /\ link' = Closed({s}, "closed")
       \/ /\ stage[s] \notin {"upgrade", "read"}
          /\ UNCHANGED <<m_stop_requested, link>>
    /\ Free(s, m_set)
    /\ UNCHANGED <<owner, first, stopHistory, crashed>>

\* websocket_on_read: a message (or an error of the exchange, sent as one) is told to
\* the callback, which closes the channels ss of an object and answers whether it
\* wants more.  An exception counts as "no", except that an error of the exchange
\* whose callback throws is told once more, as a message: one entry here.
websocket_on_read(s, o, ss, how, more) ==
    /\ Handler(s, "ok") /\ stage[s] = "read"
    /\ ss \in Found(o) \cup {{}}
    /\ heard' = [heard EXCEPT ![s] = Append(@, "message")]
    /\ unsubscribed' = Noted(ss, how)
    /\ late' = IF unsubscribed[s] = "no" THEN late ELSE [late EXCEPT ![s] = @ + 1]
    /\ LET left == [m_set EXCEPT ![o] = @ \ ss] IN
         \/ more /\ m_stop_requested' = Stopped(ss) /\ link' = Closed(ss, how)
                 /\ m_set' = left /\ UNCHANGED stage
         \/ ~more /\ m_stop_requested' = Stopped(ss \cup {s})
                  /\ link' = [Closed(ss, how) EXCEPT ![s] = "closed"]
                  /\ Free(s, left)
    /\ UNCHANGED <<owner, first, crashed>>

\* T::construct throws on the message: the channel is stopped, and the callback is
\* not called.
websocket_on_read_Throws(s) ==
    /\ Handler(s, "ok") /\ stage[s] = "read"
    /\ m_stop_requested' = Stopped({s}) /\ link' = Closed({s}, "closed")
    /\ Free(s, m_set)
    /\ UNCHANGED <<owner, first, heard, stopHistory, crashed>>

\* A message that is not JSON: is_object() reads a token that is not there.
websocket_on_read_NotJson(s) ==
    /\ Handler(s, "ok") /\ stage[s] = "read"
    /\ crashed' = TRUE
    /\ UNCHANGED <<stage, link, m_stop_requested, owner, m_set, first, heard, stopHistory>>

Run(s) ==
    \/ Advance(s) \/ SniFails(s) \/ Fails(s)
    \/ websocket_on_read_Throws(s) \/ websocket_on_read_NotJson(s)
    \/ \E o \in Object, ss \in SUBSET Socket, how \in {"closed", "closing"}, more \in BOOLEAN :
          websocket_on_read(s, o, ss, how, more)

WebsocketsNext ==
    \/ \E o \in Object, s \in Socket : start_channel(o, s)
    \/ \E o \in Object, ss \in SUBSET Socket, how \in {"closed", "closing"} :
          Unsubscribe(o, ss, how)
    \/ \E s \in Socket : Complete(s, "ok") \/ Complete(s, "error") \/ Run(s)

WebsocketsSpec == WebsocketsInit /\ [][WebsocketsNext]_websocketsVars

(***************************************************************************)
(* The io_context runs queued handlers, and a read on a closed websocket   *)
(* fails.  Nothing else of the network is promised.                        *)
(***************************************************************************)
WebsocketsFairSpec ==
    /\ WebsocketsSpec
    /\ \A s \in Socket :
         /\ WF_websocketsVars(Run(s))
         /\ WF_websocketsVars(link[s] = "closed" /\ Complete(s, "error"))

-----------------------------------------------------------------------------
\* The stages of a chain and the entries of the sets.
WebsocketsTypeOK ==
    /\ stage \in [Socket -> {"new", "resolve", "connect", "tls", "upgrade", "read", "freed"}]
    /\ ready \in [Socket -> {None, "ok", "error"}]
    /\ link \in [Socket -> {None, "open", "closing", "closed"}]
    /\ m_stop_requested \in [Socket -> BOOLEAN] /\ crashed \in BOOLEAN
    /\ m_set \in [Object -> SUBSET Socket] /\ first \in Object \cup {None}
    /\ \A s \in Socket : owner[s] \in Object \cup {None} /\ Len(heard[s]) <= MaxMessages + 1
    /\ unsubscribed \in [Socket -> {"no", "connecting", "open", "async_close"}]
    /\ late \in [Socket -> Nat]
    /\ \A s \in Socket : stage[s] # "read" /\ stage[s] # "freed" => link[s] = None

\* m_set is an intrusive set of raw pointers: for the object that has opened the
\* first channel it holds exactly the sockets that are alive and were not
\* stopped, whichever way a chain ends and whatever a callback closes.
SetIsLive ==
    first # None =>
        m_set[first] = {s \in Socket : owner[s] = first /\ stage[s] # "freed" /\ ~m_stop_requested[s]}

\* A transport error is the last thing a callback is told.
ErrorIsFinal ==
    \A s \in Socket : \A i \in DOMAIN heard[s] :
        heard[s][i] = "error" => i = Len(heard[s]) /\ stage[s] = "freed"

\* After unsubscribe() of an open channel its callback hears at most one more
\* message, which had been received before, and after either form no transport
\* error.  A channel that is stopped while it is connecting is not closed (the
\* websocket is not open yet) and one that is closed asynchronously is open until
\* the peer answers: their callbacks may go on hearing messages.  No handle leads
\* to a stopped channel any more, so nothing but its own callback or the network
\* can end it; and of the connecting one an error is told only as its first word.
OneLate ==
    \A s \in Socket : unsubscribed[s] # "no" =>
        /\ unsubscribed[s] = "open" => late[s] <= 1
        /\ \A o \in Object : s \notin m_set[o]
        /\ \A i \in DOMAIN heard[s] :
              heard[s][i] = "error" => unsubscribed[s] = "connecting" /\ i = 1

\* unsubscribe() of an open channel ends its chain, and with it the socket.
StopEnds ==
    \A s \in Socket : unsubscribed[s] = "open" ~> (stage[s] = "freed" \/ crashed)

\* What a callback can rely on: nothing after an error, and next to nothing after
\* unsubscribe() of its open channel.
FallsSilent == WebsocketsTypeOK /\ ErrorIsFinal /\ OneLate
=============================================================================
