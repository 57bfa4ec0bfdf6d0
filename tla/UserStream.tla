----------------------------- MODULE UserStream -----------------------------
(***************************************************************************)
(* basic_user_stream: the listen key, the keepalive coroutine that is to   *)
(* extend it over the REST client, the generator that reads the events of  *)
(* the key and reconnects with the same key, and the caller that ends both.*)
(*                                                                         *)
(* The connection itself is the one of MarketStream and WebsocketClient;   *)
(* here an attempt to connect and a read are one step each.  The REST      *)
(* client is the one of HttpClient, reduced to what async_request returns: *)
(* on a connection that is gone it connects once more, and when that fails *)
(* every later request is refused at once.                                 *)
(*                                                                         *)
(* Time passes in ticks.  The executor and the REST server are fast: a     *)
(* timer that is due and a request that is under way are finished before   *)
(* the next tick, which is the best case for the key.                      *)
(***************************************************************************)
EXTENDS Integers

CONSTANTS
    KeyLife,         \* ticks a listen key lives (60 minutes)
    Interval,        \* ticks between two keepalives (30 minutes)
    MaxReconnects,   \* max_reconnects_
    OnExecutor       \* does stop_keepalive() run on the loop's own executor?

ASSUME UserStreamAssumption ==
    /\ KeyLife \in Nat \ {0} /\ Interval \in Nat \ {0} /\ Interval < KeyLife
    /\ MaxReconnects \in Nat /\ OnExecutor \in BOOLEAN

VARIABLES
    age,        \* ticks since the key was made or extended; KeyLife: expired
    connected,  \* of the REST client: once FALSE it refuses every request
    loop,       \* async_keepalive_loop_: "off", "timer", "request", "done"
    remaining,  \* ticks until the timer is due
    running,    \* keepalive_running_
    caller,     \* "consumes", "stops" in stop_keepalive(), "stopped"
    gen,        \* "idle", "connect", "read", "close", "ended", or yielded: an
                \* "event", "expired" (the event), "json" (an error), "last"
    failures,
    missed,     \* history: keepalives that failed since the last that did not
    since       \* history: the key's age when the loop was enabled, or 0 when
                \* it has extended the key

keyVars == <<age, missed, since>>
loopVars == <<loop, remaining, running>>
genVars == <<gen, failures>>
userVars == <<keyVars, connected, loopVars, caller, genVars>>

UserInit ==
    /\ age = 0 /\ missed = 0 /\ since = 0 /\ connected = TRUE
    /\ loop = "off" /\ remaining = 0 /\ running = FALSE
    /\ caller = "consumes" /\ gen = "idle" /\ failures = 0

Expired == age = KeyLife

\* stop_keepalive() waits in future.get(): on the loop's own executor nothing
\* else runs meanwhile.
Runs == ~(OnExecutor /\ caller = "stops")

-----------------------------------------------------------------------------
\* Time passes for the key and for the timer.
Tick ==
    /\ loop # "request" /\ (loop = "timer" /\ Runs => remaining > 0)
    /\ ~Expired \/ (loop = "timer" /\ remaining > 0)
    /\ age' = IF Expired THEN age ELSE age + 1
    /\ remaining' = IF remaining > 0 THEN remaining - 1 ELSE 0
    /\ UNCHANGED <<missed, since, connected, loop, running, caller, genVars>>

\* enable_keepalive(): the loop starts by waiting for its first interval.
enable_keepalive ==
    /\ loop = "off" /\ gen # "idle" /\ caller = "consumes"
    /\ running' = TRUE
    /\ loop' = "timer" /\ remaining' = Interval
    /\ since' = age
    /\ UNCHANGED <<age, missed, connected, caller, genVars>>

\* The timer is due: the request is sent, unless the loop is to stop.
TimerDue ==
    /\ loop = "timer" /\ remaining = 0 /\ Runs
    /\ loop' = IF running THEN "request" ELSE "done"
    /\ UNCHANGED <<keyVars, connected, remaining, running, caller, genVars>>

\* Faulty variant: the loop ends with its first request.
Again_Once == loop' = "done" /\ UNCHANGED remaining

\* The condition of the loop, and the timer armed anew.
Again ==
    \/ running /\ loop' = "timer" /\ remaining' = Interval
    \/ ~running /\ loop' = "done" /\ UNCHANGED remaining

\* PUT /fapi/v1/listenKey succeeds, over the old or over a new connection: it
\* extends a key that is still there.
KeepaliveOk ==
    /\ loop = "request" /\ Runs /\ connected /\ ~Expired
    /\ age' = 0 /\ missed' = 0 /\ since' = 0
    /\ Again
    /\ UNCHANGED <<connected, running, caller, genVars>>

\* It fails, and the loop looks at no result: the server refuses it, the second
\* attempt fails as well and leaves the client disconnected, or it has been
\* disconnected since an earlier one and refuses at once.
KeepaliveFails ==
    /\ loop = "request" /\ Runs
    /\ missed' = IF missed < KeyLife THEN missed + 1 ELSE missed
    /\ connected' \in {FALSE, connected}
    /\ Again
    /\ UNCHANGED <<age, since, running, caller, genVars>>

-----------------------------------------------------------------------------
\* subscribe() and the first co_await on the generator.
subscribe ==
    /\ gen = "idle" /\ gen' = "connect" /\ failures' = 0
    /\ UNCHANGED <<keyVars, connected, loopVars, caller>>

\* The loop of the generator after a failure.
TryAgain ==
    /\ failures' = failures + 1
    /\ gen' = IF failures' <= MaxReconnects THEN "connect" ELSE "last"

\* The server accepts a key that has not expired.
Connects ==
    /\ gen = "connect" /\ Runs /\ ~Expired
    /\ gen' = "read" /\ failures' = 0
    /\ UNCHANGED <<keyVars, connected, loopVars, caller>>

\* Faulty variant: a failed attempt is not counted.
UserConnectFails_NotCounted ==
    /\ gen = "connect" /\ Runs
    /\ UNCHANGED userVars

\* An attempt fails, as it must with a key that has expired.
UserConnectFails ==
    /\ gen = "connect" /\ Runs
    /\ TryAgain
    /\ UNCHANGED <<keyVars, connected, loopVars, caller>>

\* A frame is parsed and yielded: listen_key_expired_event_t is one of its
\* kinds, and it may not parse.
YieldEvent ==
    /\ gen = "read" /\ Runs
    /\ gen' \in {"event", "json"} \cup IF Expired THEN {"expired"} ELSE {}
    /\ UNCHANGED <<keyVars, connected, loopVars, caller, failures>>

\* The read fails: the network, or the server that ends an expired key's stream.
UserReadFails ==
    /\ gen = "read" /\ Runs /\ gen' = "close"
    /\ UNCHANGED <<keyVars, connected, loopVars, caller, failures>>

Closes ==
    /\ gen = "close" /\ Runs
    /\ TryAgain
    /\ UNCHANGED <<keyVars, connected, loopVars, caller>>

\* The consumer awaits the generator again.
Resume ==
    /\ caller = "consumes"
    /\ \/ gen \in {"event", "expired"} /\ gen' = "read" /\ UNCHANGED failures
       \/ gen = "json" /\ gen' = "last" /\ failures' = MaxReconnects + 1
       \/ gen = "last" /\ gen' = "ended" /\ UNCHANGED failures
    /\ UNCHANGED <<keyVars, connected, loopVars, caller>>

Yielded == {"event", "expired", "json", "last"}

\* Faulty variant: keepalive_running_ stays set.
stop_keepalive_StillRunning ==
    /\ caller = "consumes" /\ gen \in Yielded \cup {"ended"}
    /\ caller' = IF loop = "off" THEN "stopped" ELSE "stops"
    /\ UNCHANGED <<keyVars, connected, loopVars, genVars>>

\* stop_keepalive(), when the consumer has something in hand or has ended.
stop_keepalive ==
    /\ caller = "consumes" /\ gen \in Yielded \cup {"ended"}
    /\ running' = FALSE
    /\ caller' = IF loop = "off" THEN "stopped" ELSE "stops"
    /\ UNCHANGED <<keyVars, connected, loop, remaining, genVars>>

\* future.get() returns.
StopReturns ==
    /\ caller = "stops" /\ loop = "done" /\ caller' = "stopped"
    /\ UNCHANGED <<keyVars, connected, loopVars, genVars>>

Keepalive == TimerDue \/ KeepaliveOk \/ KeepaliveFails
Generator == Connects \/ UserConnectFails \/ YieldEvent \/ UserReadFails \/ Closes

UserNext ==
    \/ Tick
    \/ enable_keepalive \/ Keepalive
    \/ subscribe \/ Generator \/ Resume
    \/ stop_keepalive \/ StopReturns

\* The server tells an open stream that its key has expired, or ends it.
ServerEnds == Expired /\ (UserReadFails \/ (YieldEvent /\ gen' = "expired"))

UserSpec == UserInit /\ [][UserNext]_userVars

(***************************************************************************)
(* Time passes, the executor runs what is ready, the server ends the stream*)
(* of an expired key, and the consumer that has been given an event does   *)
(* something about it.  No network is promised to work.                    *)
(***************************************************************************)
UserFairSpec ==
    /\ UserSpec
    /\ WF_userVars(Tick) /\ WF_userVars(Keepalive) /\ WF_userVars(StopReturns)
    /\ WF_userVars(Connects \/ UserConnectFails) /\ WF_userVars(Closes)
    /\ WF_userVars(Resume \/ stop_keepalive) /\ SF_userVars(ServerEnds)

-----------------------------------------------------------------------------
\* The places of the three coroutines; the timer is armed while it is awaited,
\* and a stream that never was enabled has no loop to wait for.
UserTypeOK ==
    /\ age \in 0..KeyLife /\ missed \in 0..KeyLife /\ since \in 0..KeyLife
    /\ connected \in BOOLEAN
    /\ loop \in {"off", "timer", "request", "done"}
    /\ remaining \in 0..Interval /\ (remaining > 0 => loop = "timer")
    /\ running \in BOOLEAN /\ (running => loop \in {"timer", "request"})
    /\ caller \in {"consumes", "stops", "stopped"}
    /\ caller = "stopped" => loop \in {"off", "done"}
    /\ gen \in Yielded \cup {"idle", "connect", "read", "close", "ended"}
    /\ failures \in 0..(MaxReconnects + 1)
    /\ gen \in {"last", "ended"} <=> failures > MaxReconnects

\* What the automatic keepalive is for: a key that an enabled loop looks after
\* expires only when every keepalive that fell due in its life has failed.
\* With the recommended 30 of 60 minutes that is one: the second one comes
\* with the expiry, so the first failure, which nobody sees, costs the key.
KeyKept ==
    Expired /\ running => missed >= (KeyLife - 1 - since) \div Interval

\* subscribe()'s promise, "if the listen key has expired, the reconnect will
\* fail and the generator yields the error": after the expiry a consumer that
\* goes on is given the last error or told of the expiry, with no help from
\* the keepalive loop, which reports nothing.
ExpiryReported ==
    (Expired /\ gen \in {"connect", "read", "event", "json", "close"})
        ~> (gen \in {"last", "expired"} \/ caller # "consumes")

\* "Stop the keepalive timer and wait for it to finish": stop_keepalive()
\* returns, after up to a whole interval because nothing cancels the timer.
StopEnds == caller = "stops" ~> caller = "stopped"

\* What the keepalive loop is trusted with, from every state it can be in.
KeySafe == UserTypeOK /\ KeyKept
=============================================================================
