# A TLA+ model of binapi and binapi2

This directory holds a TLA+ development of the repository: the concurrent core of
`binapi2` (USD-M futures) with its order books, stream buffers, streams and
transports; its requests, types and decimal arithmetic; the recorder program; and
the first version, `binapi`. The modules are checked with TLC on small instances;
the invariants of the parts that keep state are proved with TLAPS for every value of
the constants. `PROJECT.json` maps each definition to the lines of source it
models, and lists runs, findings, hazards and theorems.

Paths below are relative to the repository; `fapi/` abbreviates
`include/binapi2/fapi/` for headers and `src/binapi2/fapi/` for sources, and
`recorder/` abbreviates `examples/binapi2/fapi/async-recorder/`.

## 1. The system

`binapi2` is a coroutine library (Boost.Asio, Beast and Cobalt) for an exchange;
`binapi` is the callback library it replaces.

| Part | State | Operations | Talks to |
|---|---|---|---|
| Local order book, `fapi/order_book/local_order_book.*` | `book_`, `running_`; in `async_run`: `synced`, `buffer`, `last_u`, `events_until_snap` | `async_run`, `stop`, `snapshot` | a market stream generator, the REST client, any reader thread |
| Pipeline order book, `fapi/order_book/pipeline_order_book.*` | the same book; three threads, two buffers | `async_run`, `stop`, `snapshot` | stream connection, stream parser, two stream buffers, REST |
| Thread-safe stream buffer, `fapi/detail/threadsafe_stream_buffer.hpp` | SPSC queue, `closed_`, timer, channel | `push`, `close`, `async_forward`, `async_read` | producer thread, forwarder coroutine, consumer coroutine |
| WebSocket transport, `fapi/transport/websocket_client.*` | resolver, stream, read buffer, `connected`, deadline timer | `async_connect`, `async_connect_to`, read, write, close | the executor's queue, the network |
| Market, combined, dynamic and user streams, `fapi/streams/*.hpp` | `failures`, `last_err` of the generator; control requests; listen key and keepalive loop | `subscribe`, `async_subscribe`, `enable_keepalive`, `stop_keepalive` | WebSocket transport, REST client |
| HTTP transport, `fapi/transport/http_client.*` | one TLS stream, `connected` | `async_connect`, `async_request` | the network |
| REST client, `fapi/rest/*`, `fapi/signing.*`, `fapi/query.hpp`, `fapi/detail/decode.hpp` | none | one call per request type | HTTP transport |
| WebSocket API client, `fapi/websocket_api/client.*` | connection, request counter | one call per method | WebSocket transport |
| Types, enums, events, `fapi/types/*` | none | JSON both ways, dispatch on the event type | all of the above |
| Decimal, `fapi/decimal.cpp` | none | 128/256 bit arithmetic, text both ways | the types |
| Recorders and sinks, `fapi/streams/detail/*recorder.hpp`, `sinks/` | buffers, file, size and age of a segment, children | start, drain, rotate, close | stream buffers, the file system, zstd |
| Recorder program, `recorder/` | sinks and subscriptions per symbol, active set, aggregates | subscription loop, drain loop, readers, screener, selector, status | dynamic streams, REST, sinks |
| First version, `src/binapi` | request queue and its chain; a set of channels, a chain per channel | one call per method; channels opened and closed by handle | callbacks of the user, the network |

What is hard in it:

* **Two unsynchronised sources.** The book is built from a REST snapshot and a
  stream of differences; either may be ahead of the other, and the stream may
  silently lose a stretch because the generator reconnects by itself.
* **Suspension points.** State read before a `co_await` is used after it, while
  events arrive, deadlines expire, `stop()` is called, the selector changes its mind.
* **Cross-executor wake-ups.** A handler that is posted to one executor wakes a
  coroutine on another; cancelling a timer nobody waits for yet does nothing, and
  cancelling one whose handler is already queued does nothing either.
* **Callbacks that call back.** A callback of the first version may post another
  request or close any channel before it returns.
* **Bounded queues.** One side drops, the other spins, a third suspends.
* **Retries and expiry.** A lost connection does not say whether the request was
  executed; a listen key lives only as long as keepalives succeed.
* **Tables written by hand.** Keys, names, topics, endpoints and signatures are
  spelled out for some hundred types; a slip loses a field without an error.
* **Edges of numbers.** Products of two words, digits counted in a byte, windows that
  are advanced over pauses of any length.

The properties that make each part correct:

* order books: the published book is a complete state of the exchange, later
  publications are later states, a failed attempt to synchronise is repeated, `stop()`
  works;
* stream buffer: what `push` accepted arrives once and in order, the forwarder
  never sleeps on work, and it exits;
* streams: events are missed only with their connection, a failure is the last thing
  a generator yields, it gives up when it should, an event is decoded as what it is,
  a listen key is kept or its loss is told;
* HTTP and RPC: an answer belongs to its request, a request is executed at most
  twice, the signature covers what is sent, a refusal is told;
* recorder: every frame in one segment and in order, files and subscriptions agree,
  active symbols are recorded in the end, eviction is earned, aggregates are exact;
* decimal: nothing is lost without being reported, text is read back;
* first version: callbacks at most once and in order, no order placed twice, no call
  forgotten, a closed channel falls silent and is freed, what is printed can be read.

## 2. The modules

| Module | Models |
|---|---|
| `DepthFeed` | the exchange (external) and the map operations both books share |
| `LocalOrderBook` | `local_order_book`, composed with `DepthFeed` |
| `BackoffHistory` | `LocalOrderBook` with a history of its failed attempts to synchronise |
| `BookReplica` | what an order book promises: the abstract specification |
| `PipelineOrderBook` | `pipeline_order_book` with `stream_parser` and the buffers, composed with `DepthFeed` |
| `ThreadsafeStreamBuffer` | `threadsafe_stream_buffer` and its consumer |
| `StreamFifo` | what a stream buffer promises: the abstract specification |
| `WebsocketClient` | `websocket_client` with the executor and the network |
| `MarketStream` | `basic_market_stream::subscribe` over `WebsocketClient` |
| `HttpClient` | `http_client` with the network and the server |
| `UserStream` | `basic_user_stream` with the keepalive loop, the key and its caller |
| `Background` | composes `ThreadsafeStreamBuffer` and `UserStream`: the coroutines that run beside their caller |
| `CombinedMarketStream` | `basic_combined_market_stream::subscribe` |
| `WebsocketApiClient` | `websocket_api::client` with the exchange's side of the connection |
| `FapiStruct` | a C++ struct as glaze sees it |
| `FapiMarketData`, `FapiTrade`, `FapiAccount`, `FapiStreamEvents`, `FapiWebsocketTypes` | the types of requests, answers and events with their keys |
| `FapiEnums` | every enumeration with its names |
| `FapiEndpoints` | every REST request with its endpoint, security and response |
| `FapiEvents` | event traits, topics, dispatch tables, `parse_variant` |
| `FapiRequest` | query, signing, where a query travels, `decode_response` |
| `Decimal` | `decimal_t`: arithmetic, parsing, printing, on a word of any width |
| `Fapi` | the client above its transports: composes the above |
| `StreamRecorder` | the screener's feeds, `stream_buffer`, `async_stream_recorder`, `rotating_file_sink` |
| `Selector` | `selector::tick` |
| `DetailMonitor` | the detail monitor's four coroutines, composed with `Selector` |
| `Aggregates` | `symbol_agg` and `update_aggregates` |
| `Recorder` | composes `DetailMonitor` and `Aggregates` |
| `BinapiRest` | the request queue and the synchronous call of `binapi::rest::api` |
| `BinapiEndpoints` | its methods, parameters and signature |
| `BinapiWebsockets` | `binapi::ws::websockets` |
| `BinapiChannels` | its targets and the user data callback |
| `BinapiTypes`, `BinapiEnums` | its types and enumerations, read and printed |
| `Binapi` | composes the above |
| `LocalOrderBookProofs`, `PipelineOrderBookProofs`, `MarketStreamProofs`, `HttpClientProofs`, `FapiProofs`, `RecorderProofs`, `BinapiProofs` | the theorems about the modules they are named after (section 5); `FapiProofs` speaks of `WebsocketApiClient`, `CombinedMarketStream`, `UserStream`, `ThreadsafeStreamBuffer`, `FapiRequest` and `Decimal`, `RecorderProofs` of `Selector`, `DetailMonitor`, `Aggregates` and `StreamRecorder`, `BinapiProofs` of `BinapiRest` and `BinapiWebsockets` |
| `DepthFeedProofs` | lemmas about `DepthFeed` that the proofs about both order books use |

### DepthFeed

`hist[v]` is the exchange's book after update `v`: the properties can always ask
what the true book was at an id. `Update` changes a level, `UpdateElsewhere`
spends an id without touching this book, `Emit` puts everything since the last
event into one event with ids `U`, `u` and the link `pu`. A snapshot has the best
`DepthLimit` levels. Bids and asks are two maps that the code treats alike and
never compares, so one side is modelled; quantity 0 is an absent level. The
operators `ApplyLevels`, `EraseOlder`, `Brackets`, `ApplyBuffered` and `IdAfter`
are the code's map and vector operations. `ApplyBuffered` gives the loop over the
buffer in closed form (for each level the last event that names it decides), so
that it can be reasoned about.

### LocalOrderBook

`pc` names the place where the coroutine is suspended: waiting for an event or
for the REST answer. All that `async_run` does between two suspensions is one
action; the loop condition `while (running_ && gen)` is part of every one
(`Loop`). `BufferEvent` and `RequestSnapshot` are the not-synced branch,
`SnapshotFails`, `SnapshotMisses` and `SnapshotFits` what follows the REST
request, `ApplyEvent` and `DetectGap` the synced branch. `Disconnect` is the
silent reconnect of the generator, allowed by the constant `CanLose`. `AsyncRun`
may be called again: its locals are new, `book_` stays. `BackoffHistory` keeps for each
failed attempt how it failed and how many events the code decided to wait for.

### PipelineOrderBook

Three threads: the network task reads frames and pushes them into `raw_buf`,
which drops them when full; the parser moves them on, skips what does not parse
and waits for room in `event_buf`; forwarder and logic loop share the caller's
executor and are joined at the end. `Return` is the join. The REST server may be behind the
stream by up to `MaxLag` updates.

### ThreadsafeStreamBuffer

`push` and `close` are split where another thread can come in between, the
forwarder where a queued handler can. `ready` is the queue of the timer's executor.
With `SameExecutor` the forwarder runs on that executor (as in
`threaded_stream_recorder`); without, on another thread (as in
`pipeline_order_book`). `StreamFifo` is what both sides may rely on: a bounded queue,
read in order and once, whose end means that everything was read if the producer itself
has closed it; `ImplementsFifo` maps the buffer to it.

### WebsocketClient and MarketStream

A coroutine awaits one operation at a time (`op`). Completions, and the deadline
handler, are queued in `ready` and run in order. `MarketStream` adds the generator:
its loop over attempts, what it yields, and a consumer that takes each item or
subscribes anew. `got` records which event was yielded from which connection.

### HttpClient

One request at a time; resolve, TCP and TLS are one operation, because a failure
in any has the same effect. The server keeps requests that reached it (`inbox`)
and executes them later, also when their connection is gone. Answers travel on
the connection of their request.

### UserStream

`age` is the age of the listen key in ticks; the keepalive loop (`loop`,
`remaining`), the generator (`gen`, `failures`) and the caller each have a place. The
REST client is reduced to what `async_request` returns: once a reconnect has failed it
refuses (`connected`). `Tick` waits until a timer that is due and a request under way
are done: the best case for the key, so an expiry is the code's doing. `OnExecutor`
says whether `stop_keepalive()` is called on the thread that runs the loop. `Background`
looks at the forwarder of a buffer or at the keepalive loop, one at a time: they share no
state.

### CombinedMarketStream, WebsocketApiClient, FapiRequest and the tables

The generator of the combined stream is the loop of `MarketStream` with any two
subscriptions, a frame of any kind and the dispatch on the event's type. The
WebSocket API client numbers a call, writes it and takes the next frame for the answer
(`sending`, `asked`, `frames`); the exchange answers in any order with a result, an
error, neither, or something unreadable.

The tables are sets and functions of names: the members of a struct (required and
optional) and the key of each; the values of an enumeration and the name of each; the
fields of a subscription and the parts of its topic; method, path, security and
response of an endpoint. A query is the set of its keys, a signature the set of keys
it covers, a document the set of keys it has. `Fapi` looks at one part at a time
(`part`): a REST request of any type with none, one or all of its optional members and
each answer to it; a session of calls; a combined stream; an entry of the tables; a
number or a text for `Decimal`.

### Decimal

Every operation of `decimal.cpp` on a word of `2 * Half` bits with `Scale` digits: the
order of the steps, the halves of a product, the bit loop of the division, the
packing with its sign and overflow, and the digits of both printers. The digits of a
number are given place by place where the code takes them off the end one at a time. The
constants keep the relations that the code's own have (`DecimalAssumption`): with
`Half = 64`, `Scale = 18` and `MaxIntegerDigits = 20`, 38 digits fit into the range and 39
(`MaxDigits`) exceed it, which is what the buffer of 40 in `int128_to_scientific` is for. A
text is a sign and two sequences of digits, one of which may be no digit.

### StreamRecorder

Each feed has a channel, a drain and a sink. A frame is its number; `received` keeps
the sizes. `file` is the sequence of segments a sink has opened, each with the frames in
it. `Receive` may suspend on a full channel; `Read` resumes the drain, rotates if it
must (`rotate`: fsync, close, hand to zstd, reap, open) and starts the write; an open or
a write may throw, which ends the whole recorder (`Recording`). `watch_then_close` polls the
feeds.

### Selector, DetailMonitor, Aggregates, Recorder

`Selector` has one action, the tick, with a score per symbol chosen freely: what the
aggregates can yield is left to `Aggregates`. Its time points are ages. `DetailMonitor`
names the await in which `manage_subs_loop` is suspended; the lists of symbols to add and
to remove are worked off over many steps while the selector ticks, connections die, the
readers push and the drain writes; an exception out of an open, a rotation or a write ends
the monitor. `asked[c]` is what was last written on connection `c`.
`Aggregates` has a window, a bar and the ring of true ranges of one symbol, and keeps
what was fed to them as history.

### The first version

`BinapiRest` has the queue, the flag and the operation under way of the asynchronous
chain; a callback may post another request in the step that calls it. An answer is a value,
empty, an error of the exchange, not JSON, an error page, or odd: JSON that `construct()` throws
on, in which case `invoke` swallows the exception and the callback is not called. `told`
keeps what became of each call; "lost" is the request at which the chain broke off because
its SNI name could not be set. `SyncPost` is the blocking call. The server executes what
has reached it, also late. `BinapiWebsockets` has the chain of every channel; an operation
completes in two steps (its handler is queued, then it runs), and a callback may close any
set of channels. `unsubscribed` keeps in which state a channel was when it was stopped by
handle, `late` how many messages were told since. The sets of handles and the static deleter
are as in the code. `BinapiEndpoints`, `BinapiChannels`, `BinapiTypes` and
`BinapiEnums` are tables as above; for a type both the paths it is read
from (`k.t` is key `t` of the object `k`, `0.id` key `id` of the first element) and the keys
it is printed under are given. `Binapi` looks at one part at a time.

## 3. The runs

| Run | Result | States | What it shows |
|---|---|---|---|
| `local_book_lossy` | holds | 175,000 | reconnects, gaps, REST failures, stops and restarts, REST not behind: the book is exact, goes forward only and implements `BookReplica`; the buffer is in order and the locals keep their ranges |
| `local_book_lagging` | holds | 148,000 | REST up to two updates behind, truncated snapshots, no loss: no phantom level, a drained synced book has missed nothing |
| `local_book_buffer_hole` | violated | | finding 1 |
| `local_book_backoff` | violated | | finding 2 |
| `pipeline_book` | holds | 293,000 | dropped frames, parse errors, stops, REST up to two updates behind: exact book, forward only, implements `BookReplica` |
| `background` | holds | 36,000 | forwarder: nothing lost or reordered, no lost wake-up, it exits, a closing producer's items are delivered, the buffer implements `StreamFifo`; keepalives that fail, a client that is lost, a key that expires: the key is lost only when every keepalive of its life has failed, the consumer is told, `stop_keepalive()` from another thread returns |
| `stream_reconnect` | holds | 103,000 | failures in every operation, expiring deadlines, new subscriptions: loss only by reconnect, the generator gives up |
| `http_retry` | holds | 4,200 | every answer to its own request, at most two executions |
| `recorder_files` | holds | 207,000 | two feeds, full buffers, rotation, failing opens and writes: nothing lost, repeated or reordered, segments within their bound, zstd gets only finished segments, a clean end is complete |
| `recorder_detail` | holds | 197,000 | the selector ticks and connections die between any two steps of the subscription loop: files, subscriptions and requests agree, active symbols are recorded in the end and others let go, eviction is earned, mandatory symbols stay; and the aggregates are exact over pauses and refused values |
| `fapi` | holds | 74,000 | every request with its optional members is signed as sent, every answer, refusal and error page is told for what it is; RPC answers belong to their calls; events, topics, keys and names are told apart; decimal arithmetic is exact on every 12 bit number |
| `binapi` | holds | 82,000 | callbacks at most once and in order, no request executed twice, none forgotten, the queue rests only after an error or behind a failed SNI name; open channels that are closed fall silent and are freed; every method signed as sent, which types and enumerations are read back, every channel's target its own |

Several properties are conjunctions of named parts, each stated and commented on its own:

| Property | Module | Parts besides the type invariant |
|---|---|---|
| `BufferSound` | `LocalOrderBook` | `BufferInOrder` |
| `BufferSafe` | `ThreadsafeStreamBuffer` | `Conservation`, `NeverSleepsOnWork`, `ProducerCloseDelivers` |
| `RetrySafe` | `HttpClient` | `AnswersOwnRequest`, `AtMostTwice` |
| `KeySafe` | `UserStream` | `KeyKept` |
| `SegmentsSound` | `StreamRecorder` | `SegmentBound`, `CompressesFinished` |
| `SubscriptionsAgree` | `DetailMonitor` | `FilesFollowSubscriptions`, `AskedOnBoth`, `NoOrphans` |
| `AggregatesExact` | `Aggregates` | `WindowExact`, `BarExact` |
| `RecordsActive` | `Recorder` | `FollowsActive`, `LetsGo` |
| `CallsAnswered` | `WebsocketApiClient` | `AnswersOwnCall`, `RefusalIsTold` |
| `StreamTold` | `CombinedMarketStream` | `EventDispatched`, `FailureIsFinal` |
| `TablesRight` | `Fapi` | `MetaComplete`, `EnumRoundTrip`, `TopicsApart`, `UserEventDispatched`, `FrameTold` |
| `DecimalRight` | `Fapi` | `DecimalExact`, `DecimalReadBack`, `DecimalJudged` |
| `QueueInOrder` | `BinapiRest` | `CallbacksInOrder`, `ExecutedOnce`, `RestsAfterFailure`, `Accounted` |
| `FallsSilent` | `BinapiWebsockets` | `ErrorIsFinal`, `OneLate` |
| `TablesReadBack` | `Binapi` | `TypesReadBack`, `EnumsReadBack`, `OrderAnswersApart`, `ChannelsApart`, `UserdataTold` |

Next to a definition stand its faulty variants (named `Definition_Slip`): the definition as
a plausible mistake would have it. With the variant in its place, TLC finds the property
of that definition violated; `PROJECT.json` lists one for each property.

### Bounds

* `MaxVersion` (updates of the exchange): 5 suffices for a snapshot, a gap, a
  second attempt and an event after it; 6 is needed for the hole in the buffer
  (two events, a hole between them, an older snapshot) and for two failed attempts with the
  events the code waits for between them.
* Two prices and one quantity: a level can appear, vanish and be cut off by
  `DepthLimit` = 1 while another one stays. Where order and completeness are not the
  subject one price is enough.
* `BufferSize` = 1 makes every buffer full after one item.
* `Capacity` = 2 and `MaxPush` = 4: the queue is full, drained and filled again.
* `MaxConns` = 3, `MaxReconnects` = 2, `MaxFrames` = 4: more failures in a row than
  allowed, a connection in between that resets the count, and frames on either side.
* `MaxRequests` = 3, `MaxLinks` = 4: a retried request, one after it, one refused.
* `KeyLife` = 6, `Interval` = 3: the proportion of the 60 and 30 minutes in the docs;
  the loop may start at any age of the key.
* `RecorderFiles`: two feeds, frames of 1 and 3 bytes, segments of 2: two frames share a
  segment, the second of three rotates, one is larger than a segment; a channel of one
  frame, so that a feed is suspended with one in hand and one in the channel.
* `RecorderDetail`: a mandatory symbol and another, so that one is added while the other
  is removed; three scores around both thresholds; hold and cool-off of one tick. Two
  buckets of two seconds over eight seconds: pauses within a bucket, over one, over the
  whole window; two slots and five samples: the ring wraps. Window and bar have no state
  in common, so totals and prices vary in separate behaviours (`ScreenerInputs`).
* `Fapi`: three calls, three yields and one reconnect; a 12 bit word with two decimal
  places and one integer digit, all 4,096 numbers against all edges of the range.
* `Binapi`: three requests (one in process, one queued, one posted by a callback), two
  objects and two sockets (the deleter's set and another).

Where the run says `CHECK_DEADLOCK FALSE` the system may rest: the exchange's
history is bounded, nobody has to call, a closed buffer is done, a table has been looked
at. The runs of `LocalOrderBook` check deadlock.

### Fairness

* `PipelineOrderBook` (no run needs it, findings 3 and 4 do): an executor resumes a coroutine whose
  operation has completed, threads that can go on do so, and a REST request
  completes (it is answered or fails). Nothing is assumed of the exchange, of the
  caller of `stop()`, or of reconnects.
* `ThreadsafeStreamBuffer`: a call that has begun is finished, executors run what
  is queued, the consumer keeps reading. Nobody has to push or close.
* `MarketStream`: the executor runs its queue, an armed timer expires, an operation
  on a socket that was shut fails, and so does the close handshake on a failed
  connection. Reads, and connects without a deadline, may wait for ever.
* `UserStream`: time passes, the executor runs what is ready, attempts to connect come
  to an end, the consumer does something about what it was given. Strong fairness of
  `ServerEnds`: the exchange ends the stream of an expired key or tells it, also if other
  events come in between.
* `StreamRecorder`: the watcher polls, drains and destructors go on, a write ends one way
  or the other. No feed has to end.
* `Recorder`: timers expire and requests complete. Strong fairness of the last of the
  repeated snapshots: the loop over them is finite, but in the model any number may fail
  in between.
* `BinapiWebsockets`: the `io_context` runs queued handlers, and a read on a closed
  websocket fails.

Unless said otherwise it is weak fairness of steps that stay enabled until taken.

## 4. Findings

Two disagreements between code and documentation have runs of their own:

1. **A hole in the buffer is not noticed** (`local_order_book.cpp:147`). The buffer is
   replayed without comparing `pu` with the previous `u`, which the exchange's
   instructions (`How-to-manage-a-local-order-book-correctly.md:19`) demand. After a
   reconnect while events are buffered, and with a snapshot older than the hole, the
   published book is wrong and stays so. `BookExact` holds if nothing is lost or if
   the REST server is not behind the stream; that is what is proved.
2. **The wait does not double** (`local_order_book.cpp:127`). `events_until_snap` is 0 where
   the next wait is computed from it, so the code waits for 2 events after every failed
   attempt; the comments at `:80` ("we double the wait (up to a cap)") and `:126`
   ("exponential backoff capped at max_wait") say otherwise. `WaitDoubles` of
   `BackoffHistory` is violated by two failures in a row.

The following are stated as properties in the modules and violated by the code; anyone
can check them by adding the property to the configuration of the module's run (for a
liveness property of `PipelineOrderBook`, with `FairSpec`).

3. **The pipeline never asks again** (`pipeline_order_book.cpp:158`, `AsksAgain` of
   `PipelineOrderBook` with `BufferSize` = 3). It requests a snapshot only when the buffer
   has exactly one event; after a gap or a failed request it has more, for ever.
4. **`stop()` may not end the pipeline** (`pipeline_order_book.cpp:225`, `StopReturns`).
   The logic loop leaves while the forwarder is blocked on a channel only it reads.
5. **A lost wake-up with two executors** (`threadsafe_stream_buffer.hpp:124`,
   `ForwarderExits` of `Background` with `SameExecutor` = FALSE): the posted cancel may run before the
   wait is armed.
6. **An accepted item may be lost** (`threadsafe_stream_buffer.hpp:69`,
   `AcceptedIsDelivered`): `close()` from another thread between test and enqueue.
7. **A late deadline closes an established connection** (`websocket_client.cpp:180`,
   `EstablishedStaysOpen`): `cancel()` does not take back a queued handler.
8. **`stop_keepalive()` where the documentation calls it never returns**
   (`user_stream.hpp:183`, `StopEnds` of `Background` with `OnExecutor` = TRUE):
   `docs/binapi2/streams.md:391` calls it in the coroutine whose executor runs the loop.
9. **Files are destroyed under a write** (`recorder/detail/drain.cpp:38`, `NoTornWrite` of
   `DetailMonitor`): the drain holds a reference to the sinks of a symbol over an await;
   `detail/types.hpp:52-53` relies on one executor needing no synchronisation.
10. **A failed synchronous call reads through a null pointer** (`src/binapi/api.cpp:298`,
   `FalseOnError` of `BinapiRest`): the empty body is looked into as JSON;
   `include/binapi/api.hpp:46` says "returns FALSE when error".

Smaller ones, seen while modelling and excepted by name where a property meets them:

* a keepalive every 30 of 60 minutes, as recommended, survives no failed request, and
  failures are reported to nobody (`KeyKept` says how many);
* an optional `symbol` that is left out makes the exchange answer with an array, which the
  request's single response type cannot read (`AnswerTold`);
* all-market subscriptions are accepted by a dynamic stream and only yield failures
  (`FrameTold`);
* 256 fractional digits pass the test for 18 (`decimal.cpp:183`), and the smallest number
  has no text (`decimal.cpp:225`); from 39 fractional digits on `frac_part` overflows, before the
  text is refused;
* when the SNI name of a request cannot be set (`src/binapi/api.cpp:476`) the flag stays set
  and nothing is told: the queue stands still for ever (`Accounted`), while after any other
  error it rests until the next call (`RestsAfterFailure`);
* an exception out of `construct()` is swallowed (`include/binapi/invoker.hpp:67`): the
  request is done and its callback is never called; on a channel
  (`src/binapi/websocket.cpp:328`) it ends the channel without a word;
* a channel that is stopped before its connection is up is not closed
  (`src/binapi/websocket.cpp:82`), goes on to connect and calls back, and no handle leads to
  it any more (`OneLate` names the case);
* `e_trade_resp_type::ACK` is printed as "ASK" (`EnumsReadBack`), and thirteen types of the
  first version print what they do not read, among them klines, which are read from an
  object inside and printed flat, single trades, read from an array, and the permissions
  of symbols, printed outside of them (`Lossy` in `Binapi`; `TypesReadBack` says that they and
  no others are not read back);
* a user data list status closes the channel without a word, and channels of a second
  `websockets` object leave dangling handles in its set (`SetIsLive` speaks of the first).

## 5. The proofs

Each theorem holds for every value of the constants that satisfies the named assumption
of its module; the assumptions say that bounds are natural numbers, that names which
stand for different things differ, how the widths of `Decimal` belong together and that the keepalive interval is shorter than the
life of the key, and TLC evaluates them in every run. Where a theorem
needs more, the table says so. The runs check the same properties on small instances,
and were used to check each inductive invariant before it was proved.

| Module | Theorem | Property | Assumes besides |
|---|---|---|---|
| `LocalOrderBookProofs` | `OrderedBuffer` | `BufferSound` | |
| | `Monotonic` | `NeverGoesBack` | |
| | `Current` | `CaughtUp` | (the property itself speaks of the lossless case) |
| | `ExactBook` | `BookExact` | `MaxLag = 0 \/ ~CanLose` |
| | `NoPhantoms` | `NoPhantomLevel` | `MaxLag = 0 \/ ~CanLose` |
| | `Refinement` | `ImplementsReplica` | the same, and complete snapshots |
| `PipelineOrderBookProofs` | `PipelineTypeCorrect` | `TypeOK` (no run) | |
| | `PipelineMonotonic` | `NeverGoesBack` | |
| | `PipelineExactBook` | `BookExact` | |
| | `PipelineRefinement` | `ImplementsReplica` | complete snapshots |
| `MarketStreamProofs` | `StreamTypeOK` | `TypeOK` | |
| | `LostOnlyByReconnect` | `LossOnlyByReconnect` | |
| `HttpClientProofs` | `RetryIsSafe` | `RetrySafe` | |
| `FapiProofs` | `CallsAreAnswered` | `CallsAnswered` | |
| | `StreamIsTold` | `StreamTold` | |
| | `KeyIsSafe` | `KeySafe` | |
| | `AcceptedInOrder` | `BufferTypeOK`, `Conservation`, `ProducerCloseDelivers` | |
| | `BufferIsSafe` | `BufferSafe` | `SameExecutor` |
| | `BufferIsFifo` | `ImplementsFifo` | |
| | `RequestsAreSigned` | `RequestSigned` | |
| | `SignedWhateverIsSet` | the same, for any set of optional members | |
| | `NumbersAreRight` | `DecimalRight` | |
| | `OperationsAreExact`, `DoubleWidthIsExact` | its arithmetic, for any two numbers or words | |
| | `NumbersReadBack`, `TextsAreJudged` | its texts, for any number and any characters | |
| `RecorderProofs` | `SubscriptionsStayTogether` | `SubscriptionsAgree` | |
| | `MandatoryStays` | `MandatoryKept` | |
| | `EvictionIsEarned` | `EvictionEarned` | |
| | `FramesConserved` | `Conservation` of `StreamRecorder` | |
| | `SegmentsAreSound` | `SegmentsSound` | |
| | `CleanEndIsComplete` | the safety half of `EndsComplete` | |
| | `AggregatesAreExact` | `AggregatesExact` | |
| `BinapiProofs` | `QueueIsInOrder` | `QueueInOrder` | |
| | `SetStaysLive` | `SetIsLive` | |
| | `CallbackFallsSilent` | `FallsSilent` | |

None of the invariants is inductive as it stands. What each proof adds, and why:

### The local order book

The constants satisfy `FeedAssumption` (prices are finitely many integers, quantities
positive, the bounds natural numbers) and `LossAssumption`. The extra assumption of
`ExactBook`, `NoPhantoms` and `Refinement` cannot be dropped: `local_book_buffer_hole` is the counterexample.

The invariant `IInv` adds:

* `EventsGood`: an event tells the truth about the updates from `pu` to `u`. Without
  it nothing connects an event with the history.
* `Linked`: the events in flight are a chain that ends with the last one sent, so the
  first one tells where the client stands.
* `InOrder` for the buffer and `Behind`: buffer and book end before what is still to
  come, and the buffer starts after the book. This is what makes `erase_if` leave a
  suffix, and what keeps `last_update_id` from going back when a snapshot is taken.
* `SyncState`: how `synced`, `last_u`, `buffer`, `reply` and `pc` belong together; a
  pending reply is a snapshot of the history.
* `ReplyAhead`: a server that is not behind answers with a snapshot that no buffered
  event goes beyond, so that a hole in the buffer cannot matter.
* `Lossless`: without loss the client is at the head of the chain, and between two
  buffered events no level changed that no event names (`NoHole`).
* `BookVouched`: each level of the book is what the exchange had, or cut off.

One lemma per action shows that it preserves `IInv` (`InvUpdate` to `InvFits`);
`FitsVouched` is the heart of it: under either assumption a snapshot that fits,
with the newer events on top, is the exchange's book at the id the code gives it.

The lemmas about `DepthFeed` alone (what the map operations yield, what an event says,
when a book is the exchange's, and `FitsVouched`) are in `DepthFeedProofs`.

### The pipeline order book

Here frames may be dropped at any time and the REST server may be as far behind as it
likes, so the events on their way are no chain and a snapshot may be older than a hole. The
local order book is wrong in that case; the pipeline is not, because of a rule that looks
like a detail: it asks for a snapshot only when the buffer has exactly one event. One event
has no hole in it. (The same rule is why it never asks again, finding 3; `RequestSnapshot_Any`,
which asks with any number, breaks `ImplementsReplica`.) `PipelineInv` adds:

* `Flows`: through all five queues between the exchange and the book (the wire, `rawq`,
  `evq`, the channel, the buffer) every event is true, starts after the book, and starts
  no earlier than everything nearer to the book has ended. A thread that moves an event
  on, drops it, or throws a queue away keeps that (`MoveHead`, `Emptied`), and the
  exchange only adds at the far end (`Emitted`): one lemma each serves all the threads.
* `OneBuffered`: while a snapshot is awaited, and when it is there, the buffer has one event.
* `SyncState`, `BookVouched`: as for the local order book.

`last_update_id` then goes forward only, because whatever is applied comes out of the
queues; and the book is exact, because a gap is noticed by `pu`, and the one event on top of a
snapshot that it brackets tells all that has changed since.

### The stream buffer

* `Places`: who has been where. The final drain follows the close, a producer that has
  closed is not inside `push()`, and the end is reached with empty queues. With
  `Conservation` that is `DeliveryInv`, on any executor.
* `StartQueued`, `Numbered`, `WorkIsPending` (`WakeInv`): from the moment the forwarder
  has found the queue empty until it is woken, new work has a wake-up queued or about to
  be posted. The forwarder's first step is in the same queue as the wake-ups, so that a
  handler cannot run between its test and its wait: that is where `SameExecutor` is
  needed, and finding 5 is what happens without.

`DeliveryInv` is also what `BufferIsFifo` needs: the steps of the queue, the forwarder and
the wake-ups are stutters of `StreamFifo`, an enqueue is an `Accept` because what is under
way fits into queue, hand and channel, and a read delivers the next item because the
places hold what was accepted, in order.

### The market stream

`StreamInv` follows a frame from the server to the consumer:

* `OneCompletion`: the executor's queue holds at most one completion of the awaited
  operation, among any number of deadlines of this and earlier attempts;
* `Attempt`: nothing comes before the server has accepted the connection, and the read
  buffer is filled exactly when the awaited read has succeeded, so that a late deadline
  can shut a socket but never pass for a frame;
* `Counted`: the count of failures while the generator works, for its type;
* `InOrder`: what was yielded last, what the last read has brought and what is on the
  wire are one run of frames of one connection.

### The HTTP client

An answer carries no name of its request: it is taken for the answer to the current one
because it is read from the current connection. `Stage` relates operation, attempt and
link; `LinksPast` and `OnlyOwn` say that a live connection carries nothing but the current
request and its answer; `CopiesAllowed` counts how often each request was sent and
bounds what the server may still execute, from which `AtMostTwice` follows.

### The user stream

`KeyKept` speaks of the moment of expiry only. `AgeAccounted` carries it there: while the
loop is enabled the key's age is the age it was found at, one interval for each keepalive
missed since, and what has passed of the current interval. `Enabled` says that only an
enabled loop misses keepalives.

### The client above its transports

The theorems are about the specification of the whole, `Fapi`, whose other parts leave
the part in question alone.

* `OneExchange`: a request or an answer is under way only while a call waits for it, and
  then bears the number of that call. This is why ids need not be compared.
* `CombinedPlaces`, `YieldedSoFar`: where the generator is and what it has yielded up to
  there; a failure stands only where the loop condition is already false.
* The dispatch itself is a matter of the tables: for every subscription `EventRead`,
  `EventsApart` and `StreamHasEvent` show that its event has a name, that no two events
  share one, and that the first alternative `parse_variant` hits is the event's own type.
* Signing is shown for any endpoint whose request declares no member called `recvWindow`,
  `timestamp` or `signature` (`Plain`) and whose security and signing agree (`Consistent`),
  with any optional members set (`RestSigned`, `RpcSigned`). That each endpoint of the
  tables is such a one is shown table by table (`RestTraitsSecure`, `RpcTraitsSecure`), and
  `RequestListed` says that the client makes no other request.

### The numbers

`DecimalRight` is about one number or text at a time, so that the proof is about
`Decimal` alone: `NumbersAreRight` adds only that a text consists of characters
(`TextGiven`). It holds for every width of word, scale and length of text with
`DecimalAssumption`. The provers know of `^` nothing but its type, so `PowerAssumption`
states its recurrence as far as the widths go; TLC evaluates it, and
it is true of the code's constants as of all others. The laws of powers follow
(`PowersMultiply`).

* The product: `HalvesMultiply` follows the two carries of `mul256`.
* The division: `divmod256` is a recursion over the bits. `Divided` says in closed form
  where it stands after `k` rounds: the quotient and the remainder of the first `k` bits,
  with zeros for the rest. `RoundOfDivision` and `RoundOfQuotient` are one round, where the
  shifted remainder may lose its high bit; `EachRound` concludes, by the least round that
  could differ, that the recursion computes it.
* The sign: `PackExact` and `UnsignedIs`, also for the smallest number, whose magnitude has
  room only in the unsigned word.
* Reading: `Reads` is a row of numbers, one for each first part of a text, as a witness
  for what `Number` computes (`ReadsNumber`); `NumberConcat`, `ReadsPrefix`
  and `ReadsZeros` put texts together, shorten them and take off trailing zeros.
* Writing: `Heads` is such a row for the digits of a number, so what is written reads as the
  number (`PaddedIs`); `TrimmedIs` and `FractionText` say that only zeros are trimmed.
* `ParsedIs`: a text that fits the range passes the test of `parse_decimal_t` for an
  overflow, and `TextNumber`: one of at most `MaxIntegerDigits` and `Scale` digits fits.

### The recorder program

`DetailInv` relates the variables of `manage_subs_loop` at each of its awaits: `Lists`
(what is left of the round's two lists, still disjoint from or within what is
subscribed), `Files` (sinks are those of the subscribed symbols and of the one in work)
and `Halves` (what the first of the two requests has left behind when the second fails).
`BelowIsQuiet` is the selector's part: `below_since` is set only for symbols that the
eviction rules look at, and then the symbol has been quiet ever since.

The files (`FilesInv`): `Conservation` concatenates segments and `SegmentsSound` adds up
sizes, both by recursion over sequences of any length, which no prover here can do by
induction. The invariant carries the result of the recursion along instead, as a witness
that each step extends:

* `Placed`: there is a numbering of the segments' frames (`Numbered`: the number of the
  last frame up to each segment), and drain, channel and suspended push hold the numbers
  that follow;
* `Sized`: there is a row of sums over the frames of each segment (`AddsUp`), the bytes
  counted are those of the open one, and the frame under way fits or stands alone;
* `Given`: what is handed to zstd is synced and is not the segment being written.

That a witness is what the recursion computes (`NumberedFlat`, `AddsUpTotal`) is shown
once, by the least place where the two could differ (`LeastExists`, from the library's
theorem that `<` is well-founded). `DoneInOrder` adds the order of the end for
`CleanEndIsComplete`.

The aggregates (`AggInv`): the rings are indexed modulo their size and time is divided
into buckets, so the lemmas about quotients and remainders (`QuotRem` to `QuotOrder`) come
first, then those about sums (`SumIs` to `SumBySlots`), by witnesses as above.

* `WindowInv`: the head stands at the boundary of the last sample's bucket, and each slot
  of the ring has the volume of the samples that are recent and that many buckets behind
  the head. `SlotsPass` is the heart: when the head moves on by any number of buckets,
  the slots it clears are those whose samples are no longer recent, and no others, also
  when it goes around at most once for a pause of many turns.
* `RingInv`: true range number `i` is in slot `(i - 1) % Slots`, and the sum over the slots
  in use is the sum of the last ranges.
* `BarInv`: the places of the last trade, the highest and the lowest price in the minute.
* `NatrInv`: natr is of the ring as the last closed bar has left it.

### The first version

* `QueueOrdered`: what was called back, then what is in the queue, is in the order of the
  calls. `NothingOfUnsent`: nothing behind the head of the queue has reached the server,
  and the head only once its write has ended. Both are needed for `ExecutedOnce`.
  `RestsAfterFailure` and `Accounted` carry themselves: a request leaves the queue only when
  its outcome is known (`LeavesAccounted`), and the order of the queue keeps the head from
  being told before its turn (`OrderedLess`).
* `Chains` and `SetsOwn`: the stage of a chain, its link and its queued handler belong
  together, and a socket is in no other object's set; `HeardSoFar` and `LateAtMostOnce`:
  what the callback has been told at each stage, and that after `unsubscribe()` of an open
  channel no read can succeed but the one that had. How a channel was stopped is noted once
  and kept (`NoteSome`, `LateKept`).

### Only model-checked

* Liveness (`ForwarderExits`, `GivesUp`, `ExpiryReported`, `StopEnds`,
  `EndsComplete`, `RecordsActive`), which is outside what the proof system handles.
* `AnswerTold`, `TablesRight` of `Fapi`, `SignedAsSent` and `TablesReadBack` of `Binapi`:
  finite tables, of which TLC looks at every entry.

## 6. What is not modelled

* JSON itself, URLs, HMAC and Ed25519: a library does the work. Of a value its key is
  kept, not its type; a frame that does not parse is a step of its own where the code
  reacts to it.
* The mutex around `book_`: what it protects happens between two suspensions, so it
  is inside one action.
* Wake-ups of the forwarders inside the pipeline: in `PipelineOrderBook` a forwarder can
  move whenever there is an item and room. Safety is not affected (a late forwarder
  is one of the behaviours); liveness is, in the pipeline's favour.
* `async_connect_to`, the imperative stream API, `LIST_SUBSCRIPTIONS`,
  `hopping_stream_buffer`: the same steps without the loop, or no user in the repository.
* The thread and the order of `stop()` of `threaded_stream_recorder`.
* `decimal_t::to_double`: floating point. Where the screener uses it any value may be
  refused.
* Crashes. `rotate()` syncs, closes and hands a segment to zstd in one synchronous call, one
  step of the model: `SegmentsSound` says what is handed over, not in which order.
* Commas and the like in what the first version prints (`orders_info_t` has none between
  symbols, `exchange_info_t` one too many): `TypesReadBack` is about members and keys.
* Synchronous system calls that block an executor, and two callers of one `http_client`.
* In the recorder program: the periodic REST download, the status line, the configuration
  and the shutdown.
* Reuse of addresses in the first version's handles; its reports, pairs list and tools;
  its vendored JSON parser.
* `io_thread`, the secret provider, the demo programs: I/O and user interfaces.

## 7. Plan

The model is as large as the code's state allows, and every safety property that ranges
over unbounded state is proved. What could be added:

1. `PipelineOrderBook` over `StreamFifo`: its two buffers as instances of the abstract
   queue, which `ThreadsafeStreamBuffer` is shown to implement.
