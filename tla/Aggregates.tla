---------------------------- MODULE Aggregates ----------------------------
(***************************************************************************)
(* What the screener of the recorder program knows of a symbol             *)
(* (async-recorder/aggregates.hpp, update_aggregates in screener.cpp): a   *)
(* rolling window of the traded volume and synthetic bars of one minute    *)
(* with the ring of their true ranges.  The selector scores symbols by it. *)
(*                                                                         *)
(* One symbol and one window: symbols share nothing, the three windows of  *)
(* a symbol differ in their constants, and trades are counted like volume. *)
(* Prices and volumes are integers; to_double may refuse a value (fits).   *)
(***************************************************************************)
EXTENDS Integers, Sequences, SequencesExt, FiniteSetsExt, Functions

CONSTANTS
    Buckets, BucketSeconds,  \* a tf_window (60 of 1, 5 and 60 seconds)
    Slots,                   \* true ranges kept by tr_window (14)
    Inputs,                  \* what the exchange may send: records of totals,
                             \* prices and the last second of the clock
    MaxSamples               \* bound: events that are looked at

ASSUME AggregatesAssumption ==
    /\ {Buckets, BucketSeconds, Slots} \subseteq Nat \ {0} /\ MaxSamples \in Nat
    /\ Inputs \subseteq [totals : SUBSET Nat, prices : SUBSET Nat, until : Nat \ {0}]

VARIABLES
    input,      \* the inputs of this behaviour
    now,        \* steady_clock, in seconds
    samples,    \* events so far
    agg,        \* the members of symbol_agg that the two handlers change
    bar,        \* current_bar
    win,        \* win_1m: buckets, head and head_time (0: none yet)
    trw,        \* slots, head and count
    fed,        \* history: what was added to the window, with its second
    seen,       \* history: the prices of the current bar, and which are of trades
    ranges      \* history: every true range

aggVars == <<input, now, samples, agg, bar, win, trw, fed, seen, ranges>>

AggInit ==
    /\ input \in Inputs /\ now = 1 /\ samples = 0
    /\ agg = [events_total |-> 0, primed |-> FALSE, last_quote_volume |-> 0, prev_close |-> 0,
              natr |-> [sum |-> 0, of |-> 0, close |-> 0]]
    /\ bar = [primed |-> FALSE, minute_index |-> 0, open |-> 0, high |-> 0, low |-> 0,
              close |-> 0]
    /\ win = [buckets |-> [i \in 0 .. (Buckets - 1) |-> 0], head |-> 0, head_time |-> 0]
    /\ trw = [slots |-> [i \in 0 .. (Slots - 1) |-> 0], head |-> 0, count |-> 0]
    /\ fed = <<>> /\ seen = <<>> /\ ranges = <<>>

\* f[from] + ... + f[to - 1], added up as the loops over the rings do.
SumOf(f, from, to) ==
    LET sum[i \in from .. to] == IF i = from THEN 0 ELSE sum[i - 1] + f[i - 1]
    IN  sum[to]

-----------------------------------------------------------------------------
(* tf_window *)

\* Faulty variant: the head restarts at the current second, not at the
\* boundary of a bucket.
advance_to_Drifts(w, t) ==
    LET effective == Min({(t - w.head_time) \div BucketSeconds, Buckets})
        passed == {(w.head + i) % Buckets : i \in 1 .. effective}
    IN  IF w.head_time = 0 THEN [w EXCEPT !.head_time = t]
        ELSE [buckets |-> [i \in DOMAIN w.buckets |->
                              IF i \in passed THEN 0 ELSE w.buckets[i]],
              head |-> (w.head + effective) % Buckets, head_time |-> t]

\* The head moves on by whole buckets, at most once around, and clears the ones
\* it passes.
advance_to(w, t) ==
    LET steps == (t - w.head_time) \div BucketSeconds
        effective == Min({steps, Buckets})
        passed == {(w.head + i) % Buckets : i \in 1 .. effective}
    IN  IF w.head_time = 0 THEN [w EXCEPT !.head_time = t]
        ELSE IF t <= w.head_time \/ steps <= 0 THEN w
        ELSE [buckets |-> [i \in DOMAIN w.buckets |->
                              IF i \in passed THEN 0 ELSE w.buckets[i]],
              head |-> (w.head + effective) % Buckets,
              head_time |-> w.head_time + steps * BucketSeconds]

update(w, t, dv) ==
    LET v == advance_to(w, t) IN [v EXCEPT !.buckets[v.head] = @ + dv]

vol_sum(w) == SumOf(w.buckets, 0, Buckets)

-----------------------------------------------------------------------------
(* bar_1m and tr_window *)

\* Faulty variant: the range of the bar before stays.
reopen_KeepsRange(b, minute, price) ==
    [b EXCEPT !.primed = TRUE, !.minute_index = minute, !.open = price, !.close = price,
              !.high = Max({@, price}), !.low = price]

reopen(b, minute, price) ==
    [primed |-> TRUE, minute_index |-> minute,
     open |-> price, high |-> price, low |-> price, close |-> price]

extend_range(b, price) ==
    [b EXCEPT !.high = Max({@, price}), !.low = Min({@, price})]

update_from_trade(b, price) == [extend_range(b, price) EXCEPT !.close = price]

push(r, tr) ==
    [slots |-> [r.slots EXCEPT ![r.head] = tr],
     head |-> (r.head + 1) % Slots,
     count |-> IF r.count < Slots THEN r.count + 1 ELSE r.count]

\* The true range of a bar: its own range, or the gap to the close before.
TrueRange(b, prev) ==
    LET Gap(p) == IF prev = 0 THEN 0 ELSE IF p < prev THEN prev - p ELSE p - prev
    IN  Max({b.high - b.low, Gap(b.high), Gap(b.low)})

\* close_bar_and_open_next, of a primed bar; a is agg as the totals leave it.
\* natr is kept as the sum and the number of the ranges and the close they are
\* divided by.
close_bar_and_open_next(a, minute, price) ==
    LET tr == TrueRange(bar, agg.prev_close)
        r == push(trw, tr)
        natr == [sum |-> SumOf(r.slots, 0, r.count),
                 of |-> r.count, close |-> bar.close]
    IN  /\ trw' = r
        /\ agg' = [a EXCEPT !.prev_close = bar.close, !.natr = natr]
        /\ bar' = reopen(bar, minute, price)
        /\ seen' = <<[price |-> price, trade |-> TRUE]>> /\ ranges' = Append(ranges, tr)

-----------------------------------------------------------------------------
(* update_aggregates *)

\* A book ticker: it is counted, and its middle price extends the bar, if there
\* is one and to_double takes both prices (fits).
BookTicker(mid, fits) ==
    /\ samples < MaxSamples /\ samples' = samples + 1
    /\ agg' = [agg EXCEPT !.events_total = @ + 1]
    /\ \/ ~(bar.primed /\ fits /\ mid > 0) /\ UNCHANGED <<bar, seen>>
       \/ /\ bar.primed /\ fits /\ mid > 0
          /\ bar' = extend_range(bar, mid)
          /\ seen' = Append(seen, [price |-> mid, trade |-> FALSE])
    /\ UNCHANGED <<input, now, win, trw, fed, ranges>>

\* The totals of a ticker: the first one is only kept, afterwards the window
\* gets the difference, or the total itself if it has become smaller.
Delta(total) ==
    IF total < agg.last_quote_volume THEN total ELSE total - agg.last_quote_volume

Totals(total) ==
    \/ ~agg.primed /\ UNCHANGED <<win, fed>>
    \/ /\ agg.primed
       /\ win' = update(win, now, Delta(total))
       /\ fed' = Append(fed, [at |-> now, dv |-> Delta(total)])

\* The last price of a ticker opens a bar, closes one or is a trade in it.
LastPrice(a, price, minute) ==
    \/ /\ ~bar.primed
       /\ bar' = reopen(bar, minute, price) /\ seen' = <<[price |-> price, trade |-> TRUE]>>
       /\ agg' = a /\ UNCHANGED <<trw, ranges>>
    \/ /\ bar.primed /\ minute # bar.minute_index
       /\ close_bar_and_open_next(a, minute, price)
    \/ /\ bar.primed /\ minute = bar.minute_index
       /\ bar' = update_from_trade(bar, price)
       /\ seen' = Append(seen, [price |-> price, trade |-> TRUE])
       /\ agg' = a /\ UNCHANGED <<trw, ranges>>

\* One entry of the ticker array: the totals, then the last price.  A total
\* that to_double refuses counts as 0, such a price is skipped.
Ticker(total, total_fits, price, price_fits, minute) ==
    LET v == IF total_fits THEN total ELSE 0
        a == [agg EXCEPT !.primed = TRUE, !.last_quote_volume = v]
    IN  /\ samples < MaxSamples /\ samples' = samples + 1
        /\ Totals(v)
        /\ \/ price_fits /\ price > 0 /\ LastPrice(a, price, minute)
           \/ /\ ~(price_fits /\ price > 0)
              /\ agg' = a /\ UNCHANGED <<bar, trw, seen, ranges>>
        /\ UNCHANGED <<input, now>>

Clock == now < input.until /\ now' = now + 1
         /\ UNCHANGED <<input, samples, agg, bar, win, trw, fed, seen, ranges>>

AggNext ==
    \/ \E mid \in input.prices, fits \in BOOLEAN : BookTicker(mid, fits)
    \/ \E total \in input.totals, price \in input.prices, f, g \in BOOLEAN, m \in {0, 1} :
          Ticker(total, f, price, g, bar.minute_index + m)
    \/ Clock

-----------------------------------------------------------------------------
(***************************************************************************)
(* The window holds exactly what was added during its last Buckets buckets,*)
(* counted from the boundary that the first update has set: nothing older  *)
(* survives, nothing younger is cleared, however long the pauses between   *)
(* the updates (tf_window, whose doc says that a longer gap wipes it).     *)
(***************************************************************************)
WindowExact ==
    LET n == Len(fed)
        Bucket(i) == (fed[i].at - fed[1].at) \div BucketSeconds
        recent == [i \in DOMAIN fed |->
                      IF Bucket(i) > Bucket(n) - Buckets THEN fed[i].dv ELSE 0]
    IN  vol_sum(win) = SumOf(recent, 1, n + 1)

\* The bar is the bar of the prices seen in its minute, quotes included, but
\* opened and closed by trades only; the ring holds the last Slots true ranges,
\* and natr is taken from them and from the close of the bar before.
BarExact ==
    LET prices == {seen[i].price : i \in DOMAIN seen}
        trades == {i \in DOMAIN seen : seen[i].trade}
        n == Len(ranges)
    IN  /\ bar.primed =>
             /\ bar.open = seen[Min(trades)].price /\ bar.close = seen[Max(trades)].price
             /\ bar.high = Max(prices) /\ bar.low = Min(prices)
        /\ trw.count = Min({Slots, n})
        /\ agg.natr.sum = SumOf(ranges, n - trw.count + 1, n + 1) /\ agg.natr.of = trw.count
        /\ n > 0 => agg.natr.close = agg.prev_close

\* What the selector scores a symbol by is what the exchange has sent.
AggregatesExact == WindowExact /\ BarExact
=============================================================================
