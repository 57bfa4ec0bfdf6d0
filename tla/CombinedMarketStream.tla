------------------------ MODULE CombinedMarketStream ------------------------
(***************************************************************************)
(* The generator of basic_combined_market_stream::subscribe: several       *)
(* subscriptions over one connection, whose frames name their topic and    *)
(* are dispatched on the "e" of their data.  The connection is the one     *)
(* that MarketStream models in detail; here it connects, delivers or fails.*)
(* Construction chooses a URL category; the subscriptions share one, but   *)
(* nothing compares the two.                                               *)
(***************************************************************************)
EXTENDS FapiEvents, Naturals

CONSTANTS
    max_reconnects_,
    MaxYields         \* bound on what the consumer takes

ASSUME CombinedAssumption == max_reconnects_ \in Nat /\ MaxYields \in Nat

VARIABLES
    category_,   \* the category given to the constructor
    subs,        \* the subscriptions, in order
    at,          \* "connect", "read" or "ended"
    failed,      \* failures
    last_error,  \* last_err: "unset", "connect" or "read"
    yields       \* what was yielded; events with the type that was sent

combinedVars == <<category_, subs, at, failed, last_error, yields>>

Combinable == {s \in DOMAIN stream_traits : ~stream_traits[s].vector}
same_category(ss) ==
    \A s, t \in Range(ss) : stream_traits[s].category = stream_traits[t].category

CombinedInit ==
    /\ category_ \in {"public_", "market"}
    /\ subs \in {ss \in [1..2 -> Combinable] : same_category(ss)}
    /\ at = "connect" /\ failed = 0 /\ last_error = "unset" /\ yields = <<>>

\* The table: one entry for each subscription, in their order.
dispatch == [i \in DOMAIN subs |-> stream_traits[subs[i]].event_type]

Connected ==
    /\ at = "connect" /\ failed <= max_reconnects_
    /\ at' = "read" /\ failed' = 0
    /\ UNCHANGED <<category_, subs, last_error, yields>>

\* A failed connect, or a failed read after which the connection is closed.
Failed(how) ==
    /\ last_error' = how /\ failed' = failed + 1 /\ at' = "connect"
    /\ UNCHANGED <<category_, subs, yields>>

ConnectFails == at = "connect" /\ failed <= max_reconnects_ /\ Failed("connect")
ReadFailed == at = "read" /\ Failed("read")

\* Faulty variant: data that cannot be parsed ends nothing.
Yield_GoesOn(sent, taken) ==
    /\ yields' = Append(yields,
         [kind |-> IF taken = "nullopt" THEN "json" ELSE "event",
          sent |-> sent, taken |-> taken])
    /\ UNCHANGED <<category_, subs, at, failed, last_error>>

\* An event, or the failure after which the loop condition is false.
Yield(sent, taken) ==
    /\ yields' = Append(yields,
         [kind |-> IF taken = "nullopt" THEN "json" ELSE "event",
          sent |-> sent, taken |-> taken])
    /\ IF taken = "nullopt"
         THEN at' = "connect" /\ failed' = max_reconnects_ + 1
         ELSE UNCHANGED <<at, failed>>
    /\ UNCHANGED <<category_, subs, last_error>>

\* A frame of a subscription: the exchange sends none of another category.
Delivered(s) ==
    /\ at = "read" /\ Len(yields) < MaxYields
    /\ stream_traits[s].category = category_
    /\ LET e == stream_traits[s].event_type
       IN  Yield(e, parse_variant(market_event_traits[e].wire_name, dispatch,
                                  market_event_traits, market_event_type_t_meta))

\* A frame whose data has no "e", an unknown one, or does not fit its type.
OddFrame ==
    /\ at = "read" /\ Len(yields) < MaxYields /\ Yield("odd", "nullopt")

\* The last failure, once the loop is left: it carries last_err.
GiveUp ==
    /\ at = "connect" /\ failed > max_reconnects_
    /\ yields' = Append(yields,
         [kind |-> "last", sent |-> last_error, taken |-> last_error])
    /\ at' = "ended"
    /\ UNCHANGED <<category_, subs, failed, last_error>>

CombinedNext ==
    \/ Connected \/ ConnectFails \/ ReadFailed \/ OddFrame \/ GiveUp
    \/ \E i \in DOMAIN subs : Delivered(subs[i])

-----------------------------------------------------------------------------
\* An event of a combined stream is yielded as the type that its topic sends,
\* whichever subscriptions share the connection: a name of market_event_type_t
\* that stood for another event would give its fields another meaning.
EventDispatched ==
    \A i \in DOMAIN yields :
        yields[i].kind = "event" => yields[i].taken = yields[i].sent

\* A failure is followed by nothing but the one last failure, and the generator
\* ends only with that: a consumer that stops at the first failure misses no
\* event.
FailureIsFinal ==
    /\ \A i, j \in DOMAIN yields :
         i < j /\ yields[i].kind # "event" =>
             yields[i].kind = "json" /\ yields[j].kind = "last"
    /\ at = "ended" => yields[Len(yields)].kind = "last"

\* What a consumer of a combined stream can rely on.
StreamTold == EventDispatched /\ FailureIsFinal
=============================================================================
