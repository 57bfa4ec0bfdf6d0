----------------------------- MODULE FapiProofs -----------------------------
(***************************************************************************)
(* Proofs about parts of binapi2::fapi: the WebSocket API client, for any  *)
(* number of calls; the combined stream, for any number of reconnects and  *)
(* events; the user stream and its keepalive loop; the stream buffer; the  *)
(* requests with whatever is set in them; and decimal_t, its arithmetic    *)
(* and its texts.                                                          *)
(* The client, the combined stream, the requests and the numbers are shown *)
(* for the specification of Fapi, whose other parts leave the part in      *)
(* question alone.                                                         *)
(***************************************************************************)
EXTENDS Fapi, UserStream, ThreadsafeStreamBuffer, SequenceTheorems, NaturalsInduction,
        WellFoundedInduction, TLAPS

-----------------------------------------------------------------------------
\* The WebSocket API client.

\* Why ids need not be compared: a request or an answer is under way only while
\* a call waits for it, and then it bears the number of that call, the last one.
OneExchange ==
    /\ sending # 0 => sending = id_counter_
    /\ sending = 0 => asked = <<>> /\ frames = <<>>
    /\ \A i \in DOMAIN asked : asked[i] = id_counter_

ClientInv == CallsAnswered /\ OneExchange

LEMMA ClientInitInv == ClientInit => ClientInv
<1> SUFFICES ASSUME ClientInit PROVE ClientInv
  OBVIOUS
<1> USE MaxCallsAssumption DEF ClientInit
<1>1. asked \in Seq(1..MaxCalls) /\ frames \in Seq(Frame)
  BY EmptySeq
<1>2. outcome = [call |-> 0, frame |-> 0, kind |-> "none", what |-> "nothing"]
  BY DEF Nothing, Without
<1>3. ClientTypeOK
  BY <1>1, <1>2 DEF ClientTypeOK
<1>4. AnswersOwnCall /\ RefusalIsTold /\ OneExchange
  BY <1>2 DEF AnswersOwnCall, RefusalIsTold, OneExchange
<1> QED
  BY <1>3, <1>4 DEF ClientInv, CallsAnswered

\* A step that ends with no call waiting and nothing under way: the last outcome
\* is kept, or a call has failed without an answer.
LEMMA ClientRests ==
    ASSUME ClientInv, link' \in {"none", "open", "dead"}, id_counter_' \in 0..MaxCalls,
           sending' = 0, asked' = <<>>, frames' = <<>>,
           \/ UNCHANGED outcome
           \/ \E c \in 0..MaxCalls : outcome' = Without(c, "transport")
    PROVE  ClientInv'
<1> USE MaxCallsAssumption
<1>1. asked' \in Seq(1..MaxCalls) /\ frames' \in Seq(Frame) /\ Len(asked') = 0 /\ Len(frames') = 0
  BY EmptySeq
<1>2. /\ outcome' \in [call : 0..MaxCalls, frame : 0..MaxCalls, kind : FrameKind \cup {"none"},
                       what : {"nothing", "success", "binance", "json", "transport"}]
      /\ outcome'.what \in {"success", "binance", "json"} => outcome'.frame = outcome'.call
      /\ outcome'.what = "success" => outcome'.kind \in {"result", "bare"}
  <2>1. CASE UNCHANGED outcome
    BY <2>1 DEF ClientInv, CallsAnswered, ClientTypeOK, AnswersOwnCall, RefusalIsTold
  <2>2. CASE \E c \in 0..MaxCalls : outcome' = Without(c, "transport")
    BY <2>2 DEF Without
  <2> QED
    BY <2>1, <2>2
<1>3. ClientTypeOK'
  BY <1>1, <1>2 DEF ClientTypeOK
<1>4. AnswersOwnCall' /\ RefusalIsTold' /\ OneExchange'
  BY <1>1, <1>2 DEF AnswersOwnCall, RefusalIsTold, OneExchange
<1> QED
  BY <1>3, <1>4 DEF ClientInv, CallsAnswered

LEMMA AtMostOne ==
    ASSUME NEW m \in Nat, NEW n \in Nat, m + n <= 1
    PROVE  (m >= 1 => m = 1 /\ n = 0) /\ (n >= 1 => n = 1 /\ m = 0)
  OBVIOUS

LEMMA WriteKeeps == ASSUME ClientInv, Write PROVE ClientInv'
<1> USE MaxCallsAssumption
<1>1. /\ link \in {"none", "open", "dead"} /\ id_counter_ \in 0..MaxCalls
      /\ sending = 0 /\ asked = <<>> /\ frames = <<>> /\ id_counter_ < MaxCalls
      /\ id_counter_' = id_counter_ + 1 /\ UNCHANGED <<link, frames>>
  BY DEF ClientInv, CallsAnswered, ClientTypeOK, OneExchange, Write
<1>2. id_counter_' \in 1..MaxCalls
  BY <1>1
<1>3. CASE outcome' = Without(id_counter_', "transport") /\ UNCHANGED <<sending, asked>>
  BY <1>1, <1>2, <1>3, ClientRests
<1>4. CASE /\ sending' = id_counter_' /\ UNCHANGED outcome
           /\ asked' = IF link = "open" THEN Append(asked, id_counter_') ELSE asked
  <2>1. /\ asked' \in Seq(1..MaxCalls) /\ Len(asked') \in {0, 1}
        /\ \A i \in DOMAIN asked' : asked'[i] = id_counter_'
    <3>1. CASE link = "open"
      <4>1. asked' = <<id_counter_'>>
        BY <1>1, <1>4, <3>1
      <4> QED
        BY <1>2, <4>1
    <3>2. CASE link # "open"
      <4>1. asked' = <<>>
        BY <1>1, <1>4, <3>2
      <4> QED
        BY <4>1, EmptySeq
    <3> QED
      BY <3>1, <3>2
  <2>2. frames' = <<>> /\ frames' \in Seq(Frame) /\ Len(frames') = 0
    BY <1>1, EmptySeq
  <2>3. ClientTypeOK'
    BY <1>1, <1>2, <1>4, <2>1, <2>2 DEF ClientInv, CallsAnswered, ClientTypeOK
  <2>4. AnswersOwnCall' /\ RefusalIsTold'
    BY <1>4, <2>1, <2>2 DEF ClientInv, CallsAnswered, AnswersOwnCall, RefusalIsTold
  <2>5. OneExchange'
    BY <1>2, <1>4, <2>1, <2>2 DEF OneExchange
  <2> QED
    BY <2>3, <2>4, <2>5 DEF ClientInv, CallsAnswered
<1> QED
  BY <1>3, <1>4 DEF Write

LEMMA ReadKeeps == ASSUME ClientInv, Read PROVE ClientInv'
<1> USE MaxCallsAssumption
<1>1. /\ id_counter_ \in 0..MaxCalls /\ sending \in 0..id_counter_ /\ sending # 0
      /\ frames \in Seq(Frame) /\ frames # <<>> /\ asked \in Seq(1..MaxCalls)
      /\ sending = id_counter_ /\ link \in {"none", "open", "dead"}
      /\ sending' = 0 /\ frames' = Tail(frames) /\ UNCHANGED <<link, id_counter_, asked>>
  BY DEF ClientInv, CallsAnswered, ClientTypeOK, OneExchange, Read
<1>2. /\ \A i \in DOMAIN frames : frames[i].id = id_counter_
      /\ Len(frames) + Len(asked) <= 1
  BY DEF ClientInv, CallsAnswered, AnswersOwnCall
<1> DEFINE f == Head(frames)
<1>3. f \in Frame /\ f.id = id_counter_
  BY <1>1, <1>2
<1>4. f.kind \in FrameKind
  BY <1>3 DEF Frame
<1> HIDE DEF f
<1>5. Len(frames) >= 1 /\ Len(frames) \in Nat /\ Len(asked) \in Nat
  BY <1>1
<1>6. Len(Tail(frames)) = 0 /\ Len(asked) = 0 /\ Tail(frames) \in Seq(Frame)
  <2>1. Len(frames) = 1 /\ Len(asked) = 0
    BY <1>2, <1>5, AtMostOne
  <2>2. Tail(frames) \in Seq(Frame) /\ Len(Tail(frames)) = Len(frames) - 1
    BY <1>1
  <2> QED
    BY <2>1, <2>2
<1>7. asked' = <<>> /\ frames' = <<>>
  BY <1>1, <1>6, EmptySeq
<1>8. outcome' = [call |-> sending, frame |-> f.id, kind |-> f.kind,
                  what |-> decode_rpc_response(f.kind)]
  BY DEF Read, f
<1>9. /\ decode_rpc_response(f.kind) \in {"success", "binance", "json"}
      /\ decode_rpc_response(f.kind) = "success" => f.kind \in {"result", "bare"}
  BY <1>4 DEF decode_rpc_response, FrameKind
<1>10. /\ asked' \in Seq(1..MaxCalls) /\ frames' \in Seq(Frame) /\ Len(asked') = 0 /\ Len(frames') = 0
  BY <1>7, EmptySeq
<1>11. /\ outcome' \in [call : 0..MaxCalls, frame : 0..MaxCalls, kind : FrameKind \cup {"none"},
                       what : {"nothing", "success", "binance", "json", "transport"}]
       /\ outcome'.frame = outcome'.call
       /\ outcome'.what = "success" => outcome'.kind \in {"result", "bare"}
  <2>1. sending \in 0..MaxCalls /\ f.id \in 0..MaxCalls /\ f.id = sending
    BY <1>1, <1>3
  <2> HIDE DEF decode_rpc_response
  <2> QED
    BY <1>4, <1>8, <1>9, <2>1
<1>12. ClientTypeOK'
  BY <1>1, <1>10, <1>11 DEF ClientTypeOK
<1>13. AnswersOwnCall' /\ RefusalIsTold'
  BY <1>7, <1>10, <1>11 DEF AnswersOwnCall, RefusalIsTold
<1>14. OneExchange'
  BY <1>1, <1>7 DEF OneExchange
<1> QED
  BY <1>12, <1>13, <1>14 DEF ClientInv, CallsAnswered

LEMMA AnswerKeeps == ASSUME ClientInv, Answer PROVE ClientInv'
<1> USE MaxCallsAssumption
<1>1. /\ id_counter_ \in 0..MaxCalls /\ frames \in Seq(Frame) /\ asked \in Seq(1..MaxCalls)
      /\ UNCHANGED <<link, id_counter_, sending, outcome>>
      /\ Len(frames) + Len(asked) <= 1
      /\ \A i \in DOMAIN asked : asked[i] = id_counter_
  BY DEF ClientInv, CallsAnswered, ClientTypeOK, AnswersOwnCall, OneExchange, Answer
<1>2. PICK i \in DOMAIN asked : \E kind \in FrameKind :
          /\ frames' = Append(frames, [id |-> asked[i], kind |-> kind])
          /\ asked' = RemoveAt(asked, i)
  BY DEF Answer
<1>3. PICK kind \in FrameKind :
          /\ frames' = Append(frames, [id |-> asked[i], kind |-> kind])
          /\ asked' = RemoveAt(asked, i)
  BY <1>2
<1>4. Len(asked) \in Nat /\ Len(frames) \in Nat /\ i \in 1..Len(asked)
  BY <1>1
<1>5. Len(asked) = 1 /\ i = 1 /\ Len(frames) = 0
  <2>1. Len(asked) >= 1
    BY <1>4
  <2>2. Len(asked) = 1 /\ Len(frames) = 0
    BY <1>1, <1>4, <2>1, AtMostOne
  <2> QED
    BY <1>4, <2>2
<1>6. frames = <<>>
  BY <1>1, <1>5, EmptySeq
<1> DEFINE f == [id |-> asked[i], kind |-> kind]
<1>7. f \in Frame /\ f.id = id_counter_
  BY <1>1, <1>4 DEF Frame
<1>8. frames' = <<f>>
  BY <1>3, <1>6
<1> HIDE DEF f
<1>9. frames' \in Seq(Frame) /\ Len(frames') = 1 /\ \A j \in DOMAIN frames' : frames'[j].id = id_counter_
  BY <1>7, <1>8
<1>10. asked' = <<>>
  <2>1. asked' = SubSeq(asked, 1, 0) \o SubSeq(asked, 2, 1)
    BY <1>3, <1>5 DEF RemoveAt
  <2>2. SubSeq(asked, 1, 0) = <<>> /\ SubSeq(asked, 2, 1) = <<>>
    BY <1>1, <1>5
  <2> QED
    BY <2>1, <2>2
<1>11. asked' \in Seq(1..MaxCalls) /\ Len(asked') = 0
  BY <1>10, EmptySeq
<1>12. sending # 0
  BY <1>5, EmptySeq DEF ClientInv, OneExchange
<1>13. ClientTypeOK'
  BY <1>1, <1>9, <1>11 DEF ClientInv, CallsAnswered, ClientTypeOK
<1>14. AnswersOwnCall' /\ RefusalIsTold'
  BY <1>1, <1>9, <1>11 DEF ClientInv, CallsAnswered, AnswersOwnCall, RefusalIsTold
<1>15. OneExchange'
  BY <1>1, <1>10, <1>12 DEF ClientInv, OneExchange
<1> QED
  BY <1>13, <1>14, <1>15 DEF ClientInv, CallsAnswered

LEMMA ClientStepKeeps == ClientInv /\ [ClientNext]_clientVars => ClientInv'
<1> SUFFICES ASSUME ClientInv, [ClientNext]_clientVars PROVE ClientInv'
  OBVIOUS
<1> USE MaxCallsAssumption
<1>1. /\ id_counter_ \in 0..MaxCalls /\ sending \in 0..id_counter_
      /\ link \in {"none", "open", "dead"}
  BY DEF ClientInv, CallsAnswered, ClientTypeOK
<1>2. CASE Write
  BY <1>2, WriteKeeps
<1>3. CASE Read
  BY <1>3, ReadKeeps
<1>4. CASE Answer
  BY <1>4, AnswerKeeps
<1>5. CASE async_connect
  BY <1>1, <1>5, ClientRests DEF async_connect
<1>6. CASE async_close
  BY <1>1, <1>6, ClientRests DEF async_close
<1>7. CASE ReadFails
  <2>1. sending \in 0..MaxCalls
    BY <1>1
  <2> QED
    BY <1>1, <1>7, <2>1, ClientRests DEF ReadFails
<1>8. CASE PeerGone
  <2>1. /\ link' = "dead" /\ asked' = <<>> /\ UNCHANGED <<id_counter_, sending, frames, outcome>>
    BY <1>8 DEF PeerGone
  <2>2. asked' \in Seq(1..MaxCalls) /\ Len(asked') = 0
    BY <2>1, EmptySeq
  <2>3. ClientTypeOK'
    BY <2>1, <2>2 DEF ClientInv, CallsAnswered, ClientTypeOK
  <2>4. Len(frames) \in Nat /\ Len(asked) \in Nat /\ Len(frames) + Len(asked) <= 1
    BY LenProperties DEF ClientInv, CallsAnswered, ClientTypeOK, AnswersOwnCall
  <2>5. AnswersOwnCall' /\ RefusalIsTold'
    BY <2>1, <2>2, <2>4 DEF ClientInv, CallsAnswered, AnswersOwnCall, RefusalIsTold
  <2>6. OneExchange'
    BY <2>1 DEF ClientInv, OneExchange
  <2> QED
    BY <2>3, <2>5, <2>6 DEF ClientInv, CallsAnswered
<1>9. CASE UNCHANGED clientVars
  BY <1>9 DEF clientVars, ClientInv, CallsAnswered, ClientTypeOK, AnswersOwnCall, RefusalIsTold,
     OneExchange
<1> QED
  BY <1>2, <1>3, <1>4, <1>5, <1>6, <1>7, <1>8, <1>9 DEF ClientNext, ClientStep

\* async_send_rpc compares no ids, and still a call returns the answer to its
\* own request, told as what it is: CallsAnswered holds in every part.
THEOREM CallsAreAnswered == Spec => []CallsAnswered
<1>1. Init => ClientInv
  BY ClientInitInv DEF Init
<1>2. ClientInv /\ [Next]_vars => ClientInv'
  <2> SUFFICES ASSUME [Next]_vars PROVE [ClientNext]_clientVars
    BY ClientStepKeeps
  <2> QED
    BY DEF Next, RestCall, RestAnswer, RpcCall, RpcStep, CombinedStep, LookUp, Look, vars,
       ClientNext
<1>3. Spec => []ClientInv
  BY <1>1, <1>2, PTL DEF Spec
<1>4. ClientInv => CallsAnswered
  BY DEF ClientInv
<1> QED
  BY <1>3, <1>4, PTL

-----------------------------------------------------------------------------
\* The combined stream: first the tables, whose entries are compared.

\* Every wire name of an event is read as one enumerator, that of the event.
LEMMA EventRead ==
    ASSUME NEW e \in DOMAIN market_event_traits
    PROVE  read(market_event_traits[e].wire_name, market_event_type_t_meta)
               = {market_event_traits[e].enum_value}
  BY DEF market_event_traits, market_event_type_t_meta, Event, read, Range

\* No two events share an enumerator.
LEMMA EventsApart ==
    \A a, e \in DOMAIN market_event_traits :
        market_event_traits[a].enum_value = market_event_traits[e].enum_value => a = e
  BY DEF market_event_traits, Event

\* Every subscription has events that the traits name.
LEMMA StreamHasEvent ==
    \A s \in DOMAIN stream_traits :
        stream_traits[s].event_type \in DOMAIN market_event_traits
<1>1. \A s \in DOMAIN symbol_stream_traits :
          symbol_stream_traits[s].event_type \in DOMAIN market_event_traits
  BY DEF symbol_stream_traits, market_event_traits, Stream
<1>2. \A s \in DOMAIN all_market_stream_traits :
          all_market_stream_traits[s].event_type \in DOMAIN market_event_traits
  <2> DEFINE t == all_market_stream_traits
  <2>1. DOMAIN t =
            {"all_market_mini_ticker_subscription",
             "all_market_ticker_subscription",
             "all_book_ticker_subscription",
             "all_market_liquidation_order_subscription",
             "all_market_mark_price_subscription",
             "contract_info_subscription",
             "all_asset_index_subscription",
             "trading_session_subscription",
             "continuous_contract_kline_subscription"}
    BY DEF all_market_stream_traits
  <2>2. /\ t.all_market_mini_ticker_subscription.event_type = "mini_ticker_stream_event_t"
        /\ t.all_market_ticker_subscription.event_type = "ticker_stream_event_t"
        /\ t.all_book_ticker_subscription.event_type = "book_ticker_stream_event_t"
        /\ t.all_market_liquidation_order_subscription.event_type = "liquidation_order_stream_event_t"
        /\ t.all_market_mark_price_subscription.event_type = "mark_price_stream_event_t"
        /\ t.contract_info_subscription.event_type = "contract_info_stream_event_t"
        /\ t.all_asset_index_subscription.event_type = "asset_index_stream_event_t"
        /\ t.trading_session_subscription.event_type = "trading_session_stream_event_t"
        /\ t.continuous_contract_kline_subscription.event_type = "continuous_contract_kline_stream_event_t"
    BY DEF all_market_stream_traits, Stream, Arrays
  <2> HIDE DEF t
  <2>3. \A s \in DOMAIN t : t[s].event_type \in DOMAIN market_event_traits
    BY <2>1, <2>2 DEF market_event_traits
  <2> QED
    BY <2>3 DEF t
<1> QED
  BY <1>1, <1>2 DEF stream_traits

\* parse_variant finds the type of a frame's subscription in the table that was
\* made of the subscriptions, wherever it stands in it.
LEMMA DispatchFinds ==
    ASSUME subs \in [1..2 -> Combinable], NEW i \in DOMAIN subs,
           NEW e, e = stream_traits[subs[i]].event_type
    PROVE  parse_variant(market_event_traits[e].wire_name, dispatch,
                         market_event_traits, market_event_type_t_meta) = e
<1>1. /\ DOMAIN dispatch = 1..2 /\ DOMAIN subs = 1..2
      /\ \A j \in 1..2 : dispatch[j] = stream_traits[subs[j]].event_type
  BY DEF dispatch
<1>2. \A j \in 1..2 : dispatch[j] \in DOMAIN market_event_traits
  <2>1. \A j \in 1..2 : subs[j] \in DOMAIN stream_traits
    BY DEF Combinable
  <2> QED
    BY <1>1, <2>1, StreamHasEvent
<1>3. i \in 1..2 /\ dispatch[i] = e /\ e \in DOMAIN market_event_traits
  BY <1>1, <1>2
<1> DEFINE hits == {j \in DOMAIN dispatch :
                        market_event_traits[dispatch[j]].enum_value
                            \in read(market_event_traits[e].wire_name, market_event_type_t_meta)}
           first == CHOOSE j \in hits : \A k \in hits : j <= k
<1>4. hits = {j \in 1..2 : dispatch[j] = e}
  <2>1. read(market_event_traits[e].wire_name, market_event_type_t_meta)
            = {market_event_traits[e].enum_value}
    BY <1>3, EventRead
  <2>2. \A j \in 1..2 : market_event_traits[dispatch[j]].enum_value
                            = market_event_traits[e].enum_value <=> dispatch[j] = e
    BY <1>2, <1>3, EventsApart
  <2> QED
    BY <1>1, <2>1, <2>2
<1>5. parse_variant(market_event_traits[e].wire_name, dispatch,
                    market_event_traits, market_event_type_t_meta)
          = IF hits = {} THEN "nullopt" ELSE dispatch[first]
  BY DEF parse_variant
<1> HIDE DEF hits
<1>6. i \in hits /\ hits \subseteq 1..2
  BY <1>3, <1>4
<1>7. \E j \in hits : \A k \in hits : j <= k
  <2>1. CASE 1 \in hits
    BY <1>6, <2>1
  <2>2. CASE 1 \notin hits
    <3>1. \A k \in hits : k = 2
      BY <1>6, <2>2
    <3> QED
      BY <1>6, <3>1
  <2> QED
    BY <2>1, <2>2
<1>8. first \in hits
  BY <1>7
<1> HIDE DEF first
<1>9. dispatch[first] = e
  BY <1>4, <1>8
<1> QED
  BY <1>5, <1>6, <1>9

-----------------------------------------------------------------------------
\* The places of the generator; the parts that do not look at it have no
\* subscription.
CombinedPlaces ==
    /\ at \in {"connect", "read", "ended"} /\ failed \in Nat
    /\ at = "read" => failed <= max_reconnects_
    /\ subs = <<>> \/ subs \in [1..2 -> Combinable]
    /\ yields \in Seq(Range(yields))

\* The first n things that were yielded are events.
Events(n) == \A i \in 1..n : yields[i].kind = "event"

\* What has been yielded at each place: a failure only where the loop condition
\* is false already.
YieldedSoFar ==
    /\ at = "read" \/ (at = "connect" /\ failed <= max_reconnects_) => Events(Len(yields))
    /\ at = "connect" =>
           /\ Events(Len(yields) - 1)
           /\ yields # <<>> => yields[Len(yields)].kind \in {"event", "json"}
    /\ at = "ended" =>
           /\ yields # <<>> /\ yields[Len(yields)].kind = "last"
           /\ Events(Len(yields) - 2)
           /\ Len(yields) > 1 => yields[Len(yields) - 1].kind \in {"event", "json"}

CombinedInv == CombinedPlaces /\ YieldedSoFar /\ EventDispatched

LEMMA OneMore ==
    ASSUME NEW R, NEW s \in Seq(R), NEW e, NEW t, t = Append(s, e)
    PROVE  /\ t \in Seq({t[i] : i \in DOMAIN t}) /\ t # <<>> /\ Len(s) \in Nat
           /\ Len(t) = Len(s) + 1 /\ t[Len(s) + 1] = e
           /\ \A i \in 1..Len(s) : t[i] = s[i]
           /\ DOMAIN t = 1..(Len(s) + 1)
<1> DEFINE S == R \cup {e}
           T == {t[i] : i \in DOMAIN t}
<1>1. R \subseteq S /\ e \in S
  OBVIOUS
<1> HIDE DEF S
<1>2. s \in Seq(S)
  <2>1. Len(s) \in Nat /\ \A i \in 1..Len(s) : s[i] \in S
    BY <1>1, LenProperties, ElementOfSeq
  <2>2. s = [i \in 1..Len(s) |-> s[i]]
    BY LenProperties
  <2> QED
    BY <2>1, <2>2, SeqDef
<1>3. /\ t \in Seq(S) /\ Len(s) \in Nat /\ Len(t) = Len(s) + 1 /\ t[Len(s) + 1] = e
      /\ \A i \in 1..Len(s) : t[i] = s[i]
      /\ DOMAIN t = 1..(Len(s) + 1) /\ t # <<>>
  BY <1>1, <1>2, AppendProperties
<1>4. \A i \in 1..Len(t) : t[i] \in T
  BY <1>3
<1> HIDE DEF T
<1>5. t \in Seq(T)
  <2>1. t = [i \in 1..Len(t) |-> t[i]] /\ Len(t) \in Nat
    BY <1>3, LenProperties
  <2> QED
    BY <1>4, <2>1, SeqDef
<1> QED
  BY <1>3, <1>5 DEF T

LEMMA CombinedInitInv == Init => CombinedInv
<1> SUFFICES ASSUME Init PROVE CombinedInv
  OBVIOUS
<1>1. /\ at = "connect" /\ failed = 0 /\ yields = <<>>
      /\ subs = <<>> \/ subs \in [1..2 -> Combinable]
  BY DEF Init, CombinedInit
<1>2. yields \in Seq(Range(yields)) /\ Len(yields) = 0
  BY <1>1, EmptySeq
<1>3. CombinedPlaces
  BY <1>1, <1>2, CombinedAssumption DEF CombinedPlaces
<1>4. YieldedSoFar /\ EventDispatched
  BY <1>1, <1>2 DEF YieldedSoFar, Events, EventDispatched
<1> QED
  BY <1>3, <1>4 DEF CombinedInv

\* The steps that yield nothing.
LEMMA SilentKeeps ==
    ASSUME CombinedInv, Connected \/ ConnectFails \/ ReadFailed
    PROVE  CombinedInv'
<1>1. /\ UNCHANGED <<subs, yields>> /\ failed \in Nat /\ at' \in {"connect", "read"}
      /\ failed' \in {0, failed + 1} /\ at \in {"connect", "read"}
      /\ at = "connect" => failed <= max_reconnects_
      /\ at' = "read" => failed' = 0
  BY DEF CombinedInv, CombinedPlaces, Connected, ConnectFails, ReadFailed, Failed
<1>2. CombinedPlaces'
  BY <1>1, CombinedAssumption DEF CombinedInv, CombinedPlaces
<1>3. EventDispatched'
  BY <1>1 DEF CombinedInv, EventDispatched
<1>4. Events(Len(yields)) /\ Len(yields) \in Nat
  BY <1>1, LenProperties DEF CombinedInv, CombinedPlaces, YieldedSoFar
<1>5. Events(Len(yields))' /\ Events(Len(yields) - 1)'
  BY <1>1, <1>4 DEF Events
<1>6. yields' # <<>> => yields'[Len(yields')].kind = "event"
  <2>1. yields \in Seq(Range(yields))
    BY DEF CombinedInv, CombinedPlaces
  <2>2. yields # <<>> => Len(yields) \in 1..Len(yields)
    BY <2>1, <1>4, EmptySeq
  <2> QED
    BY <1>1, <1>4, <2>2 DEF Events
<1>7. YieldedSoFar'
  BY <1>1, <1>5, <1>6 DEF YieldedSoFar
<1> QED
  BY <1>2, <1>3, <1>7 DEF CombinedInv

\* A frame is yielded as what it was sent as, or as the failure that ends the
\* loop.
LEMMA YieldKeeps ==
    ASSUME CombinedInv, at = "read", NEW sent, NEW parsed, Yield(sent, parsed),
           parsed \in {sent, "nullopt"}
    PROVE  CombinedInv'
<1> DEFINE e == [kind |-> IF parsed = "nullopt" THEN "json" ELSE "event",
                 sent |-> sent, taken |-> parsed]
<1>1. /\ yields' = Append(yields, e) /\ UNCHANGED subs
      /\ IF parsed = "nullopt" THEN at' = "connect" /\ failed' = max_reconnects_ + 1
                              ELSE UNCHANGED <<at, failed>>
  BY DEF Yield
<1>2. /\ e.kind \in {"event", "json"} /\ (parsed # "nullopt" => e.kind = "event")
      /\ e.kind = "event" => e.taken = e.sent
  OBVIOUS
<1> HIDE DEF e
<1>3. yields \in Seq(Range(yields)) /\ Events(Len(yields)) /\ EventDispatched
      /\ failed \in Nat /\ failed <= max_reconnects_
  BY DEF CombinedInv, CombinedPlaces, YieldedSoFar
<1>4. /\ yields' \in Seq(Range(yields')) /\ yields' # <<>> /\ Len(yields) \in Nat
      /\ Len(yields') = Len(yields) + 1 /\ yields'[Len(yields) + 1] = e
      /\ \A i \in 1..Len(yields) : yields'[i] = yields[i]
      /\ DOMAIN yields' = 1..(Len(yields) + 1)
  <2> DEFINE R == Range(yields)
             t == yields'
  <2>1. t = Append(yields, e) /\ yields \in Seq(R)
    BY <1>1, <1>3
  <2> HIDE DEF R, t
  <2>2. /\ t \in Seq({t[i] : i \in DOMAIN t}) /\ t # <<>> /\ Len(yields) \in Nat
        /\ Len(t) = Len(yields) + 1 /\ t[Len(yields) + 1] = e
        /\ \A i \in 1..Len(yields) : t[i] = yields[i]
        /\ DOMAIN t = 1..(Len(yields) + 1)
    BY <2>1, OneMore
  <2> QED
    BY <2>2 DEF t, Range
<1>5. CombinedPlaces'
  BY <1>1, <1>3, <1>4, CombinedAssumption DEF CombinedInv, CombinedPlaces
<1>6. EventDispatched'
  <2> SUFFICES ASSUME NEW i \in DOMAIN yields', yields'[i].kind = "event"
               PROVE  yields'[i].taken = yields'[i].sent
    BY DEF EventDispatched
  <2>1. CASE i = Len(yields) + 1
    BY <1>2, <1>4, <2>1
  <2>2. CASE i # Len(yields) + 1
    <3>1. i \in 1..Len(yields) /\ i \in DOMAIN yields
      BY <1>3, <1>4, <2>2
    <3> QED
      BY <1>3, <1>4, <3>1 DEF EventDispatched
  <2> QED
    BY <2>1, <2>2
<1>7. \A i \in 1..Len(yields) : yields'[i].kind = "event"
  BY <1>3, <1>4 DEF Events
<1>8. Events(Len(yields) - 1)'
  BY <1>4, <1>7 DEF Events
<1>9. parsed # "nullopt" => Events(Len(yields))'
  BY <1>2, <1>4, <1>7 DEF Events
<1>10. YieldedSoFar'
  <2>1. CASE parsed = "nullopt"
    <3>1. at' = "connect" /\ ~(failed' <= max_reconnects_)
      BY <1>1, <2>1, CombinedAssumption
    <3> QED
      BY <1>2, <1>4, <1>8, <3>1 DEF YieldedSoFar
  <2>2. CASE parsed # "nullopt"
    <3>1. at' = "read" /\ Events(Len(yields))'
      BY <1>1, <1>9, <2>2
    <3> QED
      BY <3>1 DEF YieldedSoFar
  <2> QED
    BY <2>1, <2>2
<1> QED
  BY <1>5, <1>6, <1>10 DEF CombinedInv

LEMMA GiveUpKeeps == ASSUME CombinedInv, GiveUp PROVE CombinedInv'
<1> DEFINE e == [kind |-> "last", sent |-> last_error, taken |-> last_error]
<1>1. /\ yields' = Append(yields, e) /\ at = "connect" /\ at' = "ended"
      /\ UNCHANGED <<subs, failed>>
  BY DEF GiveUp
<1>2. e.kind = "last"
  OBVIOUS
<1> HIDE DEF e
<1>3. /\ yields \in Seq(Range(yields)) /\ EventDispatched
      /\ Events(Len(yields) - 1)
      /\ yields # <<>> => yields[Len(yields)].kind \in {"event", "json"}
  BY <1>1 DEF CombinedInv, CombinedPlaces, YieldedSoFar
<1>4. /\ yields' \in Seq(Range(yields')) /\ yields' # <<>> /\ Len(yields) \in Nat
      /\ Len(yields') = Len(yields) + 1 /\ yields'[Len(yields) + 1] = e
      /\ \A i \in 1..Len(yields) : yields'[i] = yields[i]
      /\ DOMAIN yields' = 1..(Len(yields) + 1)
  <2> DEFINE R == Range(yields)
             t == yields'
  <2>1. t = Append(yields, e) /\ yields \in Seq(R)
    BY <1>1, <1>3
  <2> HIDE DEF R, t
  <2>2. /\ t \in Seq({t[i] : i \in DOMAIN t}) /\ t # <<>> /\ Len(yields) \in Nat
        /\ Len(t) = Len(yields) + 1 /\ t[Len(yields) + 1] = e
        /\ \A i \in 1..Len(yields) : t[i] = yields[i]
        /\ DOMAIN t = 1..(Len(yields) + 1)
    BY <2>1, OneMore
  <2> QED
    BY <2>2 DEF t, Range
<1>5. CombinedPlaces'
  BY <1>1, <1>4 DEF CombinedInv, CombinedPlaces
<1>6. EventDispatched'
  <2> SUFFICES ASSUME NEW i \in DOMAIN yields', yields'[i].kind = "event"
               PROVE  yields'[i].taken = yields'[i].sent
    BY DEF EventDispatched
  <2>1. i # Len(yields) + 1
    BY <1>2, <1>4
  <2>2. i \in 1..Len(yields) /\ i \in DOMAIN yields
    BY <1>3, <1>4, <2>1
  <2> QED
    BY <1>3, <1>4, <2>2 DEF EventDispatched
<1>7. Events(Len(yields) - 2)'
  BY <1>3, <1>4 DEF Events
<1>8. Len(yields') > 1 => yields'[Len(yields') - 1].kind \in {"event", "json"}
  <2> SUFFICES ASSUME Len(yields') > 1
               PROVE  yields'[Len(yields') - 1].kind \in {"event", "json"}
    OBVIOUS
  <2>1. Len(yields) >= 1 /\ Len(yields') - 1 = Len(yields)
    BY <1>4
  <2>2. yields # <<>>
    BY <2>1, EmptySeq
  <2> QED
    BY <1>3, <1>4, <2>1, <2>2
<1>9. YieldedSoFar'
  BY <1>1, <1>2, <1>4, <1>7, <1>8 DEF YieldedSoFar
<1> QED
  BY <1>5, <1>6, <1>9 DEF CombinedInv

LEMMA CombinedStepKeeps == CombinedInv /\ [CombinedNext]_combinedVars => CombinedInv'
<1> SUFFICES ASSUME CombinedInv, [CombinedNext]_combinedVars PROVE CombinedInv'
  OBVIOUS
<1>1. CASE Connected \/ ConnectFails \/ ReadFailed
  BY <1>1, SilentKeeps
<1>2. CASE OddFrame
  BY <1>2, YieldKeeps DEF OddFrame
<1>3. CASE GiveUp
  BY <1>3, GiveUpKeeps
<1>4. CASE \E i \in DOMAIN subs : Delivered(subs[i])
  <2>1. PICK i \in DOMAIN subs : Delivered(subs[i])
    BY <1>4
  <2> DEFINE e == stream_traits[subs[i]].event_type
             parsed == parse_variant(market_event_traits[e].wire_name, dispatch,
                                    market_event_traits, market_event_type_t_meta)
  <2>2. at = "read" /\ Yield(e, parsed)
    BY <2>1 DEF Delivered
  <2>3. subs \in [1..2 -> Combinable]
    BY <2>1 DEF CombinedInv, CombinedPlaces
  <2>4. parsed = e
    BY <2>3, DispatchFinds
  <2> HIDE DEF e, parsed
  <2> QED
    BY <2>2, <2>4, YieldKeeps
<1>5. CASE UNCHANGED combinedVars
  BY <1>5 DEF combinedVars, CombinedInv, CombinedPlaces, YieldedSoFar, Events, EventDispatched
<1> QED
  BY <1>1, <1>2, <1>3, <1>4, <1>5 DEF CombinedNext

LEMMA InvImpliesFailureIsFinal == CombinedInv => FailureIsFinal
<1> SUFFICES ASSUME CombinedInv PROVE FailureIsFinal
  OBVIOUS
<1>1. yields \in Seq(Range(yields)) /\ at \in {"connect", "read", "ended"} /\ YieldedSoFar
  BY DEF CombinedInv, CombinedPlaces
<1>2. Len(yields) \in Nat /\ DOMAIN yields = 1..Len(yields)
  BY <1>1
<1>3. at = "ended" => yields[Len(yields)].kind = "last"
  BY <1>1 DEF YieldedSoFar
<1>4. ASSUME NEW i \in DOMAIN yields, NEW j \in DOMAIN yields, i < j, yields[i].kind # "event"
      PROVE  yields[i].kind = "json" /\ yields[j].kind = "last"
  <2>1. i \in 1..(Len(yields) - 1) /\ j \in 2..Len(yields)
    BY <1>2, <1>4
  <2>2. ~Events(Len(yields) - 1) /\ ~Events(Len(yields))
    BY <1>2, <1>4, <2>1 DEF Events
  <2>3. at = "ended"
    BY <1>1, <2>2 DEF YieldedSoFar
  <2>4. /\ Events(Len(yields) - 2) /\ yields[Len(yields)].kind = "last"
        /\ Len(yields) > 1 => yields[Len(yields) - 1].kind \in {"event", "json"}
    BY <1>1, <2>3 DEF YieldedSoFar
  <2>5. i = Len(yields) - 1
    BY <1>2, <1>4, <2>1, <2>4 DEF Events
  <2>6. j = Len(yields) /\ Len(yields) > 1
    BY <1>2, <1>4, <2>1, <2>5
  <2> QED
    BY <1>4, <2>4, <2>5, <2>6
<1> QED
  BY <1>3, <1>4 DEF FailureIsFinal

\* basic_combined_market_stream yields each event as the type that its topic
\* sends, whichever two subscriptions of the tables share the connection, and a
\* failure is followed by nothing but the last one.
THEOREM StreamIsTold == Spec => []StreamTold
<1>1. CombinedInv /\ [Next]_vars => CombinedInv'
  <2> SUFFICES ASSUME [Next]_vars PROVE [CombinedNext]_combinedVars
    BY CombinedStepKeeps
  <2> QED
    BY DEF Next, RestCall, RestAnswer, RpcCall, RpcStep, CombinedStep, LookUp, Look, vars
<1>2. Spec => []CombinedInv
  BY CombinedInitInv, <1>1, PTL DEF Spec
<1>3. CombinedInv => StreamTold
  BY InvImpliesFailureIsFinal DEF CombinedInv, StreamTold
<1> QED
  BY <1>2, <1>3, PTL

-----------------------------------------------------------------------------
(***************************************************************************)
(* The user stream, for every life of the key, every interval and every    *)
(* number of reconnects, on the loop's own executor or on another.         *)
(*                                                                         *)
(* KeyKept speaks of the moment of expiry only.  What carries it there is  *)
(* the loop's account of time: while the loop is enabled the key's age is  *)
(* the age it was found at, one interval for each keepalive missed since,  *)
(* and what has passed of the current interval.                            *)
(***************************************************************************)

\* The age of an enabled loop's key, told by the loop; of an expired key, the
\* last thing that the account says: the expiry came within the interval.
AgeAccounted ==
    running =>
        \/ ~Expired /\ age = since + missed * Interval + (Interval - remaining)
        \/ Expired /\ KeyLife <= since + missed * Interval + Interval

\* Only an enabled loop misses keepalives, and a caller that has gone on to
\* stop it has cleared keepalive_running_ first.
Enabled ==
    /\ loop = "off" => missed = 0
    /\ caller # "consumes" => ~running

KeyInv == UserTypeOK /\ Enabled /\ AgeAccounted

-----------------------------------------------------------------------------
\* Arithmetic of the account: intervals are products of two unknowns.
LEMMA Times ==
    ASSUME NEW m \in Nat, NEW i \in Nat \ {0}
    PROVE  /\ m * i \in Nat /\ m <= m * i
           /\ (m + 1) * i = m * i + i
  OBVIOUS

LEMMA Quotient ==
    ASSUME NEW a \in Int, NEW m \in Nat, NEW i \in Nat \ {0}, a < m * i + i
    PROVE  a \div i <= m
<1>1. a \div i \in Int /\ a % i \in 0..(i - 1) /\ a = i * (a \div i) + (a % i)
  OBVIOUS
<1> DEFINE q == a \div i
<1>2. q \in Int /\ i * q < m * i + i
  BY <1>1
<1> HIDE DEF q
<1>3. ASSUME q >= m + 1 PROVE FALSE
  <2>1. i * q >= i * (m + 1)
    BY <1>2, <1>3
  <2>2. i * (m + 1) = m * i + i
    OBVIOUS
  <2> QED
    BY <1>2, <2>1, <2>2
<1>4. q <= m
  BY <1>2, <1>3
<1> QED
  BY <1>4 DEF q

-----------------------------------------------------------------------------
LEMMA KeyInit == UserInit => KeyInv
<1> SUFFICES ASSUME UserInit PROVE KeyInv
  OBVIOUS
<1>1. ~running /\ running \in BOOLEAN /\ connected \in BOOLEAN
  BY DEF UserInit
<1>2. Enabled /\ AgeAccounted
  BY <1>1 DEF UserInit, Enabled, AgeAccounted
<1>3. UserTypeOK
  BY <1>1, UserStreamAssumption DEF UserInit, UserTypeOK, Yielded
<1> QED
  BY <1>2, <1>3 DEF KeyInv

\* What an enabled loop's account says of the number of keepalives missed.
LEMMA MissedFits ==
    ASSUME KeyInv, running, ~Expired, loop = "request"
    PROVE  missed < KeyLife /\ age = since + missed * Interval + Interval
<1> USE UserStreamAssumption
<1>1. age = since + missed * Interval + (Interval - remaining)
  BY DEF KeyInv, AgeAccounted
<1>2. /\ remaining = 0 /\ missed \in Nat /\ age \in 0..KeyLife
      /\ since \in Nat /\ Interval \in Nat \ {0} /\ KeyLife \in Nat
      /\ age # KeyLife
  BY DEF KeyInv, UserTypeOK, Expired
<1>3. missed * Interval \in Nat /\ missed <= missed * Interval
  BY <1>2, Times
<1> QED
  BY <1>1, <1>2, <1>3

\* A step of the generator, or of the consumer, leaves key and loop alone.
LEMMA ConsumerKeeps ==
    ASSUME KeyInv, subscribe \/ Generator \/ Resume
    PROVE  KeyInv'
<1> USE UserStreamAssumption
<1>1. UNCHANGED <<keyVars, connected, loopVars, caller>>
  BY DEF subscribe, Generator, Connects, UserConnectFails, YieldEvent, UserReadFails,
         Closes, Resume
<1>2. (Enabled /\ AgeAccounted)'
  BY <1>1 DEF KeyInv, Enabled, AgeAccounted, Expired, keyVars, loopVars
<1>3. /\ gen' \in Yielded \cup {"idle", "connect", "read", "close", "ended"}
      /\ failures' \in 0..(MaxReconnects + 1)
      /\ gen' \in {"last", "ended"} <=> failures' > MaxReconnects
  BY DEF KeyInv, UserTypeOK, Yielded, subscribe, Generator, Connects, UserConnectFails,
         YieldEvent, UserReadFails, Closes, Resume, TryAgain
<1> QED
  BY <1>1, <1>2, <1>3 DEF KeyInv, UserTypeOK, Yielded, keyVars, loopVars

\* One tick: the key and the timer age together.
LEMMA TickKeeps == ASSUME KeyInv, Tick PROVE KeyInv'
<1> USE UserStreamAssumption
<1>1. UserTypeOK'
  BY DEF KeyInv, UserTypeOK, Tick, Yielded, Expired, genVars
<1>2. Enabled'
  BY DEF KeyInv, Enabled, Tick
<1>3. AgeAccounted'
  <2> SUFFICES ASSUME running'
               PROVE  \/ ~Expired' /\ age' = since' + missed' * Interval + (Interval - remaining')
                      \/ Expired' /\ KeyLife <= since' + missed' * Interval + Interval
    BY DEF AgeAccounted
  <2>1. running /\ caller = "consumes" /\ UNCHANGED <<missed, since>>
    BY DEF KeyInv, Enabled, Tick
  <2>2. loop = "timer" /\ remaining > 0
    BY <2>1 DEF KeyInv, UserTypeOK, Tick, Runs
  <2>3. /\ remaining \in 1..Interval /\ remaining' = remaining - 1
        /\ missed \in Nat /\ since \in Nat /\ age \in 0..KeyLife
        /\ Interval \in Nat \ {0} /\ KeyLife \in Nat
    BY <2>2 DEF KeyInv, UserTypeOK, Tick
  <2>4. missed * Interval \in Nat
    BY <2>3, Times
  <2>5. CASE Expired
    BY <2>1, <2>5 DEF KeyInv, AgeAccounted, Tick, Expired
  <2>6. CASE ~Expired
    <3>1. age = since + missed * Interval + (Interval - remaining) /\ age' = age + 1
      BY <2>1, <2>6 DEF KeyInv, AgeAccounted, Tick
    <3>2. age' = since + missed * Interval + (Interval - remaining')
      BY <3>1, <2>3, <2>4
    <3>3. age' <= since + missed * Interval + Interval
      BY <3>2, <2>3, <2>4
    <3> QED
      BY <2>1, <3>2, <3>3 DEF Expired
  <2> QED
    BY <2>5, <2>6
<1> QED
  BY <1>1, <1>2, <1>3 DEF KeyInv

\* The loop's own steps: the request that counts, and the timer armed anew.
LEMMA KeepaliveKeeps == ASSUME KeyInv, Keepalive PROVE KeyInv'
<1> USE UserStreamAssumption
<1>1. CASE TimerDue
  <2>1. UserTypeOK' /\ Enabled'
    BY <1>1 DEF KeyInv, UserTypeOK, Enabled, TimerDue, Yielded, keyVars, genVars
  <2>2. AgeAccounted'
    BY <1>1 DEF KeyInv, AgeAccounted, TimerDue, Expired, keyVars
  <2> QED
    BY <2>1, <2>2 DEF KeyInv
<1>2. CASE KeepaliveOk
  <2>1. UserTypeOK' /\ Enabled'
    BY <1>2 DEF KeyInv, UserTypeOK, Enabled, KeepaliveOk, Again, Yielded, genVars
  <2>2. ASSUME running'
        PROVE  ~Expired' /\ age' = since' + missed' * Interval + (Interval - remaining')
    <3>1. age' = 0 /\ since' = 0 /\ missed' = 0 /\ remaining' = Interval
      BY <1>2, <2>2 DEF KeepaliveOk, Again
    <3>2. 0 * Interval = 0 /\ Interval \in Nat /\ KeyLife # 0
      OBVIOUS
    <3> QED
      BY <3>1, <3>2 DEF Expired
  <2> QED
    BY <2>1, <2>2 DEF KeyInv, AgeAccounted
<1>3. CASE KeepaliveFails
  <2>1. UserTypeOK' /\ Enabled'
    <3>1. connected' \in BOOLEAN
      BY <1>3 DEF KeyInv, UserTypeOK, KeepaliveFails
    <3>2. missed' \in 0..KeyLife
      BY <1>3 DEF KeyInv, UserTypeOK, KeepaliveFails
    <3> QED
      BY <1>3, <3>1, <3>2 DEF KeyInv, UserTypeOK, Enabled, KeepaliveFails, Again, Yielded,
         genVars
  <2>2. ASSUME running'
        PROVE  \/ ~Expired' /\ age' = since' + missed' * Interval + (Interval - remaining')
               \/ Expired' /\ KeyLife <= since' + missed' * Interval + Interval
    <3>1. running /\ loop = "request" /\ remaining' = Interval /\ UNCHANGED <<age, since>>
      BY <1>3, <2>2 DEF KeepaliveFails, Again
    <3>2. missed \in Nat /\ since \in Nat /\ Interval \in Nat \ {0}
      BY DEF KeyInv, UserTypeOK
    <3>3. /\ missed * Interval \in Nat
          /\ (missed + 1) * Interval = missed * Interval + Interval
      BY <3>2, Times
    <3>4. CASE Expired
      <4>1. KeyLife <= since + missed * Interval + Interval /\ Expired'
        BY <3>1, <3>4 DEF KeyInv, AgeAccounted, Expired
      <4>2. missed' * Interval >= missed * Interval /\ missed' * Interval \in Nat
        BY <1>3, <3>2, <3>3 DEF KeepaliveFails
      <4> QED
        BY <3>1, <3>2, <3>3, <4>1, <4>2
    <3>5. CASE ~Expired
      <4>1. missed < KeyLife /\ age = since + missed * Interval + Interval
        BY <3>1, <3>5, MissedFits
      <4>2. missed' = missed + 1
        BY <1>3, <4>1 DEF KeepaliveFails
      <4>3. age' = since' + missed' * Interval + (Interval - remaining')
        BY <3>1, <3>2, <3>3, <4>1, <4>2
      <4> QED
        BY <3>1, <3>5, <4>3 DEF Expired
    <3> QED
      BY <3>4, <3>5
  <2> QED
    BY <2>1, <2>2 DEF KeyInv, AgeAccounted
<1> QED
  BY <1>1, <1>2, <1>3 DEF Keepalive

\* The caller enables and ends the loop.
LEMMA CallerKeeps ==
    ASSUME KeyInv, enable_keepalive \/ stop_keepalive \/ StopReturns
    PROVE  KeyInv'
<1> USE UserStreamAssumption
<1>1. CASE enable_keepalive
  <2>1. UserTypeOK' /\ Enabled'
    BY <1>1 DEF KeyInv, UserTypeOK, Enabled, enable_keepalive, Yielded, genVars
  <2>2. /\ missed' = 0 /\ since' = age /\ age' = age /\ remaining' = Interval
        /\ age \in 0..KeyLife
    BY <1>1 DEF KeyInv, UserTypeOK, Enabled, enable_keepalive
  <2>3. 0 * Interval = 0 /\ Interval \in Nat /\ KeyLife \in Nat
    OBVIOUS
  <2>4. age' = since' + missed' * Interval + (Interval - remaining')
    BY <2>2, <2>3
  <2>5. Expired' => KeyLife <= since' + missed' * Interval + Interval
    BY <2>2, <2>3 DEF Expired
  <2> QED
    BY <2>1, <2>4, <2>5 DEF KeyInv, AgeAccounted
<1>2. CASE stop_keepalive
  <2>1. ~running' /\ running' \in BOOLEAN
    BY <1>2 DEF stop_keepalive
  <2> QED
    BY <1>2, <2>1 DEF KeyInv, UserTypeOK, Enabled, AgeAccounted, stop_keepalive, Yielded,
       keyVars, genVars
<1>3. CASE StopReturns
  <2>1. ~running
    BY <1>3 DEF KeyInv, Enabled, StopReturns
  <2> QED
    BY <1>3, <2>1 DEF KeyInv, UserTypeOK, Enabled, AgeAccounted, StopReturns, Yielded,
       keyVars, loopVars, genVars
<1> QED
  BY <1>1, <1>2, <1>3

LEMMA KeyStep == KeyInv /\ [UserNext]_userVars => KeyInv'
<1> SUFFICES ASSUME KeyInv, [UserNext]_userVars PROVE KeyInv'
  OBVIOUS
<1>1. CASE Tick
  BY <1>1, TickKeeps
<1>2. CASE enable_keepalive \/ stop_keepalive \/ StopReturns
  BY <1>2, CallerKeeps
<1>3. CASE Keepalive
  BY <1>3, KeepaliveKeeps
<1>4. CASE subscribe \/ Generator \/ Resume
  BY <1>4, ConsumerKeeps
<1>5. CASE UNCHANGED userVars
  BY <1>5 DEF userVars, keyVars, loopVars, genVars, KeyInv, UserTypeOK, Enabled, AgeAccounted,
     Expired
<1> QED
  BY <1>1, <1>2, <1>3, <1>4, <1>5 DEF UserNext

\* At the expiry the account bounds the keepalives missed from below.
LEMMA InvImpliesKeyKept == KeyInv => KeyKept
<1> SUFFICES ASSUME KeyInv, Expired, running
             PROVE  missed >= (KeyLife - 1 - since) \div Interval
  BY DEF KeyKept
<1>1. KeyLife <= since + missed * Interval + Interval
  BY DEF KeyInv, AgeAccounted
<1>2. missed \in Nat /\ since \in Nat /\ Interval \in Nat \ {0} /\ KeyLife \in Nat
  BY UserStreamAssumption DEF KeyInv, UserTypeOK
<1>3. missed * Interval \in Nat
  BY <1>2, Times
<1>4. KeyLife - 1 - since \in Int /\ KeyLife - 1 - since < missed * Interval + Interval
  BY <1>1, <1>2, <1>3
<1>5. (KeyLife - 1 - since) \div Interval <= missed
  BY <1>2, <1>4, Quotient
<1>6. (KeyLife - 1 - since) \div Interval \in Int
  BY <1>2, <1>4
<1> QED
  BY <1>2, <1>5, <1>6

\* KeySafe holds of the user stream: async_keepalive_loop_ reports nothing, and
\* still a key that it looks after expires only when every keepalive that fell
\* due in the key's life has failed.
THEOREM KeyIsSafe == UserSpec => []KeySafe
<1>1. UserSpec => []KeyInv
  BY KeyInit, KeyStep, PTL DEF UserSpec
<1>2. KeyInv => KeySafe
  BY InvImpliesKeyKept DEF KeySafe, KeyInv
<1> QED
  BY <1>1, <1>2, PTL

-----------------------------------------------------------------------------
(***************************************************************************)
(* The stream buffer, for every capacity and any number of pushes: nothing *)
(* is lost on the way through the queue, the forwarder and the channel, on *)
(* whichever executor the forwarder runs; and the forwarder never sleeps on *)
(* work where it runs on the timer's own.                                  *)
(***************************************************************************)

\* Who has been where: the final drain follows the close, the close by the pushing
\* thread leaves no push() half done, and the end is reached with empty queues.
Places ==
    /\ final => closed
    /\ fwd = "done" => final
    /\ prod = "push" => pushes \in Item
    /\ closed /\ owner = "idle" => prod # "push"
    /\ fwd = "done" /\ owner = "idle" => spsc = <<>>
    /\ reader = "ended" => fwd = "done" /\ chan = <<>>

\* The inductive invariant behind the delivery of what was accepted.
DeliveryInv == BufferTypeOK /\ Conservation /\ Places

\* A wake-up is queued, or about to be posted.
Pending == ready # <<>> \/ prod = "wake" \/ owner = "wake"

\* The handler of the forwarder's first step is queued once, and before the wake-up
\* of the close; all other handlers cancel the timer.
StartQueued ==
    /\ ~spawned => fwd = "unstarted" /\ ~closed
    /\ ~spawned \/ fwd # "unstarted" => \A i \in DOMAIN ready : ready[i] = "cancel"
    /\ spawned /\ fwd = "unstarted" =>
         \E k \in DOMAIN ready :
            /\ ready[k] = "start"
            /\ \A i \in DOMAIN ready : i # k => ready[i] = "cancel"
            /\ closed => k < Len(ready) \/ prod = "wake" \/ owner = "wake"

\* Items are numbered by the calls of push(), all of which are early until the
\* forwarder has started.
Numbered ==
    /\ \A i \in DOMAIN spsc : spsc[i] <= pushes
    /\ fwd = "unstarted" => early = MaxPush

\* From the moment the forwarder has found the queue empty until it is woken, new
\* work has its wake-up; and so has the close, once the forwarder did not see it.
WorkIsPending ==
    /\ fwd \in {"check", "arm", "waiting"} /\ (\E i \in DOMAIN spsc : spsc[i] > early) => Pending
    /\ fwd \in {"arm", "waiting"} /\ closed => Pending

\* The inductive invariant behind NeverSleepsOnWork.
WakeInv == DeliveryInv /\ StartQueued /\ Numbered /\ WorkIsPending

-----------------------------------------------------------------------------
\* A sequence is its head and the rest.
LEMMA Split ==
  ASSUME NEW S, NEW s \in Seq(S), s # <<>>
  PROVE  /\ Head(s) \in S /\ Tail(s) \in Seq(S) /\ <<Head(s)>> \in Seq(S)
         /\ <<Head(s)>> \o Tail(s) = s
<1>1. /\ Head(s) \in S /\ Tail(s) \in Seq(S) /\ Len(s) \in Nat \ {0}
      /\ Len(Tail(s)) = Len(s) - 1 /\ \A i \in 1..Len(Tail(s)) : Tail(s)[i] = s[i + 1]
  BY HeadTailProperties, EmptySeq
<1>2. <<Head(s)>> \in Seq(S) /\ Len(<<Head(s)>>) = 1 /\ <<Head(s)>>[1] = Head(s)
  BY <1>1
<1>3. Head(s) = s[1]
  OBVIOUS
<1> DEFINE t == <<Head(s)>> \o Tail(s)
<1>4. /\ t \in Seq(S) /\ Len(t) = Len(s)
      /\ \A i \in 1..Len(s) : t[i] = IF i <= 1 THEN <<Head(s)>>[i] ELSE Tail(s)[i - 1]
  BY <1>1, <1>2, ConcatProperties
<1>5. \A i \in 1..Len(t) : t[i] = s[i]
  <2> HIDE DEF t
  <2> SUFFICES ASSUME NEW i \in 1..Len(s) PROVE t[i] = s[i]
    BY <1>4
  <2>1. CASE i = 1
    BY <2>1, <1>2, <1>3, <1>4
  <2>2. CASE i > 1
    <3>1. i - 1 \in 1..Len(Tail(s)) /\ (i - 1) + 1 = i
      BY <2>2, <1>1
    <3>2. Tail(s)[i - 1] = s[i]
      BY <3>1, <1>1
    <3> QED BY <2>2, <3>2, <1>4
  <2> QED BY <2>1, <2>2
<1>6. t = s
  <2> HIDE DEF t
  <2> QED BY <1>4, <1>5, SeqEqual
<1> QED BY <1>1, <1>2, <1>6

\* Concatenation is associative.
LEMMA Associative ==
  ASSUME NEW S, NEW a \in Seq(S), NEW b \in Seq(S), NEW c \in Seq(S)
  PROVE  (a \o b) \o c = a \o (b \o c)
<1> DEFINE ab == a \o b
           bc == b \o c
           l == ab \o c
           r == a \o bc
<1>1. Len(a) \in Nat /\ Len(b) \in Nat /\ Len(c) \in Nat
  BY LenProperties
<1>2. /\ ab \in Seq(S) /\ Len(ab) = Len(a) + Len(b)
      /\ \A i \in 1..(Len(a) + Len(b)) : ab[i] = IF i <= Len(a) THEN a[i] ELSE b[i - Len(a)]
  BY ConcatProperties
<1>3. /\ bc \in Seq(S) /\ Len(bc) = Len(b) + Len(c)
      /\ \A i \in 1..(Len(b) + Len(c)) : bc[i] = IF i <= Len(b) THEN b[i] ELSE c[i - Len(b)]
  BY ConcatProperties
<1>4. ab \in Seq(S) /\ bc \in Seq(S)
  BY <1>2, <1>3
<1> HIDE DEF ab, bc
<1>5. /\ l \in Seq(S) /\ Len(l) = Len(ab) + Len(c)
      /\ \A i \in 1..(Len(ab) + Len(c)) : l[i] = IF i <= Len(ab) THEN ab[i] ELSE c[i - Len(ab)]
  BY <1>4, ConcatProperties
<1>6. /\ r \in Seq(S) /\ Len(r) = Len(a) + Len(bc)
      /\ \A i \in 1..(Len(a) + Len(bc)) : r[i] = IF i <= Len(a) THEN a[i] ELSE bc[i - Len(a)]
  BY <1>4, ConcatProperties
<1> HIDE DEF l, r
<1>7. Len(l) = Len(r) /\ Len(l) = Len(a) + Len(b) + Len(c)
  BY <1>1, <1>2, <1>3, <1>5, <1>6
<1>8. ASSUME NEW i \in 1..Len(l) PROVE l[i] = r[i]
  <2>1. /\ l[i] = IF i <= Len(ab) THEN ab[i] ELSE c[i - Len(ab)]
        /\ r[i] = IF i <= Len(a) THEN a[i] ELSE bc[i - Len(a)]
    BY <1>5, <1>6, <1>7
  <2>2. CASE i <= Len(a)
    <3>1. ab[i] = a[i] /\ i <= Len(ab)
      BY <2>2, <1>1, <1>2, <1>7
    <3> QED BY <2>1, <2>2, <3>1
  <2>3. CASE i > Len(a) /\ i <= Len(ab)
    <3>1. /\ i - Len(a) \in 1..(Len(b) + Len(c)) /\ i - Len(a) <= Len(b)
          /\ i \in 1..(Len(a) + Len(b)) /\ ~(i <= Len(a))
      BY <2>3, <1>1, <1>2, <1>7
    <3>2. ab[i] = b[i - Len(a)] /\ bc[i - Len(a)] = b[i - Len(a)]
      BY <3>1, <1>2, <1>3
    <3> QED BY <2>1, <2>3, <3>1, <3>2
  <2>4. CASE i > Len(ab)
    <3>1. /\ i - Len(a) \in 1..(Len(b) + Len(c)) /\ ~(i - Len(a) <= Len(b))
          /\ ~(i <= Len(a)) /\ ~(i <= Len(ab)) /\ (i - Len(a)) - Len(b) = i - Len(ab)
      BY <2>4, <1>1, <1>2, <1>7
    <3>2. bc[i - Len(a)] = c[i - Len(ab)]
      BY <3>1, <1>3
    <3> QED BY <2>1, <3>1, <3>2
  <2> QED BY <2>2, <2>3, <2>4, <1>1, <1>2, <1>7
<1>9. l = r
  BY <1>5, <1>6, <1>7, <1>8, SeqEqual
<1> QED BY <1>9 DEF l, r, ab, bc

\* The moves of an item through four queues in a row, each of which leaves the whole
\* as it is.
LEMMA Written ==
  ASSUME NEW S, NEW a \in Seq(S), NEW b \in Seq(S), NEW c \in Seq(S), NEW d \in Seq(S)
  PROVE  a \o (b \o c) \o <<>> \o d = a \o b \o c \o d
<1>1. b \o c \in Seq(S)
  BY ConcatProperties
<1>2. a \o (b \o c) \in Seq(S)
  BY <1>1, ConcatProperties
<1>3. (a \o (b \o c)) \o <<>> = a \o (b \o c)
  BY <1>2, ConcatEmptySeq
<1>4. (a \o b) \o c = a \o (b \o c)
  BY Associative
<1> QED BY <1>3, <1>4

LEMMA Consumed ==
  ASSUME NEW S, NEW a \in Seq(S), NEW b \in Seq(S), b # <<>>
  PROVE  Append(a, Head(b)) \o Tail(b) = a \o b
<1>1. Head(b) \in S /\ <<Head(b)>> \in Seq(S) /\ Tail(b) \in Seq(S) /\ <<Head(b)>> \o Tail(b) = b
  BY Split
<1>2. Append(a, Head(b)) = a \o <<Head(b)>>
  BY <1>1, AppendIsConcat
<1>3. (a \o <<Head(b)>>) \o Tail(b) = a \o (<<Head(b)>> \o Tail(b))
  BY <1>1, Associative
<1> QED BY <1>1, <1>2, <1>3
-----------------------------------------------------------------------------
(***************************************************************************)
(* Delivery.                                                               *)
(***************************************************************************)
\* The types, one by one.
LEMMA Types ==
  ASSUME BufferTypeOK
  PROVE  /\ spsc \in Seq(Item) /\ Len(spsc) <= Capacity /\ chan \in Seq(Item) /\ Len(chan) <= Capacity
         /\ accepted \in Seq(Item) /\ taken \in Seq(Item) /\ held \in Seq(Item)
         /\ ready \in Seq({"start", "cancel"})
         /\ closed \in BOOLEAN /\ spawned \in BOOLEAN /\ final \in BOOLEAN
         /\ pushes \in 0..MaxPush /\ early \in 0..MaxPush
         /\ Len(spsc) \in Nat /\ Len(chan) \in Nat /\ Len(held) \in Nat /\ Len(ready) \in Nat
         /\ held = <<>> <=> Len(held) = 0
<1>1. /\ spsc \in Seq(Item) /\ Len(spsc) <= Capacity /\ chan \in Seq(Item) /\ Len(chan) <= Capacity
      /\ accepted \in Seq(Item) /\ taken \in Seq(Item) /\ held \in Seq(Item)
      /\ ready \in Seq({"start", "cancel"})
  BY DEF BufferTypeOK
<1>2. closed \in BOOLEAN /\ spawned \in BOOLEAN /\ final \in BOOLEAN
  BY Zenon DEF BufferTypeOK
<1>3. pushes \in 0..MaxPush /\ early \in 0..MaxPush
  BY DEF BufferTypeOK
<1>4. /\ Len(spsc) \in Nat /\ Len(chan) \in Nat /\ Len(held) \in Nat /\ Len(ready) \in Nat
  BY <1>1, LenProperties
<1>5. held = <<>> <=> Len(held) = 0
  BY <1>1, EmptySeq
<1> QED BY <1>1, <1>2, <1>3, <1>4, <1>5

\* A handler more, a handler less.
LEMMA Handlers ==
  ASSUME NEW q \in Seq({"start", "cancel"})
  PROVE  /\ Append(q, "cancel") \in Seq({"start", "cancel"})
         /\ Append(q, "start") \in Seq({"start", "cancel"})
         /\ q # <<>> => Tail(q) \in Seq({"start", "cancel"})
BY AppendProperties, HeadTailProperties

\* What a step does to the handlers and the wake-ups alone leaves the delivery alone.
LEMMA QuietKeepsDelivery ==
  ASSUME DeliveryInv, ready' \in Seq({"start", "cancel"}), spawned' \in BOOLEAN,
         prod' \in {"idle", "push", "wake"}, prod' # "push" \/ prod = "push",
         owner' \in {"idle", "wake", "done"}, owner' = "idle" => owner = "idle",
         early' \in 0..MaxPush,
         fwd' \in {"unstarted", "arm", "waiting", "drain", "write", "check", "done"},
         fwd' = fwd \/ (fwd' \in {"arm", "waiting", "drain", "check"} /\ fwd \notin {"write", "done"}),
         UNCHANGED <<queueVars, final, held, chan, taken, reader, pushes>>
  PROVE  DeliveryInv'
<1>1. BufferTypeOK'
  <2>1. {closed', spawned', final'} \subseteq BOOLEAN
    BY Types, Zenon DEF DeliveryInv, queueVars
  <2>2. Len(held') = (IF fwd' = "write" THEN 1 ELSE 0)
    BY DEF DeliveryInv, BufferTypeOK
  <2> QED BY <2>1, <2>2 DEF DeliveryInv, BufferTypeOK, queueVars
<1>2. Conservation'
  BY DEF DeliveryInv, Conservation, queueVars
<1>3. Places'
  BY DEF DeliveryInv, Places, queueVars
<1> QED BY <1>1, <1>2, <1>3 DEF DeliveryInv
\* Handlers run, wake-ups are posted, the forwarder starts and lies down.
LEMMA QuietSteps ==
  ASSUME DeliveryInv, PushWake \/ OwnerWake \/ Spawn \/ Start \/ Arm \/ RunCancel
  PROVE  DeliveryInv'
<1> USE DEF fwdVars, readVars, callVars
<1>1. BufferTypeOK
  BY DEF DeliveryInv
<1>2. /\ prod \in {"idle", "push", "wake"} /\ owner \in {"idle", "wake", "done"}
      /\ fwd \in {"unstarted", "arm", "waiting", "drain", "write", "check", "done"}
  BY <1>1 DEF BufferTypeOK
<1>3. CASE PushWake
  <2>1. ready' \in Seq({"start", "cancel"}) /\ spawned' \in BOOLEAN /\ early' \in 0..MaxPush
    BY <1>1, <1>3, Types, Handlers DEF PushWake, Wake
  <2> QED BY <1>2, <1>3, <2>1, QuietKeepsDelivery DEF PushWake
<1>4. CASE OwnerWake
  <2>1. ready' \in Seq({"start", "cancel"}) /\ spawned' \in BOOLEAN /\ early' \in 0..MaxPush
    BY <1>1, <1>4, Types, Handlers DEF OwnerWake, Wake
  <2> QED BY <1>2, <1>4, <2>1, QuietKeepsDelivery DEF OwnerWake
<1>5. CASE Spawn
  <2>1. ready' \in Seq({"start", "cancel"}) /\ early' \in 0..MaxPush
    BY <1>1, <1>5, Types, Handlers DEF Spawn
  <2>2. spawned' \in BOOLEAN
    BY <1>5 DEF Spawn
  <2> QED BY <1>2, <1>5, <2>1, <2>2, QuietKeepsDelivery DEF Spawn
<1>6. CASE Start
  <2>1. ready' \in Seq({"start", "cancel"}) /\ spawned' \in BOOLEAN /\ early' \in 0..MaxPush
    BY <1>1, <1>6, Types, Handlers DEF Start
  <2> QED BY <1>2, <1>6, <2>1, QuietKeepsDelivery DEF Start
<1>7. CASE Arm
  <2>1. ready' \in Seq({"start", "cancel"}) /\ spawned' \in BOOLEAN /\ early' \in 0..MaxPush
    BY <1>1, <1>7, Types DEF Arm
  <2> QED BY <1>2, <1>7, <2>1, QuietKeepsDelivery DEF Arm
<1>8. CASE RunCancel
  <2>1. ready' \in Seq({"start", "cancel"}) /\ spawned' \in BOOLEAN /\ early' \in 0..MaxPush
    BY <1>1, <1>8, Types, Handlers DEF RunCancel
  <2> QED BY <1>2, <1>8, <2>1, QuietKeepsDelivery DEF RunCancel
<1> QED BY <1>3, <1>4, <1>5, <1>6, <1>7, <1>8

\* push() and close().
LEMMA CallsKeepDelivery ==
  ASSUME DeliveryInv, PushBegin \/ PushEnqueue \/ CloseByProducer \/ CloseByOwner
  PROVE  DeliveryInv'
<1> USE DEF fwdVars, readVars
<1>1. BufferTypeOK /\ Conservation /\ Places
  BY DEF DeliveryInv
<1>2. CASE PushBegin
  <2>1. pushes' \in 0..MaxPush /\ pushes' \in Item
    BY <1>1, <1>2, Types, BufferAssumption DEF PushBegin, Item
  <2>2. BufferTypeOK'
    BY <1>1, <1>2, <2>1 DEF PushBegin, BufferTypeOK, queueVars
  <2>3. Conservation' /\ Places'
    BY <1>1, <1>2, <2>1 DEF PushBegin, Conservation, Places, queueVars
  <2> QED BY <2>2, <2>3 DEF DeliveryInv
<1>3. CASE PushEnqueue
  <2>1. pushes \in Item
    BY <1>1, <1>3 DEF PushEnqueue, Places
  <2>2. CASE /\ Len(spsc) < Capacity /\ spsc' = Append(spsc, pushes)
             /\ accepted' = Append(accepted, pushes) /\ prod' = "wake"
    <3>1. /\ spsc' \in Seq(Item) /\ Len(spsc') <= Capacity /\ accepted' \in Seq(Item)
      BY <1>1, <2>1, <2>2, Types, AppendProperties, BufferAssumption
    <3>2. BufferTypeOK'
      BY <1>1, <1>3, <2>2, <3>1 DEF PushEnqueue, BufferTypeOK
    <3>3. Conservation'
      <4>1. taken \in Seq(Item) /\ chan \in Seq(Item) /\ held \in Seq(Item) /\ spsc \in Seq(Item)
        BY <1>1, Types
      <4> DEFINE e == <<pushes>>
      <4>2. e \in Seq(Item) /\ spsc' = spsc \o e /\ accepted' = accepted \o e
        BY <1>1, <2>1, <2>2, Types, AppendIsConcat
      <4> HIDE DEF e
      <4>3. (taken \o chan \o held \o spsc) \o e = taken \o chan \o held \o (spsc \o e)
        <5> DEFINE x == taken \o chan \o held
        <5>1. x \in Seq(Item) /\ e \in Seq(Item) /\ spsc \in Seq(Item)
          BY <4>1, <4>2, ConcatProperties
        <5> HIDE DEF x
        <5>2. (x \o spsc) \o e = x \o (spsc \o e)
          BY <5>1, Associative
        <5> QED BY <5>2 DEF x
      <4> QED BY <1>1, <1>3, <4>2, <4>3 DEF PushEnqueue, Conservation
    <3>4. Places'
      BY <1>1, <1>3, <2>2 DEF PushEnqueue, Places
    <3> QED BY <3>2, <3>3, <3>4 DEF DeliveryInv
  <2>3. CASE prod' = "idle" /\ UNCHANGED <<spsc, accepted>>
    <3>1. BufferTypeOK' /\ Conservation' /\ Places'
      BY <1>1, <1>3, <2>3 DEF PushEnqueue, BufferTypeOK, Conservation, Places
    <3> QED BY <3>1 DEF DeliveryInv
  <2> QED BY <1>3, <2>2, <2>3 DEF PushEnqueue
<1>4. CASE CloseByProducer \/ CloseByOwner
  <2>1. closed' \in BOOLEAN /\ closed' /\ spawned' \in BOOLEAN /\ final' \in BOOLEAN
    BY <1>1, <1>4, Types, Zenon DEF CloseByProducer, CloseByOwner
  <2>2. /\ UNCHANGED <<spsc, accepted, ready, fwdVars, readVars, pushes>>
        /\ \/ prod' = "wake" /\ owner' = owner
           \/ prod' = prod /\ owner' = "wake"
    BY <1>4 DEF CloseByProducer, CloseByOwner
  <2>3. BufferTypeOK'
    BY <1>1, <2>1, <2>2 DEF BufferTypeOK
  <2>4. Conservation' /\ Places'
    BY <1>1, <2>1, <2>2 DEF Conservation, Places
  <2> QED BY <2>3, <2>4 DEF DeliveryInv
<1> QED BY <1>2, <1>3, <1>4

\* The forwarder moves an item, finds the queue empty, looks at closed_.
LEMMA ForwarderKeepsDelivery ==
  ASSUME DeliveryInv, Pop \/ WriteChannel \/ Drained \/ Check
  PROVE  DeliveryInv'
<1> USE DEF callVars, readVars, queueVars
<1>1. BufferTypeOK /\ Conservation /\ Places
  BY DEF DeliveryInv
<1>2. CASE Pop
  <2>1. held = <<>>
    BY <1>1, <1>2, Types DEF Pop, BufferTypeOK
  <2>2. /\ Head(spsc) \in Item /\ spsc' \in Seq(Item) /\ Len(spsc') = Len(spsc) - 1
    BY <1>1, <1>2, Types, HeadTailProperties DEF Pop
  <2>3. held' \in Seq(Item) /\ Len(held') = 1
    BY <1>2, <2>2 DEF Pop
  <2>4. BufferTypeOK'
    <3>1. Len(spsc') <= Capacity
      BY <1>1, <2>2, Types, BufferAssumption
    <3> QED BY <1>1, <1>2, <2>2, <2>3, <3>1 DEF Pop, BufferTypeOK
  <2>5. Conservation'
    <3>1. taken \in Seq(Item) /\ chan \in Seq(Item) /\ held \in Seq(Item) /\ spsc \in Seq(Item) /\ spsc # <<>>
      BY <1>1, <1>2, Types DEF Pop
    <3> DEFINE h == <<Head(spsc)>>
               t == Tail(spsc)
    <3>2. h \in Seq(Item) /\ t \in Seq(Item) /\ held' = h /\ spsc' = t
      BY <1>2, <3>1, Split DEF Pop
    <3>3. h \o t = spsc
      BY <3>1, Split
    <3> HIDE DEF h, t
    <3>4. taken \o chan \o h \o t = taken \o chan \o <<>> \o (h \o t)
      <4> DEFINE x == taken \o chan
      <4>1. x \in Seq(Item)
        BY <3>1, ConcatProperties
      <4> HIDE DEF x
      <4>2. x \o <<>> = x
        BY <4>1, ConcatEmptySeq
      <4>3. (x \o h) \o t = x \o (h \o t)
        BY <4>1, <3>2, Associative
      <4>4. x \o h \o t = x \o <<>> \o (h \o t)
        BY <4>2, <4>3
      <4> QED BY <4>4 DEF x
    <3> QED BY <1>1, <1>2, <2>1, <3>2, <3>3, <3>4 DEF Pop, Conservation
  <2>6. Places'
    BY <1>1, <1>2 DEF Pop, Places
  <2> QED BY <2>4, <2>5, <2>6 DEF DeliveryInv
<1>3. CASE WriteChannel
  <2>1. Len(held) = 1
    BY <1>1, <1>3 DEF WriteChannel, BufferTypeOK
  <2>2. chan' \in Seq(Item) /\ Len(chan') <= Capacity
    <3>1. chan \in Seq(Item) /\ held \in Seq(Item)
      BY <1>1, Types
    <3>2. chan \o held \in Seq(Item) /\ Len(chan \o held) = Len(chan) + Len(held)
      BY <3>1, ConcatProperties
    <3>3. Len(chan) \in Nat /\ Len(chan) < Capacity /\ chan' = chan \o held
      BY <1>1, <1>3, Types DEF WriteChannel
    <3> QED BY <2>1, <3>2, <3>3, BufferAssumption
  <2>3. held' \in Seq(Item) /\ Len(held') = 0
    BY <1>3, EmptySeq DEF WriteChannel
  <2>4. BufferTypeOK'
    BY <1>1, <1>3, <2>2, <2>3 DEF WriteChannel, BufferTypeOK
  <2>5. Conservation'
    <3>1. taken \in Seq(Item) /\ chan \in Seq(Item) /\ held \in Seq(Item) /\ spsc \in Seq(Item)
      BY <1>1, Types
    <3>2. taken \o (chan \o held) \o <<>> \o spsc = taken \o chan \o held \o spsc
      BY <3>1, Written
    <3> QED BY <1>1, <1>3, <3>2 DEF WriteChannel, Conservation
  <2>6. Places'
    BY <1>1, <1>3 DEF WriteChannel, Places
  <2> QED BY <2>4, <2>5, <2>6 DEF DeliveryInv
<1>4. CASE Drained
  <2>1. BufferTypeOK' /\ Conservation' /\ Places'
    BY <1>1, <1>4 DEF Drained, BufferTypeOK, Conservation, Places
  <2> QED BY <2>1 DEF DeliveryInv
<1>5. CASE Check
  <2>1. closed' \in BOOLEAN /\ spawned' \in BOOLEAN /\ final' \in BOOLEAN
    BY <1>1, <1>5, Types DEF Check
  <2>2. BufferTypeOK'
    BY <1>1, <1>5, <2>1 DEF Check, BufferTypeOK
  <2>3. Conservation' /\ Places'
    BY <1>1, <1>5 DEF Check, Conservation, Places
  <2> QED BY <2>2, <2>3 DEF DeliveryInv
<1> QED BY <1>2, <1>3, <1>4, <1>5

\* The consumer reads, or sees the end.
LEMMA ConsumerKeepsDelivery ==
  ASSUME DeliveryInv, ReadChannel \/ ReadEnds
  PROVE  DeliveryInv'
<1> USE DEF callVars, fwdVars, queueVars
<1>1. BufferTypeOK /\ Conservation /\ Places
  BY DEF DeliveryInv
<1>2. CASE ReadChannel
  <2>1. /\ Head(chan) \in Item /\ chan' \in Seq(Item) /\ Len(chan') = Len(chan) - 1
    BY <1>1, <1>2, Types, HeadTailProperties DEF ReadChannel
  <2>2. taken' \in Seq(Item) /\ Len(chan') <= Capacity
    BY <1>1, <1>2, <2>1, Types, AppendProperties, BufferAssumption DEF ReadChannel
  <2>3. BufferTypeOK'
    BY <1>1, <1>2, <2>1, <2>2 DEF ReadChannel, BufferTypeOK
  <2>4. Conservation'
    <3>1. Append(taken, Head(chan)) \o Tail(chan) = taken \o chan
      BY <1>1, <1>2, Types, Consumed DEF ReadChannel
    <3> QED BY <1>1, <1>2, <3>1 DEF ReadChannel, Conservation
  <2>5. Places'
    BY <1>1, <1>2 DEF ReadChannel, Places
  <2> QED BY <2>3, <2>4, <2>5 DEF DeliveryInv
<1>3. CASE ReadEnds
  <2>1. BufferTypeOK' /\ Conservation' /\ Places'
    BY <1>1, <1>3 DEF ReadEnds, BufferTypeOK, Conservation, Places
  <2> QED BY <2>1 DEF DeliveryInv
<1> QED BY <1>2, <1>3
\* The invariant of the delivery holds at the start and is kept by every step.
LEMMA DeliveryInvariant ==
  /\ BufferInit => DeliveryInv
  /\ DeliveryInv /\ [BufferNext]_bufferVars => DeliveryInv'
<1>1. BufferInit => DeliveryInv
  <2> SUFFICES ASSUME BufferInit PROVE DeliveryInv
    OBVIOUS
  <2>1. /\ <<>> \in Seq(Item) /\ <<>> \in Seq({"start", "cancel"}) /\ Len(<<>>) = 0
        /\ <<>> \o <<>> = <<>>
    BY EmptySeq, ConcatEmptySeq
  <2>2. BufferTypeOK
    <3>1. {closed, spawned, final} \subseteq BOOLEAN
      BY DEF BufferInit
    <3> QED BY <2>1, <3>1, BufferAssumption DEF BufferInit, BufferTypeOK
  <2>3. Conservation
    BY <2>1 DEF BufferInit, Conservation
  <2>4. Places
    BY DEF BufferInit, Places
  <2> QED BY <2>2, <2>3, <2>4 DEF DeliveryInv
<1>2. DeliveryInv /\ [BufferNext]_bufferVars => DeliveryInv'
  <2> SUFFICES ASSUME DeliveryInv, [BufferNext]_bufferVars PROVE DeliveryInv'
    OBVIOUS
  <2>1. CASE PushWake \/ OwnerWake \/ Spawn \/ Start \/ Arm \/ RunCancel
    BY <2>1, QuietSteps
  <2>2. CASE PushBegin \/ PushEnqueue \/ CloseByProducer \/ CloseByOwner
    BY <2>2, CallsKeepDelivery
  <2>3. CASE Pop \/ WriteChannel \/ Drained \/ Check
    BY <2>3, ForwarderKeepsDelivery
  <2>4. CASE ReadChannel \/ ReadEnds
    BY <2>4, ConsumerKeepsDelivery
  <2>5. CASE UNCHANGED bufferVars
    BY <2>5 DEF bufferVars, queueVars, fwdVars, readVars, callVars, DeliveryInv, BufferTypeOK, Conservation, Places
  <2> QED BY <2>1, <2>2, <2>3, <2>4, <2>5 DEF BufferNext, Producer, Closer, Forwarder, Consumer
<1> QED BY <1>1, <1>2

\* What push() has accepted goes through queue, forwarder and channel in order and
\* without loss, and is read before the end where the pushing thread itself calls
\* close(): on one executor or on two, for every capacity.
THEOREM AcceptedInOrder == BufferSpec => [](BufferTypeOK /\ Conservation /\ ProducerCloseDelivers)
<1>1. BufferSpec => []DeliveryInv
  BY DeliveryInvariant, PTL DEF BufferSpec
<1>2. DeliveryInv => BufferTypeOK /\ Conservation /\ ProducerCloseDelivers
  <2> SUFFICES ASSUME DeliveryInv PROVE BufferTypeOK /\ Conservation /\ ProducerCloseDelivers
    OBVIOUS
  <2>1. ASSUME reader = "ended" /\ owner = "idle" PROVE taken = accepted
    <3>1. chan = <<>> /\ spsc = <<>> /\ held = <<>>
      BY <2>1, Types DEF DeliveryInv, Places, BufferTypeOK
    <3>2. taken \in Seq(Item) /\ taken \o <<>> = taken
      BY Types, ConcatEmptySeq DEF DeliveryInv
    <3> QED BY <3>1, <3>2 DEF DeliveryInv, Conservation
  <2> QED BY <2>1 DEF DeliveryInv, ProducerCloseDelivers
<1> QED BY <1>1, <1>2, PTL

-----------------------------------------------------------------------------
(***************************************************************************)
(* The buffer implements the bounded queue, on one executor or on two.     *)
(***************************************************************************)
\* How many items are under way, and which one is read next.
LEMMA UnderWay ==
  ASSUME DeliveryInv
  PROVE  /\ Len(accepted) \in Nat /\ Len(taken) \in Nat
         /\ Len(accepted) = Len(taken) + Len(chan) + Len(held) + Len(spsc)
         /\ chan # <<>> => accepted[Len(taken) + 1] = Head(chan)
<1>1. /\ taken \in Seq(Item) /\ chan \in Seq(Item) /\ held \in Seq(Item) /\ spsc \in Seq(Item)
      /\ taken \o chan \o held \o spsc = accepted
  BY Types DEF DeliveryInv, Conservation
<1> DEFINE a == taken \o chan
           b == a \o held
<1>2. /\ a \in Seq(Item) /\ Len(a) = Len(taken) + Len(chan)
      /\ \A i \in 1..(Len(taken) + Len(chan)) :
           a[i] = IF i <= Len(taken) THEN taken[i] ELSE chan[i - Len(taken)]
  BY <1>1, ConcatProperties
<1>3. /\ Len(taken) \in Nat /\ Len(chan) \in Nat /\ Len(held) \in Nat /\ Len(spsc) \in Nat
  BY <1>1, LenProperties
<1> HIDE DEF a
<1>4. /\ b \in Seq(Item) /\ Len(b) = Len(a) + Len(held)
      /\ \A i \in 1..(Len(a) + Len(held)) : b[i] = IF i <= Len(a) THEN a[i] ELSE held[i - Len(a)]
  BY <1>1, <1>2, ConcatProperties
<1> HIDE DEF b
<1>5. /\ b \o spsc = accepted /\ Len(b \o spsc) = Len(b) + Len(spsc)
      /\ \A i \in 1..(Len(b) + Len(spsc)) :
           (b \o spsc)[i] = IF i <= Len(b) THEN b[i] ELSE spsc[i - Len(b)]
  <2>1. b \o spsc = accepted
    BY <1>1 DEF a, b
  <2>2. b \in Seq(Item) /\ spsc \in Seq(Item)
    BY <1>1, <1>4
  <2>3. /\ Len(b \o spsc) = Len(b) + Len(spsc)
        /\ \A i \in 1..(Len(b) + Len(spsc)) :
             (b \o spsc)[i] = IF i <= Len(b) THEN b[i] ELSE spsc[i - Len(b)]
    BY ONLY <2>2, ConcatProperties
  <2> QED BY <2>1, <2>3
<1>6. Len(accepted) = Len(taken) + Len(chan) + Len(held) + Len(spsc)
  BY <1>2, <1>4, <1>5
<1>7. ASSUME chan # <<>> PROVE accepted[Len(taken) + 1] = Head(chan)
  <2>1. Len(chan) # 0 /\ Head(chan) = chan[1]
    BY <1>1, <1>7, EmptySeq
  <2> DEFINE i == Len(taken) + 1
  <2>2. /\ i \in 1..(Len(taken) + Len(chan)) /\ i \in 1..(Len(a) + Len(held))
        /\ i \in 1..(Len(b) + Len(spsc)) /\ i <= Len(a) /\ i <= Len(b)
        /\ ~ (i <= Len(taken)) /\ i - Len(taken) = 1
    BY <1>2, <1>3, <1>4, <2>1
  <2> HIDE DEF i
  <2>3. accepted[i] = b[i]
    BY <1>5, <2>2
  <2>4. b[i] = a[i]
    BY <1>4, <2>2
  <2>5. a[i] = chan[1]
    BY <1>2, <2>2
  <2> QED BY <2>1, <2>3, <2>4, <2>5 DEF i
<1> QED BY <1>3, <1>6, <1>7

\* Every step of the buffer is a step of the queue, or none of its business.
LEMMA FifoStep ==
  ASSUME DeliveryInv, [BufferNext]_bufferVars
  PROVE  [Fifo!Next]_(Fifo!fifoVars)
<1> USE DEF queueVars, fwdVars, readVars, callVars
<1>1. BufferTypeOK /\ Places
  BY DEF DeliveryInv
<1>2. CASE \/ PushBegin \/ PushWake \/ Spawn \/ Start \/ Arm \/ RunCancel
           \/ Pop \/ WriteChannel \/ Drained \/ Check \/ UNCHANGED bufferVars
  <2>1. UNCHANGED <<accepted, taken, closed, owner, reader>>
    BY <1>2 DEF PushBegin, PushWake, Spawn, Start, Arm, RunCancel, Pop, WriteChannel, Drained,
                Check, bufferVars
  <2> QED BY <2>1 DEF Fifo!fifoVars
<1>3. CASE OwnerWake
  <2>1. UNCHANGED <<accepted, taken, closed, reader>> /\ owner # "idle" /\ owner' # "idle"
    BY <1>3 DEF OwnerWake
  <2> QED BY <2>1 DEF Fifo!fifoVars
<1>4. CASE PushEnqueue
  <2>1. CASE UNCHANGED accepted
    BY <1>4, <2>1 DEF PushEnqueue, Fifo!fifoVars
  <2>2. CASE /\ Len(spsc) < Capacity /\ accepted' = Append(accepted, pushes)
    <3>1. /\ Len(chan) <= Capacity /\ Len(held) \in {0, 1} /\ Capacity \in Nat
          /\ Len(chan) \in Nat /\ Len(spsc) \in Nat
      BY <1>1, Types, BufferAssumption DEF BufferTypeOK
    <3>2. Len(accepted) < Len(taken) + (2 * Capacity + 1)
      <4> DEFINE c == Len(chan)
                 h == Len(held)
                 q == Len(spsc)
                 t == Len(taken)
      <4>1. Len(accepted) = t + c + h + q /\ t \in Nat
        BY UnderWay
      <4>2. c <= Capacity /\ c \in Nat /\ h \in {0, 1} /\ q < Capacity /\ q \in Nat
        BY <2>2, <3>1
      <4> HIDE DEF c, h, q, t
      <4>3. t + c + h + q < t + (2 * Capacity + 1)
        BY <3>1, <4>1, <4>2
      <4> QED BY <4>1, <4>3 DEF t
    <3>3. pushes \in Item /\ (closed => owner # "idle")
      BY <1>1, <1>4 DEF Places, PushEnqueue
    <3>4. UNCHANGED <<taken, closed, owner, reader>>
      BY <1>4 DEF PushEnqueue
    <3>5. Fifo!Accept
      BY <2>2, <3>2, <3>3, <3>4 DEF Fifo!Accept
    <3> QED BY <3>5 DEF Fifo!Next
  <2> QED BY <1>4, <2>1, <2>2 DEF PushEnqueue
<1>5. CASE CloseByProducer \/ CloseByOwner
  <2>1. /\ ~closed /\ closed' = TRUE /\ UNCHANGED <<accepted, taken, reader>>
    BY <1>5 DEF CloseByProducer, CloseByOwner
  <2>2. Fifo!Close
    BY <2>1 DEF Fifo!Close
  <2> QED BY <2>2 DEF Fifo!Next
<1>6. CASE ReadChannel
  <2>1. /\ reader = "reading" /\ chan # <<>> /\ taken' = Append(taken, Head(chan))
        /\ UNCHANGED <<accepted, closed, owner, reader>>
    BY <1>6 DEF ReadChannel
  <2>2. Len(chan) # 0 /\ Len(chan) \in Nat /\ Len(held) \in Nat /\ Len(spsc) \in Nat
    BY <1>1, <2>1, Types, EmptySeq
  <2>3. Len(taken) < Len(accepted) /\ accepted[Len(taken) + 1] = Head(chan)
    BY <2>1, <2>2, UnderWay
  <2>4. Fifo!Deliver
    BY <2>1, <2>3 DEF Fifo!Deliver
  <2> QED BY <2>4 DEF Fifo!Next
<1>7. CASE ReadEnds
  <2>1. /\ reader = "reading" /\ chan = <<>> /\ fwd = "done" /\ reader' = "ended"
        /\ UNCHANGED <<accepted, taken, closed, owner>>
    BY <1>7 DEF ReadEnds
  <2>2. closed
    BY <1>1, <2>1 DEF Places
  <2>3. ASSUME owner = "idle" PROVE taken = accepted
    <3>1. chan = <<>> /\ spsc = <<>> /\ held = <<>>
      BY <1>1, <2>1, <2>3, Types DEF Places, BufferTypeOK
    <3>2. taken \in Seq(Item) /\ taken \o <<>> = taken
      BY <1>1, Types, ConcatEmptySeq
    <3> QED BY <3>1, <3>2 DEF DeliveryInv, Conservation
  <2>4. Fifo!End
    BY <2>1, <2>2, <2>3 DEF Fifo!End
  <2> QED BY <2>4 DEF Fifo!Next
<1> QED BY <1>2, <1>3, <1>4, <1>5, <1>6, <1>7
        DEF BufferNext, Producer, Closer, Forwarder, Consumer

\* The buffer with its queue, forwarder and channel, on one executor or on two and
\* for every capacity, is a bounded queue of 2 * buffer_size + 1 places: what is
\* accepted is read once and in order, and the end comes after the last item where
\* the pushing thread itself calls close().
THEOREM BufferIsFifo == BufferSpec => ImplementsFifo
<1>1. BufferInit => Fifo!Init
  BY DEF BufferInit, Fifo!Init
<1>2. BufferSpec => []DeliveryInv
  BY DeliveryInvariant, PTL DEF BufferSpec
<1>3. DeliveryInv /\ [BufferNext]_bufferVars => [Fifo!Next]_(Fifo!fifoVars)
  BY FifoStep
<1> QED BY <1>1, <1>2, <1>3, PTL DEF BufferSpec, ImplementsFifo, Fifo!Spec

-----------------------------------------------------------------------------
(***************************************************************************)
(* The wake-ups, where the forwarder runs on the timer's executor.         *)
(***************************************************************************)
\* The handlers after one is queued, and after the first has run.
LEMMA Queued ==
  ASSUME NEW q \in Seq({"start", "cancel"}), NEW h \in {"start", "cancel"}
  PROVE  /\ DOMAIN q = 1..Len(q) /\ Len(q) \in Nat
         /\ DOMAIN Append(q, h) = 1..(Len(q) + 1) /\ Len(Append(q, h)) = Len(q) + 1
         /\ Append(q, h) # <<>>
         /\ Append(q, h)[Len(q) + 1] = h /\ \A i \in 1..Len(q) : Append(q, h)[i] = q[i]
BY LenProperties, AppendProperties

LEMMA Run ==
  ASSUME NEW q \in Seq({"start", "cancel"}), q # <<>>
  PROVE  /\ DOMAIN q = 1..Len(q) /\ Len(q) \in Nat \ {0} /\ Head(q) = q[1]
         /\ DOMAIN Tail(q) = 1..(Len(q) - 1) /\ Len(Tail(q)) = Len(q) - 1
         /\ \A i \in 1..(Len(q) - 1) : Tail(q)[i] = q[i + 1]
         /\ Len(q) > 1 => Tail(q) # <<>>
<1>1. /\ DOMAIN q = 1..Len(q) /\ Len(q) \in Nat \ {0} /\ Head(q) = q[1]
      /\ Tail(q) \in Seq({"start", "cancel"}) /\ Len(Tail(q)) = Len(q) - 1
      /\ \A i \in 1..(Len(q) - 1) : Tail(q)[i] = q[i + 1]
  BY LenProperties, HeadTailProperties, EmptySeq
<1>2. DOMAIN Tail(q) = 1..(Len(q) - 1)
  BY <1>1, LenProperties
<1>3. Len(q) > 1 => Tail(q) # <<>>
  <2> DEFINE t == Tail(q)
  <2>1. Len(t) = Len(q) - 1 /\ Len(q) \in Nat
    BY <1>1
  <2> HIDE DEF t
  <2>2. t = <<>> => Len(t) = 0
    OBVIOUS
  <2>3. Len(q) > 1 => t # <<>>
    BY <2>1, <2>2
  <2> QED BY <2>3 DEF t
<1> QED BY <1>1, <1>2, <1>3

\* A wake-up is posted.
LEMMA WakesKeepWake ==
  ASSUME WakeInv, PushWake \/ OwnerWake
  PROVE  StartQueued' /\ Numbered' /\ WorkIsPending'
<1>1. ready \in Seq({"start", "cancel"})
  BY Types DEF WakeInv, DeliveryInv
<1>2. /\ ready' = Append(ready, "cancel")
      /\ UNCHANGED <<spsc, closed, spawned, fwd, early, pushes>>
  BY DEF PushWake, OwnerWake, Wake, queueVars, fwdVars, readVars
<1>3. /\ DOMAIN ready = 1..Len(ready) /\ Len(ready) \in Nat
      /\ DOMAIN ready' = 1..(Len(ready) + 1) /\ Len(ready') = Len(ready) + 1
      /\ ready' # <<>>
      /\ ready'[Len(ready) + 1] = "cancel" /\ \A i \in 1..Len(ready) : ready'[i] = ready[i]
  BY <1>1, <1>2, Queued
<1>4. StartQueued'
  <2>1. ASSUME spawned, fwd = "unstarted"
        PROVE  \E k \in DOMAIN ready' : /\ ready'[k] = "start"
                                        /\ \A i \in DOMAIN ready' : i # k => ready'[i] = "cancel"
                                        /\ k < Len(ready')
    <3>1. PICK k \in DOMAIN ready : /\ ready[k] = "start"
                                    /\ \A i \in DOMAIN ready : i # k => ready[i] = "cancel"
      BY <2>1 DEF WakeInv, StartQueued
    <3>2. k \in DOMAIN ready' /\ ready'[k] = "start" /\ k < Len(ready')
      BY <1>3, <3>1
    <3>3. \A i \in DOMAIN ready' : i # k => ready'[i] = "cancel"
      BY <1>3, <3>1
    <3> QED BY <3>2, <3>3
  <2>2. ~spawned \/ fwd # "unstarted" => \A i \in DOMAIN ready' : ready'[i] = "cancel"
    BY <1>3 DEF WakeInv, StartQueued
  <2> QED BY <1>2, <2>1, <2>2 DEF WakeInv, StartQueued
<1>5. Numbered'
  BY <1>2 DEF WakeInv, Numbered
<1>6. WorkIsPending'
  BY <1>3 DEF WorkIsPending, Pending
<1> QED BY <1>4, <1>5, <1>6

\* The forwarder is spawned, and takes its first step.
LEMMA StartKeepsWake ==
  ASSUME WakeInv, SameExecutor, Spawn \/ Start
  PROVE  StartQueued' /\ Numbered' /\ WorkIsPending'
<1>1. ready \in Seq({"start", "cancel"}) /\ pushes \in Nat
  BY Types, BufferAssumption DEF WakeInv, DeliveryInv
<1>2. CASE Spawn
  <2>1. /\ ~spawned /\ spawned' /\ ready' = Append(ready, "start")
        /\ UNCHANGED <<spsc, closed, fwd, early, pushes, prod, owner>>
    BY <1>2 DEF Spawn, queueVars, fwdVars, readVars, callVars
  <2>2. fwd = "unstarted" /\ ~closed /\ \A i \in DOMAIN ready : ready[i] = "cancel"
    BY <2>1 DEF WakeInv, StartQueued
  <2>3. /\ DOMAIN ready = 1..Len(ready) /\ Len(ready) \in Nat
        /\ DOMAIN ready' = 1..(Len(ready) + 1) /\ Len(ready') = Len(ready) + 1
        /\ ready'[Len(ready) + 1] = "start" /\ \A i \in 1..Len(ready) : ready'[i] = ready[i]
    BY <1>1, <2>1, Queued
  <2>4. /\ Len(ready) + 1 \in DOMAIN ready'
        /\ \A i \in DOMAIN ready' : i # Len(ready) + 1 => ready'[i] = "cancel"
    BY <2>2, <2>3
  <2>5. StartQueued'
    BY <2>1, <2>2, <2>3, <2>4 DEF StartQueued
  <2>6. Numbered' /\ WorkIsPending'
    BY <2>1, <2>2 DEF WakeInv, Numbered, WorkIsPending
  <2> QED BY <2>5, <2>6
<1>3. CASE Start
  <2>1. /\ spawned /\ fwd = "unstarted" /\ fwd' = "arm" /\ early' = pushes
        /\ ready # <<>> /\ Head(ready) = "start" /\ ready' = Tail(ready)
        /\ UNCHANGED <<spsc, closed, spawned, pushes, prod, owner>>
    BY <1>3 DEF Start, queueVars, callVars
  <2>2. PICK k \in DOMAIN ready :
           /\ ready[k] = "start"
           /\ \A i \in DOMAIN ready : i # k => ready[i] = "cancel"
           /\ closed => k < Len(ready) \/ prod = "wake" \/ owner = "wake"
    BY <2>1 DEF WakeInv, StartQueued
  <2>3. /\ DOMAIN ready = 1..Len(ready) /\ Len(ready) \in Nat \ {0} /\ ready[1] = "start"
        /\ DOMAIN ready' = 1..(Len(ready) - 1)
        /\ \A i \in 1..(Len(ready) - 1) : ready'[i] = ready[i + 1]
        /\ Len(ready) > 1 => ready' # <<>>
    BY <1>1, <2>1, Run
  <2>4. k = 1
    BY <2>2, <2>3
  <2>5. \A i \in DOMAIN ready' : ready'[i] = "cancel"
    BY <2>2, <2>3, <2>4
  <2>6. closed => ready' # <<>> \/ prod = "wake" \/ owner = "wake"
    BY <2>2, <2>3, <2>4
  <2>7. ~(\E i \in DOMAIN spsc : spsc[i] > pushes)
    <3>1. \A i \in DOMAIN spsc : spsc[i] \in Nat
      BY Types, LenProperties, BufferAssumption DEF WakeInv, DeliveryInv, Item
    <3> QED BY <1>1, <3>1 DEF WakeInv, Numbered
  <2>8. StartQueued'
    BY <2>1, <2>5 DEF StartQueued
  <2>9. Numbered'
    BY <2>1 DEF WakeInv, Numbered
  <2>10. WorkIsPending'
    BY <2>1, <2>6, <2>7 DEF WorkIsPending, Pending
  <2> QED BY <2>8, <2>9, <2>10
<1> QED BY <1>2, <1>3

\* A cancel handler runs: it ends a wait, or finds none.
LEMMA CancelKeepsWake ==
  ASSUME WakeInv, SameExecutor, RunCancel
  PROVE  StartQueued' /\ Numbered' /\ WorkIsPending'
<1>1. ready \in Seq({"start", "cancel"})
  BY Types DEF WakeInv, DeliveryInv
<1>2. /\ ready # <<>> /\ Head(ready) = "cancel" /\ ready' = Tail(ready)
      /\ fwd \in {"unstarted", "waiting", "write", "done"}
      /\ fwd' = (IF fwd = "waiting" THEN "drain" ELSE fwd)
      /\ UNCHANGED <<spsc, closed, spawned, early, pushes, prod, owner>>
  BY DEF RunCancel, queueVars, readVars, callVars
<1>3. /\ DOMAIN ready = 1..Len(ready) /\ Len(ready) \in Nat \ {0} /\ ready[1] = "cancel"
      /\ DOMAIN ready' = 1..(Len(ready) - 1) /\ Len(ready') = Len(ready) - 1
      /\ \A i \in 1..(Len(ready) - 1) : ready'[i] = ready[i + 1]
  BY <1>1, <1>2, Run
<1>4. StartQueued'
  <2>1. ASSUME spawned, fwd = "unstarted"
        PROVE  \E k \in DOMAIN ready' :
                  /\ ready'[k] = "start"
                  /\ \A i \in DOMAIN ready' : i # k => ready'[i] = "cancel"
                  /\ closed => k < Len(ready') \/ prod = "wake" \/ owner = "wake"
    <3>1. PICK k \in DOMAIN ready :
             /\ ready[k] = "start"
             /\ \A i \in DOMAIN ready : i # k => ready[i] = "cancel"
             /\ closed => k < Len(ready) \/ prod = "wake" \/ owner = "wake"
      BY <2>1 DEF WakeInv, StartQueued
    <3>2. k > 1 /\ k \in 1..Len(ready)
      BY <1>3, <3>1
    <3>3. k - 1 \in DOMAIN ready' /\ ready'[k - 1] = "start"
      BY <1>3, <3>1, <3>2
    <3>4. \A i \in DOMAIN ready' : i # k - 1 => ready'[i] = "cancel"
      BY <1>3, <3>1, <3>2
    <3>5. closed => k - 1 < Len(ready') \/ prod = "wake" \/ owner = "wake"
      BY <1>3, <3>1, <3>2
    <3> QED BY <3>3, <3>4, <3>5
  <2>2. ~spawned \/ fwd # "unstarted" => \A i \in DOMAIN ready' : ready'[i] = "cancel"
    BY <1>3 DEF WakeInv, StartQueued
  <2> QED BY <1>2, <2>1, <2>2 DEF WakeInv, StartQueued
<1>5. Numbered'
  BY <1>2 DEF WakeInv, Numbered
<1>6. WorkIsPending'
  BY <1>2 DEF WorkIsPending
<1> QED BY <1>4, <1>5, <1>6

\* push() and close(): a wake-up goes with everything there is to be seen.
LEMMA CallsKeepWake ==
  ASSUME WakeInv, PushBegin \/ PushEnqueue \/ CloseByProducer \/ CloseByOwner
  PROVE  StartQueued' /\ Numbered' /\ WorkIsPending'
<1>1. /\ spsc \in Seq(Item) /\ pushes \in Nat /\ \A i \in DOMAIN spsc : spsc[i] \in Nat
  BY Types, LenProperties, BufferAssumption DEF WakeInv, DeliveryInv, Item
<1>2. CASE PushBegin
  <2>1. /\ pushes' = pushes + 1 /\ prod = "idle"
        /\ UNCHANGED <<spsc, closed, ready, spawned, fwd, early, owner>>
    BY <1>2 DEF PushBegin, queueVars, fwdVars, readVars
  <2>2. Numbered'
    BY <1>1, <2>1 DEF WakeInv, Numbered
  <2>3. StartQueued' /\ WorkIsPending'
    BY <2>1 DEF WakeInv, StartQueued, WorkIsPending, Pending
  <2> QED BY <2>2, <2>3
<1>3. CASE PushEnqueue
  <2>1. prod = "push" /\ UNCHANGED <<closed, ready, spawned, fwd, early, owner, pushes>>
    BY <1>3 DEF PushEnqueue, fwdVars, readVars
  <2>2. CASE spsc' = Append(spsc, pushes) /\ prod' = "wake"
    <3>1. pushes \in Item
      BY <2>1 DEF WakeInv, DeliveryInv, Places
    <3>2. /\ DOMAIN spsc = 1..Len(spsc) /\ Len(spsc) \in Nat
          /\ DOMAIN spsc' = 1..(Len(spsc) + 1) /\ spsc'[Len(spsc) + 1] = pushes
          /\ \A i \in 1..Len(spsc) : spsc'[i] = spsc[i]
      BY <1>1, <2>2, <3>1, LenProperties, AppendProperties
    <3>3. Numbered'
      BY <1>1, <2>1, <3>2 DEF WakeInv, Numbered
    <3>4. StartQueued' /\ WorkIsPending'
      BY <2>1, <2>2 DEF WakeInv, StartQueued, WorkIsPending, Pending
    <3> QED BY <3>3, <3>4
  <2>3. CASE UNCHANGED spsc
    BY <2>1, <2>3 DEF WakeInv, StartQueued, Numbered, WorkIsPending, Pending
  <2> QED BY <1>3, <2>2, <2>3 DEF PushEnqueue
<1>4. CASE CloseByProducer \/ CloseByOwner
  <2>1. /\ spawned /\ closed' /\ (prod' = "wake" \/ owner' = "wake")
        /\ UNCHANGED <<spsc, ready, spawned, fwd, early, pushes>>
    BY <1>4 DEF CloseByProducer, CloseByOwner, fwdVars, readVars
  <2>2. StartQueued' /\ Numbered' /\ WorkIsPending'
    BY <2>1 DEF WakeInv, StartQueued, Numbered, WorkIsPending, Pending
  <2> QED BY <2>2
<1> QED BY <1>2, <1>3, <1>4

\* The forwarder's own steps and the consumer's: only an empty queue leads to the
\* look at closed_, and only an unset flag from there to the wait.
LEMMA ForwarderKeepsWake ==
  ASSUME WakeInv, Arm \/ Pop \/ WriteChannel \/ Drained \/ Check \/ ReadChannel \/ ReadEnds
  PROVE  StartQueued' /\ Numbered' /\ WorkIsPending'
<1> USE DEF queueVars, fwdVars, readVars, callVars
<1>1. UNCHANGED <<closed, ready, spawned, early, pushes, prod, owner>>
  BY DEF Arm, Pop, WriteChannel, Drained, Check, ReadChannel, ReadEnds
<1>2. fwd' = fwd \/ (fwd # "unstarted" /\ fwd' # "unstarted")
  BY DEF Arm, Pop, WriteChannel, Drained, Check, ReadChannel, ReadEnds
<1>3. StartQueued'
  BY <1>1, <1>2 DEF WakeInv, StartQueued
<1>4. spsc' = spsc \/ (spsc # <<>> /\ spsc' = Tail(spsc) /\ fwd' = "write")
  BY DEF Arm, Pop, WriteChannel, Drained, Check, ReadChannel, ReadEnds
<1>5. \A i \in DOMAIN spsc' : spsc'[i] <= pushes'
  <2>1. CASE spsc' = spsc
    BY <1>1, <2>1 DEF WakeInv, Numbered
  <2>2. CASE spsc # <<>> /\ spsc' = Tail(spsc)
    <3>1. spsc \in Seq(Item)
      BY Types DEF WakeInv, DeliveryInv
    <3>2. /\ DOMAIN spsc = 1..Len(spsc) /\ Len(spsc) \in Nat /\ spsc' \in Seq(Item)
          /\ Len(spsc') = Len(spsc) - 1 /\ \A i \in 1..Len(spsc') : spsc'[i] = spsc[i + 1]
      BY <2>2, <3>1, LenProperties, HeadTailProperties
    <3>3. DOMAIN spsc' = 1..Len(spsc')
      BY <3>2, LenProperties
    <3> QED BY <1>1, <3>2, <3>3 DEF WakeInv, Numbered
  <2> QED BY <1>4, <2>1, <2>2
<1>6. Numbered'
  BY <1>1, <1>2, <1>5 DEF WakeInv, Numbered
<1>7. WorkIsPending'
  <2>1. CASE Drained
    <3>1. fwd' \in {"done", "check"} /\ \A i \in DOMAIN spsc' : FALSE
      BY <2>1 DEF Drained
    <3> QED BY <3>1 DEF WorkIsPending
  <2>2. CASE Check
    BY <1>1, <2>2 DEF Check, WakeInv, WorkIsPending, Pending
  <2>3. CASE Arm
    BY <1>1, <2>3 DEF Arm, WakeInv, WorkIsPending, Pending
  <2>4. CASE Pop \/ WriteChannel
    BY <2>4 DEF Pop, WriteChannel, WorkIsPending
  <2>5. CASE ReadChannel \/ ReadEnds
    BY <1>1, <2>5 DEF ReadChannel, ReadEnds, WakeInv, WorkIsPending, Pending
  <2> QED BY <2>1, <2>2, <2>3, <2>4, <2>5
<1> QED BY <1>3, <1>6, <1>7

\* The invariant of the wake-ups holds at the start and is kept by every step.
LEMMA WakeInvariant ==
  ASSUME SameExecutor
  PROVE  /\ BufferInit => WakeInv
         /\ WakeInv /\ [BufferNext]_bufferVars => WakeInv'
<1>1. BufferInit => WakeInv
  <2> SUFFICES ASSUME BufferInit PROVE WakeInv
    OBVIOUS
  <2>1. ~closed /\ ~spawned
    BY DEF BufferInit
  <2>2. StartQueued /\ Numbered /\ WorkIsPending
    BY <2>1 DEF BufferInit, StartQueued, Numbered, WorkIsPending
  <2> QED BY <2>2, DeliveryInvariant DEF WakeInv
<1>2. WakeInv /\ [BufferNext]_bufferVars => WakeInv'
  <2> SUFFICES ASSUME WakeInv, [BufferNext]_bufferVars PROVE WakeInv'
    OBVIOUS
  <2>1. DeliveryInv'
    BY DeliveryInvariant DEF WakeInv
  <2>2. CASE PushWake \/ OwnerWake
    BY <2>1, <2>2, WakesKeepWake DEF WakeInv
  <2>3. CASE Spawn \/ Start
    BY <2>1, <2>3, StartKeepsWake DEF WakeInv
  <2>4. CASE RunCancel
    BY <2>1, <2>4, CancelKeepsWake DEF WakeInv
  <2>5. CASE PushBegin \/ PushEnqueue \/ CloseByProducer \/ CloseByOwner
    BY <2>1, <2>5, CallsKeepWake DEF WakeInv
  <2>6. CASE Arm \/ Pop \/ WriteChannel \/ Drained \/ Check \/ ReadChannel \/ ReadEnds
    BY <2>1, <2>6, ForwarderKeepsWake DEF WakeInv
  <2>7. CASE UNCHANGED bufferVars
    BY <2>1, <2>7 DEF bufferVars, queueVars, fwdVars, readVars, callVars, WakeInv, StartQueued,
                      Numbered, WorkIsPending, Pending
  <2> QED BY <2>2, <2>3, <2>4, <2>5, <2>6, <2>7 DEF BufferNext, Producer, Closer, Forwarder, Consumer
<1> QED BY <1>1, <1>2

\* Where the forwarder runs on the timer's executor, as the header demands, the
\* buffer is safe for every capacity and any number of pushes: in particular the
\* forwarder never sleeps while an item or the close waits to be seen, although a
\* cancel that finds no waiter is lost.
THEOREM BufferIsSafe == SameExecutor => (BufferSpec => []BufferSafe)
<1> SUFFICES ASSUME SameExecutor PROVE BufferSpec => []BufferSafe
  OBVIOUS
<1>1. (BufferInit => WakeInv) /\ (WakeInv /\ [BufferNext]_bufferVars => WakeInv')
  BY WakeInvariant
<1>2. BufferSpec => []WakeInv
  BY <1>1, PTL DEF BufferSpec
<1>3. WakeInv => NeverSleepsOnWork
  BY DEF WakeInv, WorkIsPending, NeverSleepsOnWork, Pending
<1>4. BufferSpec => [](BufferTypeOK /\ Conservation /\ ProducerCloseDelivers)
  BY AcceptedInOrder
<1>5. NeverSleepsOnWork /\ BufferTypeOK /\ Conservation /\ ProducerCloseDelivers => BufferSafe
  BY DEF BufferSafe
<1> QED BY <1>2, <1>3, <1>4, <1>5, PTL

-----------------------------------------------------------------------------
(***************************************************************************)
(* Requests.  The tables of endpoints and requests are shown to be what    *)
(* the signing needs, entry by entry; the rest holds for any such table    *)
(* and any optional members.                                               *)
(***************************************************************************)
\* The authentication parameters.
Auth == {"recvWindow", "timestamp", "signature"}

\* No member of the request bears the name of an authentication parameter.
Plain(t) == Members(t) \cap Auth = {}

\* An endpoint is signed, and wants a time stamp, exactly if its security says so.
Consistent(e) ==
    /\ e.signed_request \in BOOLEAN /\ e.requires_timestamp = e.signed_request
    /\ e.signed_request <=> e.security \in {"trade", "user_data"}

\* Both, of every entry of a table.
Secure(traits) == \A t \in traits : Plain(t.request) /\ Consistent(t.endpoint)

\* A table of endpoints.
AllConsistent(table) == \A n \in DOMAIN table : Consistent(table[n])

\* A public endpoint, and one that wants a signature.
LEMMA EndpointConsistent ==
  /\ \A m, path, security : security \notin {"trade", "user_data"} =>
       Consistent(Endpoint(m, path, security, FALSE, FALSE, FALSE))
  /\ \A m, path, security : security \in {"trade", "user_data"} =>
       Consistent(Endpoint(m, path, security, TRUE, TRUE, TRUE))
BY DEF Consistent, Endpoint

\* An entry of the traits has what it was made of.
LEMMA TraitsSecure ==
  ASSUME NEW r, NEW e, NEW response, Plain(r), Consistent(e)
  PROVE  LET t == Traits(r, e, response) IN Plain(t.request) /\ Consistent(t.endpoint)
BY DEF Traits

\* What holds of two tables holds of both as one.
LEMMA TablesJoin ==
  ASSUME NEW f, NEW g, AllConsistent(f), AllConsistent(g)
  PROVE  AllConsistent(Joined(f, g)) /\ DOMAIN Joined(f, g) = DOMAIN f \cup DOMAIN g
BY DEF AllConsistent, Joined

\* The endpoints of this table by name.
MarketNames == {
    "ping", "server_time", "exchange_info", "order_book", "recent_trades", "aggregate_trades",
    "klines", "continuous_klines", "index_price_klines", "mark_price_klines",
    "premium_index_klines", "book_ticker", "price_ticker", "ticker_24hr", "mark_price",
    "funding_rate_history", "funding_rate_info", "open_interest", "open_interest_statistics",
    "top_long_short_account_ratio", "top_trader_long_short_ratio", "long_short_ratio",
    "taker_buy_sell_volume", "historical_trades"}

\* Every one of them is consistent.
LEMMA MarketEndpoints ==
  AllConsistent(market_endpoints) /\ DOMAIN market_endpoints = MarketNames
<1>1. DOMAIN market_endpoints = MarketNames
  BY DEF market_endpoints, MarketNames
<1>2. /\ Consistent(market_endpoints.ping) /\ Consistent(market_endpoints.server_time)
      /\ Consistent(market_endpoints.exchange_info) /\ Consistent(market_endpoints.order_book)
      /\ Consistent(market_endpoints.recent_trades)
      /\ Consistent(market_endpoints.aggregate_trades) /\ Consistent(market_endpoints.klines)
      /\ Consistent(market_endpoints.continuous_klines)
      /\ Consistent(market_endpoints.index_price_klines)
      /\ Consistent(market_endpoints.mark_price_klines)
      /\ Consistent(market_endpoints.premium_index_klines)
      /\ Consistent(market_endpoints.book_ticker) /\ Consistent(market_endpoints.price_ticker)
      /\ Consistent(market_endpoints.ticker_24hr) /\ Consistent(market_endpoints.mark_price)
      /\ Consistent(market_endpoints.funding_rate_history)
      /\ Consistent(market_endpoints.funding_rate_info)
      /\ Consistent(market_endpoints.open_interest)
      /\ Consistent(market_endpoints.open_interest_statistics)
      /\ Consistent(market_endpoints.top_long_short_account_ratio)
      /\ Consistent(market_endpoints.top_trader_long_short_ratio)
      /\ Consistent(market_endpoints.long_short_ratio)
      /\ Consistent(market_endpoints.taker_buy_sell_volume)
      /\ Consistent(market_endpoints.historical_trades)
  BY EndpointConsistent DEF market_endpoints
<1> QED BY <1>1, <1>2 DEF AllConsistent, MarketNames

\* The endpoints of this table by name.
StreamAndOrderNames == {
    "account_information", "account_balances", "position_risk", "start_listen_key",
    "keepalive_listen_key", "close_listen_key", "new_order", "modify_order", "cancel_order",
    "query_order", "basis", "price_ticker_v2", "delivery_price", "composite_index_info",
    "index_constituents", "asset_index", "insurance_fund", "adl_risk", "rpi_depth",
    "trading_schedule"}

\* Every one of them is consistent.
LEMMA StreamAndOrderEndpoints ==
  AllConsistent(stream_and_order_endpoints) /\ DOMAIN stream_and_order_endpoints = StreamAndOrderNames
<1>1. DOMAIN stream_and_order_endpoints = StreamAndOrderNames
  BY DEF stream_and_order_endpoints, StreamAndOrderNames
<1>2. /\ Consistent(stream_and_order_endpoints.account_information)
      /\ Consistent(stream_and_order_endpoints.account_balances)
      /\ Consistent(stream_and_order_endpoints.position_risk)
      /\ Consistent(stream_and_order_endpoints.start_listen_key)
      /\ Consistent(stream_and_order_endpoints.keepalive_listen_key)
      /\ Consistent(stream_and_order_endpoints.close_listen_key)
      /\ Consistent(stream_and_order_endpoints.new_order)
      /\ Consistent(stream_and_order_endpoints.modify_order)
      /\ Consistent(stream_and_order_endpoints.cancel_order)
      /\ Consistent(stream_and_order_endpoints.query_order)
      /\ Consistent(stream_and_order_endpoints.basis)
      /\ Consistent(stream_and_order_endpoints.price_ticker_v2)
      /\ Consistent(stream_and_order_endpoints.delivery_price)
      /\ Consistent(stream_and_order_endpoints.composite_index_info)
      /\ Consistent(stream_and_order_endpoints.index_constituents)
      /\ Consistent(stream_and_order_endpoints.asset_index)
      /\ Consistent(stream_and_order_endpoints.insurance_fund)
      /\ Consistent(stream_and_order_endpoints.adl_risk)
      /\ Consistent(stream_and_order_endpoints.rpi_depth)
      /\ Consistent(stream_and_order_endpoints.trading_schedule)
  BY EndpointConsistent DEF stream_and_order_endpoints
<1> QED BY <1>1, <1>2 DEF AllConsistent, StreamAndOrderNames

\* The endpoints of this table by name.
TradeNames == {
    "test_order", "batch_orders", "modify_batch_orders", "cancel_batch_orders",
    "cancel_all_open_orders", "auto_cancel", "query_open_order", "all_open_orders",
    "all_orders", "position_risk_v3", "adl_quantile", "force_orders", "account_trades",
    "change_position_mode", "change_multi_assets", "change_leverage", "change_margin_type",
    "modify_isolated_margin", "position_margin_history", "order_modify_history"}

\* Every one of them is consistent.
LEMMA TradeEndpoints ==
  AllConsistent(trade_endpoints) /\ DOMAIN trade_endpoints = TradeNames
<1>1. DOMAIN trade_endpoints = TradeNames
  BY DEF trade_endpoints, TradeNames
<1>2. /\ Consistent(trade_endpoints.test_order) /\ Consistent(trade_endpoints.batch_orders)
      /\ Consistent(trade_endpoints.modify_batch_orders)
      /\ Consistent(trade_endpoints.cancel_batch_orders)
      /\ Consistent(trade_endpoints.cancel_all_open_orders)
      /\ Consistent(trade_endpoints.auto_cancel)
      /\ Consistent(trade_endpoints.query_open_order)
      /\ Consistent(trade_endpoints.all_open_orders) /\ Consistent(trade_endpoints.all_orders)
      /\ Consistent(trade_endpoints.position_risk_v3)
      /\ Consistent(trade_endpoints.adl_quantile) /\ Consistent(trade_endpoints.force_orders)
      /\ Consistent(trade_endpoints.account_trades)
      /\ Consistent(trade_endpoints.change_position_mode)
      /\ Consistent(trade_endpoints.change_multi_assets)
      /\ Consistent(trade_endpoints.change_leverage)
      /\ Consistent(trade_endpoints.change_margin_type)
      /\ Consistent(trade_endpoints.modify_isolated_margin)
      /\ Consistent(trade_endpoints.position_margin_history)
      /\ Consistent(trade_endpoints.order_modify_history)
  BY EndpointConsistent DEF trade_endpoints
<1> QED BY <1>1, <1>2 DEF AllConsistent, TradeNames

\* The endpoints of this table by name.
AlgoAndAccountNames == {
    "new_algo_order", "cancel_algo_order", "query_algo_order", "all_algo_orders",
    "open_algo_orders", "cancel_all_algo_orders", "account_config", "symbol_config",
    "get_multi_assets_mode", "get_position_mode", "income_history", "leverage_brackets",
    "commission_rate", "rate_limit_order", "download_id_transaction",
    "download_link_transaction", "download_id_order", "download_link_order",
    "download_id_trade", "download_link_trade", "get_bnb_burn", "toggle_bnb_burn",
    "quantitative_rules", "convert_get_quote", "convert_accept_quote", "convert_order_status",
    "pm_account_info", "tradfi_perps"}

\* Every one of them is consistent.
LEMMA AlgoAndAccountEndpoints ==
  AllConsistent(algo_and_account_endpoints) /\ DOMAIN algo_and_account_endpoints = AlgoAndAccountNames
<1>1. DOMAIN algo_and_account_endpoints = AlgoAndAccountNames
  BY DEF algo_and_account_endpoints, AlgoAndAccountNames
<1>2. /\ Consistent(algo_and_account_endpoints.new_algo_order)
      /\ Consistent(algo_and_account_endpoints.cancel_algo_order)
      /\ Consistent(algo_and_account_endpoints.query_algo_order)
      /\ Consistent(algo_and_account_endpoints.all_algo_orders)
      /\ Consistent(algo_and_account_endpoints.open_algo_orders)
      /\ Consistent(algo_and_account_endpoints.cancel_all_algo_orders)
      /\ Consistent(algo_and_account_endpoints.account_config)
      /\ Consistent(algo_and_account_endpoints.symbol_config)
      /\ Consistent(algo_and_account_endpoints.get_multi_assets_mode)
      /\ Consistent(algo_and_account_endpoints.get_position_mode)
      /\ Consistent(algo_and_account_endpoints.income_history)
      /\ Consistent(algo_and_account_endpoints.leverage_brackets)
      /\ Consistent(algo_and_account_endpoints.commission_rate)
      /\ Consistent(algo_and_account_endpoints.rate_limit_order)
      /\ Consistent(algo_and_account_endpoints.download_id_transaction)
      /\ Consistent(algo_and_account_endpoints.download_link_transaction)
      /\ Consistent(algo_and_account_endpoints.download_id_order)
      /\ Consistent(algo_and_account_endpoints.download_link_order)
      /\ Consistent(algo_and_account_endpoints.download_id_trade)
      /\ Consistent(algo_and_account_endpoints.download_link_trade)
      /\ Consistent(algo_and_account_endpoints.get_bnb_burn)
      /\ Consistent(algo_and_account_endpoints.toggle_bnb_burn)
      /\ Consistent(algo_and_account_endpoints.quantitative_rules)
      /\ Consistent(algo_and_account_endpoints.convert_get_quote)
      /\ Consistent(algo_and_account_endpoints.convert_accept_quote)
      /\ Consistent(algo_and_account_endpoints.convert_order_status)
      /\ Consistent(algo_and_account_endpoints.pm_account_info)
      /\ Consistent(algo_and_account_endpoints.tradfi_perps)
  BY EndpointConsistent DEF algo_and_account_endpoints
<1> QED BY <1>1, <1>2 DEF AllConsistent, AlgoAndAccountNames

\* Every endpoint is consistent.
LEMMA EndpointsConsistent ==
  /\ AllConsistent(endpoint)
  /\ DOMAIN endpoint = (MarketNames \cup StreamAndOrderNames)
                       \cup (TradeNames \cup AlgoAndAccountNames)
<1> DEFINE f == Joined(market_endpoints, stream_and_order_endpoints)
           h == Joined(trade_endpoints, algo_and_account_endpoints)
<1>1. AllConsistent(f) /\ DOMAIN f = MarketNames \cup StreamAndOrderNames
  BY MarketEndpoints, StreamAndOrderEndpoints, TablesJoin
<1>2. AllConsistent(h) /\ DOMAIN h = TradeNames \cup AlgoAndAccountNames
  BY TradeEndpoints, AlgoAndAccountEndpoints, TablesJoin
<1>3. endpoint = Joined(f, h)
  BY DEF endpoint
<1> HIDE DEF f, h
<1> QED BY <1>1, <1>2, <1>3, TablesJoin

\* The requests of this table are plain, and their endpoints exist.
LEMMA MarketDataTraits == Secure(market_data_traits)
<1>1. /\ Plain(ping_request_t) /\ Plain(server_time_request_t)
      /\ Plain(exchange_info_request_t) /\ Plain(order_book_request_t)
      /\ Plain(recent_trades_request_t) /\ Plain(aggregate_trades_request_t)
      /\ Plain(continuous_kline_request_t) /\ Plain(index_price_kline_request_t)
      /\ Plain(book_ticker_request_t) /\ Plain(price_ticker_request_t)
      /\ Plain(ticker_24hr_request_t) /\ Plain(mark_price_request_t)
      /\ Plain(funding_rate_history_request_t) /\ Plain(open_interest_request_t)
      /\ Plain(historical_trades_request_t)
  BY DEF Plain, Members, Struct, Auth,
         ping_request_t, server_time_request_t, exchange_info_request_t, order_book_request_t,
         recent_trades_request_t, aggregate_trades_request_t, continuous_kline_request_t,
         index_price_kline_request_t, book_ticker_request_t, price_ticker_request_t,
         ticker_24hr_request_t, mark_price_request_t, funding_rate_history_request_t,
         open_interest_request_t, historical_trades_request_t
<1>2. {"ping", "server_time", "exchange_info", "order_book", "recent_trades",
        "aggregate_trades", "continuous_klines", "index_price_klines", "book_ticker",
        "price_ticker", "ticker_24hr", "mark_price", "funding_rate_history", "open_interest",
        "historical_trades"}
        \subseteq DOMAIN endpoint
  BY EndpointsConsistent DEF MarketNames, StreamAndOrderNames, TradeNames, AlgoAndAccountNames
<1> QED BY <1>1, <1>2, EndpointsConsistent, TraitsSecure
   DEF Secure, AllConsistent, market_data_traits

\* The requests of this table are plain, and their endpoints exist.
LEMMA MoreMarketDataTraits == Secure(more_market_data_traits)
<1>1. /\ Plain(basis_request_t) /\ Plain(price_ticker_v2_request_t)
      /\ Plain(delivery_price_request_t) /\ Plain(composite_index_info_request_t)
      /\ Plain(index_constituents_request_t) /\ Plain(asset_index_request_t)
      /\ Plain(insurance_fund_request_t) /\ Plain(insurance_funds_request_t)
      /\ Plain(adl_risk_request_t) /\ Plain(rpi_depth_request_t)
      /\ Plain(trading_schedule_request_t)
  BY DEF Plain, Members, Struct, Auth,
         basis_request_t, price_ticker_v2_request_t, delivery_price_request_t,
         composite_index_info_request_t, index_constituents_request_t, asset_index_request_t,
         insurance_fund_request_t, insurance_funds_request_t, adl_risk_request_t,
         rpi_depth_request_t, trading_schedule_request_t
<1>2. {"basis", "price_ticker_v2", "delivery_price", "composite_index_info",
        "index_constituents", "asset_index", "insurance_fund", "insurance_fund", "adl_risk",
        "rpi_depth", "trading_schedule"}
        \subseteq DOMAIN endpoint
  BY EndpointsConsistent DEF MarketNames, StreamAndOrderNames, TradeNames, AlgoAndAccountNames
<1> QED BY <1>1, <1>2, EndpointsConsistent, TraitsSecure
   DEF Secure, AllConsistent, more_market_data_traits

\* The requests of this table are plain, and their endpoints exist.
LEMMA AccountTraits == Secure(account_traits)
<1>1. /\ Plain(position_risk_request_t) /\ Plain(symbol_config_request_t)
      /\ Plain(income_history_request_t) /\ Plain(leverage_bracket_request_t)
      /\ Plain(commission_rate_request_t) /\ Plain(toggle_bnb_burn_request_t)
      /\ Plain(quantitative_rules_request_t) /\ Plain(pm_account_info_request_t)
  BY DEF Plain, Members, Struct, Auth,
         position_risk_request_t, symbol_config_request_t, income_history_request_t,
         leverage_bracket_request_t, commission_rate_request_t, toggle_bnb_burn_request_t,
         quantitative_rules_request_t, pm_account_info_request_t
<1>2. {"position_risk", "symbol_config", "income_history", "leverage_brackets",
        "commission_rate", "toggle_bnb_burn", "quantitative_rules", "pm_account_info"}
        \subseteq DOMAIN endpoint
  BY EndpointsConsistent DEF MarketNames, StreamAndOrderNames, TradeNames, AlgoAndAccountNames
<1> QED BY <1>1, <1>2, EndpointsConsistent, TraitsSecure
   DEF Secure, AllConsistent, account_traits

\* The requests of this table are plain, and their endpoints exist.
LEMMA TradeTraits == Secure(trade_traits)
<1>1. /\ Plain(new_order_request_t) /\ Plain(modify_order_request_t)
      /\ Plain(cancel_order_request_t) /\ Plain(query_order_request_t)
      /\ Plain(cancel_all_open_orders_request_t) /\ Plain(auto_cancel_request_t)
      /\ Plain(query_open_order_request_t) /\ Plain(all_open_orders_request_t)
      /\ Plain(all_orders_request_t) /\ Plain(position_info_v3_request_t)
      /\ Plain(adl_quantile_request_t) /\ Plain(force_orders_request_t)
      /\ Plain(account_trade_request_t) /\ Plain(change_position_mode_request_t)
      /\ Plain(change_multi_assets_mode_request_t) /\ Plain(change_leverage_request_t)
      /\ Plain(change_margin_type_request_t) /\ Plain(modify_isolated_margin_request_t)
  BY DEF Plain, Members, Struct, Auth,
         new_order_request_t, modify_order_request_t, cancel_order_request_t,
         query_order_request_t, cancel_all_open_orders_request_t, auto_cancel_request_t,
         query_open_order_request_t, all_open_orders_request_t, all_orders_request_t,
         position_info_v3_request_t, adl_quantile_request_t, force_orders_request_t,
         account_trade_request_t, change_position_mode_request_t,
         change_multi_assets_mode_request_t, change_leverage_request_t,
         change_margin_type_request_t, modify_isolated_margin_request_t
<1>2. {"new_order", "modify_order", "cancel_order", "query_order", "cancel_all_open_orders",
        "auto_cancel", "query_open_order", "all_open_orders", "all_orders",
        "position_risk_v3", "adl_quantile", "force_orders", "account_trades",
        "change_position_mode", "change_multi_assets", "change_leverage",
        "change_margin_type", "modify_isolated_margin"}
        \subseteq DOMAIN endpoint
  BY EndpointsConsistent DEF MarketNames, StreamAndOrderNames, TradeNames, AlgoAndAccountNames
<1> QED BY <1>1, <1>2, EndpointsConsistent, TraitsSecure
   DEF Secure, AllConsistent, trade_traits

\* The requests of this table are plain, and their endpoints exist.
LEMMA MoreTradeTraits == Secure(more_trade_traits)
<1>1. /\ Plain(position_margin_history_request_t) /\ Plain(order_modify_history_request_t)
      /\ Plain(new_algo_order_request_t) /\ Plain(cancel_algo_order_request_t)
      /\ Plain(query_algo_order_request_t) /\ Plain(all_algo_orders_request_t)
  BY DEF Plain, Members, Struct, Auth,
         position_margin_history_request_t, order_modify_history_request_t,
         new_algo_order_request_t, cancel_algo_order_request_t, query_algo_order_request_t,
         all_algo_orders_request_t
<1>2. {"position_margin_history", "order_modify_history", "new_algo_order",
        "cancel_algo_order", "query_algo_order", "all_algo_orders"}
        \subseteq DOMAIN endpoint
  BY EndpointsConsistent DEF MarketNames, StreamAndOrderNames, TradeNames, AlgoAndAccountNames
<1> QED BY <1>1, <1>2, EndpointsConsistent, TraitsSecure
   DEF Secure, AllConsistent, more_trade_traits

\* The requests of this table are plain, and their endpoints exist.
LEMMA ConvertTraits == Secure(convert_traits)
<1>1. /\ Plain(convert_quote_request_t) /\ Plain(convert_accept_request_t)
      /\ Plain(convert_order_status_request_t)
  BY DEF Plain, Members, Struct, Auth,
         convert_quote_request_t, convert_accept_request_t, convert_order_status_request_t
<1>2. {"convert_get_quote", "convert_accept_quote", "convert_order_status"}
        \subseteq DOMAIN endpoint
  BY EndpointsConsistent DEF MarketNames, StreamAndOrderNames, TradeNames, AlgoAndAccountNames
<1> QED BY <1>1, <1>2, EndpointsConsistent, TraitsSecure
   DEF Secure, AllConsistent, convert_traits

\* The requests of this table are plain, and their endpoints exist.
LEMMA ParameterlessMarketDataTraits == Secure(parameterless_market_data_traits)
<1>1. /\ Plain(book_tickers_request_t) /\ Plain(price_tickers_request_t)
      /\ Plain(price_tickers_v2_request_t) /\ Plain(ticker_24hrs_request_t)
      /\ Plain(mark_prices_request_t) /\ Plain(funding_rate_info_request_t)
  BY DEF Plain, Members, Struct, Auth,
         book_tickers_request_t, price_tickers_request_t, price_tickers_v2_request_t,
         ticker_24hrs_request_t, mark_prices_request_t, funding_rate_info_request_t
<1>2. {"book_ticker", "price_ticker", "price_ticker_v2", "ticker_24hr", "mark_price",
        "funding_rate_info"}
        \subseteq DOMAIN endpoint
  BY EndpointsConsistent DEF MarketNames, StreamAndOrderNames, TradeNames, AlgoAndAccountNames
<1> QED BY <1>1, <1>2, EndpointsConsistent, TraitsSecure
   DEF Secure, AllConsistent, parameterless_market_data_traits

\* The requests of this table are plain, and their endpoints exist.
LEMMA KlineTraits == Secure(kline_traits)
<1>1. /\ Plain(klines_request_t) /\ Plain(mark_price_klines_request_t)
      /\ Plain(premium_index_klines_request_t)
  BY DEF Plain, Members, Struct, Auth,
         klines_request_t, mark_price_klines_request_t, premium_index_klines_request_t
<1>2. {"klines", "mark_price_klines", "premium_index_klines"}
        \subseteq DOMAIN endpoint
  BY EndpointsConsistent DEF MarketNames, StreamAndOrderNames, TradeNames, AlgoAndAccountNames
<1> QED BY <1>1, <1>2, EndpointsConsistent, TraitsSecure
   DEF Secure, AllConsistent, kline_traits

\* The requests of this table are plain, and their endpoints exist.
LEMMA FuturesDataTraits == Secure(futures_data_traits)
<1>1. /\ Plain(open_interest_statistics_request_t)
      /\ Plain(top_long_short_account_ratio_request_t)
      /\ Plain(top_trader_long_short_ratio_request_t) /\ Plain(long_short_ratio_request_t)
      /\ Plain(taker_buy_sell_volume_request_t)
  BY DEF Plain, Members, Struct, Auth,
         open_interest_statistics_request_t, top_long_short_account_ratio_request_t,
         top_trader_long_short_ratio_request_t, long_short_ratio_request_t,
         taker_buy_sell_volume_request_t
<1>2. {"open_interest_statistics", "top_long_short_account_ratio",
        "top_trader_long_short_ratio", "long_short_ratio", "taker_buy_sell_volume"}
        \subseteq DOMAIN endpoint
  BY EndpointsConsistent DEF MarketNames, StreamAndOrderNames, TradeNames, AlgoAndAccountNames
<1> QED BY <1>1, <1>2, EndpointsConsistent, TraitsSecure
   DEF Secure, AllConsistent, futures_data_traits

\* The requests of this table are plain, and their endpoints exist.
LEMMA ParameterlessAccountTraits == Secure(parameterless_account_traits)
<1>1. /\ Plain(account_information_request_t) /\ Plain(balances_request_t)
      /\ Plain(account_config_request_t) /\ Plain(get_multi_assets_mode_request_t)
      /\ Plain(get_position_mode_request_t) /\ Plain(rate_limit_order_request_t)
      /\ Plain(get_bnb_burn_request_t)
  BY DEF Plain, Members, Struct, Auth,
         account_information_request_t, balances_request_t, account_config_request_t,
         get_multi_assets_mode_request_t, get_position_mode_request_t,
         rate_limit_order_request_t, get_bnb_burn_request_t
<1>2. {"account_information", "account_balances", "account_config", "get_multi_assets_mode",
        "get_position_mode", "rate_limit_order", "get_bnb_burn"}
        \subseteq DOMAIN endpoint
  BY EndpointsConsistent DEF MarketNames, StreamAndOrderNames, TradeNames, AlgoAndAccountNames
<1> QED BY <1>1, <1>2, EndpointsConsistent, TraitsSecure
   DEF Secure, AllConsistent, parameterless_account_traits

\* The requests of this table are plain, and their endpoints exist.
LEMMA DownloadTraits == Secure(download_traits)
<1>1. /\ Plain(download_id_transaction_request_t)
      /\ Plain(download_link_transaction_request_t) /\ Plain(download_id_order_request_t)
      /\ Plain(download_link_order_request_t) /\ Plain(download_id_trade_request_t)
      /\ Plain(download_link_trade_request_t)
  BY DEF Plain, Members, Struct, Auth,
         download_id_transaction_request_t, download_link_transaction_request_t,
         download_id_order_request_t, download_link_order_request_t,
         download_id_trade_request_t, download_link_trade_request_t
<1>2. {"download_id_transaction", "download_link_transaction", "download_id_order",
        "download_link_order", "download_id_trade", "download_link_trade"}
        \subseteq DOMAIN endpoint
  BY EndpointsConsistent DEF MarketNames, StreamAndOrderNames, TradeNames, AlgoAndAccountNames
<1> QED BY <1>1, <1>2, EndpointsConsistent, TraitsSecure
   DEF Secure, AllConsistent, download_traits

\* The requests of this table are plain, and their endpoints exist.
LEMMA ParameterlessTradeTraits == Secure(parameterless_trade_traits)
<1>1. /\ Plain(test_order_request_t) /\ Plain(open_algo_orders_request_t)
      /\ Plain(cancel_all_algo_orders_request_t) /\ Plain(tradfi_perps_request_t)
  BY DEF Plain, Members, Struct, Auth,
         test_order_request_t, open_algo_orders_request_t, cancel_all_algo_orders_request_t,
         tradfi_perps_request_t
<1>2. {"test_order", "open_algo_orders", "cancel_all_algo_orders", "tradfi_perps"}
        \subseteq DOMAIN endpoint
  BY EndpointsConsistent DEF MarketNames, StreamAndOrderNames, TradeNames, AlgoAndAccountNames
<1> QED BY <1>1, <1>2, EndpointsConsistent, TraitsSecure
   DEF Secure, AllConsistent, parameterless_trade_traits

\* The requests of this table are plain, and their endpoints exist.
LEMMA UserDataStreamTraits == Secure(user_data_stream_traits)
<1>1. /\ Plain(start_listen_key_request_t) /\ Plain(keepalive_listen_key_request_t)
      /\ Plain(close_listen_key_request_t)
  BY DEF Plain, Members, Struct, Auth,
         start_listen_key_request_t, keepalive_listen_key_request_t,
         close_listen_key_request_t
<1>2. {"start_listen_key", "keepalive_listen_key", "close_listen_key"}
        \subseteq DOMAIN endpoint
  BY EndpointsConsistent DEF MarketNames, StreamAndOrderNames, TradeNames, AlgoAndAccountNames
<1> QED BY <1>1, <1>2, EndpointsConsistent, TraitsSecure
   DEF Secure, AllConsistent, user_data_stream_traits

\* And so all of endpoint_traits.hpp.
LEMMA RestTraitsSecure == Secure(RestTraits)
BY MarketDataTraits, MoreMarketDataTraits, AccountTraits, TradeTraits, MoreTradeTraits,
   ConvertTraits, ParameterlessMarketDataTraits, KlineTraits, FuturesDataTraits,
   ParameterlessAccountTraits, DownloadTraits, ParameterlessTradeTraits, UserDataStreamTraits
   DEF Secure, RestTraits

\* What is sent for a request of a secure table, whatever optional members are set.
SentAsSigned(t, given) ==
    LET r == async_execute(t, given)
        sent == r.target \cup r.body
        signs == t.endpoint.security \in {"trade", "user_data"}
    IN  /\ IF signs THEN Auth \subseteq sent /\ r.over = sent \ {"signature"}
           ELSE sent \cap Auth = {}
        /\ r.target = {} \/ r.body = {}
        /\ Members(t.request) \cap Auth = {} /\ t.endpoint.requires_timestamp = signs

\* async_execute signs and sends as it should, whatever is given.
LEMMA RestSigned ==
  ASSUME NEW t, NEW given, Plain(t.request), Consistent(t.endpoint)
  PROVE  SentAsSigned(t, given)
<1> DEFINE query == Present(t.request, given)
           in == t.endpoint.method \in {"get", "delete"}
           signs == t.endpoint.security \in {"trade", "user_data"}
<1>1. query \subseteq Members(t.request)
  BY DEF Present, Members
<1>2. to_query_map(t.request, Reflected(t.request), given) = query
  BY <1>1 DEF to_query_map, Reflected, Same
<1>3. query \cap Auth = {}
  BY <1>1 DEF Plain
<1> HIDE DEF query
<1>4. ASSUME NEW over, NEW whole,
             async_execute(t, given) = [over |-> over, target |-> IF in THEN whole ELSE {},
                                        body |-> IF in THEN {} ELSE whole],
             IF signs THEN Auth \subseteq whole /\ over = whole \ {"signature"}
             ELSE whole \cap Auth = {},
             t.endpoint.requires_timestamp = signs
      PROVE  SentAsSigned(t, given)
  <2> DEFINE r == async_execute(t, given)
  <2>1. r.over = over /\ r.target \cup r.body = whole /\ (r.target = {} \/ r.body = {})
    <3>1. CASE in
      BY <1>4, <3>1
    <3>2. CASE ~in
      BY <1>4, <3>2
    <3> QED BY <3>1, <3>2
  <2> HIDE DEF r, in
  <2>2. IF signs THEN Auth \subseteq r.target \cup r.body
                      /\ r.over = (r.target \cup r.body) \ {"signature"}
        ELSE (r.target \cup r.body) \cap Auth = {}
    BY <1>4, <2>1
  <2> QED BY <1>4, <2>1, <2>2 DEF SentAsSigned, Plain, r
<1>5. CASE signs
  <2> DEFINE whole == query \cup Auth
             s == Signed(query)
  <2>1. t.endpoint.signed_request = TRUE /\ t.endpoint.requires_timestamp = TRUE
    BY <1>5 DEF Consistent
  <2>2. s.query = whole /\ s.over = whole \ {"signature"}
    BY <1>3 DEF Signed, inject_auth_query, Auth
  <2>3. async_execute(t, given) = [over |-> s.over, target |-> IF in THEN s.query ELSE {},
                                   body |-> IF in THEN {} ELSE s.query]
    BY <1>2, <2>1 DEF async_execute
  <2>4. Auth \subseteq s.query /\ s.over = s.query \ {"signature"}
    BY <2>2
  <2> HIDE DEF in, s
  <2> QED BY <1>4, <1>5, <2>1, <2>3, <2>4
<1>6. CASE ~signs
  <2>1. t.endpoint.signed_request = FALSE /\ t.endpoint.requires_timestamp = FALSE
    BY <1>6 DEF Consistent
  <2>2. async_execute(t, given) = [over |-> {}, target |-> IF in THEN query ELSE {},
                                   body |-> IF in THEN {} ELSE query]
    <3> HIDE DEF in
    <3> QED BY <1>2, <2>1 DEF async_execute, Unsigned, in
  <2> HIDE DEF in
  <2>3. t.endpoint.requires_timestamp = signs
    <3> DEFINE stamped == t.endpoint.requires_timestamp
    <3>1. stamped \in BOOLEAN /\ ~stamped
      BY <2>1
    <3> HIDE DEF stamped
    <3>2. stamped = signs
      BY <1>6, <3>1
    <3> QED BY <3>2 DEF stamped
  <2> DEFINE none == {}
  <2>4. async_execute(t, given) = [over |-> none, target |-> IF in THEN query ELSE {},
                                   body |-> IF in THEN {} ELSE query]
    BY <2>2
  <2> HIDE DEF none, signs
  <2> QED BY <1>3, <1>4, <1>6, <2>3, <2>4
<1> QED BY <1>5, <1>6

\* How a request of the WebSocket API is written: what inject_auth sets is part of
\* it and keeps its name; what is not signed has none of it.
RpcSecure(t) ==
    \/ /\ t.auth = "inject" /\ {"timestamp", "signature"} \subseteq t.request.required
       /\ "recvWindow" \in t.request.optional /\ \A a \in Auth : t.keys[a] = a
    \/ t.auth \in {"signed_base", "logon", "api_key_only"}
    \/ t.auth = "none" /\ \A m \in Members(t.request) : t.keys[m] \notin Auth

\* The parameters of a call, whatever optional members are set.
RpcAsSigned(t, given) ==
    LET p == rpc_params(t, given)
    IN  IF t.auth \in {"inject", "signed_base", "logon"}
          THEN Auth \subseteq p.query /\ p.over = p.query \ {"signature"}
        ELSE p.query \cap Auth = {}

\* So does async_execute of the WebSocket API.
LEMMA RpcSigned ==
  ASSUME NEW t, NEW given, RpcSecure(t)
  PROVE  RpcAsSigned(t, given)
<1>1. CASE t.auth = "inject" /\ {"timestamp", "signature"} \subseteq t.request.required
           /\ "recvWindow" \in t.request.optional /\ \A a \in Auth : t.keys[a] = a
  <2> DEFINE query == to_query_map(t.request, t.keys, given \cup {"recvWindow"})
  <2>1. rpc_params(t, given) = [query |-> query, over |-> query \ {"signature"}]
    BY <1>1 DEF rpc_params, inject_auth
  <2>2. \A a \in Auth : a \in Present(t.request, given \cup {"recvWindow"}) /\ t.keys[a] = a
    BY <1>1 DEF Present, Auth
  <2>3. Auth \subseteq query
    BY <2>2 DEF to_query_map
  <2> HIDE DEF query
  <2> QED BY <1>1, <2>1, <2>3 DEF RpcAsSigned
<1>2. CASE t.auth = "signed_base"
  <2>1. rpc_params(t, given) = make_signed_request_base
    BY <1>2 DEF rpc_params
  <2> QED BY <1>2, <2>1 DEF RpcAsSigned, make_signed_request_base, inject_auth_query, Auth,
             Members, websocket_api_signed_request_t, Struct
<1>3. CASE t.auth = "logon"
  <2>1. rpc_params(t, given) = session_logon_params
    BY <1>3 DEF rpc_params
  <2> QED BY <1>3, <2>1 DEF RpcAsSigned, session_logon_params, inject_auth_query, Auth,
             Members, session_logon_request_t, Struct
<1>4. CASE t.auth = "api_key_only"
  <2>1. rpc_params(t, given) = Unsigned(Members(websocket_api_user_data_stream_request_t))
    BY <1>4 DEF rpc_params
  <2> QED BY <1>4, <2>1 DEF RpcAsSigned, Unsigned, Auth, Members,
             websocket_api_user_data_stream_request_t, Struct
<1>5. CASE t.auth = "none" /\ \A m \in Members(t.request) : t.keys[m] \notin Auth
  <2>1. rpc_params(t, given) = Unsigned(to_query_map(t.request, t.keys, given))
    BY <1>5 DEF rpc_params
  <2>2. to_query_map(t.request, t.keys, given) \cap Auth = {}
    BY <1>5 DEF to_query_map, Present, Members
  <2> QED BY <1>5, <2>1, <2>2 DEF RpcAsSigned, Unsigned
<1> QED BY <1>1, <1>2, <1>3, <1>4, <1>5 DEF RpcSecure

\* Every request of the WebSocket API is written like that.
LEMMA RpcTraitsSecure == \A t \in RpcTraits \cup {session_logon} : RpcSecure(t)
<1> USE DEF RpcSecure, Rpc
<1>1. ASSUME NEW name, NEW response, NEW a, NEW r, NEW keys,
             a \in {"signed_base", "logon", "api_key_only"}
      PROVE  RpcSecure(Rpc(r, keys, name, a, response))
  BY <1>1
<1> DEFINE Carries(r, keys) ==
        /\ {"timestamp", "signature"} \subseteq r.required /\ "recvWindow" \in r.optional
        /\ \A a \in Auth : keys[a] = a
           Lacks(r, keys) == \A m \in Members(r) : keys[m] \notin Auth
<1>2. ASSUME NEW name, NEW response, NEW r, NEW keys, Carries(r, keys)
      PROVE  RpcSecure(Rpc(r, keys, name, "inject", response))
  BY <1>2
<1>3. ASSUME NEW name, NEW response, NEW r, NEW keys, Lacks(r, keys)
      PROVE  RpcSecure(Rpc(r, keys, name, "none", response))
  BY <1>3
<1>4. /\ Carries(websocket_api_order_place_request_t, websocket_api_order_place_request_t_meta)
      /\ Carries(websocket_api_order_query_request_t, websocket_api_order_query_request_t_meta)
      /\ Carries(websocket_api_order_cancel_request_t, websocket_api_order_cancel_request_t_meta)
      /\ Carries(websocket_api_order_modify_request_t, websocket_api_order_modify_request_t_meta)
      /\ Carries(websocket_api_position_request_t, websocket_api_position_request_t_meta)
      /\ Carries(websocket_api_algo_order_cancel_request_t,
                 websocket_api_algo_order_cancel_request_t_meta)
  BY DEF Auth, Same, Extend, Struct, websocket_api_signed_request_t,
         websocket_api_order_place_request_t, websocket_api_order_place_request_t_meta,
         websocket_api_order_query_request_t, websocket_api_order_query_request_t_meta,
         websocket_api_order_cancel_request_t, websocket_api_order_cancel_request_t_meta,
         websocket_api_order_modify_request_t, websocket_api_order_modify_request_t_meta,
         websocket_api_position_request_t, websocket_api_position_request_t_meta,
         websocket_api_algo_order_cancel_request_t, websocket_api_algo_order_cancel_request_t_meta
<1>5. Carries(websocket_api_algo_order_place_request_t, websocket_api_algo_order_place_request_t_meta)
  BY DEF Auth, Extend, Struct, websocket_api_signed_request_t,
         websocket_api_algo_order_place_request_t, websocket_api_algo_order_place_request_t_meta
<1>6. /\ Lacks(websocket_api_book_ticker_request_t, websocket_api_book_ticker_request_t_meta)
      /\ Lacks(websocket_api_book_tickers_request_t, Reflected(websocket_api_book_tickers_request_t))
      /\ Lacks(websocket_api_price_ticker_request_t, websocket_api_price_ticker_request_t_meta)
      /\ Lacks(websocket_api_price_tickers_request_t, Reflected(websocket_api_price_tickers_request_t))
  BY DEF Auth, Same, Reflected, Members, Struct, websocket_api_book_ticker_request_t,
         websocket_api_book_ticker_request_t_meta, websocket_api_book_tickers_request_t,
         websocket_api_price_ticker_request_t, websocket_api_price_ticker_request_t_meta,
         websocket_api_price_tickers_request_t
<1> HIDE DEF Carries, Lacks, RpcSecure, Rpc
<1> QED BY <1>1, <1>2, <1>3, <1>4, <1>5, <1>6 DEF RpcTraits, session_logon

\* The request that was made is one of the tables.
RequestListed ==
    \/ request.kind = "none"
    \/ request.kind = "rest" /\ request.traits \in RestTraits
    \/ request.kind = "rpc" /\ request.traits \in RpcTraits \cup {session_logon}

\* A request of the tables is signed as it is sent.
LEMMA ListedIsSigned == RequestListed => RequestSigned
<1> SUFFICES ASSUME RequestListed PROVE RequestSigned
  OBVIOUS
<1>1. CASE request.kind = "none"
  BY <1>1 DEF RequestSigned
<1>2. CASE request.kind = "rest" /\ request.traits \in RestTraits
  <2>1. SentAsSigned(request.traits, request.given)
    BY <1>2, RestTraitsSecure, RestSigned DEF Secure
  <2> QED BY <1>2, <2>1 DEF RequestSigned, SentAsSigned, Auth
<1>3. CASE request.kind = "rpc" /\ request.traits \in RpcTraits \cup {session_logon}
  <2>1. RpcAsSigned(request.traits, request.given)
    BY <1>3, RpcTraitsSecure, RpcSigned
  <2> DEFINE p == rpc_params(request.traits, request.given)
  <2>2. {} \cup p.query = p.query
    OBVIOUS
  <2> QED BY <1>3, <2>1, <2>2 DEF RequestSigned, RpcAsSigned, Auth
<1> QED BY <1>1, <1>2, <1>3 DEF RequestListed

\* Whatever optional members a caller sets, in any combination: a REST request
\* (rest/pipeline.hpp) and a call of the WebSocket API (client.cpp) carry the
\* authentication that their endpoint asks for, no member stands in for it, and the
\* signature covers all the rest and nothing else.
THEOREM SignedWhateverIsSet ==
  /\ \A t \in RestTraits : \A given \in SUBSET t.request.optional : SentAsSigned(t, given)
  /\ \A t \in RpcTraits \cup {session_logon} :
        \A given \in SUBSET t.request.optional : RpcAsSigned(t, given)
BY RestTraitsSecure, RestSigned, RpcTraitsSecure, RpcSigned DEF Secure

\* Every request the client makes is signed as it is sent.
THEOREM RequestsAreSigned == Spec => []RequestSigned
<1>1. Init => RequestListed
  BY DEF Init, NoRequest, RequestListed
<1>2. RequestListed /\ [Next]_vars => RequestListed'
  <2> SUFFICES ASSUME RequestListed, [Next]_vars PROVE RequestListed'
    OBVIOUS
  <2>1. CASE UNCHANGED request
    BY <2>1 DEF RequestListed
  <2>2. ASSUME NEW t \in RestTraits, NEW given \in Given(t.request), RestCall(t, given)
        PROVE  RequestListed'
    BY <2>2 DEF RestCall, RequestListed
  <2>3. ASSUME NEW t \in RpcTraits \cup {session_logon}, NEW given \in Given(t.request),
               RpcCall(t, given)
        PROVE  RequestListed'
    BY <2>3 DEF RpcCall, RequestListed
  <2>4. CASE RpcStep
    BY <2>4 DEF RpcStep, NoRequest, RequestListed
  <2>5. RestAnswer \/ CombinedStep \/ LookUp => UNCHANGED request
    BY DEF RestAnswer, CombinedStep, LookUp, Look
  <2> QED BY <2>1, <2>2, <2>3, <2>4, <2>5 DEF Next, vars
<1>3. Spec => []RequestListed
  BY <1>1, <1>2, PTL DEF Spec
<1> QED BY <1>3, ListedIsSigned, PTL

-----------------------------------------------------------------------------
(***************************************************************************)
(* Numbers.  The arithmetic of decimal_t is exact for every width of word, *)
(* every scale and every pair of numbers; the long division is followed    *)
(* round by round.                                                         *)
(***************************************************************************)
\* Every non-empty set of naturals has a least element.
LEMMA LeastExists ==
  ASSUME NEW T \in SUBSET Nat, T # {}
  PROVE  \E x \in T : \A y \in T : x <= y
<1> DEFINE R == OpToRel(<, Nat)
<1>1. IsWellFoundedOn(R, Nat)
  BY NatLessThanWellFounded
<1>2. \A x, y \in Nat : y < x => <<y, x>> \in R
  BY DEF OpToRel
<1> HIDE DEF R
<1>3. PICK x \in T : \A y \in T : ~ (<<y, x>> \in R)
  BY <1>1, WFMin
<1>4. \A y \in T : x <= y
  <2> TAKE y \in T
  <2>1. x \in Nat /\ y \in Nat /\ ~ (y < x)
    BY <1>2, <1>3
  <2> QED BY <2>1
<1> QED BY <1>4

\* A row of numbers, each of which is b times the one before, from 1 on.
Powers(b, p, n) ==
    /\ DOMAIN p = 0..n /\ p[0] = 1
    /\ \A i \in 0..n : i < n => p[i + 1] = b * p[i]

\* They are positive, and the numbers of two places multiply to that of the sum.
LEMMA PowersMultiply ==
  ASSUME NEW b \in Nat \ {0}, NEW n \in Nat, NEW p, Powers(b, p, n)
  PROVE  /\ \A i \in 0..n : p[i] \in Nat \ {0}
         /\ \A i, j \in 0..n : i + j <= n => p[i + j] = p[i] * p[j]
<1> USE DEF Powers
<1>1. \A i \in 0..n : p[i] \in Nat \ {0}
  <2> DEFINE D == {i \in 0..n : p[i] \notin Nat \ {0}}
  <2> SUFFICES ASSUME D # {} PROVE FALSE
    OBVIOUS
  <2>1. D \in SUBSET Nat
    OBVIOUS
  <2>2. PICK i \in D : \A k \in D : i <= k
    BY <2>1, LeastExists
  <2>3. i \in 0..n /\ p[i] \notin Nat \ {0}
    OBVIOUS
  <2>4. i # 0
    BY <2>3
  <2>5. i - 1 \in 0..n /\ i - 1 \notin D
    BY <2>2, <2>3, <2>4
  <2>6. p[i - 1] \in Nat \ {0}
    BY <2>5
  <2>7. p[(i - 1) + 1] = b * p[i - 1] /\ (i - 1) + 1 = i
    BY <2>3, <2>5
  <2> DEFINE q == p[i - 1]
  <2> HIDE DEF D
  <2>8. p[i] = b * q /\ q \in Nat \ {0}
    BY <2>6, <2>7
  <2> HIDE DEF q
  <2>9. b * q \in Nat \ {0}
    BY <2>8
  <2> QED BY <2>3, <2>8, <2>9
<1>2. \A i, j \in 0..n : i + j <= n => p[i + j] = p[i] * p[j]
  <2> SUFFICES ASSUME NEW i \in 0..n,
                      ~ (\A j \in 0..n : i + j <= n => p[i + j] = p[i] * p[j])
               PROVE  FALSE
    OBVIOUS
  <2> DEFINE D == {j \in 0..n : i + j <= n /\ p[i + j] # p[i] * p[j]}
  <2>1. D \in SUBSET Nat /\ D # {}
    <3>1. PICK j \in 0..n : ~ (i + j <= n => p[i + j] = p[i] * p[j])
      OBVIOUS
    <3>2. j \in D
      BY <3>1
    <3>3. D \in SUBSET Nat
      OBVIOUS
    <3> HIDE DEF D
    <3> QED BY <3>2, <3>3
  <2>2. PICK j \in D : \A k \in D : j <= k
    BY <2>1, LeastExists
  <2>3. j \in 0..n /\ i + j <= n /\ p[i + j] # p[i] * p[j]
    OBVIOUS
  <2>4. j # 0
    <3>1. p[i] \in Nat
      BY <1>1
    <3> QED BY <2>3, <3>1
  <2>5. j - 1 \in 0..n /\ j - 1 \notin D
    BY <2>2, <2>3, <2>4
  <2>6. p[i + (j - 1)] = p[i] * p[j - 1]
    BY <2>3, <2>5
  <2> HIDE DEF D
  <2>7. (j - 1) + 1 = j /\ (i + (j - 1)) + 1 = i + j /\ i + (j - 1) \in 0..n
    BY <2>3, <2>4
  <2>8. p[j] = b * p[j - 1] /\ p[i + j] = b * p[i + (j - 1)]
    BY <2>3, <2>5, <2>7
  <2> DEFINE x == p[i]   y == p[j - 1]
  <2>9. x \in Nat /\ y \in Nat
    BY <1>1, <2>5
  <2> HIDE DEF x, y
  <2>10. b * (x * y) = x * (b * y)
    BY <2>9
  <2> QED BY <2>3, <2>6, <2>8, <2>10 DEF x, y
<1> QED BY <1>1, <1>2

\* Powers of two, as far as a double word goes.
LEMMA PowersOfTwo ==
  /\ \A i \in 0 .. 2 * Width : 2^i \in Nat \ {0}
  /\ \A i, j \in 0 .. 2 * Width : i + j <= 2 * Width => 2^(i + j) = 2^i * 2^j
<1> DEFINE n == 2 * Width
           Pow(i) == 2^i
           p == [i \in 0..n |-> Pow(i)]
<1>1. n \in Nat
  BY DecimalAssumption DEF Width
<1>2. Pow(0) = 1
  OBVIOUS
<1>3. \A i \in 0..n : i < n => Pow(i + 1) = 2 * Pow(i)
  <2> SUFFICES ASSUME NEW i \in 0..n, i < n PROVE Pow(i + 1) = 2 * Pow(i)
    OBVIOUS
  <2>1. i \in 0 .. 2 * Width - 1
    BY <1>1, DecimalAssumption
  <2>2. 2^(i + 1) = 2 * 2^i
    BY <2>1, PowerAssumption
  <2> QED BY <2>2
<1>4. (\A i \in 0..n : Pow(i) \in Nat \ {0})
      /\ \A i, j \in 0..n : i + j <= n => Pow(i + j) = Pow(i) * Pow(j)
  <2> HIDE DEF n, Pow
  <2>1. Powers(2, p, n)
    BY <1>1, <1>2, <1>3 DEF Powers
  <2>2. \A i \in 0..n : p[i] = Pow(i)
    OBVIOUS
  <2>3. \A i, j \in 0..n : i + j <= n => i + j \in 0..n
    BY <1>1
  <2> HIDE DEF p
  <2>4. /\ \A i \in 0..n : p[i] \in Nat \ {0}
        /\ \A i, j \in 0..n : i + j <= n => p[i + j] = p[i] * p[j]
    BY <1>1, <2>1, PowersMultiply
  <2> QED BY <2>2, <2>3, <2>4
<1> QED BY <1>4

\* Powers of ten, as far as a number has digits.
LEMMA PowersOfTen ==
  /\ \A i \in 0 .. MaxDigits : 10^i \in Nat \ {0}
  /\ \A i, j \in 0 .. MaxDigits : i + j <= MaxDigits => 10^(i + j) = 10^i * 10^j
<1> DEFINE n == MaxDigits
           Pow(i) == 10^i
           p == [i \in 0..n |-> Pow(i)]
<1>1. n \in Nat
  BY DecimalAssumption DEF MaxDigits
<1>2. Pow(0) = 1
  OBVIOUS
<1>3. \A i \in 0..n : i < n => Pow(i + 1) = 10 * Pow(i)
  <2> SUFFICES ASSUME NEW i \in 0..n, i < n PROVE Pow(i + 1) = 10 * Pow(i)
    OBVIOUS
  <2>1. i \in 0 .. MaxDigits - 1
    BY <1>1, DecimalAssumption DEF MaxDigits
  <2>2. 10^(i + 1) = 10 * 10^i
    BY <2>1, PowerAssumption
  <2> QED BY <2>2
<1>4. (\A i \in 0..n : Pow(i) \in Nat \ {0})
      /\ \A i, j \in 0..n : i + j <= n => Pow(i + j) = Pow(i) * Pow(j)
  <2> HIDE DEF n, Pow
  <2>1. Powers(10, p, n)
    BY <1>1, <1>2, <1>3 DEF Powers
  <2>2. \A i \in 0..n : p[i] = Pow(i)
    OBVIOUS
  <2>3. \A i, j \in 0..n : i + j <= n => i + j \in 0..n
    BY <1>1
  <2> HIDE DEF p
  <2>4. /\ \A i \in 0..n : p[i] \in Nat \ {0}
        /\ \A i, j \in 0..n : i + j <= n => p[i + j] = p[i] * p[j]
    BY <1>1, <2>1, PowersMultiply
  <2> QED BY <2>2, <2>3, <2>4
<1> QED BY <1>4

\* Quotient and remainder.
LEMMA QuotRem ==
  ASSUME NEW x \in Int, NEW k \in Nat \ {0}
  PROVE  /\ x \div k \in Int /\ x % k \in 0..(k - 1)
         /\ x = (x \div k) * k + (x % k)
OBVIOUS

\* A multiple of k other than 0 is at least k away from it.
LEMMA NoMultiple ==
  ASSUME NEW k \in Nat \ {0}, NEW q \in Int, q # 0
  PROVE  q * k \in Int /\ (q * k >= k \/ q * k <= -k)
<1>1. CASE q >= 1
  BY <1>1
<1>2. CASE q <= -1
  BY <1>2
<1> QED BY <1>1, <1>2

\* A quotient and a remainder that fit are the quotient and the remainder.
LEMMA QuotRemUnique ==
  ASSUME NEW k \in Nat \ {0}, NEW q \in Int, NEW r \in 0..(k - 1)
  PROVE  (q * k + r) \div k = q /\ (q * k + r) % k = r
<1> DEFINE x == q * k + r
<1>0. x \in Int /\ r \in Int
  OBVIOUS
<1>1. /\ x \div k \in Int /\ x % k \in 0..(k - 1)
      /\ x = (x \div k) * k + (x % k)
  BY <1>0, QuotRem
<1> DEFINE p == x \div k
           s == x % k
<1> HIDE DEF p, s
<1>2. p \in Int /\ s \in 0..(k - 1) /\ q * k + r = p * k + s
  BY <1>1 DEF p, s
<1>3. p = q
  <2> SUFFICES ASSUME p # q PROVE FALSE
    OBVIOUS
  <2>1. (p - q) * k >= k \/ (p - q) * k <= -k
    BY <1>2, NoMultiple
  <2>2. (p - q) * k = p * k - q * k
    BY <1>2
  <2> QED BY <1>2, <2>1, <2>2
<1>4. s = r
  BY <1>0, <1>2, <1>3
<1> QED BY <1>3, <1>4 DEF p, s

\* The same of a number that is given by them.
LEMMA RemUnique ==
  ASSUME NEW k \in Nat \ {0}, NEW q \in Int, NEW r \in 0..(k - 1), NEW x, x = q * k + r
  PROVE  x \div k = q /\ x % k = r
BY QuotRemUnique

\* A number below k is its own remainder.
LEMMA RemSmall ==
  ASSUME NEW k \in Nat \ {0}, NEW r \in 0..(k - 1)
  PROVE  r \div k = 0 /\ r % k = r
<1>1. r = 0 * k + r
  OBVIOUS
<1> QED BY <1>1, RemUnique

\* Two numbers below T: their sum modulo T is below the first exactly if there was
\* a carry.
LEMMA SumCarry ==
  ASSUME NEW T \in Nat \ {0}, NEW p \in 0..(T - 1), NEW q \in 0..(T - 1)
  PROVE  LET s == (p + q) % T
         IN  s \in 0..(T - 1) /\ p + q = (IF s < p THEN 1 ELSE 0) * T + s
<1> DEFINE s == (p + q) % T
<1>1. CASE p + q < T
  <2>1. p + q \in 0..(T - 1)
    BY <1>1
  <2>2. s = p + q
    BY <2>1, RemSmall
  <2> HIDE DEF s
  <2> QED BY <1>1, <2>1, <2>2 DEF s
<1>2. CASE p + q >= T
  <2>1. p + q - T \in 0..(T - 1) /\ p + q = 1 * T + (p + q - T)
    BY <1>2
  <2> DEFINE x == p + q   r == p + q - T
  <2> HIDE DEF x, r
  <2>2. x % T = r
    <3>1. r \in 0..(T - 1) /\ x = 1 * T + r /\ 1 \in Int
      BY <2>1 DEF x, r
    <3> QED BY <3>1, RemUnique
  <2>3. s = p + q - T
    BY <2>2 DEF x, r
  <2> HIDE DEF s
  <2> QED BY <1>2, <2>1, <2>3 DEF s
<1> QED BY <1>1, <1>2

\* The product of two numbers below B.
LEMMA ProductBelow ==
  ASSUME NEW B \in Nat \ {0}, NEW x \in 0..(B - 1), NEW y \in 0..(B - 1)
  PROVE  x * y \in 0..(B * B - 1)
<1>1. x * y >= 0 /\ x * y \in Int
  OBVIOUS
<1>2. x * y <= (B - 1) * (B - 1)
  <2>1. x * y <= x * (B - 1)
    OBVIOUS
  <2>2. x * (B - 1) <= (B - 1) * (B - 1)
    OBVIOUS
  <2> QED BY <1>1, <2>1, <2>2
<1>3. (B - 1) * (B - 1) <= B * B - 1
  OBVIOUS
<1> QED BY <1>1, <1>2, <1>3

\* Whole multiples of T do not change the remainder.
LEMMA RemMultiple ==
  ASSUME NEW T \in Nat \ {0}, NEW x \in Int, NEW m \in Int
  PROVE  (x + m * T) % T = x % T /\ (x + m * T) \div T = x \div T + m
<1>1. x \div T \in Int /\ x % T \in 0..(T - 1) /\ x = (x \div T) * T + (x % T)
  BY QuotRem
<1> DEFINE q == x \div T   r == x % T
<1>2. q \in Int /\ r \in 0..(T - 1) /\ x = q * T + r
  BY <1>1
<1> HIDE DEF q, r
<1>3. q + m \in Int /\ x + m * T = (q + m) * T + r
  BY <1>2
<1> DEFINE y == x + m * T   t == q + m
<1>4. t \in Int /\ y = t * T + r
  BY <1>3
<1> HIDE DEF y, t
<1>5. y \div T = t /\ y % T = r
  BY <1>2, <1>4, RemUnique
<1> QED BY <1>5 DEF q, r, y, t

\* The widths: Base is what a half holds, Top what a word holds, Sign its high bit.
Base == 2^Half
Top == 2^Width
Sign == 2^(Width - 1)

\* How the widths belong together.
LEMMA Widths ==
  /\ Base \in Nat \ {0} /\ Top = Base * Base /\ Top \in Nat \ {0}
  /\ Sign \in Nat \ {0} /\ Top = 2 * Sign /\ max_int = Sign - 1
  /\ scale_factor \in 1..max_int /\ max_raw \in Nat
<1>1. Half \in 0 .. 2 * Width /\ Half + Half <= 2 * Width /\ Half + Half = Width
  BY DecimalAssumption DEF Width
<1>2. 1 \in 0 .. 2 * Width /\ Width - 1 \in 0 .. 2 * Width /\ 1 + (Width - 1) <= 2 * Width
      /\ 1 + (Width - 1) = Width
  BY DecimalAssumption DEF Width
<1>3. Base \in Nat \ {0} /\ Sign \in Nat \ {0}
  BY <1>1, <1>2, PowersOfTwo DEF Base, Sign
<1>4. Top = Base * Base
  <2>1. 2^(Half + Half) = 2^Half * 2^Half
    BY <1>1, PowersOfTwo
  <2> QED BY <1>1, <2>1 DEF Base, Top
<1>5. Top = 2 * Sign
  <2>1. 2^(1 + (Width - 1)) = 2^1 * 2^(Width - 1)
    BY <1>2, PowersOfTwo
  <2>2. 2^1 = 2
    OBVIOUS
  <2> QED BY <1>2, <2>1, <2>2 DEF Sign, Top
<1>6. max_int = Sign - 1
  BY DEF max_int, Sign
<1> DEFINE d == MaxIntegerDigits - 1
<1>7. d \in Nat /\ d \in 0 .. MaxDigits /\ Scale \in 0 .. MaxDigits
      /\ 1 \in 0 .. MaxDigits /\ Scale + d \in 0 .. MaxDigits
      /\ (Scale + d) + 1 = MaxIntegerDigits + Scale /\ Scale + d <= MaxDigits
      /\ (Scale + d) + 1 <= MaxDigits
  BY DecimalAssumption DEF MaxDigits
<1> HIDE DEF d
<1> DEFINE s == 10^Scale   m == 10^d   t == 10^(Scale + d)   f == 10^(MaxIntegerDigits + Scale)
<1>8. s \in Nat \ {0} /\ m \in Nat \ {0} /\ t \in Nat \ {0} /\ t = s * m
  BY <1>7, PowersOfTen
<1>9. f = t * 10
  <2>1. 10^((Scale + d) + 1) = 10^(Scale + d) * 10^1
    BY <1>7, PowersOfTen
  <2>2. 10^1 = 10
    OBVIOUS
  <2> QED BY <1>7, <2>1, <2>2
<1>10. f <= max_int + 1
  BY DecimalAssumption
<1>11. scale_factor = s /\ max_raw = s * m
  BY DEF scale_factor, max_raw, d
<1> HIDE DEF s, m, t, f
<1>12. s <= t
  BY <1>8
<1>13. s \in 1..max_int /\ s * m \in Nat
  BY <1>3, <1>6, <1>8, <1>9, <1>10, <1>12
<1> QED BY <1>3, <1>4, <1>5, <1>6, <1>11, <1>13

\* What a word can be.
LEMMA WordIs == Word = 0..(Top - 1)
BY DEF Word, Top

\* The product of two words from the products of their halves, with its carries.
LEMMA HalvesMultiply ==
  ASSUME NEW a0 \in 0..(Base - 1), NEW a1 \in 0..(Base - 1),
         NEW b0 \in 0..(Base - 1), NEW b1 \in 0..(Base - 1)
  PROVE  LET mid == (a0 * b1 + a1 * b0) % Top
             mid_carry == IF mid < a0 * b1 THEN 1 ELSE 0
             lo == (a0 * b0 + mid * Base) % Top
             lo_carry == IF lo < a0 * b0 THEN 1 ELSE 0
             hi == (a1 * b1 + mid \div Base + mid_carry * Base + lo_carry) % Top
         IN  /\ lo \in 0..(Top - 1) /\ hi \in 0..(Top - 1)
             /\ hi * Top + lo = (a1 * Base + a0) * (b1 * Base + b0)
<1>0. Base \in Nat \ {0} /\ Top = Base * Base
  BY Widths
<1> USE <1>0
<1> DEFINE p == a0 * b1   q == a1 * b0   r == a0 * b0   u == a1 * b1
           mid == (p + q) % Top
           mc == IF mid < p THEN 1 ELSE 0
           lo == (r + mid * Base) % Top
           lc == IF lo < r THEN 1 ELSE 0
           sum == u + mid \div Base + mc * Base + lc
           hi == sum % Top
           ml == mid % Base   mh == mid \div Base
<1>1. Top \in Nat \ {0}
  OBVIOUS
<1>2. p \in 0..(Top - 1) /\ q \in 0..(Top - 1) /\ r \in 0..(Top - 1) /\ u \in 0..(Top - 1)
  BY ProductBelow
<1>3. mid \in 0..(Top - 1) /\ p + q = mc * Top + mid
  <2> HIDE DEF p, q
  <2> QED BY <1>1, <1>2, SumCarry
<1>4. mh \in Int /\ ml \in 0..(Base - 1) /\ mid = mh * Base + ml
  <2> HIDE DEF mid
  <2>1. mid \in Int
    BY <1>1, <1>3
  <2> QED BY <2>1, QuotRem
<1>5. ml * Base \in 0..(Top - 1)
  <2> HIDE DEF ml
  <2>1. ml * Base >= 0 /\ ml * Base <= (Base - 1) * Base /\ ml * Base \in Int
    BY <1>4
  <2>2. (Base - 1) * Base <= Base * Base - 1 /\ (Base - 1) * Base \in Int
    OBVIOUS
  <2> QED BY <2>1, <2>2
<1>6. lo = (r + ml * Base) % Top
  <2> HIDE DEF mid, mh, ml, r
  <2>1. r + mid * Base = (r + ml * Base) + mh * Top
    BY <1>2, <1>4
  <2>2. r + ml * Base \in Int
    BY <1>1, <1>2, <1>5
  <2>3. ((r + ml * Base) + mh * Top) % Top = (r + ml * Base) % Top
    BY <1>1, <1>4, <2>2, RemMultiple
  <2> QED BY <2>1, <2>3
<1>7. lo \in 0..(Top - 1) /\ r + ml * Base = lc * Top + lo
  <2> HIDE DEF r, ml, lo
  <2> DEFINE v == ml * Base
  <2>1. v \in 0..(Top - 1) /\ lo = (r + v) % Top
    BY <1>5, <1>6
  <2> HIDE DEF v
  <2>2. r + v = lc * Top + lo /\ lo \in 0..(Top - 1)
    BY <1>1, <1>2, <2>1, SumCarry
  <2> QED BY <2>2 DEF v
<1>8. sum * Top + lo = (a1 * Base + a0) * (b1 * Base + b0) /\ sum \in Int
  <2>0. mc \in 0..1 /\ lc \in 0..1
    OBVIOUS
  <2> HIDE DEF mid, mh, ml, lo, mc, lc
  <2>1. (a1 * Base + a0) * (b1 * Base + b0) = u * (Base * Base) + (p + q) * Base + r
    OBVIOUS
  <2> HIDE DEF p, q, r, u
  <2>2. u * Top + (p + q) * Base + r = u * Top + (mc * Top + mid) * Base + r
    BY <1>3
  <2>3. (mc * Top + mid) * Base = mc * Base * Top + (mh * Top + ml * Base)
    <3>1. mc \in Int /\ mid \in Int /\ mh \in Int /\ ml \in Int
      BY <1>1, <1>3, <1>4, <2>0
    <3>2. mid * Base = mh * Top + ml * Base
      BY <1>4, <3>1
    <3>3. (mc * Top + mid) * Base = mc * Top * Base + mid * Base /\ mc * Top * Base = mc * Base * Top
      BY <1>1, <3>1
    <3> QED BY <3>2, <3>3
  <2>4. sum = u + mh + mc * Base + lc
    BY DEF mh
  <2>5. u \in Int /\ mh \in Int /\ mc \in Int /\ lc \in Int /\ lo \in Int /\ ml \in Int /\ r \in Int
    BY <1>1, <1>2, <1>4, <1>7, <2>0
  <2> HIDE DEF sum
  <2>6. sum * Top = u * Top + mh * Top + mc * Base * Top + lc * Top
    BY <1>1, <2>4, <2>5
  <2> DEFINE uT == u * Top   mhT == mh * Top   mcBT == mc * Base * Top   lcT == lc * Top   mlB == ml * Base
             pqB == (mc * Top + mid) * Base
  <2>7. uT \in Int /\ mhT \in Int /\ mcBT \in Int /\ lcT \in Int /\ mlB \in Int /\ sum \in Int
    BY <1>1, <2>4, <2>5
  <2>8. (a1 * Base + a0) * (b1 * Base + b0) = uT + pqB + r /\ pqB = mcBT + (mhT + mlB)
        /\ r + mlB = lcT + lo /\ sum * Top = uT + mhT + mcBT + lcT
    BY <1>7, <2>1, <2>2, <2>3, <2>6
  <2> HIDE DEF uT, mhT, mcBT, lcT, mlB, pqB
  <2> QED BY <2>5, <2>7, <2>8
<1>9. sum \in 0..(Top - 1)
  <2> DEFINE a == a1 * Base + a0   b == b1 * Base + b0
  <2>1. a \in 0..(Top - 1) /\ b \in 0..(Top - 1)
    <3>1. a1 * Base <= (Base - 1) * Base /\ b1 * Base <= (Base - 1) * Base /\ (Base - 1) * Base = Base * Base - Base
          /\ a1 * Base >= 0 /\ b1 * Base >= 0
      OBVIOUS
    <3> QED BY <3>1
  <2> HIDE DEF a, b
  <2>2. a * b \in 0..(Top * Top - 1)
    BY <1>1, <2>1, ProductBelow
  <2>3. sum * Top + lo = a * b
    BY <1>8 DEF a, b
  <2> HIDE DEF sum, lo
  <2>4. sum < Top
    <3> SUFFICES ASSUME sum >= Top PROVE FALSE
      BY <1>1, <1>8
    <3>1. sum * Top >= Top * Top
      BY <1>1, <1>8
    <3> QED BY <1>1, <1>7, <1>8, <2>2, <2>3, <3>1
  <2>5. sum >= 0
    <3> SUFFICES ASSUME sum <= -1 PROVE FALSE
      BY <1>1, <1>8
    <3>1. sum * Top <= -Top
      BY <1>1, <1>8
    <3> QED BY <1>1, <1>7, <1>8, <2>2, <2>3, <3>1
  <2> QED BY <1>1, <1>8, <2>4, <2>5
<1>10. hi = sum
  <2> HIDE DEF sum
  <2> QED BY <1>1, <1>9, RemSmall
<1>11. hi \in 0..(Top - 1) /\ hi * Top + lo = (a1 * Base + a0) * (b1 * Base + b0)
  <2> HIDE DEF hi, sum, lo
  <2> QED BY <1>8, <1>9, <1>10
<1> QED BY <1>7, <1>11
\* mul256 is exact.
LEMMA ProductExact ==
  ASSUME NEW a \in Word, NEW b \in Word
  PROVE  LET n == mul256(a, b) IN n.lo \in Word /\ n.hi \in Word /\ Whole(n) = a * b
<1> DEFINE a0 == a % Base   a1 == a \div Base   b0 == b % Base   b1 == b \div Base
<1>1. a \in 0..(Base * Base - 1) /\ b \in 0..(Base * Base - 1) /\ Base \in Nat \ {0}
  BY Widths, WordIs
<1>2. ASSUME NEW x \in 0..(Base * Base - 1)
      PROVE  x % Base \in 0..(Base - 1) /\ x \div Base \in 0..(Base - 1)
             /\ x = (x \div Base) * Base + (x % Base)
  <2> DEFINE q == x \div Base   r == x % Base
  <2>1. q \in Int /\ r \in 0..(Base - 1) /\ x = q * Base + r
    BY <1>1, QuotRem
  <2> HIDE DEF q, r
  <2>2. q >= 0
    <3> SUFFICES ASSUME q <= -1 PROVE FALSE
      BY <2>1
    <3>1. q * Base <= -Base
      BY <1>1, <2>1
    <3> QED BY <1>1, <2>1, <3>1
  <2>3. q < Base
    <3> SUFFICES ASSUME q >= Base PROVE FALSE
      BY <1>1, <2>1
    <3>1. q * Base >= Base * Base
      BY <1>1, <2>1
    <3> QED BY <1>1, <2>1, <3>1
  <2> QED BY <1>1, <2>1, <2>2, <2>3 DEF q, r
<1>3. /\ a0 \in 0..(Base - 1) /\ a1 \in 0..(Base - 1) /\ a = a1 * Base + a0
      /\ b0 \in 0..(Base - 1) /\ b1 \in 0..(Base - 1) /\ b = b1 * Base + b0
  BY <1>1, <1>2
<1> DEFINE mid == (a0 * b1 + a1 * b0) % Top
           mid_carry == IF mid < a0 * b1 THEN 1 ELSE 0
           lo == (a0 * b0 + mid * Base) % Top
           lo_carry == IF lo < a0 * b0 THEN 1 ELSE 0
           hi == (a1 * b1 + mid \div Base + mid_carry * Base + lo_carry) % Top
<1>4. mul256(a, b) = [lo |-> lo, hi |-> hi]
  BY DEF mul256, Base, Top
<1>5. /\ lo \in 0..(Top - 1) /\ hi \in 0..(Top - 1)
      /\ hi * Top + lo = (a1 * Base + a0) * (b1 * Base + b0)
  <2> HIDE DEF a0, a1, b0, b1
  <2> QED BY ONLY <1>3, HalvesMultiply
<1> HIDE DEF a0, a1, b0, b1, lo, hi
<1>6. hi * Top + lo = a * b
  BY <1>3, <1>5
<1> QED BY <1>4, <1>5, <1>6, WordIs DEF Whole, Top

\* Dividing twice.
LEMMA QuotTwice ==
  ASSUME NEW a \in Nat \ {0}, NEW b \in Nat \ {0}, NEW x \in Nat
  PROVE  (x \div a) \div b = x \div (a * b)
<1> DEFINE q == x \div a   r == x % a   p == q \div b   s == q % b
<1>1. q \in Int /\ r \in 0..(a - 1) /\ x = q * a + r
  BY QuotRem
<1>2. p \in Int /\ s \in 0..(b - 1) /\ q = p * b + s
  <2> HIDE DEF q
  <2> QED BY <1>1, QuotRem
<1> HIDE DEF q, r, p, s
<1> DEFINE k == a * b   t == s * a + r
<1>3. k \in Nat \ {0} /\ x = p * k + t /\ t \in Int /\ t >= 0
  <2>1. x = (p * b + s) * a + r
    BY <1>1, <1>2
  <2>2. (p * b + s) * a = p * (a * b) + s * a
    BY <1>2
  <2> QED BY <1>1, <1>2, <2>1, <2>2
<1>4. t <= k - 1
  <2>1. s * a <= (b - 1) * a /\ (b - 1) * a = a * b - a
    BY <1>2
  <2> QED BY <1>1, <1>2, <2>1
<1> HIDE DEF k, t
<1>5. t \in 0..(k - 1)
  BY <1>3, <1>4
<1>6. x \div k = p
  BY <1>2, <1>3, <1>5, RemUnique
<1> QED BY <1>6 DEF k, q, p

\* A remainder of a multiple of m modulo a multiple of m.
LEMMA RemOfMultiple ==
  ASSUME NEW m \in Nat \ {0}, NEW g \in Nat \ {0}, NEW q \in Int
  PROVE  (q * m) % (g * m) \in 0..(g * m - m)
<1> DEFINE h == q \div g   l == q % g   k == g * m   r == l * m
<1>1. h \in Int /\ l \in 0..(g - 1) /\ q = h * g + l
  BY QuotRem
<1> HIDE DEF h, l
<1>2. k \in Nat \ {0} /\ q * m = h * k + r /\ r \in 0..(k - m)
  <2>1. q * m = h * (g * m) + l * m
    BY <1>1
  <2>2. l * m <= (g - 1) * m /\ (g - 1) * m = g * m - m /\ l * m >= 0
    BY <1>1
  <2> QED BY <1>1, <2>1, <2>2
<1> DEFINE x == q * m
<1>3. x = h * k + r
  BY <1>2
<1> HIDE DEF k, r, x
<1>4. r \in 0..(k - 1)
  BY <1>2
<1>5. x % k = r
  BY <1>1, <1>2, <1>3, <1>4, RemUnique
<1> QED BY <1>2, <1>5 DEF k, x

\* One round of the long division, the remainder: r is what is left of t, and b is
\* the next bit.
LEMMA RoundOfDivision ==
  ASSUME NEW d \in 1..(Top - 1), NEW t \in Nat, NEW b \in 0..1,
         NEW r, r = t % d
  PROVE  LET rem == ((2 * r) % Top) + b
         IN  IF r \div Sign = 1 \/ rem >= d
               THEN (rem - d) % Top = (2 * t + b) % d /\ (2 * t + b) \div d = 2 * (t \div d) + 1
               ELSE rem = (2 * t + b) % d /\ (2 * t + b) \div d = 2 * (t \div d)
<1> DEFINE q == t \div d   rem == ((2 * r) % Top) + b   u == 2 * r + b   x == 2 * t + b
<1>0. Top \in Nat \ {0} /\ Sign \in Nat \ {0} /\ Top = 2 * Sign /\ d \in Nat \ {0}
  BY Widths
<1>1. q \in Int /\ r \in 0..(d - 1) /\ t = q * d + r
  BY <1>0, QuotRem
<1> HIDE DEF q
<1>2. u \in Int /\ u >= 0 /\ u < 2 * d /\ x = (2 * q) * d + u /\ x \in Int
  <2>1. (2 * q) * d = 2 * (q * d) /\ q * d \in Int
    BY <1>0, <1>1
  <2>2. u \in Int /\ u >= 0 /\ u < 2 * d /\ x \in Int
    BY <1>0, <1>1
  <2>3. x = 2 * (q * d + r) + b
    BY <1>1
  <2> HIDE DEF x
  <2>4. r \in Int /\ b \in Int
    BY <1>0, <1>1
  <2> DEFINE qd == q * d
  <2> HIDE DEF qd
  <2>5. x = 2 * (qd + r) + b /\ qd \in Int /\ (2 * q) * d = 2 * qd
    BY <2>1, <2>3 DEF qd
  <2>6. x = 2 * qd + (2 * r + b)
    BY <2>4, <2>5
  <2> QED BY <2>2, <2>5, <2>6
<1>3. (r \div Sign = 1 /\ rem = u - Top /\ u >= Top) \/ (r \div Sign # 1 /\ rem = u)
  <2>1. CASE r >= Sign
    <3>1. r - Sign \in 0..(Sign - 1) /\ r = 1 * Sign + (r - Sign)
      BY <1>0, <1>1, <2>1
    <3>2. r \div Sign = 1
      <4> DEFINE v == r - Sign
      <4>1. v \in 0..(Sign - 1) /\ r = 1 * Sign + v /\ 1 \in Int
        BY <3>1
      <4> HIDE DEF v
      <4> QED BY <1>0, <4>1, RemUnique
    <3>3. (2 * r) % Top = 2 * r - Top
      <4> DEFINE v == 2 * r - Top   w == 2 * r
      <4>1. v \in 0..(Top - 1) /\ w = 1 * Top + v /\ 1 \in Int
        BY <1>0, <1>1, <2>1
      <4> HIDE DEF v, w
      <4>2. w % Top = v
        BY <1>0, <4>1, RemUnique
      <4> QED BY <4>2 DEF v, w
    <3>4. rem = u - Top
      BY <1>0, <1>1, <3>3
    <3>5. u >= Top
      BY <1>0, <1>1, <2>1
    <3> QED BY <3>2, <3>4, <3>5
  <2>2. CASE r < Sign
    <3>1. r \in 0..(Sign - 1)
      BY <1>0, <1>1, <2>2
    <3>2. r \div Sign # 1
      BY <1>0, <3>1, RemSmall
    <3>3. (2 * r) % Top = 2 * r
      <4> DEFINE w == 2 * r
      <4>1. w \in 0..(Top - 1)
        BY <1>0, <3>1
      <4> HIDE DEF w
      <4>2. w % Top = w
        BY <1>0, <4>1, RemSmall
      <4> QED BY <4>2 DEF w
    <3>4. rem = u
      BY <3>3
    <3> QED BY <3>2, <3>4
  <2> QED BY <1>0, <1>1, <2>1, <2>2
<1> HIDE DEF rem, u, x
<1>4. ASSUME u >= d
      PROVE  /\ (u - d) % Top = u - d /\ ((u - Top) - d) % Top = u - d
             /\ x % d = u - d /\ x \div d = 2 * q + 1
  <2> DEFINE v == u - d   p == 2 * q + 1   y == (u - Top) - d
  <2>1. v \in 0..(d - 1) /\ v \in 0..(Top - 1) /\ p \in Int /\ x = p * d + v
        /\ y = (-1) * Top + v /\ -1 \in Int
    BY <1>0, <1>1, <1>2, <1>4
  <2> HIDE DEF v, p, y
  <2>2. x \div d = p /\ x % d = v
    BY <1>0, <2>1, RemUnique
  <2>3. v % Top = v
    BY <1>0, <2>1, RemSmall
  <2>4. y % Top = v
    BY <1>0, <2>1, RemUnique
  <2> QED BY <2>2, <2>3, <2>4 DEF v, p, y
<1>5. ASSUME u < d PROVE x % d = u /\ x \div d = 2 * q
  <2> DEFINE p == 2 * q
  <2>1. u \in 0..(d - 1) /\ p \in Int /\ x = p * d + u
    BY <1>0, <1>1, <1>2, <1>5
  <2> HIDE DEF p
  <2>2. x \div d = p /\ x % d = u
    BY <1>0, <2>1, RemUnique
  <2> QED BY <2>2 DEF p
<1>6. CASE r \div Sign = 1 \/ rem >= d
  <2>1. u >= d /\ (rem = u \/ rem = u - Top)
    BY <1>0, <1>2, <1>3, <1>6
  <2>2. (rem - d) % Top = x % d /\ x \div d = 2 * q + 1
    BY <1>4, <2>1
  <2> QED BY <1>6, <2>2 DEF rem, x, q
<1>7. CASE ~ (r \div Sign = 1 \/ rem >= d)
  <2>1. u < d /\ rem = u
    BY <1>0, <1>2, <1>3, <1>7
  <2>2. rem = x % d /\ x \div d = 2 * q
    BY <1>5, <2>1
  <2> QED BY <1>7, <2>2 DEF rem, x, q
<1> QED BY <1>6, <1>7

\* The powers around place i of a double word: below Width they are parts of a
\* word, from there on multiples of one.
LEMMA BitPlaces ==
  ASSUME NEW i \in 0 .. 2 * Width - 1
  PROVE  /\ 2^i \in Nat \ {0} /\ 2^(i + 1) = 2^i * 2
         /\ i >= Width => 2^(i - Width) \in Nat \ {0} /\ 2^i = Top * 2^(i - Width)
         /\ i < Width => \E g \in Nat \ {0} : Top = g * (2^i * 2)
<1>0. Width \in Nat \ {0} /\ 2 * Width \in Nat
  BY DecimalAssumption DEF Width
<1>1. 2^i \in Nat \ {0} /\ 2^(i + 1) = 2^i * 2
  <2>1. i \in 0 .. 2 * Width /\ 1 \in 0 .. 2 * Width /\ i + 1 <= 2 * Width
    BY <1>0
  <2>2. 2^(i + 1) = 2^i * 2^1
    BY <2>1, PowersOfTwo
  <2>3. 2^1 = 2
    OBVIOUS
  <2> QED BY <2>1, <2>2, <2>3, PowersOfTwo
<1>2. ASSUME i >= Width PROVE 2^(i - Width) \in Nat \ {0} /\ 2^i = Top * 2^(i - Width)
  <2>1. /\ Width \in 0 .. 2 * Width /\ i - Width \in 0 .. 2 * Width
        /\ Width + (i - Width) <= 2 * Width /\ Width + (i - Width) = i
    BY <1>0, <1>2
  <2>2. 2^(Width + (i - Width)) = 2^Width * 2^(i - Width)
    BY <2>1, PowersOfTwo
  <2> QED BY <2>1, <2>2, PowersOfTwo DEF Top
<1>3. ASSUME i < Width PROVE \E g \in Nat \ {0} : Top = g * (2^i * 2)
  <2>1. /\ i + 1 \in 0 .. 2 * Width /\ Width - (i + 1) \in 0 .. 2 * Width
        /\ (Width - (i + 1)) + (i + 1) <= 2 * Width /\ (Width - (i + 1)) + (i + 1) = Width
    BY <1>0, <1>3
  <2>2. 2^((Width - (i + 1)) + (i + 1)) = 2^(Width - (i + 1)) * 2^(i + 1)
    BY <2>1, PowersOfTwo
  <2>3. 2^(Width - (i + 1)) \in Nat \ {0}
    BY <2>1, PowersOfTwo
  <2>4. Top = 2^(Width - (i + 1)) * (2^i * 2)
    BY <1>1, <2>1, <2>2 DEF Top
  <2> QED BY <2>3, <2>4
<1> QED BY <1>1, <1>2, <1>3

\* A double word of two words.
DoubleWord(n) == n.hi \in Word /\ n.lo \in Word

\* The number that two words are.
LEMMA WholeIs ==
  ASSUME NEW n, DoubleWord(n)
  PROVE  /\ Whole(n) = n.hi * Top + n.lo /\ Whole(n) \in 0..(Top * Top - 1)
         /\ n.hi \in 0..(Top - 1) /\ n.lo \in 0..(Top - 1)
<1>1. n.hi \in 0..(Top - 1) /\ n.lo \in 0..(Top - 1) /\ Top \in Nat \ {0}
  BY WordIs, Widths DEF DoubleWord
<1>2. Whole(n) = n.hi * Top + n.lo
  BY DEF Whole, Top
<1> DEFINE h == n.hi   l == n.lo
<1> HIDE DEF h, l
<1>3. h * Top <= (Top - 1) * Top /\ (Top - 1) * Top = Top * Top - Top /\ h * Top >= 0
  BY <1>1 DEF h
<1>4. h * Top + l \in 0..(Top * Top - 1)
  BY <1>1, <1>3 DEF h, l
<1> QED BY <1>1, <1>2, <1>4 DEF h, l

\* The bit the division reads is the next one of the number.
LEMMA BitRead ==
  ASSUME NEW n, DoubleWord(n), NEW i \in 0 .. 2 * Width - 1
  PROVE  /\ Bit(n, i) \in 0..1
         /\ Whole(n) \div 2^i = 2 * (Whole(n) \div 2^(i + 1)) + Bit(n, i)
<1> DEFINE N == Whole(n)   h == n.hi   l == n.lo   P == 2^i   P2 == 2^(i + 1)   J == 2^(i - Width)
           X == N \div P
<1>0. Width \in Nat /\ i \in Int /\ Top \in Nat \ {0}
  BY DecimalAssumption, Widths DEF Width
<1>1. N = h * Top + l /\ N \in Nat /\ h \in Nat /\ l \in 0..(Top - 1)
  BY WholeIs, <1>0
<1>2. P \in Nat \ {0} /\ P2 = P * 2
  BY BitPlaces
<1>3. i >= Width => J \in Nat \ {0} /\ P = Top * J
  BY BitPlaces
<1>4. i < Width => \E g \in Nat \ {0} : Top = g * (P * 2)
  BY BitPlaces
<1>5. Bit(n, i) = (IF i >= Width THEN h \div J ELSE l \div P) % 2
  BY DEF Bit
<1> HIDE DEF N, h, l, P, P2, J
<1>6. X \in Int /\ X \div 2 \in Int /\ X % 2 \in 0..1 /\ X = (X \div 2) * 2 + (X % 2)
  <2>1. X \in Int
    BY <1>1, <1>2, QuotRem
  <2> HIDE DEF X
  <2> QED BY <2>1
<1>7. X \div 2 = N \div P2
  BY <1>1, <1>2, QuotTwice
<1>8. Bit(n, i) = X % 2
  <2>1. CASE i >= Width
    <3>1. N \div Top = h
      BY <1>0, <1>1, RemUnique
    <3>2. (N \div Top) \div J = N \div (Top * J)
      BY <1>0, <1>1, <1>3, <2>1, QuotTwice
    <3> QED BY <1>3, <1>5, <2>1, <3>1, <3>2
  <2>2. CASE i < Width
    <3>1. PICK g \in Nat \ {0} : Top = g * (P * 2)
      BY <1>4, <2>2
    <3> DEFINE m == h * g * 2   k == h * g   y == l \div P
    <3>2. N = l + m * P
      <4>1. h * (g * (P * 2)) = (h * g * 2) * P
        BY <1>1, <1>2
      <4> QED BY <1>1, <1>2, <3>1, <4>1
    <3>3. m \in Int /\ k \in Int /\ m = k * 2 /\ l \in Int
      BY <1>1, <1>0
    <3>4. y \in Int
      BY <1>2, <3>3, QuotRem
    <3> HIDE DEF m, k
    <3>5. X = y + m
      BY <1>2, <3>2, <3>3, RemMultiple
    <3> HIDE DEF X, y
    <3>6. (y + k * 2) % 2 = y % 2
      BY <3>3, <3>4, RemMultiple
    <3>7. X % 2 = y % 2
      BY <3>3, <3>5, <3>6
    <3> QED BY <1>0, <1>5, <2>2, <3>7 DEF y
  <2> QED BY <1>0, <2>1, <2>2
<1> DEFINE Y == N \div P2   bit == Bit(n, i)
<1>9. bit \in 0..1 /\ X = Y * 2 + bit /\ Y \in Int
  BY <1>6, <1>7, <1>8
<1> HIDE DEF X, Y, bit
<1>10. X = 2 * Y + bit
  BY <1>9
<1> QED BY <1>9, <1>10 DEF X, Y, bit, N, P, P2

\* One round of the long division, the quotient: its next bit is c.
LEMMA RoundOfQuotient ==
  ASSUME NEW i \in 0 .. 2 * Width - 1, NEW q \in Nat, NEW c \in 0..1
  PROVE  LET w == q * 2^(i + 1)
             v == (2 * q + c) * 2^i
         IN  IF i >= Width
               THEN v % Top = w % Top /\ v \div Top = w \div Top + c * 2^(i - Width)
               ELSE v % Top = (w % Top) + c * 2^i /\ v \div Top = w \div Top
<1> DEFINE P == 2^i   P2 == 2^(i + 1)   J == 2^(i - Width)   w == q * P2   v == (2 * q + c) * P
           M == P * 2
<1>0. Width \in Nat /\ i \in Int /\ Top \in Nat \ {0}
  BY DecimalAssumption, Widths DEF Width
<1>2. P \in Nat \ {0} /\ P2 = M /\ M \in Nat \ {0}
  BY BitPlaces
<1>3. i >= Width => J \in Nat \ {0} /\ P = Top * J
  BY BitPlaces
<1>4. i < Width => \E g \in Nat \ {0} : Top = g * M
  BY BitPlaces
<1> HIDE DEF P, P2, J
<1>5. v = w + c * P /\ v \in Int /\ w \in Int /\ c * P \in Int
  <2>1. (2 * q + c) * P = q * (P * 2) + c * P
    BY <1>2
  <2> QED BY <1>2, <2>1
<1>6. CASE i >= Width
  <2> DEFINE m == c * J
  <2>1. c * P = m * Top /\ m \in Int
    <3>1. c * (Top * J) = (c * J) * Top
      BY <1>0, <1>3, <1>6
    <3> QED BY <1>3, <1>6, <3>1
  <2> HIDE DEF m, v, w
  <2>2. v = w + m * Top
    BY <1>5, <2>1
  <2>3. (w + m * Top) % Top = w % Top /\ (w + m * Top) \div Top = w \div Top + m
    BY <1>0, <1>5, <2>1, RemMultiple
  <2>4. v % Top = w % Top /\ v \div Top = w \div Top + c * J
    BY <2>2, <2>3 DEF m
  <2> QED BY <1>6, <2>4 DEF v, w, J, P, P2
<1>7. CASE i < Width
  <2>1. PICK g \in Nat \ {0} : Top = g * M
    BY <1>4, <1>7
  <2>2. w = q * M
    BY <1>2
  <2>3. w % Top \in 0..(Top - M)
    <3> HIDE DEF M
    <3>1. q \in Int /\ M \in Nat \ {0}
      BY <1>2
    <3>2. (q * M) % (g * M) \in 0..(g * M - M)
      BY ONLY g \in Nat \ {0}, <3>1, RemOfMultiple
    <3> QED BY <2>1, <2>2, <3>2
  <2>4. c * P < M /\ c * P >= 0
    BY <1>2
  <2> DEFINE h == w \div Top   l == w % Top   cP == c * P   r == l + cP
  <2>5. h \in Int /\ w = h * Top + l
    <3> HIDE DEF w
    <3> QED BY <1>0, <1>5, QuotRem
  <2> HIDE DEF v, w, h, l, cP, M
  <2>6. l \in 0..(Top - M) /\ cP \in Int /\ cP < M /\ cP >= 0 /\ v = w + cP
    BY <1>5, <2>3, <2>4 DEF l, cP
  <2>7. r \in 0..(Top - 1) /\ v = h * Top + r
    BY <1>0, <1>2, <2>5, <2>6
  <2> HIDE DEF r
  <2>8. v \div Top = h /\ v % Top = r
    BY <1>0, <2>5, <2>7, RemUnique
  <2>9. v % Top = (w % Top) + c * P /\ v \div Top = w \div Top
    BY <2>8 DEF h, l, r, cP
  <2> QED BY <1>0, <1>7, <2>9 DEF v, w, P, P2
<1> QED BY <1>0, <1>6, <1>7

\* The long division after k rounds: the first k bits are divided, and their
\* quotient stands at the place of those bits.
FirstBits(n, k) == Whole(n) \div 2^(2 * Width - k)

Divided(n, d, k) ==
    LET w == (FirstBits(n, k) \div d) * 2^(2 * Width - k)
    IN  [quot |-> [lo |-> w % Top, hi |-> w \div Top], rem |-> FirstBits(n, k) % d]

\* Before the first round nothing is divided.
LEMMA NoRound ==
  ASSUME NEW n, DoubleWord(n), NEW d \in Nat \ {0}
  PROVE  Divided(n, d, 0) = [quot |-> [lo |-> 0, hi |-> 0], rem |-> 0]
<1>0. Width \in Nat /\ Top \in Nat \ {0}
  BY DecimalAssumption, Widths DEF Width
<1>1. 2 * Width - 0 = Width + Width /\ Width \in 0 .. 2 * Width
  BY <1>0
<1>2. 2^(2 * Width - 0) = Top * Top
  <2>1. 2^(Width + Width) = 2^Width * 2^Width
    BY <1>1, <1>0, PowersOfTwo
  <2> QED BY <1>1, <2>1 DEF Top
<1>3. Whole(n) \in 0..(Top * Top - 1)
  BY WholeIs
<1> DEFINE T2 == Top * Top   N == Whole(n)
<1>4. T2 \in Nat \ {0} /\ N \in 0..(T2 - 1)
  BY <1>0, <1>3
<1> HIDE DEF T2, N
<1>5. N \div T2 = 0
  BY <1>4, RemSmall
<1>6. FirstBits(n, 0) = 0
  BY <1>2, <1>5 DEF FirstBits, T2, N
<1>7. 0 \div d = 0 /\ 0 % d = 0 /\ 0 \div Top = 0 /\ 0 % Top = 0
  BY <1>0, RemSmall
<1>8. (FirstBits(n, 0) \div d) * 2^(2 * Width - 0) = 0
  <2>1. T2 \in Int
    BY <1>4
  <2>2. 0 * T2 = 0
    BY <2>1
  <2> QED BY <1>2, <1>6, <1>7, <2>2 DEF T2
<1> QED BY <1>6, <1>7, <1>8 DEF Divided

\* After the last one everything is.
LEMMA AllRounds ==
  ASSUME NEW n, DoubleWord(n), NEW d \in Nat \ {0}
  PROVE  LET r == Divided(n, d, 2 * Width)
         IN  /\ r.rem = Whole(n) % d /\ r.quot.hi * Top + r.quot.lo = Whole(n) \div d
             /\ r.quot.hi \in Int /\ r.quot.lo \in 0..(Top - 1)
<1> DEFINE N == Whole(n)   q == N \div d
<1>0. Width \in Nat /\ Top \in Nat \ {0} /\ N \in Int
  BY DecimalAssumption, Widths, WholeIs DEF Width
<1>1. 2 * Width - 2 * Width = 0 /\ 2^0 = 1
  BY <1>0
<1>2. FirstBits(n, 2 * Width) = N
  <2>1. N \div 1 = N
    BY <1>0
  <2> QED BY <1>1, <2>1 DEF FirstBits
<1>3. q \in Int
  <2> HIDE DEF N
  <2> QED BY <1>0, QuotRem
<1>4. (FirstBits(n, 2 * Width) \div d) * 2^(2 * Width - 2 * Width) = q
  <2>1. q * 1 = q
    BY <1>3
  <2> QED BY <1>1, <1>2, <2>1
<1>5. Divided(n, d, 2 * Width) = [quot |-> [lo |-> q % Top, hi |-> q \div Top], rem |-> N % d]
  BY <1>2, <1>4 DEF Divided
<1> HIDE DEF q, N
<1>6. q \div Top \in Int /\ q % Top \in 0..(Top - 1) /\ (q \div Top) * Top + (q % Top) = q
  BY <1>0, <1>3, QuotRem
<1> QED BY <1>5, <1>6 DEF q, N

\* Each round is DivideBit.
LEMMA EachRound ==
  ASSUME NEW n, DoubleWord(n), NEW d \in 1..(Top - 1), NEW k \in 1 .. 2 * Width
  PROVE  Divided(n, d, k) = DivideBit(n, d, 2 * Width - k, Divided(n, d, k - 1))
<1> DEFINE i == 2 * Width - k
<1>0. Width \in Nat /\ Top \in Nat \ {0} /\ d \in Nat \ {0} /\ Sign \in Nat \ {0}
  BY DecimalAssumption, Widths DEF Width
<1>1. i \in 0 .. 2 * Width - 1 /\ 2 * Width - (k - 1) = i + 1
  BY <1>0
<1> HIDE DEF i
<1> DEFINE t == Whole(n) \div 2^(i + 1)   b == Bit(n, i)   x == 2 * t + b
           r == t % d   q == t \div d
<1>2. b \in 0..1 /\ Whole(n) \div 2^i = x
  BY <1>1, BitRead
<1>3. FirstBits(n, k) = x /\ FirstBits(n, k - 1) = t
  BY <1>1, <1>2 DEF FirstBits, i
<1>4. t \in Nat
  <2>1. 2^(i + 1) \in Nat \ {0}
    BY <1>1, BitPlaces
  <2> DEFINE m == 2^(i + 1)   N == Whole(n)
  <2>2. N \in Nat /\ m \in Nat \ {0}
    BY <2>1, <1>0, WholeIs
  <2> HIDE DEF m, N
  <2>3. N \div m \in Nat
    BY <2>2
  <2> QED BY <2>3 DEF m, N
<1>5. q \in Nat /\ r \in 0..(d - 1)
  <2> HIDE DEF t
  <2> QED BY <1>0, <1>4
<1> DEFINE rem == ((2 * r) % Top) + b
           more == r \div Sign = 1 \/ rem >= d
           w == q * 2^(i + 1)
           v == (x \div d) * 2^i
           one == IF i >= Width THEN [lo |-> 0, hi |-> 2^(i - Width)] ELSE [lo |-> 2^i, hi |-> 0]
           acc == [quot |-> [lo |-> w % Top, hi |-> w \div Top], rem |-> r]
<1>6. Divided(n, d, k - 1) = acc
  BY <1>1, <1>3 DEF Divided
<1>7. Divided(n, d, k) = [quot |-> [lo |-> v % Top, hi |-> v \div Top], rem |-> x % d]
  BY <1>3 DEF Divided, i
<1>8. IF more THEN (rem - d) % Top = x % d /\ x \div d = 2 * q + 1
              ELSE rem = x % d /\ x \div d = 2 * q
  <2> HIDE DEF t, b
  <2> QED BY <1>2, <1>4, RoundOfDivision
<1>9. DivideBit(n, d, i, acc) =
        IF more THEN [rem |-> (rem - d) % Top,
                      quot |-> [lo |-> acc.quot.lo + one.lo, hi |-> acc.quot.hi + one.hi]]
        ELSE [acc EXCEPT !.rem = rem]
  BY DEF DivideBit, Top, Sign
<1>10. 2^i \in Nat \ {0} /\ (i >= Width => 2^(i - Width) \in Nat \ {0})
  BY <1>1, BitPlaces
<1>11. w % Top \in Int /\ w \div Top \in Int
  <2>1. 2^(i + 1) \in Nat \ {0}
    BY <1>1, BitPlaces
  <2>2. w \in Int
    BY <1>5, <2>1
  <2> HIDE DEF w
  <2> QED BY <1>0, <2>2
<1>12. CASE more
  <2>1. v = (2 * q + 1) * 2^i /\ x \div d = 2 * q + 1 /\ (rem - d) % Top = x % d
    BY <1>8, <1>12
  <2>2. IF i >= Width
          THEN v % Top = w % Top /\ v \div Top = w \div Top + 1 * 2^(i - Width)
          ELSE v % Top = (w % Top) + 1 * 2^i /\ v \div Top = w \div Top
    <3> DEFINE u == (2 * q + 1) * 2^i
    <3>1. q \in Nat /\ 1 \in 0..1
      BY <1>5
    <3>2. IF i >= Width
            THEN u % Top = w % Top /\ u \div Top = w \div Top + 1 * 2^(i - Width)
            ELSE u % Top = (w % Top) + 1 * 2^i /\ u \div Top = w \div Top
      <4> HIDE DEF q
      <4> QED BY <1>1, <3>1, RoundOfQuotient
    <3> QED BY <2>1, <3>2
  <2> HIDE DEF v, w, rem, x, r
  <2>3. v % Top = acc.quot.lo + one.lo /\ v \div Top = acc.quot.hi + one.hi
    BY <1>10, <1>11, <2>2
  <2> QED BY <1>6, <1>7, <1>9, <1>12, <2>1, <2>3 DEF i
<1>13. CASE ~more
  <2>1. v = (2 * q + 0) * 2^i /\ rem = x % d
    BY <1>8, <1>13, <1>5
  <2>2. IF i >= Width
          THEN v % Top = w % Top /\ v \div Top = w \div Top + 0 * 2^(i - Width)
          ELSE v % Top = (w % Top) + 0 * 2^i /\ v \div Top = w \div Top
    <3> DEFINE u == (2 * q + 0) * 2^i
    <3>1. q \in Nat /\ 0 \in 0..1
      BY <1>5
    <3>2. IF i >= Width
            THEN u % Top = w % Top /\ u \div Top = w \div Top + 0 * 2^(i - Width)
            ELSE u % Top = (w % Top) + 0 * 2^i /\ u \div Top = w \div Top
      <4> HIDE DEF q
      <4> QED BY <1>1, <3>1, RoundOfQuotient
    <3> QED BY <2>1, <3>2
  <2> HIDE DEF v, w, rem, x, r
  <2>3. v % Top = acc.quot.lo /\ v \div Top = acc.quot.hi
    BY <1>10, <1>11, <2>2
  <2> QED BY <1>6, <1>7, <1>9, <1>13, <2>1, <2>3 DEF i
<1> QED BY <1>12, <1>13

\* divmod256 is exact.
LEMMA DivmodExact ==
  ASSUME NEW n, DoubleWord(n), NEW d \in 1..(Top - 1)
  PROVE  LET r == divmod256(n, d)
         IN  /\ r.rem = Whole(n) % d /\ r.quot.hi * Top + r.quot.lo = Whole(n) \div d
             /\ r.quot.hi \in Int /\ r.quot.lo \in 0..(Top - 1)
<1>0. Width \in Nat /\ Top \in Nat \ {0} /\ d \in Nat \ {0} /\ 2 * Width \in Nat
  BY DecimalAssumption, Widths DEF Width
<1> DEFINE K == 2 * Width
           none == [quot |-> [lo |-> 0, hi |-> 0], rem |-> 0]
           Body(g) == [k \in 0..K |-> IF k = 0 THEN none ELSE DivideBit(n, d, K - k, g[k - 1])]
           f == [k \in 0..K |-> Divided(n, d, k)]
<1>1. divmod256(n, d) =
        IF n.hi = 0 THEN [quot |-> [lo |-> n.lo \div d, hi |-> 0], rem |-> n.lo % d]
        ELSE (CHOOSE g : g = Body(g))[K]
  BY DEF divmod256
<1>2. Divided(n, d, 0) = none
  BY <1>0, NoRound
<1>3. \A k \in 1..K : Divided(n, d, k) = DivideBit(n, d, K - k, Divided(n, d, k - 1))
  BY EachRound
<1>4. K \in Nat
  BY <1>0
<1> HIDE DEF K, none
<1>5. \A k \in 0..K : f[k] = IF k = 0 THEN none ELSE DivideBit(n, d, K - k, f[k - 1])
  <2> SUFFICES ASSUME NEW k \in 0..K
               PROVE  f[k] = IF k = 0 THEN none ELSE DivideBit(n, d, K - k, f[k - 1])
    OBVIOUS
  <2>1. CASE k = 0
    BY <1>2, <1>4, <2>1
  <2>2. CASE k # 0
    <3>1. k \in 1..K /\ k - 1 \in 0..K
      BY <1>4, <2>2
    <3>2. f[k - 1] = Divided(n, d, k - 1) /\ f[k] = Divided(n, d, k)
      BY <3>1
    <3> HIDE DEF f
    <3> QED BY <1>3, <2>2, <3>1, <3>2
  <2> QED BY <2>1, <2>2
<1>6. f = Body(f)
  BY <1>5
<1>7. (CHOOSE g : g = Body(g)) = Body(CHOOSE g : g = Body(g))
  <2> HIDE DEF Body, f
  <2> QED BY <1>6
<1>8. ASSUME NEW g, g = Body(g) PROVE g[K] = f[K]
  <2> DEFINE D == {k \in 0..K : g[k] # f[k]}
  <2>1. D = {}
    <3> SUFFICES ASSUME D # {} PROVE FALSE
      OBVIOUS
    <3>1. D \in SUBSET Nat
      BY <1>4
    <3>2. PICK k \in D : \A j \in D : k <= j
      BY <3>1, LeastExists
    <3>3. k \in 0..K /\ g[k] # f[k]
      OBVIOUS
    <3>4. g[k] = IF k = 0 THEN none ELSE DivideBit(n, d, K - k, g[k - 1])
      BY <1>8, <3>3
    <3>5. k # 0 => k - 1 \in 0..K /\ k - 1 \notin D
      BY <1>4, <3>2, <3>3
    <3>6. k # 0 => g[k - 1] = f[k - 1]
      BY <3>5
    <3> HIDE DEF D, Body, f
    <3> QED BY <1>5, <3>3, <3>4, <3>6
  <2> HIDE DEF Body, f
  <2>2. K \in 0..K
    BY <1>4
  <2> QED BY <2>1, <2>2
<1>9. (CHOOSE g : g = Body(g))[K] = Divided(n, d, K)
  <2>1. f[K] = Divided(n, d, K)
    BY <1>4
  <2> HIDE DEF Body, f
  <2> QED BY <1>7, <1>8, <2>1
<1>10. CASE n.hi = 0
  <2> DEFINE l == n.lo
  <2>1. Whole(n) = l /\ l \in 0..(Top - 1)
    <3>1. 0 * Top = 0
      BY <1>0
    <3> QED BY <1>0, <1>10, <3>1, WholeIs
  <2> HIDE DEF l
  <2>2. l \div d \in 0..(Top - 1)
    <3> DEFINE q == l \div d   m == l % d
    <3>1. q \in Int /\ m \in 0..(d - 1) /\ l = q * d + m
      <4>1. l \in Int
        BY <1>0, <2>1
      <4> QED BY <1>0, <4>1, QuotRem
    <3> HIDE DEF q, m
    <3>2. q >= 0
      <4> SUFFICES ASSUME q <= -1 PROVE FALSE
        BY <3>1
      <4>1. q * d <= -d
        BY <1>0, <3>1
      <4> QED BY <1>0, <2>1, <3>1, <4>1
    <3>3. q * d >= q
      BY <1>0, <3>1, <3>2
    <3> QED BY <1>0, <2>1, <3>1, <3>2, <3>3 DEF q
  <2>3. divmod256(n, d) = [quot |-> [lo |-> l \div d, hi |-> 0], rem |-> l % d]
    BY <1>1, <1>10 DEF l
  <2>4. 0 * Top + (l \div d) = l \div d
    BY <1>0, <2>2
  <2> QED BY <2>1, <2>2, <2>3, <2>4
<1>11. CASE n.hi # 0
  <2>1. divmod256(n, d) = Divided(n, d, 2 * Width)
    BY <1>1, <1>9, <1>11 DEF K
  <2> QED BY <1>0, <2>1, AllRounds
<1> QED BY <1>10, <1>11

\* The numbers of a raw value and of its remainder modulo a word.
LEMMA RawIs == Raw = (-Sign)..(Sign - 1)
BY Widths DEF Raw

\* A negative number as a word.
LEMMA RemNegative ==
  ASSUME NEW v \in Int, v < 0, v >= -Sign
  PROVE  v % Top = v + Top
<1>0. Top \in Nat \ {0} /\ Sign \in Nat \ {0} /\ Top = 2 * Sign
  BY Widths
<1> DEFINE r == v + Top
<1>1. r \in 0..(Top - 1) /\ v = (-1) * Top + r /\ -1 \in Int
  BY <1>0
<1> HIDE DEF r
<1>2. v % Top = r
  BY <1>0, <1>1, RemUnique
<1> QED BY <1>2 DEF r

\* to_unsigned is the magnitude, also of the smallest number.
LEMMA UnsignedIs ==
  ASSUME NEW v \in Raw
  PROVE  to_unsigned(v) = Magnitude(v) /\ Magnitude(v) \in 0..Sign /\ Magnitude(v) \in Word
<1>0. Top \in Nat \ {0} /\ Sign \in Nat \ {0} /\ Top = 2 * Sign /\ v \in (-Sign)..(Sign - 1)
  BY Widths, RawIs
<1>1. Magnitude(v) \in 0..Sign
  BY <1>0 DEF Magnitude
<1>2. Magnitude(v) \in Word
  BY <1>0, <1>1, WordIs
<1>3. CASE v >= 0
  BY <1>0, <1>1, <1>2, <1>3 DEF to_unsigned, Magnitude
<1>4. CASE v < 0
  <2>1. v % Top = v + Top
    BY <1>0, <1>4, RemNegative
  <2>2. ((Top - 1) - (v % Top)) + 1 = -v /\ -v \in 0..(Top - 1)
    BY <1>0, <1>4, <2>1
  <2>3. (((Top - 1) - (v % Top)) + 1) % Top = -v
    BY <1>0, <2>2, RemSmall
  <2>4. to_unsigned(v) = (((Top - 1) - (v % Top)) + 1) % Top
    BY <1>0, <1>4 DEF to_unsigned, Top
  <2>5. Magnitude(v) = -v
    BY <1>4 DEF Magnitude
  <2> QED BY <1>1, <1>2, <2>3, <2>4, <2>5
<1> QED BY <1>0, <1>3, <1>4

\* Quotient and remainder of two naturals.
LEMMA QuotNat ==
  ASSUME NEW x \in Nat, NEW k \in Nat \ {0}
  PROVE  x \div k \in Nat /\ x % k \in 0..(k - 1) /\ x = (x \div k) * k + (x % k) /\ x \div k <= x
<1> DEFINE q == x \div k   m == x % k
<1>1. q \in Int /\ m \in 0..(k - 1) /\ x = q * k + m
  BY QuotRem
<1> HIDE DEF q, m
<1>2. q >= 0
  <2> SUFFICES ASSUME q <= -1 PROVE FALSE
    BY <1>1
  <2>1. q * k <= -k
    BY <1>1
  <2> QED BY <1>1, <2>1
<1>3. q * k >= q
  BY <1>1, <1>2
<1> QED BY <1>1, <1>2, <1>3 DEF q, m

\* The result of a division of magnitudes gets the sign of the quotient.
LEMMA PackExact ==
  ASSUME NEW num \in 0..(Top * Top - 1), NEW d \in 1..Sign, NEW quot, NEW rem,
         NEW negative \in BOOLEAN, NEW numerator \in Int,
         rem = num % d, quot.hi \in Int, quot.lo \in 0..(Top - 1),
         quot.hi * Top + quot.lo = num \div d,
         numerator = (IF negative THEN -num ELSE num)
  PROVE  Exact(pack_result(quot, rem, negative), numerator, d)
<1>0. Top \in Nat \ {0} /\ Sign \in Nat \ {0} /\ Top = 2 * Sign /\ max_int = Sign - 1
      /\ d \in Nat \ {0} /\ num \in Nat
  BY Widths
<1> DEFINE h == quot.hi   l == quot.lo   q == num \div d
           s == IF negative THEN -1 ELSE 1
           over == IF h = 0 /\ l <= max_int THEN 0 ELSE IF h # 0 THEN AsSigned(h) ELSE 1
           r == pack_result(quot, rem, negative)
<1>1. q \in Nat /\ rem \in 0..(d - 1) /\ num = q * d + rem /\ q <= num
  BY <1>0, QuotNat
<1>2. h \in Int /\ l \in 0..(Top - 1) /\ h * Top + l = q
  OBVIOUS
<1>3. r.value = s * (l % (max_int + 1)) /\ r.error = s * AsSigned(rem) /\ r.overflow = s * over
  BY DEF pack_result
<1> SUFFICES Exact(r, numerator, d)
  OBVIOUS
<1> HIDE DEF h, l, q, r
<1>4. h \in 0..(Top - 1)
  <2>1. q \in 0..(Top * Top - 1)
    BY <1>0, <1>1
  <2>2. h >= 0
    <3> SUFFICES ASSUME h <= -1 PROVE FALSE
      BY <1>2
    <3>1. h * Top <= -Top
      BY <1>0, <1>2
    <3> QED BY <1>0, <1>2, <2>1, <3>1
  <2>3. h < Top
    <3> SUFFICES ASSUME h >= Top PROVE FALSE
      BY <1>0, <1>2
    <3>1. h * Top >= Top * Top
      BY <1>0, <1>2
    <3> QED BY <1>0, <1>2, <2>1, <3>1
  <2> QED BY <1>0, <1>2, <2>2, <2>3
<1>5. AsSigned(rem) = rem
  BY <1>0, <1>1 DEF AsSigned
<1>6. CASE h = 0 /\ l <= max_int
  <2>1. l % (max_int + 1) = l /\ l \in Nat
    <3>1. l \in 0..(Sign - 1) /\ max_int + 1 = Sign
      BY <1>0, <1>2, <1>6
    <3>2. l % Sign = l
      BY <1>0, <3>1, RemSmall
    <3> QED BY <1>0, <3>1, <3>2
  <2>2. q = l
    BY <1>0, <1>2, <1>6
  <2>3. r.overflow = 0
    BY <1>3, <1>6
  <2>4. r.value = s * l /\ r.error = s * rem
    BY <1>3, <1>5, <2>1
  <2>5. num = l * d + rem /\ rem \in Nat /\ rem < d
    BY <1>0, <1>1, <2>2
  <2>6. CASE negative
    <3>1. r.value = -l /\ r.error = -rem /\ numerator = -num
      BY <2>1, <2>4, <2>5, <2>6
    <3>2. (-l) * d = -(l * d) /\ l * d \in Nat
      BY <1>0, <2>1
    <3>3. r.value * d + r.error = numerator
      <4> DEFINE ld == l * d   vd == r.value * d   e == r.error
      <4>1. num = ld + rem /\ vd = -ld /\ e = -rem /\ ld \in Nat /\ rem \in Nat
        BY <2>5, <3>1, <3>2
      <4> HIDE DEF ld, vd, e
      <4>2. vd + e = -num
        BY ONLY <4>1
      <4> QED BY <3>1, <4>2 DEF vd, e
    <3>4. Magnitude(r.error) < d
      BY <2>5, <3>1 DEF Magnitude
    <3>5. r.error # 0 => r.error < 0 /\ numerator < 0
      <4> DEFINE ld == l * d
      <4>1. num = ld + rem /\ ld \in Nat
        BY <2>5, <3>2
      <4> HIDE DEF ld
      <4>2. rem \in Nat /\ (rem # 0 => -rem < 0 /\ -num < 0)
        BY ONLY <2>5, <4>1
      <4> DEFINE e == r.error
      <4>3. e = -rem
        BY <3>1
      <4> HIDE DEF e
      <4>4. e # 0 => rem # 0
        <5>1. e \in Int /\ e + rem = 0
          BY ONLY <4>2, <4>3
        <5> QED BY ONLY <4>2, <5>1
      <4> QED BY <3>1, <4>2, <4>4 DEF e
    <3> QED BY <2>3, <3>3, <3>4, <3>5 DEF Exact
  <2>7. CASE ~negative
    <3>1. r.value = l /\ r.error = rem /\ numerator = num
      BY <2>1, <2>4, <2>5, <2>7
    <3>2. r.value * d + r.error = numerator
      BY <2>5, <3>1
    <3>3. Magnitude(r.error) < d
      BY <2>5, <3>1 DEF Magnitude
    <3>4. ~ (r.error < 0) /\ ~ (numerator < 0)
      BY <1>0, <2>5, <3>1
    <3> QED BY <2>3, <3>2, <3>3, <3>4 DEF Exact
  <2> QED BY <2>6, <2>7
<1>7. CASE ~ (h = 0 /\ l <= max_int)
  <2>1. over \in Int /\ over # 0
    BY <1>0, <1>4, <1>7, Widths DEF AsSigned, Top
  <2>2. r.overflow # 0
    <3> HIDE DEF over
    <3> QED BY <1>3, <2>1
  <2>3. Magnitude(numerator) = num
    BY <1>0 DEF Magnitude
  <2>4. q > max_int
    <3>1. CASE h = 0
      BY <1>0, <1>2, <1>7, <3>1
    <3>2. CASE h # 0
      <4>1. h * Top >= Top
        BY <1>0, <1>4, <3>2
      <4> QED BY <1>0, <1>2, <4>1
    <3> QED BY <3>1, <3>2
  <2> QED BY <2>2, <2>3, <2>4 DEF Exact, q
<1> QED BY <1>6, <1>7 DEF r

\* The product of magnitudes is the magnitude of the product.
LEMMA MagnitudeProduct ==
  ASSUME NEW a \in Int, NEW b \in Int
  PROVE  /\ Magnitude(a) \in Nat /\ Magnitude(b) \in Nat
         /\ a * b = IF Negative(a, b) THEN -(Magnitude(a) * Magnitude(b))
                                      ELSE Magnitude(a) * Magnitude(b)
<1>1. CASE a < 0 /\ b < 0
  <2>1. a * b = (-a) * (-b)
    OBVIOUS
  <2> QED BY <1>1, <2>1 DEF Magnitude, Negative
<1>2. CASE a < 0 /\ ~ (b < 0)
  <2>1. a * b = -((-a) * b)
    OBVIOUS
  <2> QED BY <1>2, <2>1 DEF Magnitude, Negative
<1>3. CASE ~ (a < 0) /\ b < 0
  <2>1. a * b = -(a * (-b))
    OBVIOUS
  <2> QED BY <1>3, <2>1 DEF Magnitude, Negative
<1>4. CASE ~ (a < 0) /\ ~ (b < 0)
  BY <1>4 DEF Magnitude, Negative
<1> QED BY <1>1, <1>2, <1>3, <1>4

\* Two magnitudes have room in a double word.
LEMMA MulDivFits ==
  ASSUME NEW x \in Word, NEW y \in Word, NEW d \in 1..Sign, NEW negative \in BOOLEAN,
         NEW numerator, numerator = (IF negative THEN -(x * y) ELSE x * y)
  PROVE  LET r == divmod256(mul256(x, y), d)
         IN  Exact(pack_result(r.quot, r.rem, negative), numerator, d)
<1>0. Top \in Nat \ {0} /\ Sign \in Nat \ {0} /\ Top = 2 * Sign
      /\ x \in 0..(Top - 1) /\ y \in 0..(Top - 1)
  BY Widths, WordIs
<1> DEFINE n == mul256(x, y)   r == divmod256(n, d)   num == x * y   quot == r.quot   rem == r.rem
<1>1. DoubleWord(n) /\ Whole(n) = num
  BY ProductExact DEF DoubleWord
<1>2. d \in 1..(Top - 1)
  BY <1>0
<1>3. /\ r.rem = num % d /\ r.quot.hi * Top + r.quot.lo = num \div d
      /\ r.quot.hi \in Int /\ r.quot.lo \in 0..(Top - 1)
  <2> HIDE DEF n, num
  <2> QED BY <1>1, <1>2, DivmodExact
<1>4. num \in 0..(Top * Top - 1)
  BY <1>0, ProductBelow
<1>5. numerator = (IF negative THEN -num ELSE num)
  OBVIOUS
<1>6. numerator \in Int
  BY <1>4, <1>0
<1> SUFFICES Exact(pack_result(quot, rem, negative), numerator, d)
  OBVIOUS
<1>7. /\ rem = num % d /\ quot.hi * Top + quot.lo = num \div d
      /\ quot.hi \in Int /\ quot.lo \in 0..(Top - 1)
  BY <1>3
<1> HIDE DEF n, r, num, quot, rem
<1> QED BY <1>4, <1>5, <1>6, <1>7, PackExact

\* Sums of valid numbers do not wrap.
LEMMA SumExact ==
  ASSUME NEW a \in Int, NEW b \in Int, is_valid(a), is_valid(b)
  PROVE  plus(a, b) = a + b
<1>0. /\ Top \in Nat \ {0} /\ Sign \in Nat \ {0} /\ Top = 2 * Sign /\ max_int = Sign - 1
      /\ max_raw \in Nat /\ 2 * max_raw <= max_int
  BY Widths, DecimalAssumption
<1> DEFINE x == a + b
<1>1. x \in Int /\ x >= -max_int /\ x <= max_int
  BY <1>0 DEF is_valid
<1>2. plus(a, b) = AsSigned(x % Top)
  BY DEF plus, Wrap, Top
<1>3. \A w : AsSigned(w) = IF w > max_int THEN w - Top ELSE w
  BY DEF AsSigned, Top
<1> HIDE DEF x
<1>4. CASE x >= 0
  <2>1. x \in 0..(Top - 1)
    BY <1>0, <1>1, <1>4
  <2>2. x % Top = x
    BY <1>0, <2>1, RemSmall
  <2> QED BY <1>0, <1>1, <1>2, <1>3, <2>2 DEF x
<1>5. CASE x < 0
  <2>1. x % Top = x + Top
    BY <1>0, <1>1, <1>5, RemNegative
  <2> QED BY <1>0, <1>1, <1>2, <1>3, <1>5, <2>1 DEF x
<1> QED BY <1>1, <1>4, <1>5

\* Whatever the two numbers are, within the width: mul and div lose nothing and say
\* when there is no room, and valid numbers add up.
THEOREM OperationsAreExact == \A a, b \in Raw : SignedExact(a, b)
<1> SUFFICES ASSUME NEW a \in Raw, NEW b \in Raw PROVE SignedExact(a, b)
  OBVIOUS
<1> DEFINE x == Magnitude(a)   y == Magnitude(b)
<1>0. /\ Sign \in Nat \ {0} /\ Top = 2 * Sign /\ a \in Int /\ b \in Int
      /\ scale_factor \in 1..Sign /\ scale_factor \in Word /\ scale_factor \in Nat
  BY Widths, RawIs, WordIs
<1>1. /\ to_unsigned(a) = x /\ x \in Word /\ x \in 0..Sign
      /\ to_unsigned(b) = y /\ y \in Word /\ y \in 0..Sign
  BY UnsignedIs
<1>2. Negative(a, b) \in BOOLEAN
  BY DEF Negative
<1>3. Exact(mul(a, b), a * b, scale_factor)
  <2>1. a * b = (IF Negative(a, b) THEN -(x * y) ELSE x * y)
    BY <1>0, MagnitudeProduct
  <2> HIDE DEF x, y
  <2> QED BY <1>0, <1>1, <1>2, <2>1, MulDivFits DEF mul
<1>4. ASSUME b # 0
      PROVE  Exact(div(a, b), (IF b < 0 THEN -a ELSE a) * scale_factor, Magnitude(b))
  <2> DEFINE m == (IF b < 0 THEN -a ELSE a) * scale_factor
  <2>1. m = (IF Negative(a, b) THEN -(x * scale_factor) ELSE x * scale_factor)
    <3>1. \A v \in Int : (-v) * scale_factor = -(v * scale_factor)
      BY <1>0
    <3>2. CASE b < 0
      <4>1. CASE a < 0
        BY <1>0, <3>2, <4>1 DEF Negative, Magnitude
      <4>2. CASE ~ (a < 0)
        BY <1>0, <3>1, <3>2, <4>2 DEF Negative, Magnitude
      <4> QED BY <4>1, <4>2
    <3>3. CASE ~ (b < 0)
      <4>1. CASE a < 0
        <5>1. x = -a /\ -a \in Int
          BY <1>0, <4>1 DEF Magnitude
        <5>2. a * scale_factor = -((-a) * scale_factor)
          BY <1>0
        <5> QED BY <3>3, <4>1, <5>1, <5>2 DEF Negative
      <4>2. CASE ~ (a < 0)
        BY <1>0, <3>3, <4>2 DEF Negative, Magnitude
      <4> QED BY <4>1, <4>2
    <3> QED BY <3>2, <3>3
  <2>2. y \in 1..Sign
    BY <1>0, <1>1, <1>4 DEF Magnitude
  <2> HIDE DEF x, y, m
  <2>3. Exact(div(a, b), m, y)
    BY <1>0, <1>1, <1>2, <2>1, <2>2, MulDivFits DEF div
  <2> QED BY <2>3 DEF m, y
<1>5. is_valid(a) /\ is_valid(b) => plus(a, b) = a + b
  BY <1>0, SumExact
<1> QED BY <1>3, <1>4, <1>5 DEF SignedExact

\* The double width below them: mul256 and divmod256 are exact for all words.
THEOREM DoubleWidthIsExact ==
  /\ \A a, b \in Word : Whole(mul256(a, b)) = a * b
  /\ \A hi, lo \in Word : \A d \in Word \ {0} : DivisionExact([hi |-> hi, lo |-> lo], d)
<1>1. \A a, b \in Word : Whole(mul256(a, b)) = a * b
  BY ProductExact
<1>2. ASSUME NEW hi \in Word, NEW lo \in Word, NEW d \in Word \ {0}
      PROVE  DivisionExact([hi |-> hi, lo |-> lo], d)
  <2> DEFINE n == [hi |-> hi, lo |-> lo]   r == divmod256(n, d)   N == Whole(n)
  <2>0. Top \in Nat \ {0} /\ d \in 1..(Top - 1) /\ d \in Nat \ {0}
    BY Widths, WordIs
  <2>1. DoubleWord(n)
    BY DEF DoubleWord
  <2>2. N \in Nat
    BY <2>0, <2>1, WholeIs
  <2> HIDE DEF n
  <2>3. /\ r.rem = N % d /\ r.quot.hi * Top + r.quot.lo = N \div d
    BY <2>0, <2>1, DivmodExact
  <2>4. Whole(r.quot) = N \div d
    BY <2>3 DEF Whole, Top
  <2> HIDE DEF r, N
  <2>5. N % d < d /\ (N \div d) * d + (N % d) = N
    BY <2>0, <2>2, QuotNat
  <2>6. r.rem < d /\ Whole(r.quot) * d + r.rem = N
    BY <2>3, <2>4, <2>5
  <2> QED BY <2>6 DEF DivisionExact, r, N, n
<1> QED BY <1>1, <1>2

\* What the runs check of the operations, for every number.
LEMMA ArithmeticIsExact == \A a : ArithmeticExact(a)
<1>1. {1, scale_factor, 2^(Width - 1), 2^Width - 1} \subseteq Word \ {0}
  <2>1. /\ Sign \in Nat \ {0} /\ Top = 2 * Sign /\ scale_factor \in 1..(Sign - 1)
        /\ 2^(Width - 1) = Sign /\ 2^Width - 1 = Top - 1
    BY Widths DEF Sign, Top
  <2>2. Word = 0..(Top - 1)
    BY WordIs
  <2> DEFINE s == 2^(Width - 1)   t == 2^Width - 1
  <2>3. s = Sign /\ t = Top - 1
    BY <2>1
  <2> HIDE DEF s, t
  <2>4. {1, scale_factor, s, t} \subseteq Word \ {0}
    BY <2>1, <2>2, <2>3
  <2> QED BY <2>4 DEF s, t
<1> QED BY <1>1, OperationsAreExact, DoubleWidthIsExact DEF ArithmeticExact

-----------------------------------------------------------------------------
(***************************************************************************)
(* Texts.  What decimal_t writes is what it was, and what it reads is what *)
(* is written; a number is known by what its first digits stand for.       *)
(***************************************************************************)
\* The powers of ten.
Ten(i) == 10^i

\* What is needed of them.
LEMMA TenIs ==
  /\ MaxDigits \in Nat /\ Ten(0) = 1 /\ Ten(1) = 10
  /\ \A i \in 0..MaxDigits : Ten(i) \in Nat \ {0}
  /\ \A i, j \in 0..MaxDigits : i + j <= MaxDigits => Ten(i + j) = Ten(i) * Ten(j)
  /\ \A i \in 0..MaxDigits : i < MaxDigits => Ten(i + 1) = 10 * Ten(i)
  /\ \A i, j \in 0..MaxDigits : i <= j => Ten(i) <= Ten(j)
<1>1. MaxDigits \in Nat /\ MaxDigits >= 1
  BY DecimalAssumption DEF MaxDigits
<1>2. 10^0 = 1 /\ 10^1 = 10
  OBVIOUS
<1>3. /\ \A i \in 0..MaxDigits : Ten(i) \in Nat \ {0}
      /\ \A i, j \in 0..MaxDigits : i + j <= MaxDigits => Ten(i + j) = Ten(i) * Ten(j)
  BY PowersOfTen DEF Ten
<1>4. Ten(0) = 1 /\ Ten(1) = 10
  BY <1>2 DEF Ten
<1>5. \A i \in 0..MaxDigits : i < MaxDigits => Ten(i + 1) = 10 * Ten(i)
  <2> SUFFICES ASSUME NEW i \in 0..MaxDigits, i < MaxDigits PROVE Ten(i + 1) = 10 * Ten(i)
    OBVIOUS
  <2>1. 1 \in 0..MaxDigits /\ i + 1 <= MaxDigits
    BY <1>1
  <2>2. Ten(i + 1) = Ten(i) * Ten(1) /\ Ten(i) \in Nat
    BY <1>3, <2>1
  <2> QED BY <1>4, <2>2
<1>6. \A i, j \in 0..MaxDigits : i <= j => Ten(i) <= Ten(j)
  <2> SUFFICES ASSUME NEW i \in 0..MaxDigits, NEW j \in 0..MaxDigits, i <= j
               PROVE  Ten(i) <= Ten(j)
    OBVIOUS
  <2>1. j - i \in 0..MaxDigits /\ i + (j - i) = j /\ i + (j - i) <= MaxDigits
    BY <1>1
  <2>2. Ten(j) = Ten(i) * Ten(j - i)
    BY <1>3, <2>1
  <2> DEFINE a == Ten(i)   b == Ten(j - i)
  <2>3. a \in Nat \ {0} /\ b \in Nat \ {0}
    BY <1>3, <2>1
  <2> HIDE DEF a, b
  <2>4. a <= a * b
    BY <2>3
  <2> QED BY <2>2, <2>4 DEF a, b
<1> QED BY <1>1, <1>3, <1>4, <1>5, <1>6

\* f[i] is the number that the first i digits stand for.
Reads(digits, f) ==
    /\ f \in [0..Len(digits) -> Int] /\ f[0] = 0
    /\ \A i \in 1..Len(digits) : f[i] = 10 * f[i - 1] + digits[i]

\* Such an f ends with the number that the recursion computes.
LEMMA ReadsNumber ==
  ASSUME NEW s \in Seq(Int), NEW f, Reads(s, f)
  PROVE  Number(s) = f[Len(s)]
<1> DEFINE N == Len(s)
           Body(g) == [i \in 0..N |-> IF i = 0 THEN 0 ELSE 10 * g[i - 1] + s[i]]
<1>1. N \in Nat
  OBVIOUS
<1>2. Number(s) = (CHOOSE g : g = Body(g))[N]
  BY DEF Number
<1>3. \A i \in 0..N : f[i] = IF i = 0 THEN 0 ELSE 10 * f[i - 1] + s[i]
  BY <1>1 DEF Reads
<1>4. f = Body(f)
  <2>1. f = [i \in 0..N |-> f[i]]
    BY DEF Reads
  <2> QED BY <1>3, <2>1
<1>5. ASSUME NEW g, g = Body(g) PROVE g[N] = f[N]
  <2> DEFINE D == {i \in 0..N : g[i] # f[i]}
  <2>1. D = {}
    <3> SUFFICES ASSUME D # {} PROVE FALSE
      OBVIOUS
    <3>1. D \in SUBSET Nat
      BY <1>1
    <3>2. PICK i \in D : \A k \in D : i <= k
      BY <3>1, LeastExists
    <3>3. i \in 0..N /\ g[i] # f[i]
      OBVIOUS
    <3>4. g[i] = IF i = 0 THEN 0 ELSE 10 * g[i - 1] + s[i]
      BY <1>5, <3>3
    <3>5. i # 0 => i - 1 \in 0..N /\ i - 1 \notin D
      BY <1>1, <3>2, <3>3
    <3>6. i # 0 => g[i - 1] = f[i - 1]
      BY <3>5
    <3> HIDE DEF D, Body
    <3> QED BY <1>3, <3>3, <3>4, <3>6
  <2> HIDE DEF Body
  <2>2. N \in 0..N
    BY <1>1
  <2> QED BY <2>1, <2>2
<1> HIDE DEF Body
<1>6. (CHOOSE g : g = Body(g)) = Body(CHOOSE g : g = Body(g))
  BY <1>4
<1> QED BY <1>2, <1>5, <1>6

\* There is one for every sequence.
LEMMA ReadsExists ==
  ASSUME NEW s \in Seq(Int)
  PROVE  \E f : Reads(s, f)
<1> DEFINE N == Len(s)
           Upto(f, n) == /\ f \in [0..n -> Int] /\ f[0] = 0
                         /\ \A i \in 1..n : f[i] = 10 * f[i - 1] + s[i]
           D == {n \in 0..N : ~ \E f : Upto(f, n)}
<1>1. N \in Nat /\ \A i \in 1..N : s[i] \in Int
  OBVIOUS
<1>2. D = {}
  <2> SUFFICES ASSUME D # {} PROVE FALSE
    OBVIOUS
  <2>1. D \in SUBSET Nat
    BY <1>1
  <2>2. PICK n \in D : \A k \in D : n <= k
    BY <2>1, LeastExists
  <2>3. n \in 0..N /\ ~ \E f : Upto(f, n)
    OBVIOUS
  <2>4. n # 0
    <3> DEFINE f == [i \in 0..0 |-> 0]
    <3>1. Upto(f, 0)
      OBVIOUS
    <3> HIDE DEF f, Upto
    <3> QED BY <2>3, <3>1
  <2>5. n - 1 \in 0..N /\ n - 1 \notin D
    <3>1. n \in Int /\ n - 1 \in 0..N /\ ~ (n <= n - 1)
      BY <1>1, <2>3, <2>4
    <3> HIDE DEF D
    <3> QED BY <2>2, <3>1
  <2>6. PICK f : Upto(f, n - 1)
    BY <2>5
  <2> DEFINE g == [i \in 0..n |-> IF i = n THEN 10 * f[n - 1] + s[n] ELSE f[i]]
  <2>7. Upto(g, n)
    <3>1. n \in 1..N /\ n - 1 \in 0..(n - 1) /\ \A i \in 0..(n - 1) : f[i] \in Int
      BY <1>1, <2>3, <2>4, <2>6
    <3>2. 10 * f[n - 1] + s[n] \in Int
      BY <1>1, <3>1
    <3>3. g \in [0..n -> Int]
      <4>1. \A i \in 0..n : i # n => i \in 0..(n - 1)
        BY <1>1, <2>3
      <4> QED BY <3>1, <3>2, <4>1
    <3>4. g[0] = 0
      BY <1>1, <2>3, <2>4, <2>6
    <3>5. ASSUME NEW i \in 1..n PROVE g[i] = 10 * g[i - 1] + s[i]
      <4>1. i - 1 # n /\ i - 1 \in 0..n /\ i \in 0..n /\ i - 1 \in 0..(n - 1)
        BY <1>1, <2>3
      <4>2. g[i - 1] = f[i - 1]
        BY <4>1
      <4>3. CASE i = n
        BY <4>1, <4>2, <4>3
      <4>4. CASE i # n
        <5>1. i \in 1..(n - 1)
          BY <1>1, <2>3, <4>4
        <5>2. f[i] = 10 * f[i - 1] + s[i]
          BY <2>6, <5>1
        <5> QED BY <4>1, <4>2, <4>4, <5>2
      <4> QED BY <4>3, <4>4
    <3> HIDE DEF g
    <3> QED BY <3>3, <3>4, <3>5
  <2> HIDE DEF g, Upto
  <2> QED BY <2>3, <2>7
<1>3. N \in 0..N
  BY <1>1
<1>4. PICK f : Upto(f, N)
  <2> HIDE DEF Upto
  <2> QED BY <1>2, <1>3
<1> QED BY <1>4 DEF Reads

\* The number of the first digits.
LEMMA ReadsPrefix ==
  ASSUME NEW s \in Seq(Int), NEW f, Reads(s, f), NEW t \in Seq(Int), Len(t) <= Len(s),
         \A i \in 1..Len(t) : t[i] = s[i]
  PROVE  Number(t) = f[Len(t)]
<1> DEFINE m == Len(t)   g == [i \in 0..m |-> f[i]]
<1>1. m \in Nat /\ Len(s) \in Nat /\ m <= Len(s)
  OBVIOUS
<1>2. g \in [0..m -> Int] /\ g[0] = 0 /\ g[m] = f[m]
  BY <1>1 DEF Reads
<1>3. ASSUME NEW i \in 1..m PROVE g[i] = 10 * g[i - 1] + t[i]
  <2>1. i \in 0..m /\ i - 1 \in 0..m /\ i \in 1..Len(s)
    BY <1>1
  <2>2. g[i] = f[i] /\ g[i - 1] = f[i - 1]
    BY <2>1
  <2>3. f[i] = 10 * f[i - 1] + s[i]
    BY <2>1 DEF Reads
  <2> QED BY <2>2, <2>3
<1> HIDE DEF g
<1>4. Reads(t, g)
  BY <1>2, <1>3 DEF Reads
<1> QED BY <1>2, <1>4, ReadsNumber

\* Zeros at the end.
LEMMA ReadsZeros ==
  ASSUME NEW s \in Seq(Int), NEW f, Reads(s, f), Len(s) <= MaxDigits, NEW m \in 0..Len(s),
         \A i \in (m + 1)..Len(s) : s[i] = 0
  PROVE  f[Len(s)] = f[m] * Ten(Len(s) - m)
<1> DEFINE N == Len(s)   D == {j \in 0..(N - m) : f[m + j] # f[m] * Ten(j)}
<1>1. N \in Nat /\ N <= MaxDigits /\ m \in 0..N /\ \A i \in 0..N : f[i] \in Int
  BY DEF Reads
<1>2. D = {}
  <2> SUFFICES ASSUME D # {} PROVE FALSE
    OBVIOUS
  <2>1. D \in SUBSET Nat
    BY <1>1
  <2>2. PICK j \in D : \A k \in D : j <= k
    BY <2>1, LeastExists
  <2>3. j \in 0..(N - m) /\ f[m + j] # f[m] * Ten(j)
    OBVIOUS
  <2>4. j # 0
    <3>1. f[m] \in Int /\ m + 0 = m /\ Ten(0) = 1
      BY <1>1, TenIs
    <3>2. f[m] * 1 = f[m]
      BY <3>1
    <3>3. f[m + 0] = f[m] * Ten(0)
      BY <3>1, <3>2
    <3> QED BY <2>3, <3>3
  <2>5. j - 1 \in 0..(N - m) /\ j - 1 \notin D
    BY <1>1, <2>2, <2>3, <2>4
  <2>6. f[m + (j - 1)] = f[m] * Ten(j - 1)
    BY <2>5
  <2> HIDE DEF D
  <2>7. m + j \in 1..N /\ m + j \in (m + 1)..N /\ (m + j) - 1 = m + (j - 1)
        /\ j - 1 \in 0..MaxDigits /\ j - 1 < MaxDigits /\ (j - 1) + 1 = j
    BY <1>1, <2>3, <2>4, TenIs
  <2>8. f[m + j] = 10 * f[m + (j - 1)] + 0
    BY <2>7 DEF Reads
  <2>9. Ten(j) = 10 * Ten(j - 1) /\ Ten(j - 1) \in Nat
    BY <2>7, TenIs
  <2> DEFINE x == f[m]   p == Ten(j - 1)
  <2>10. x \in Int /\ p \in Int
    BY <1>1, <2>9
  <2> HIDE DEF x, p
  <2>11. 10 * (x * p) + 0 = x * (10 * p)
    BY <2>10
  <2> QED BY <2>3, <2>6, <2>8, <2>9, <2>11 DEF x, p
<1>3. N - m \in 0..(N - m) /\ m + (N - m) = N
  BY <1>1
<1> QED BY <1>2, <1>3

\* One text after the other.
LEMMA NumberConcat ==
  ASSUME NEW s \in Seq(Int), NEW t \in Seq(Int), Len(t) <= MaxDigits
  PROVE  /\ Number(s \o t) = Number(s) * Ten(Len(t)) + Number(t)
         /\ Number(s) \in Int /\ Number(t) \in Int
<1> DEFINE u == s \o t   M == Len(s)   N == Len(t)
<1>1. u \in Seq(Int) /\ Len(u) = M + N /\ M \in Nat /\ N \in Nat
      /\ (\A i \in 1..M : u[i] = s[i]) /\ \A i \in 1..N : u[M + i] = t[i]
  BY ConcatProperties
<1> HIDE DEF u
<1>2. PICK f : Reads(u, f)
  BY <1>1, ReadsExists
<1>3. PICK g : Reads(t, g)
  BY ReadsExists
<1>4. Number(u) = f[M + N] /\ Number(t) = g[N] /\ Number(s) = f[M]
  <2>1. Number(u) = f[Len(u)] /\ Number(t) = g[Len(t)]
    BY <1>1, <1>2, <1>3, ReadsNumber
  <2>2. Number(s) = f[Len(s)]
    BY <1>1, <1>2, ReadsPrefix
  <2> QED BY <1>1, <2>1, <2>2
<1> DEFINE D == {j \in 0..N : f[M + j] # f[M] * Ten(j) + g[j]}
<1>5. /\ \A i \in 0..(M + N) : f[i] \in Int
      /\ \A i \in 0..N : g[i] \in Int
      /\ N <= MaxDigits
  BY <1>1, <1>2, <1>3 DEF Reads
<1>6. D = {}
  <2> SUFFICES ASSUME D # {} PROVE FALSE
    OBVIOUS
  <2>1. D \in SUBSET Nat
    BY <1>1
  <2>2. PICK j \in D : \A k \in D : j <= k
    BY <2>1, LeastExists
  <2>3. j \in 0..N /\ f[M + j] # f[M] * Ten(j) + g[j]
    OBVIOUS
  <2>4. j # 0
    <3>1. f[M] \in Int /\ g[0] = 0 /\ M + 0 = M
      BY <1>1, <1>3, <1>5 DEF Reads
    <3>2. f[M] * 1 + 0 = f[M]
      <4> DEFINE x == f[M]
      <4>1. x \in Int
        BY <3>1
      <4> HIDE DEF x
      <4>2. x * 1 + 0 = x
        BY <4>1
      <4> QED BY <4>2 DEF x
    <3>3. Ten(0) = 1
      BY TenIs
    <3>4. f[M + 0] = f[M] * Ten(0) + g[0]
      BY <3>1, <3>2, <3>3
    <3> QED BY <2>3, <3>4
  <2>5. j - 1 \in 0..N /\ j - 1 \notin D
    <3>1. j \in Int /\ j - 1 \in 0..N /\ ~ (j <= j - 1)
      BY <1>1, <2>3, <2>4
    <3> HIDE DEF D
    <3> QED BY <2>2, <3>1
  <2>6. f[M + (j - 1)] = f[M] * Ten(j - 1) + g[j - 1]
    BY <2>5
  <2> HIDE DEF D
  <2>7. M + j \in 1..(M + N) /\ (M + j) - 1 = M + (j - 1) /\ j \in 1..N
        /\ j - 1 \in 0..MaxDigits /\ j - 1 < MaxDigits /\ (j - 1) + 1 = j
    BY <1>1, <1>5, <2>3, <2>4, TenIs
  <2>8. f[M + j] = 10 * f[M + (j - 1)] + t[j]
    BY <1>1, <1>2, <2>7 DEF Reads
  <2>9. g[j] = 10 * g[j - 1] + t[j]
    BY <1>3, <2>7 DEF Reads
  <2>10. Ten(j) = 10 * Ten(j - 1) /\ Ten(j - 1) \in Nat
    BY <2>7, TenIs
  <2> DEFINE x == f[M]   p == Ten(j - 1)   y == g[j - 1]   z == t[j]
  <2>11. x \in Int /\ p \in Int /\ y \in Int /\ z \in Int
    <3>1. M \in 0..(M + N) /\ j - 1 \in 0..N /\ j \in 1..N
      BY <1>1, <2>5, <2>7
    <3> QED BY <1>5, <2>10, <3>1
  <2> HIDE DEF x, p, y, z
  <2>12. 10 * (x * p + y) + z = x * (10 * p) + (10 * y + z)
    BY <2>11
  <2> QED BY <2>3, <2>6, <2>8, <2>9, <2>10, <2>12 DEF x, p, y, z
<1>7. f[M + N] = f[M] * Ten(N) + g[N]
  <2>1. N \in 0..N
    BY <1>1
  <2> QED BY <1>6, <2>1
<1>8. f[M] \in Int /\ g[N] \in Int
  BY <1>1, <1>5
<1> QED BY <1>4, <1>7, <1>8 DEF u

\* So many digits cannot say more.
LEMMA NumberBelow ==
  ASSUME NEW s \in Seq(0..9), Len(s) <= MaxDigits
  PROVE  Number(s) \in 0..(Ten(Len(s)) - 1)
<1> DEFINE N == Len(s)
<1>1. s \in Seq(Int) /\ N \in Nat /\ N <= MaxDigits /\ \A i \in 1..N : s[i] \in 0..9
  <2>1. 0..9 \subseteq Int
    OBVIOUS
  <2> QED BY <2>1, SeqMonotonic
<1>2. PICK f : Reads(s, f)
  BY <1>1, ReadsExists
<1>3. Number(s) = f[N]
  BY <1>1, <1>2, ReadsNumber
<1> DEFINE D == {j \in 0..N : f[j] \notin 0..(Ten(j) - 1)}
<1>4. D = {}
  <2> SUFFICES ASSUME D # {} PROVE FALSE
    OBVIOUS
  <2>1. D \in SUBSET Nat
    BY <1>1
  <2>2. PICK j \in D : \A k \in D : j <= k
    BY <2>1, LeastExists
  <2>3. j \in 0..N /\ f[j] \notin 0..(Ten(j) - 1)
    OBVIOUS
  <2>4. j # 0
    <3>1. f[0] = 0 /\ Ten(0) = 1
      BY <1>2, TenIs DEF Reads
    <3> QED BY <2>3, <3>1
  <2>5. j - 1 \in 0..N /\ j - 1 \notin D
    <3>1. j \in Int /\ j - 1 \in 0..N /\ ~ (j <= j - 1)
      BY <1>1, <2>3, <2>4
    <3> HIDE DEF D
    <3> QED BY <2>2, <3>1
  <2>6. f[j - 1] \in 0..(Ten(j - 1) - 1)
    BY <2>5
  <2> HIDE DEF D
  <2>7. j \in 1..N /\ j - 1 \in 0..MaxDigits /\ j - 1 < MaxDigits /\ (j - 1) + 1 = j
    BY <1>1, <2>3, <2>4, TenIs
  <2>8. f[j] = 10 * f[j - 1] + s[j] /\ s[j] \in 0..9
    BY <1>1, <1>2, <2>7 DEF Reads
  <2>9. Ten(j) = 10 * Ten(j - 1) /\ Ten(j - 1) \in Nat
    BY <2>7, TenIs
  <2> DEFINE x == f[j - 1]   p == Ten(j - 1)   z == s[j]
  <2> HIDE DEF x, p, z
  <2>10. x \in 0..(p - 1) /\ p \in Nat /\ z \in 0..9
    BY <2>6, <2>8, <2>9 DEF x, p, z
  <2>11. 10 * x + z \in 0..(10 * p - 1)
    BY <2>10
  <2> QED BY <2>3, <2>8, <2>9, <2>11 DEF x, p, z
<1> QED
  <2>1. N \in 0..N
    BY <1>1
  <2> QED BY <1>3, <1>4, <2>1

\* Min is the least.
LEMMA MinIs ==
  ASSUME NEW S \in SUBSET Nat, S # {}
  PROVE  Min(S) \in S /\ \A y \in S : Min(S) <= y
<1>1. \E x \in S : \A y \in S : x <= y
  BY LeastExists
<1> QED BY <1>1 DEF Min

\* Max is an upper bound out of the set.
LEMMA MaxIs ==
  ASSUME NEW N \in Nat, NEW S \in SUBSET (0..N), S # {}
  PROVE  Max(S) \in S /\ \A y \in S : Max(S) >= y
<1> DEFINE T == {N - x : x \in S}
<1>1. T \in SUBSET Nat /\ T # {}
  <2>1. \A x \in S : N - x \in Nat
    OBVIOUS
  <2>2. T # {}
    OBVIOUS
  <2> QED BY <2>1, <2>2
<1>2. PICK z \in T : \A y \in T : z <= y
  BY <1>1, LeastExists
<1>3. PICK x \in S : z = N - x
  OBVIOUS
<1>4. \A y \in S : x >= y
  <2> TAKE y \in S
  <2>1. N - y \in T
    OBVIOUS
  <2>2. N - x <= N - y /\ x \in 0..N /\ y \in 0..N
    BY <1>2, <1>3, <2>1
  <2> QED BY <2>2
<1>5. \E m \in S : \A y \in S : m >= y
  BY <1>3, <1>4
<1> QED BY <1>5 DEF Max

\* The number of the first i of so many digits of n.
Heads(n, size) == [i \in 0..size |-> n \div Ten(size - i)]

\* So many digits say all of a number that is below the power of ten.
LEMMA PaddedIs ==
  ASSUME NEW n \in Nat, NEW size \in 0..MaxDigits, n < Ten(size)
  PROVE  /\ Padded(n, size) \in Seq(0..9) /\ Padded(n, size) \in Seq(Int)
         /\ Len(Padded(n, size)) = size
         /\ \A i \in 1..size : Padded(n, size)[i] = (n \div Ten(size - i)) % 10
         /\ Reads(Padded(n, size), Heads(n, size)) /\ Number(Padded(n, size)) = n
<1> DEFINE s == Padded(n, size)   f == Heads(n, size)
<1>1. size \in Nat /\ \A i \in 0..size : size - i \in 0..MaxDigits /\ Ten(size - i) \in Nat \ {0}
  <2>1. size \in Nat /\ \A i \in 0..size : size - i \in 0..MaxDigits
    BY TenIs
  <2> QED BY <2>1, TenIs
<1>2. s = [i \in 1..size |-> (n \div Ten(size - i)) % 10]
  BY DEF Padded, Ten
<1>3. \A i \in 0..size : n \div Ten(size - i) \in Nat
  <2> TAKE i \in 0..size
  <2> DEFINE k == Ten(size - i)
  <2>1. k \in Nat \ {0}
    BY <1>1
  <2> HIDE DEF k
  <2>2. n \div k \in Nat
    BY <2>1, QuotNat
  <2> QED BY <2>2 DEF k
<1>4. \A i \in 1..size : (n \div Ten(size - i)) % 10 \in 0..9
  <2> TAKE i \in 1..size
  <2> DEFINE q == n \div Ten(size - i)
  <2>1. q \in Nat
    BY <1>1, <1>3
  <2> HIDE DEF q
  <2>2. q % 10 \in 0..9
    BY <2>1
  <2> QED BY <2>2 DEF q
<1>5. s \in [1..size -> 0..9]
  BY <1>2, <1>4
<1>6. s \in Seq(0..9) /\ Len(s) = size
  <2> HIDE DEF s
  <2>1. s \in Seq(0..9)
    BY <1>1, <1>5
  <2> QED BY <1>1, <1>5, <2>1
<1>7. s \in Seq(Int)
  <2>1. 0..9 \subseteq Int
    OBVIOUS
  <2> HIDE DEF s
  <2> QED BY <1>6, <2>1, SeqMonotonic
<1>8. \A i \in 1..size : s[i] = (n \div Ten(size - i)) % 10
  BY <1>2
<1>9. \A i \in 0..size : f[i] = n \div Ten(size - i)
  BY DEF Heads
<1>10. f \in [0..size -> Int]
  BY <1>3 DEF Heads
<1> HIDE DEF s, f
<1>11. f[0] = 0
  <2> DEFINE k == Ten(size)
  <2>1. k \in Nat \ {0} /\ size - 0 = size
    BY <1>1, TenIs
  <2>2. n \in 0..(k - 1)
    BY <2>1
  <2> HIDE DEF k
  <2>3. n \div k = 0
    BY <2>1, <2>2, RemSmall
  <2>4. 0 \in 0..size
    BY <1>1
  <2> QED BY <1>9, <2>1, <2>3, <2>4 DEF k
<1>12. ASSUME NEW i \in 1..size PROVE f[i] = 10 * f[i - 1] + s[i]
  <2> DEFINE k == Ten(size - i)   q == n \div k
  <2>1. /\ i \in 0..size /\ i - 1 \in 0..size /\ size - (i - 1) = (size - i) + 1
        /\ size - i \in 0..MaxDigits /\ size - i < MaxDigits
    BY <1>1, TenIs
  <2>2. k \in Nat \ {0} /\ Ten(size - (i - 1)) = 10 * k
    BY <2>1, TenIs
  <2>3. f[i] = q /\ f[i - 1] = n \div (10 * k) /\ s[i] = q % 10
    BY <1>8, <1>9, <2>1, <2>2
  <2>4. q \in Nat
    BY <1>3, <2>1
  <2>5. (n \div k) \div 10 = n \div (k * 10)
    <3> HIDE DEF k
    <3> QED BY <2>2, QuotTwice
  <2>6. k * 10 = 10 * k
    BY <2>2
  <2>7. f[i - 1] = q \div 10
    BY <2>3, <2>5, <2>6
  <2> HIDE DEF q
  <2>8. q = 10 * (q \div 10) + (q % 10)
    BY <2>4
  <2> QED BY <2>3, <2>7, <2>8
<1>13. Reads(s, f)
  BY <1>6, <1>10, <1>11, <1>12 DEF Reads
<1>14. Number(s) = n
  <2>1. Number(s) = f[size]
    BY <1>6, <1>7, <1>13, ReadsNumber
  <2>2. size \in 0..size /\ size - size = 0 /\ n \div 1 = n
    BY <1>1
  <2> QED BY <1>9, <2>1, <2>2, TenIs
<1> QED BY <1>6, <1>7, <1>8, <1>13, <1>14 DEF s, f

\* Digits takes as many as are needed and no more.
LEMMA DigitsIs ==
  ASSUME NEW n \in 0..Sign
  PROVE  \E size \in 0..MaxDigits :
           /\ Digits(n) = Padded(n, size) /\ n < Ten(size)
           /\ \A k \in 0..MaxDigits : n < Ten(k) => size <= k
<1> DEFINE S == {k \in 0..MaxDigits : n < Ten(k)}
<1>1. Digits(n) = Padded(n, Min(S))
  BY DEF Digits, Ten
<1>2. S \in SUBSET Nat /\ MaxDigits \in Nat
  BY TenIs
<1>3. MaxDigits \in S
  <2>1. max_int + 1 < Ten(MaxDigits)
    BY DecimalAssumption DEF Ten
  <2>2. max_int + 1 = Sign /\ Sign \in Nat
    BY Widths
  <2>3. Ten(MaxDigits) \in Nat
    BY <1>2, TenIs
  <2> QED BY <1>2, <2>1, <2>2, <2>3
<1>4. Min(S) \in S /\ \A y \in S : Min(S) <= y
  BY <1>2, <1>3, MinIs
<1> QED BY <1>1, <1>4

\* Trimmed takes away zeros at the end, and nothing else.
LEMMA TrimmedIs ==
  ASSUME NEW d \in Seq(0..9)
  PROVE  \E m \in 0..Len(d) :
           /\ Trimmed(d) \in Seq(0..9) /\ Len(Trimmed(d)) = m
           /\ \A i \in 1..m : Trimmed(d)[i] = d[i]
           /\ \A i \in (m + 1)..Len(d) : d[i] = 0
<1> DEFINE S == {0} \cup {i \in DOMAIN d : d[i] # 0}   m == Max(S)   N == Len(d)
<1>1. N \in Nat /\ DOMAIN d = 1..N
  OBVIOUS
<1>2. S \in SUBSET (0..N) /\ S # {}
  BY <1>1
<1>3. m \in S /\ \A y \in S : m >= y
  <2> HIDE DEF S
  <2> QED BY <1>1, <1>2, MaxIs
<1>4. m \in 0..N
  BY <1>2, <1>3
<1>5. Trimmed(d) = SubSeq(d, 1, m)
  BY DEF Trimmed
<1>6. ASSUME NEW i \in (m + 1)..N PROVE d[i] = 0
  <2> HIDE DEF m
  <2>1. i \in 1..N /\ ~ (m >= i)
    BY <1>1, <1>4
  <2>2. i \notin S
    <3> HIDE DEF S
    <3> QED BY <1>3, <2>1
  <2> QED BY <1>1, <2>1, <2>2
<1> HIDE DEF m, S
<1>7. SubSeq(d, 1, m) = [i \in 1..m |-> d[i]]
  BY <1>1, <1>4
<1>8. [i \in 1..m |-> d[i]] \in Seq(0..9) /\ Len([i \in 1..m |-> d[i]]) = m
  <2> DEFINE t == [i \in 1..m |-> d[i]]
  <2>1. m \in Nat /\ \A i \in 1..m : d[i] \in 0..9
    BY <1>1, <1>4
  <2>2. t \in [1..m -> 0..9]
    BY <2>1
  <2> HIDE DEF t
  <2>3. t \in Seq(0..9) /\ Len(t) = m
    BY <2>1, <2>2
  <2> QED BY <2>3 DEF t
<1> QED BY <1>4, <1>5, <1>6, <1>7, <1>8

\* A number that has room is not changed.
LEMMA WrapIs ==
  ASSUME NEW x \in (-Sign)..(Sign - 1)
  PROVE  Wrap(x) = x
<1>0. Top \in Nat \ {0} /\ Sign \in Nat \ {0} /\ Top = 2 * Sign /\ max_int = Sign - 1
  BY Widths
<1>1. Wrap(x) = AsSigned(x % Top)
  BY DEF Wrap, Top
<1>2. \A w : AsSigned(w) = IF w > max_int THEN w - Top ELSE w
  BY DEF AsSigned, Top
<1>3. CASE x >= 0
  <2>1. x \in 0..(Top - 1)
    BY <1>0, <1>3
  <2>2. x % Top = x
    BY <1>0, <2>1, RemSmall
  <2> QED BY <1>0, <1>1, <1>2, <2>2
<1>4. CASE x < 0
  <2>1. x % Top = x + Top
    BY <1>0, <1>4, RemNegative
  <2> QED BY <1>0, <1>1, <1>2, <1>4, <2>1
<1> QED BY <1>0, <1>3, <1>4

\* How the digits belong to the scale and to the range.
LEMMA ScaleIs ==
  /\ Scale \in 1..MaxDigits /\ MaxIntegerDigits \in 1..MaxDigits
  /\ MaxIntegerDigits + Scale \in 0..MaxDigits
  /\ scale_factor = Ten(Scale) /\ Ten(MaxIntegerDigits + Scale) = Ten(MaxIntegerDigits) * Ten(Scale)
  /\ max_raw = Ten(Scale) * Ten(MaxIntegerDigits - 1)
  /\ Ten(MaxIntegerDigits + Scale) <= Sign /\ Scale < 2^CountBits /\ 2^CountBits \in Nat \ {0}
<1>1. /\ Scale \in 1..MaxDigits /\ MaxIntegerDigits \in 1..MaxDigits
      /\ MaxIntegerDigits + Scale \in 0..MaxDigits
  BY DecimalAssumption DEF MaxDigits
<1>2. scale_factor = Ten(Scale) /\ max_raw = Ten(Scale) * Ten(MaxIntegerDigits - 1)
  BY DEF scale_factor, max_raw, Ten
<1>3. Ten(MaxIntegerDigits + Scale) = Ten(MaxIntegerDigits) * Ten(Scale)
  <2>1. Scale \in 0..MaxDigits /\ MaxIntegerDigits \in 0..MaxDigits
        /\ MaxIntegerDigits + Scale <= MaxDigits
    BY <1>1, TenIs
  <2> QED BY <2>1, TenIs
<1>4. Ten(MaxIntegerDigits + Scale) <= Sign
  <2>1. Ten(MaxIntegerDigits + Scale) <= max_int + 1
    BY DecimalAssumption DEF Ten
  <2>2. max_int + 1 = Sign
    BY Widths
  <2> QED BY <2>1, <2>2
<1>5. 2^CountBits \in Int
  BY DecimalAssumption
<1>6. Scale < 2^CountBits
  BY DecimalAssumption
<1>7. 2^CountBits \in Nat \ {0}
  <2> DEFINE c == 2^CountBits
  <2>1. c \in Int /\ Scale < c /\ Scale \in Nat
    BY <1>5, <1>6, DecimalAssumption
  <2> HIDE DEF c
  <2>2. c \in Nat \ {0}
    BY <2>1
  <2> QED BY <2>2 DEF c
<1> QED BY <1>1, <1>2, <1>3, <1>4, <1>6, <1>7

\* The integer part of a text and what is read of it.
LEMMA IntegerText ==
  ASSUME NEW n \in 0..Sign
  PROVE  LET int == IF n = 0 THEN <<0>> ELSE Digits(n)
         IN  /\ int \in Seq(0..9) /\ Number(int) = n
             /\ \A k \in 1..MaxDigits : n < Ten(k) => Len(int) <= k
<1>1. CASE n = 0
  <2>1. <<0>> \in Seq(0..9) /\ Len(<<0>>) = 1
    OBVIOUS
  <2>2. Number(<<0>>) = 0
    <3> DEFINE f == [i \in 0..1 |-> 0]   s == <<0>>
    <3>1. s \in Seq(Int) /\ Len(s) = 1 /\ s[1] = 0
      OBVIOUS
    <3>2. f \in [0..1 -> Int] /\ f[0] = 0 /\ f[1] = 0 /\ \A i \in 1..1 : i = 1 /\ i - 1 = 0
      OBVIOUS
    <3> HIDE DEF f, s
    <3>3. Reads(s, f)
      BY <3>1, <3>2 DEF Reads
    <3>4. Number(s) = 0
      BY <3>1, <3>2, <3>3, ReadsNumber
    <3> QED BY <3>4 DEF s
  <2> QED BY <1>1, <2>1, <2>2
<1>2. CASE n # 0
  <2>1. PICK size \in 0..MaxDigits :
          /\ Digits(n) = Padded(n, size) /\ n < Ten(size)
          /\ \A k \in 0..MaxDigits : n < Ten(k) => size <= k
    BY DigitsIs
  <2>2. n \in Nat
    BY Widths
  <2>3. Digits(n) \in Seq(0..9) /\ Len(Digits(n)) = size /\ Number(Digits(n)) = n
    BY <2>1, <2>2, PaddedIs
  <2> QED BY <1>2, <2>1, <2>3
<1> QED BY <1>1, <1>2

\* The fractional part.
LEMMA FractionText ==
  ASSUME NEW n \in Nat, n < scale_factor
  PROVE  LET trimmed == Trimmed(Padded(n, Scale))
             frac == IF trimmed = <<>> THEN <<0>> ELSE trimmed
         IN  /\ frac \in Seq(0..9) /\ Len(frac) \in 0..Scale
             /\ Number(frac) * Ten(Scale - Len(frac)) = n
<1> DEFINE d == Padded(n, Scale)   f == Heads(n, Scale)   t == Trimmed(d)
<1>0. Scale \in 1..MaxDigits /\ Scale \in 0..MaxDigits /\ scale_factor = Ten(Scale)
      /\ MaxDigits \in Nat
  BY ScaleIs, TenIs
<1>1. d \in Seq(0..9) /\ d \in Seq(Int) /\ Len(d) = Scale /\ Reads(d, f) /\ Number(d) = n
  BY <1>0, PaddedIs
<1> HIDE DEF d, f
<1>2. PICK m \in 0..Len(d) :
        /\ t \in Seq(0..9) /\ Len(t) = m
        /\ \A i \in 1..m : t[i] = d[i]
        /\ \A i \in (m + 1)..Len(d) : d[i] = 0
  BY <1>1, TrimmedIs
<1>3. f[Scale] = f[m] * Ten(Scale - m)
  <2>1. Len(d) <= MaxDigits
    BY <1>0, <1>1
  <2>2. f[Len(d)] = f[m] * Ten(Len(d) - m)
    BY <1>1, <1>2, <2>1, ReadsZeros
  <2> QED BY <1>1, <2>2
<1>4. f[Scale] = n
  BY <1>1, ReadsNumber
<1>5. t \in Seq(Int)
  <2>1. 0..9 \subseteq Int
    OBVIOUS
  <2> QED BY <1>2, <2>1, SeqMonotonic
<1>6. Number(t) = f[m]
  <2>1. Len(t) <= Len(d) /\ \A i \in 1..Len(t) : t[i] = d[i]
    BY <1>0, <1>1, <1>2
  <2> HIDE DEF t
  <2>2. Number(t) = f[Len(t)]
    BY <1>1, <1>5, <2>1, ReadsPrefix
  <2> QED BY <1>2, <2>2
<1>7. CASE t # <<>>
  <2>1. m \in 0..Scale
    BY <1>1, <1>2
  <2> QED BY <1>2, <1>3, <1>4, <1>6, <1>7, <2>1 DEF d
<1>8. CASE t = <<>>
  <2>1. m = 0
    BY <1>2, <1>8
  <2>2. f[0] = 0
    BY <1>1 DEF Reads
  <2>3. n = 0
    <3>1. Ten(Scale - m) \in Nat
      BY <1>0, <2>1, TenIs
    <3> DEFINE p == Ten(Scale - m)
    <3> HIDE DEF p
    <3>2. 0 * p = 0
      BY <3>1 DEF p
    <3> QED BY <1>3, <1>4, <2>1, <2>2, <3>2 DEF p
  <2>4. <<0>> \in Seq(0..9) /\ Len(<<0>>) = 1 /\ 1 \in 0..Scale
    BY <1>0
  <2>5. Number(<<0>>) = 0
    <3>1. 0 \in 0..Sign
      BY Widths
    <3> QED BY <3>1, IntegerText
  <2>6. Ten(Scale - 1) \in Nat
    <3>1. Scale - 1 \in 0..MaxDigits
      BY <1>0
    <3> QED BY <3>1, TenIs
  <2>7. 0 * Ten(Scale - 1) = 0
    <3> DEFINE p == Ten(Scale - 1)
    <3> HIDE DEF p
    <3>1. 0 * p = 0
      BY <2>6 DEF p
    <3> QED BY <3>1 DEF p
  <2> QED BY <1>8, <2>3, <2>4, <2>5, <2>7 DEF d
<1> QED BY <1>7, <1>8

\* A text of digits that fits is read as its number.
LEMMA ParsedIs ==
  ASSUME NEW t, t.int \in Seq(0..9), t.frac \in Seq(0..9),
         Len(t.int) <= MaxIntegerDigits, Len(t.frac) <= Scale
  PROVE  LET n == Number(t.int) * scale_factor + Number(t.frac) * Ten(Scale - Len(t.frac))
         IN  n < Sign => parse_decimal_t(t) = Parsed(IF t.sign = "-" THEN -n ELSE n)
<1> DEFINE int == t.int   frac == t.frac   k == Len(frac)   a == Number(int)
           b == Number(frac) * Ten(Scale - k)   n == a * scale_factor + b
<1> SUFFICES ASSUME n < Sign
             PROVE  parse_decimal_t(t) = Parsed(IF t.sign = "-" THEN -n ELSE n)
  OBVIOUS
<1>0. /\ Scale \in 1..MaxDigits /\ MaxIntegerDigits \in 1..MaxDigits /\ MaxDigits \in Nat
      /\ scale_factor = Ten(Scale) /\ scale_factor \in Nat \ {0}
      /\ Scale < 2^CountBits /\ 2^CountBits \in Nat \ {0}
      /\ int \in Seq(0..9) /\ frac \in Seq(0..9) /\ k \in 0..Scale
      /\ Sign \in Nat \ {0} /\ max_int = Sign - 1
  <2>1. /\ Scale \in 1..MaxDigits /\ MaxIntegerDigits \in 1..MaxDigits
        /\ scale_factor = Ten(Scale) /\ Scale < 2^CountBits /\ 2^CountBits \in Nat \ {0}
    BY ScaleIs
  <2>2. MaxDigits \in Nat
    BY TenIs
  <2>3. scale_factor \in Nat \ {0} /\ Sign \in Nat \ {0} /\ max_int = Sign - 1
    BY Widths
  <2>4. int \in Seq(0..9) /\ frac \in Seq(0..9) /\ k \in 0..Scale
    BY <2>1, <2>2
  <2> QED BY <2>1, <2>2, <2>3, <2>4
<1>1. a \in Nat
  <2>1. Len(int) \in 0..MaxDigits /\ Len(int) <= MaxDigits
    BY <1>0
  <2>2. Ten(Len(int)) \in Nat
    BY <2>1, TenIs
  <2> QED BY <1>0, <2>1, <2>2, NumberBelow
<1>2. b \in 0..(scale_factor - 1)
  <2>1. k \in 0..MaxDigits /\ Scale - k \in 0..MaxDigits /\ k + (Scale - k) = Scale
        /\ k + (Scale - k) <= MaxDigits
    BY <1>0
  <2>2. Number(frac) \in 0..(Ten(k) - 1)
    BY <1>0, <2>1, NumberBelow
  <2> DEFINE x == Number(frac)   p == Ten(k)   q == Ten(Scale - k)
  <2>3. p \in Nat \ {0} /\ q \in Nat \ {0} /\ Ten(Scale) = p * q /\ x \in 0..(p - 1)
    BY <2>1, <2>2, TenIs
  <2> HIDE DEF x, p, q
  <2>4. x * q >= 0 /\ x * q <= (p - 1) * q /\ (p - 1) * q = p * q - q
    BY <2>3
  <2>5. x * q \in 0..(p * q - 1)
    BY <2>3, <2>4
  <2> QED BY <1>0, <2>3, <2>5 DEF x, q
<1> DEFINE c == 2^CountBits
<1>3. k % c = k
  <2>1. k \in 0..(c - 1)
    BY <1>0
  <2> HIDE DEF c
  <2>2. c \in Nat \ {0}
    BY <1>0 DEF c
  <2> QED BY <2>1, <2>2, RemSmall
<1> HIDE DEF c
<1>4. ~ Odd(frac) /\ ~ Odd(Prefix(int, MaxIntegerDigits + 1))
  <2>1. ~ Odd(frac)
    BY <1>0 DEF Odd
  <2>2. Prefix(int, MaxIntegerDigits + 1) = int
    <3>1. Min({Len(int), MaxIntegerDigits + 1}) = Len(int)
      <4> DEFINE S == {Len(int), MaxIntegerDigits + 1}
      <4>1. S \in SUBSET Nat /\ S # {} /\ Len(int) < MaxIntegerDigits + 1
        BY <1>0
      <4>2. Min(S) \in S /\ \A y \in S : Min(S) <= y
        BY <4>1, MinIs
      <4> QED BY <1>0, <4>1, <4>2
    <3>2. SubSeq(int, 1, Len(int)) = int
      BY <1>0, SubSeqFull
    <3> QED BY <3>1, <3>2 DEF Prefix
  <2>3. ~ Odd(int)
    BY <1>0 DEF Odd
  <2> QED BY <2>1, <2>2, <2>3
<1>5. n \in 0..(Sign - 1) /\ n \div scale_factor = a
  <2> DEFINE s == scale_factor
  <2>1. a \in Int /\ s \in Nat \ {0} /\ b \in 0..(s - 1)
    BY <1>0, <1>1, <1>2
  <2> HIDE DEF s, a, b
  <2>2. (a * s + b) \div s = a
    BY <2>1, RemUnique
  <2>3. a * s + b \in Int /\ a * s + b >= 0
    <3>1. a \in Nat
      BY <1>1
    <3>2. a * s >= 0
      BY <2>1, <3>1
    <3> QED BY <2>1, <3>2
  <2>4. a * s + b < Sign
    BY DEF s, a, b
  <2> QED BY <1>0, <2>2, <2>3, <2>4 DEF s, a, b
<1> DEFINE result == Number(int) * scale_factor + Number(frac) * 10^(Scale - k)
<1>6. result = n
  BY DEF Ten
<1>7. Wrap(n) = n /\ Wrap(-n) = -n
  <2> HIDE DEF n
  <2>1. n \in (-Sign)..(Sign - 1) /\ -n \in (-Sign)..(Sign - 1)
    BY <1>0, <1>5
  <2> QED BY <2>1, WrapIs
<1>8. Quot(Wrap(n), scale_factor) = Number(int)
  <2>1. Quot(n, scale_factor) = n \div scale_factor
    <3> HIDE DEF n
    <3> QED BY <1>0, <1>5 DEF Quot
  <2> QED BY <1>5, <1>7, <2>1
<1>9. /\ ~ (Len(int) > MaxIntegerDigits) /\ ~ (k > Scale) /\ k % 2^CountBits = k
  <2>1. ~ (Len(int) > MaxIntegerDigits) /\ ~ (k > Scale)
    BY <1>0
  <2>2. k % 2^CountBits = k
    BY <1>3 DEF c
  <2> QED BY <2>1, <2>2
<1>10. parse_decimal_t(t) =
         LET frac_digits == k % 2^CountBits
             res == Number(int) * scale_factor + Number(frac) * 10^(Scale - frac_digits)
         IN  IF Odd(Prefix(int, MaxIntegerDigits + 1)) THEN Thrown("invalid_argument")
             ELSE IF Len(int) > MaxIntegerDigits THEN Thrown("overflow_error")
             ELSE IF Odd(frac) \/ frac_digits > Scale THEN Thrown("invalid_argument")
             ELSE IF frac_digits # Len(frac) THEN Thrown("undefined")
             ELSE IF Number(int) # 0 /\ Quot(Wrap(res), scale_factor) # Number(int)
               THEN Thrown("overflow_error")
             ELSE Parsed(IF t.sign = "-" THEN Wrap(-Wrap(res)) ELSE Wrap(res))
  BY DEF parse_decimal_t
<1>11. parse_decimal_t(t) =
             IF Number(int) # 0 /\ Quot(Wrap(result), scale_factor) # Number(int)
               THEN Thrown("overflow_error")
             ELSE Parsed(IF t.sign = "-" THEN Wrap(-Wrap(result)) ELSE Wrap(result))
  <2> HIDE DEF int, frac, n
  <2> QED BY <1>4, <1>9, <1>10
<1> HIDE DEF result, n, int
<1> QED BY <1>6, <1>7, <1>8, <1>11

\* What to_string prints is read as the number it was made of, and a valid number
\* is short enough.
LEMMA StringReadBack ==
  ASSUME NEW v \in Raw, v > -max_int - 1
  PROVE  LET t == decimal_to_string(v)
         IN  /\ Len(t.int) <= MaxIntegerDigits => parse_decimal_t(t) = Parsed(v)
             /\ is_valid(v) => Len(t.int) <= MaxIntegerDigits
<1> DEFINE abs == IF v < 0 THEN -v ELSE v
           s == scale_factor   ip == abs \div s   fr == abs % s
           int == IF ip = 0 THEN <<0>> ELSE Digits(ip)
           trimmed == Trimmed(Padded(fr, Scale))
           frac == IF trimmed = <<>> THEN <<0>> ELSE trimmed
           t == [sign |-> IF v < 0 THEN "-" ELSE "", int |-> int, frac |-> frac]
<1>1. decimal_to_string(v) = t
  BY DEF decimal_to_string
<1>2. /\ v \in (-Sign)..(Sign - 1) /\ Sign \in Nat \ {0} /\ max_int = Sign - 1
      /\ s \in Nat \ {0} /\ abs \in 0..(Sign - 1)
  <2>1. /\ v \in (-Sign)..(Sign - 1) /\ Sign \in Nat \ {0} /\ max_int = Sign - 1
        /\ s \in Nat \ {0}
    BY RawIs, Widths
  <2> QED BY <2>1
<1>3. ip \in 0..Sign /\ fr \in Nat /\ fr < s /\ abs = ip * s + fr
  <2> HIDE DEF abs, s
  <2>1. abs \in Nat /\ s \in Nat \ {0}
    BY <1>2
  <2>2. abs \div s \in Nat /\ abs % s \in 0..(s - 1) /\ abs = (abs \div s) * s + (abs % s)
        /\ abs \div s <= abs
    BY <2>1, QuotNat
  <2> QED BY <1>2, <2>1, <2>2
<1>4. /\ int \in Seq(0..9) /\ Number(int) = ip
      /\ \A k \in 1..MaxDigits : ip < Ten(k) => Len(int) <= k
  <2> HIDE DEF ip
  <2> QED BY <1>3, IntegerText
<1>5. /\ frac \in Seq(0..9) /\ Len(frac) \in 0..Scale
      /\ Number(frac) * Ten(Scale - Len(frac)) = fr
  <2> HIDE DEF fr
  <2> QED BY <1>3, FractionText
<1> HIDE DEF abs, s, ip, fr, int, frac
<1>6. ASSUME Len(int) <= MaxIntegerDigits
      PROVE  parse_decimal_t(t) = Parsed(v)
  <2>1. t.int = int /\ t.frac = frac /\ t.sign = IF v < 0 THEN "-" ELSE ""
    OBVIOUS
  <2>2. Scale \in Nat /\ Len(frac) <= Scale
    BY <1>5, ScaleIs
  <2>3. Number(int) * scale_factor + Number(frac) * Ten(Scale - Len(frac)) = abs
    BY <1>3, <1>4, <1>5 DEF s
  <2>4. abs < Sign
    BY <1>2
  <2> HIDE DEF t
  <2>5. parse_decimal_t(t) = Parsed(IF t.sign = "-" THEN -abs ELSE abs)
    BY <1>4, <1>5, <1>6, <2>1, <2>2, <2>3, <2>4, ParsedIs
  <2>6. (IF t.sign = "-" THEN -abs ELSE abs) = v
    <3>1. CASE v < 0
      BY <1>2, <2>1, <3>1 DEF abs
    <3>2. CASE ~ (v < 0)
      BY <1>2, <2>1, <3>2 DEF abs
    <3> QED BY <3>1, <3>2
  <2> QED BY <2>5, <2>6
<1>7. ASSUME is_valid(v) PROVE Len(int) <= MaxIntegerDigits
  <2> DEFINE d == MaxIntegerDigits - 1   p == Ten(d)
  <2>1. /\ MaxIntegerDigits \in 1..MaxDigits /\ max_raw = s * p
    BY ScaleIs DEF s
  <2>2. d \in 0..MaxDigits /\ d < MaxDigits /\ d + 1 = MaxIntegerDigits /\ MaxDigits \in Nat
    BY <2>1, TenIs
  <2>3. p \in Nat \ {0} /\ Ten(MaxIntegerDigits) = 10 * p
    BY <2>2, TenIs
  <2>4. abs <= s * p
    BY <1>2, <1>7, <2>1, <2>3, Widths DEF abs, is_valid
  <2> HIDE DEF p
  <2>5. ip <= p
    <3> SUFFICES ASSUME ip >= p + 1 PROVE FALSE
      BY <1>2, <1>3, <2>3
    <3>1. ip * s >= (p + 1) * s /\ (p + 1) * s = s * p + s
      BY <1>2, <1>3, <2>3
    <3> DEFINE x == ip * s   y == s * p   z == (p + 1) * s
    <3>2. x \in Int /\ y \in Int /\ z \in Int
      BY <1>2, <1>3, <2>3
    <3>3. x >= z /\ z = y + s /\ abs = x + fr /\ abs <= y
      BY <1>3, <2>4, <3>1
    <3> HIDE DEF x, y, z
    <3> QED BY <1>2, <1>3, <3>2, <3>3
  <2>6. ip < Ten(MaxIntegerDigits)
    BY <1>2, <1>3, <2>3, <2>5
  <2> QED BY <1>4, <2>1, <2>6
<1> HIDE DEF t
<1>8. t.int = int
  BY DEF t
<1> QED BY <1>1, <1>6, <1>7, <1>8

\* What lies where in two sequences put together.
LEMMA Joins ==
  ASSUME NEW s \in Seq(Int), NEW t \in Seq(Int)
  PROVE  /\ s \o t \in Seq(Int) /\ Len(s \o t) = Len(s) + Len(t)
         /\ \A i \in 1..Len(s) : (s \o t)[i] = s[i]
         /\ \A i \in 1..Len(t) : (s \o t)[Len(s) + i] = t[i]
  OBVIOUS

\* One place to the left.
LEMMA ShiftOne ==
  ASSUME NEW e \in Int, e + 1 = 0
  PROVE  ~ (e >= 0) /\ 10^(-e) = 10
<1>1. ~ (e >= 0) /\ -e = 1
  OBVIOUS
<1>2. 10^1 = 10
  OBVIOUS
<1> QED BY <1>1, <1>2

\* What int128_to_scientific writes is the number itself.
LEMMA ScientificExact ==
  ASSUME NEW v \in Raw
  PROVE  LET s == int128_to_scientific(v)
             shift == s.exp - Len(s.frac)
             n == Number(s.int \o s.frac) * (IF s.sign = "-" THEN -1 ELSE 1)
         IN  IF shift >= 0 THEN n * 10^shift = v ELSE n = v * 10^(-shift)
<1>0. 10^1 = 10
  OBVIOUS
<1>1. CASE v = 0
  <2>1. int128_to_scientific(v) = [sign |-> "", int |-> <<0>>, frac |-> <<0>>, exp |-> 0]
    BY <1>1 DEF int128_to_scientific
  <2>2. Number(<<0>> \o <<0>>) = 0
    <3> DEFINE z == <<0>>
    <3>1. z \in Seq(Int) /\ Len(z) = 1
      OBVIOUS
    <3>2. Number(z) = 0
      <4>1. 0 \in 0..Sign
        BY Widths
      <4> QED BY <4>1, IntegerText
    <3>3. MaxDigits >= 1 /\ Ten(1) = 10
      BY TenIs, ScaleIs
    <3> HIDE DEF z
    <3>4. Number(z \o z) = Number(z) * Ten(1) + Number(z)
      BY <3>1, <3>3, NumberConcat
    <3> QED BY <3>2, <3>3, <3>4 DEF z
  <2> DEFINE s == int128_to_scientific(v)   e == s.exp - Len(s.frac)
             n == Number(s.int \o s.frac) * (IF s.sign = "-" THEN -1 ELSE 1)
  <2>3. Len(<<0>>) = 1
    OBVIOUS
  <2>4. s.exp = 0 /\ s.frac = <<0>> /\ s.int \o s.frac = <<0>> \o <<0>> /\ s.sign = ""
    <3> DEFINE z == <<0>>   r == [sign |-> "", int |-> z, frac |-> z, exp |-> 0]
    <3>0. s = r
      BY <2>1
    <3> HIDE DEF z
    <3>1. r.exp = 0 /\ r.frac = z /\ r.int = z /\ r.sign = ""
      OBVIOUS
    <3>2. s.exp = 0 /\ s.frac = z /\ s.int = z /\ s.sign = ""
      BY ONLY <3>0, <3>1
    <3> HIDE DEF s
    <3> QED BY ONLY <3>2 DEF z
  <2>5. e = 0 - 1
    BY <2>3, <2>4
  <2>6. n = 0
    <3>1. (IF s.sign = "-" THEN -1 ELSE 1) = 1
      BY <2>4
    <3>2. n = 0 * 1
      BY <2>2, <2>4, <3>1
    <3> QED BY <3>2
  <2> HIDE DEF s, e, n
  <2>7. e \in Int /\ e + 1 = 0
    BY <2>5
  <2>8. ~ (e >= 0) /\ 10^(-e) = 10
    BY <2>7, ShiftOne
  <2>9. n = v * 10
    BY <1>1, <2>6
  <2>10. IF e >= 0 THEN n * 10^e = v ELSE n = v * 10^(-e)
    BY ONLY <2>8, <2>9
  <2> QED BY <2>10 DEF s, e, n
<1>2. CASE v # 0
  <2> DEFINE u == to_unsigned(v)   digits == Digits(u)   rest == Trimmed(Tail(digits))
             sign == IF v < 0 THEN "-" ELSE ""
             frac == IF rest = <<>> THEN <<0>> ELSE rest
             r == [sign |-> sign, int |-> <<Head(digits)>>, frac |-> frac, exp |-> Len(digits) - 1]
  <2>1. int128_to_scientific(v) = r
    BY <1>2 DEF int128_to_scientific
  <2>2. u \in 0..Sign /\ u \in Nat \ {0} /\ v \in Int /\ v = u * (IF sign = "-" THEN -1 ELSE 1)
    <3>1. u = Magnitude(v) /\ u \in 0..Sign /\ v \in (-Sign)..(Sign - 1) /\ Sign \in Nat
      BY UnsignedIs, RawIs, Widths
    <3> HIDE DEF u
    <3>2. CASE v < 0
      BY <3>1, <3>2 DEF Magnitude
    <3>3. CASE ~ (v < 0)
      BY <1>2, <3>1, <3>3 DEF Magnitude
    <3> QED BY <3>2, <3>3
  <2>3. PICK L \in 0..MaxDigits :
          /\ digits = Padded(u, L) /\ u < Ten(L)
          /\ \A k \in 0..MaxDigits : u < Ten(k) => L <= k
    <3> HIDE DEF u
    <3> QED BY <2>2, DigitsIs
  <2> HIDE DEF u
  <2> DEFINE f == Heads(u, L)
  <2>4. /\ digits \in Seq(0..9) /\ digits \in Seq(Int) /\ Len(digits) = L
        /\ Reads(digits, f) /\ Number(digits) = u
    BY <2>2, <2>3, PaddedIs
  <2>5. L \in 1..MaxDigits /\ MaxDigits \in Nat
    <3>1. Ten(0) = 1 /\ MaxDigits \in Nat
      BY TenIs
    <3>2. L # 0
      BY <2>2, <2>3, <3>1
    <3> QED BY <3>1, <3>2
  <2> HIDE DEF digits, f
  <2> DEFINE tail == Tail(digits)   head == Head(digits)
  <2>6. /\ tail \in Seq(0..9) /\ Len(tail) = L - 1 /\ head = digits[1] /\ head \in 0..9
        /\ \A i \in 1..(L - 1) : tail[i] = digits[i + 1]
    <3>1. digits # <<>>
      BY <2>4, <2>5
    <3> QED BY <2>4, <2>5, <3>1, HeadTailProperties
  <2> HIDE DEF tail, head
  <2>7. PICK m \in 0..Len(tail) :
          /\ rest \in Seq(0..9) /\ Len(rest) = m
          /\ \A i \in 1..m : rest[i] = tail[i]
          /\ \A i \in (m + 1)..Len(tail) : tail[i] = 0
    BY <2>6, TrimmedIs DEF tail
  <2> HIDE DEF rest
  <2>8. m \in 0..(L - 1) /\ m + 1 \in 0..L /\ m + 1 <= L
    BY <2>5, <2>6, <2>7
  <2> DEFINE front == <<head>> \o rest
  <2>9. /\ front \in Seq(Int) /\ Len(front) = m + 1
        /\ \A i \in 1..(m + 1) : front[i] = digits[i]
    <3>1. <<head>> \in Seq(Int) /\ Len(<<head>>) = 1 /\ <<head>>[1] = head
      BY <2>6
    <3>2. rest \in Seq(Int)
      <4>1. 0..9 \subseteq Int
        OBVIOUS
      <4> QED BY <2>7, <4>1, SeqMonotonic
    <3>3. /\ front \in Seq(Int) /\ Len(front) = 1 + m
          /\ \A i \in 1..1 : front[i] = <<head>>[i]
          /\ \A i \in 1..m : front[1 + i] = rest[i]
      <4> DEFINE h == <<head>>
      <4>1. h \in Seq(Int) /\ Len(h) = 1
        BY <3>1
      <4> HIDE DEF h
      <4>2. /\ h \o rest \in Seq(Int) /\ Len(h \o rest) = Len(h) + Len(rest)
            /\ \A i \in 1..Len(h) : (h \o rest)[i] = h[i]
            /\ \A i \in 1..Len(rest) : (h \o rest)[Len(h) + i] = rest[i]
        BY ONLY <3>2, <4>1, Joins
      <4> QED BY <2>7, <4>1, <4>2 DEF h
    <3> HIDE DEF front
    <3>4. ASSUME NEW i \in 1..(m + 1) PROVE front[i] = digits[i]
      <4>1. CASE i = 1
        <5>1. front[1] = head
          BY <3>1, <3>3
        <5> QED BY <2>6, <4>1, <5>1
      <4>2. CASE i # 1
        <5>1. i - 1 \in 1..m /\ 1 + (i - 1) = i /\ (i - 1) + 1 = i /\ i - 1 \in 1..(L - 1)
          BY <2>8, <4>2
        <5>2. front[1 + (i - 1)] = rest[i - 1] /\ rest[i - 1] = tail[i - 1]
          BY <2>7, <3>3, <5>1
        <5>3. tail[i - 1] = digits[(i - 1) + 1]
          BY <2>6, <5>1
        <5> QED BY <5>1, <5>2, <5>3
      <4> QED BY <4>1, <4>2
    <3>5. 1 + m = m + 1
      BY <2>8
    <3> QED BY <3>3, <3>4, <3>5
  <2> HIDE DEF front
  <2>10. Number(front) = f[m + 1] /\ f[L] = u
    <3>1. Len(front) <= Len(digits) /\ \A i \in 1..Len(front) : front[i] = digits[i]
      BY <2>4, <2>8, <2>9
    <3>2. Number(front) = f[Len(front)]
      BY <2>4, <2>9, <3>1, ReadsPrefix
    <3>3. Number(digits) = f[Len(digits)]
      BY <2>4, ReadsNumber
    <3> QED BY <2>4, <2>9, <3>2, <3>3
  <2>11. u = Number(front) * Ten(L - (m + 1)) /\ Number(front) \in Int
    <3>1. \A i \in ((m + 1) + 1)..Len(digits) : digits[i] = 0
      <4> SUFFICES ASSUME NEW i \in ((m + 1) + 1)..Len(digits) PROVE digits[i] = 0
        OBVIOUS
      <4>1. i - 1 \in (m + 1)..Len(tail) /\ (i - 1) + 1 = i /\ i - 1 \in 1..(L - 1)
        BY <2>4, <2>5, <2>6, <2>8
      <4>2. tail[i - 1] = 0 /\ tail[i - 1] = digits[(i - 1) + 1]
        BY <2>6, <2>7, <4>1
      <4> QED BY <4>1, <4>2
    <3>2. Len(digits) <= MaxDigits /\ m + 1 \in 0..Len(digits)
      BY <2>4, <2>5, <2>8
    <3>3. f[Len(digits)] = f[m + 1] * Ten(Len(digits) - (m + 1))
      BY <2>4, <3>1, <3>2, ReadsZeros
    <3>4. f[m + 1] \in Int
      BY <2>4, <3>2 DEF Reads
    <3> QED BY <2>4, <2>10, <3>3, <3>4
  <2> DEFINE one == IF sign = "-" THEN -1 ELSE 1
             x == Number(front)
  <2>12. one \in Int /\ x \in Int /\ v = u * one
    BY <2>2, <2>11
  <2>13. r.sign = sign /\ r.int = <<head>> /\ r.frac = frac /\ r.exp = L - 1
    BY <2>4 DEF head
  <2>14. CASE rest # <<>>
    <3>1. frac = rest /\ r.int \o r.frac = front /\ r.exp - Len(r.frac) = L - (m + 1)
          /\ L - (m + 1) >= 0 /\ L - (m + 1) \in 0..MaxDigits
      BY <2>5, <2>7, <2>8, <2>13, <2>14 DEF front
    <3> DEFINE p == Ten(L - (m + 1))
    <3>2. p \in Nat /\ u = x * p
      BY <2>11, <3>1, TenIs
    <3> HIDE DEF p, one, x
    <3>3. (x * one) * p = (x * p) * one
      BY <2>12, <3>2
    <3>4. (x * one) * p = v
      BY <2>12, <3>2, <3>3
    <3> HIDE DEF r
    <3> QED BY <2>1, <2>13, <3>1, <3>4 DEF p, x, one, Ten
  <2>15. CASE rest = <<>>
    <3>1. m = 0 /\ frac = <<0>> /\ front = <<head>>
      BY <2>6, <2>7, <2>15 DEF front
    <3>2. Number(<<head>> \o <<0>>) = x * 10
      <4>1. Number(<<0>>) = 0
        <5>1. 0 \in 0..Sign
          BY Widths
        <5> QED BY <5>1, IntegerText
      <4> DEFINE z == <<0>>
      <4>2. z \in Seq(Int) /\ Len(z) = 1 /\ Number(z) = 0
        BY <4>1
      <4>3. MaxDigits >= 1 /\ Ten(1) = 10
        BY <2>5, TenIs
      <4> HIDE DEF z, x
      <4>4. Number(front \o z) = Number(front) * Ten(1) + Number(z)
        BY <2>9, <4>2, <4>3, NumberConcat
      <4>5. x * 10 + 0 = x * 10
        BY <2>12
      <4> QED BY <3>1, <4>2, <4>3, <4>4, <4>5 DEF z, x
    <3>3. Len(<<0>>) = 1
      OBVIOUS
    <3>4. r.int \o r.frac = <<head>> \o <<0>> /\ r.exp - Len(r.frac) = L - 2
      <4>1. r.int = <<head>> /\ r.frac = <<0>> /\ r.exp = L - 1
        BY <2>13, <3>1
      <4>2. (L - 1) - 1 = L - 2
        BY <2>5
      <4> HIDE DEF r
      <4>3. r.exp - Len(r.frac) = (L - 1) - 1
        BY ONLY <3>3, <4>1
      <4> QED BY ONLY <4>1, <4>2, <4>3
    <3>5. u = x * Ten(L - 1)
      BY <2>11, <3>1
    <3>6. CASE L = 1
      <4> DEFINE e == L - 2
      <4>1. e \in Int /\ e + 1 = 0 /\ L - 1 = 0
        BY <2>5, <3>6
      <4> HIDE DEF e, one, x
      <4>2. ~ (e >= 0) /\ 10^(-e) = 10
        BY <4>1, ShiftOne
      <4>3. u = x
        <5>1. Ten(L - 1) = 1
          BY <4>1, TenIs
        <5> QED BY <2>12, <3>5, <5>1
      <4>4. (x * 10) * one = v * 10
        BY <2>12, <4>3
      <4> HIDE DEF r
      <4>5. r.exp - Len(r.frac) = e /\ r.int \o r.frac = <<head>> \o <<0>>
        BY <3>4 DEF e
      <4> QED BY ONLY <2>1, <2>13, <3>2, <4>2, <4>4, <4>5 DEF one
    <3>7. CASE L # 1
      <4>1. L - 2 \in 0..MaxDigits /\ L - 2 < MaxDigits /\ (L - 2) + 1 = L - 1 /\ L - 2 >= 0
        BY <2>5, <3>7
      <4> DEFINE p == Ten(L - 2)
      <4>2. p \in Nat /\ Ten(L - 1) = 10 * p
        BY <4>1, TenIs
      <4> HIDE DEF p, one, x
      <4>3. ((x * 10) * one) * p = (x * (10 * p)) * one
        BY <2>12, <4>2
      <4>4. ((x * 10) * one) * p = v
        BY <2>12, <3>5, <4>2, <4>3
      <4> HIDE DEF r
      <4> QED BY <2>1, <2>13, <3>2, <3>4, <4>1, <4>4 DEF one, p, Ten
    <3> QED BY <3>6, <3>7
  <2> QED BY <2>14, <2>15
<1> QED BY <1>1, <1>2

\* A valid number is scaled up to the number it stands for.
LEMMA RescaleExact ==
  ASSUME NEW v \in Raw, NEW k \in 0..Scale, is_valid(v * 10^(Scale - k))
  PROVE  Rescale(v, k) = v * 10^(Scale - k)
<1> DEFINE p == 10^(Scale - k)   x == v * p
<1>1. k <= Scale /\ Scale - k \in 0..MaxDigits
  <2>1. Scale \in 1..MaxDigits /\ MaxDigits \in Nat
    BY ScaleIs, TenIs
  <2> QED BY <2>1
<1>2. p \in Nat
  <2>1. Ten(Scale - k) \in Nat
    BY <1>1, TenIs
  <2> QED BY <2>1 DEF Ten
<1>3. Rescale(v, k) = Wrap(x)
  BY <1>1 DEF Rescale
<1>4. is_valid(x)
  OBVIOUS
<1> HIDE DEF p
<1>5. x \in Int
  BY <1>2, RawIs, Widths
<1> HIDE DEF x
<1>6. /\ max_raw \in Nat /\ max_int = Sign - 1 /\ 2 * max_raw <= max_int /\ Sign \in Nat
  BY Widths, DecimalAssumption
<1>7. x \in (-Sign)..(Sign - 1)
  BY <1>4, <1>5, <1>6 DEF is_valid
<1>8. Wrap(x) = x
  BY <1>7, WrapIs
<1> QED BY <1>3, <1>8 DEF x, p

\* A first part of a sequence that is as long as it is the sequence.
LEMMA PrefixIs ==
  ASSUME NEW s \in Seq(Int), NEW n \in Nat
  PROVE  /\ Odd(Prefix(s, n)) => Odd(s)
         /\ Len(s) <= n => Prefix(s, n) = s
<1> DEFINE S == {Len(s), n}   m == Min(S)
<1>1. S \in SUBSET Nat /\ S # {}
  OBVIOUS
<1>2. m \in S /\ \A y \in S : m <= y
  BY <1>1, MinIs
<1>3. m \in 0..Len(s) /\ (Len(s) <= n => m = Len(s))
  BY <1>1, <1>2
<1>4. Prefix(s, n) = SubSeq(s, 1, m)
  BY DEF Prefix
<1> HIDE DEF m
<1>5. Len(SubSeq(s, 1, m)) = m /\ \A i \in 1..m : SubSeq(s, 1, m)[i] = s[i]
  BY <1>3
<1>6. SubSeq(s, 1, m) \in Seq(Int)
  BY <1>3
<1>7. Odd(Prefix(s, n)) => Odd(s)
  <2> SUFFICES ASSUME Odd(Prefix(s, n)) PROVE Odd(s)
    OBVIOUS
  <2>1. PICK i \in 1..m : SubSeq(s, 1, m)[i] \notin 0..9
    BY <1>4, <1>5, <1>6 DEF Odd
  <2>2. i \in 1..Len(s) /\ s[i] \notin 0..9
    BY <1>3, <1>5, <2>1
  <2> QED BY <2>2 DEF Odd
<1>8. SubSeq(s, 1, Len(s)) = s
  BY SubSeqFull
<1> QED BY <1>3, <1>4, <1>7, <1>8

\* A sequence of digits is no more than that.
LEMMA EvenIs ==
  ASSUME NEW s \in Seq(Int), ~ Odd(s)
  PROVE  s \in Seq(0..9)
<1>1. \A i \in 1..Len(s) : s[i] \in 0..9
  BY DEF Odd
<1> DEFINE N == Len(s)
<1>2. N \in Nat /\ s \in [1..N -> Int]
  OBVIOUS
<1> HIDE DEF N
<1>3. s \in [1..N -> 0..9]
  BY <1>1, <1>2 DEF N
<1>4. [1..N -> 0..9] \subseteq Seq(0..9)
  BY <1>2, SeqDef
<1> QED BY <1>3, <1>4

\* What is read of a text of digits that is not too long is its number.
LEMMA TextNumber ==
  ASSUME NEW t, t.int \in Seq(0..9), t.frac \in Seq(0..9),
         Len(t.int) <= MaxIntegerDigits, Len(t.frac) <= Scale
  PROVE  LET n == Number(t.int \o t.frac) * 10^(Scale - Len(t.frac))
         IN  parse_decimal_t(t) = Parsed(IF t.sign = "-" THEN -n ELSE n)
<1> DEFINE int == t.int   frac == t.frac   k == Len(frac)   l == Len(int)
           p == Ten(k)   q == Ten(Scale - k)   a == Number(int)   b == Number(frac)
           s == scale_factor   n == a * s + b * q   M == Ten(MaxIntegerDigits)
<1>1. /\ int \in Seq(0..9) /\ frac \in Seq(0..9) /\ int \in Seq(Int) /\ frac \in Seq(Int)
      /\ k \in Nat /\ l \in Nat
  <2>1. 0..9 \subseteq Int
    OBVIOUS
  <2>2. int \in Seq(Int) /\ frac \in Seq(Int)
    BY <2>1, SeqMonotonic
  <2> QED BY <2>2
<1>2. /\ Scale \in 1..MaxDigits /\ MaxIntegerDigits \in 1..MaxDigits /\ MaxDigits \in Nat
      /\ s = Ten(Scale) /\ M * s <= Sign /\ Sign \in Nat
  <2>1. /\ Scale \in 1..MaxDigits /\ MaxIntegerDigits \in 1..MaxDigits /\ s = Ten(Scale)
        /\ Ten(MaxIntegerDigits + Scale) = M * Ten(Scale) /\ Ten(MaxIntegerDigits + Scale) <= Sign
    BY ScaleIs
  <2>2. MaxDigits \in Nat /\ Sign \in Nat
    BY TenIs, Widths
  <2> QED BY <2>1, <2>2
<1>3. k \in 0..MaxDigits /\ Scale - k \in 0..MaxDigits /\ l \in 0..MaxDigits
      /\ k + (Scale - k) = Scale /\ k + (Scale - k) <= MaxDigits
  BY <1>1, <1>2
<1>4. p \in Nat \ {0} /\ q \in Nat \ {0} /\ s = p * q /\ M \in Nat \ {0} /\ Ten(l) <= M
  <2>1. MaxIntegerDigits \in 0..MaxDigits
    BY <1>2
  <2>2. p \in Nat \ {0} /\ q \in Nat \ {0} /\ M \in Nat \ {0} /\ Ten(l) <= M
    BY <1>3, <2>1, TenIs
  <2>3. Ten(k + (Scale - k)) = p * q
    BY <1>3, TenIs
  <2> QED BY <1>2, <1>3, <2>2, <2>3
<1>5. a \in 0..(Ten(l) - 1) /\ b \in 0..(p - 1)
  <2>1. Len(int) <= MaxDigits /\ Len(frac) <= MaxDigits
    BY <1>3
  <2> QED BY <1>1, <2>1, NumberBelow
<1>6. a \in 0..(M - 1)
  <2>1. Ten(l) \in Nat
    BY <1>3, TenIs
  <2> DEFINE x == Ten(l)
  <2> HIDE DEF x, M, a
  <2>2. x \in Nat /\ a \in 0..(x - 1) /\ x <= M /\ M \in Nat
    BY <1>4, <1>5, <2>1 DEF x
  <2> QED BY <2>2
<1>7. Number(int \o frac) = a * p + b
  <2>1. Len(frac) <= MaxDigits
    BY <1>3
  <2> QED BY <1>1, <2>1, NumberConcat
<1> HIDE DEF a, b, p, q, s, M
<1>8. (a * p + b) * q = n /\ n < Sign
  <2>1. a \in Nat /\ b \in Nat /\ b <= p - 1 /\ a <= M - 1 /\ p \in Nat \ {0} /\ q \in Nat \ {0}
        /\ s = p * q /\ M \in Nat \ {0}
    BY <1>4, <1>5, <1>6
  <2>2. (a * p + b) * q = a * (p * q) + b * q
    BY <2>1
  <2>3. b * q <= (p - 1) * q /\ (p - 1) * q = p * q - q
    BY <2>1
  <2>4. s \in Nat
    BY <2>1
  <2>5. a * s <= (M - 1) * s /\ (M - 1) * s = M * s - s
    BY <2>1, <2>4
  <2> DEFINE x == a * s   y == b * q   z == M * s
  <2>6. x \in Int /\ y \in Int /\ z \in Int
    BY <2>1, <2>4
  <2>7. x <= z - s /\ y <= s - q /\ z <= Sign
    BY <1>2, <2>1, <2>3, <2>5
  <2> HIDE DEF x, y, z
  <2>8. x + y < Sign
    BY <1>2, <2>1, <2>4, <2>6, <2>7
  <2> QED BY <2>1, <2>2, <2>8 DEF x, y
<1>9. parse_decimal_t(t) = Parsed(IF t.sign = "-" THEN -n ELSE n)
  <2>1. Number(t.int) * scale_factor + Number(t.frac) * Ten(Scale - Len(t.frac)) = n
    BY DEF a, b, q, s
  <2>2. n < Sign
    BY <1>8
  <2> HIDE DEF n
  <2> QED BY <1>1, <2>1, <2>2, ParsedIs
<1>10. Number(t.int \o t.frac) * 10^(Scale - Len(t.frac)) = n
  <2>1. Number(t.int \o t.frac) = a * p + b
    BY <1>7
  <2>2. 10^(Scale - Len(t.frac)) = q
    BY DEF q, Ten
  <2> QED BY <1>8, <2>1, <2>2
<1> HIDE DEF n
<1> QED BY <1>9, <1>10

\* Whatever is written in a text, it is read as its number or refused.
LEMMA TextsAreRead ==
  ASSUME NEW t, t.int \in Seq(Int), t.frac \in Seq(Int)
  PROVE  TextJudged(t)
<1> DEFINE int == t.int   frac == t.frac   k == Len(frac)   c == 2^CountBits
           p == parse_decimal_t(t)
           n == Number(int \o frac) * 10^(Scale - k)
           bad == Odd(int) \/ Odd(frac) \/ Len(int) > MaxIntegerDigits \/ k > Scale
<1> SUFFICES ASSUME k < c
             PROVE  IF bad THEN p.thrown \in {"invalid_argument", "overflow_error"}
                    ELSE p = Parsed(IF t.sign = "-" THEN -n ELSE n)
  BY DEF TextJudged
<1>1. /\ int \in Seq(Int) /\ frac \in Seq(Int) /\ k \in Nat /\ Len(int) \in Nat
      /\ MaxIntegerDigits + 1 \in Nat /\ MaxIntegerDigits \in Nat /\ c \in Nat \ {0} /\ Scale \in Nat
  BY ScaleIs, DecimalAssumption
<1>2. k % c = k
  <2>1. k \in 0..(c - 1)
    BY <1>1
  <2> HIDE DEF c
  <2> QED BY <1>1, <2>1, RemSmall
<1> DEFINE other ==
             LET res == Number(int) * scale_factor + Number(frac) * 10^(Scale - k)
             IN  IF Number(int) # 0 /\ Quot(Wrap(res), scale_factor) # Number(int)
                   THEN Thrown("overflow_error")
                 ELSE Parsed(IF t.sign = "-" THEN Wrap(-Wrap(res)) ELSE Wrap(res))
<1>3. p = IF Odd(Prefix(int, MaxIntegerDigits + 1)) THEN Thrown("invalid_argument")
          ELSE IF Len(int) > MaxIntegerDigits THEN Thrown("overflow_error")
          ELSE IF Odd(frac) \/ k > Scale THEN Thrown("invalid_argument")
          ELSE other
  <2>1. p = LET frac_digits == k % c
                res == Number(int) * scale_factor + Number(frac) * 10^(Scale - frac_digits)
            IN  IF Odd(Prefix(int, MaxIntegerDigits + 1)) THEN Thrown("invalid_argument")
                ELSE IF Len(int) > MaxIntegerDigits THEN Thrown("overflow_error")
                ELSE IF Odd(frac) \/ frac_digits > Scale THEN Thrown("invalid_argument")
                ELSE IF frac_digits # Len(frac) THEN Thrown("undefined")
                ELSE IF Number(int) # 0 /\ Quot(Wrap(res), scale_factor) # Number(int)
                  THEN Thrown("overflow_error")
                ELSE Parsed(IF t.sign = "-" THEN Wrap(-Wrap(res)) ELSE Wrap(res))
    BY DEF parse_decimal_t
  <2> HIDE DEF int, frac, p, c
  <2> QED BY <1>2, <2>1
<1>4. /\ Thrown("invalid_argument").thrown = "invalid_argument"
      /\ Thrown("overflow_error").thrown = "overflow_error"
  BY DEF Thrown
<1>5. /\ Odd(Prefix(int, MaxIntegerDigits + 1)) => Odd(int)
      /\ Len(int) <= MaxIntegerDigits + 1 => Prefix(int, MaxIntegerDigits + 1) = int
  BY <1>1, PrefixIs
<1> HIDE DEF other, p
<1>6. CASE bad
  <2>1. CASE Odd(Prefix(int, MaxIntegerDigits + 1))
    BY <1>3, <1>4, <1>6, <2>1
  <2>2. CASE ~ Odd(Prefix(int, MaxIntegerDigits + 1)) /\ Len(int) > MaxIntegerDigits
    BY <1>3, <1>4, <1>6, <2>2
  <2>3. CASE ~ Odd(Prefix(int, MaxIntegerDigits + 1)) /\ ~ (Len(int) > MaxIntegerDigits)
    <3>1. Len(int) <= MaxIntegerDigits + 1
      BY <1>1, <2>3
    <3>2. ~ Odd(int)
      BY <1>5, <2>3, <3>1
    <3> HIDE DEF int, frac, k
    <3>3. Odd(frac) \/ k > Scale
      BY <1>6, <2>3, <3>2
    <3> QED BY <1>3, <1>4, <1>6, <2>3, <3>3
  <2> QED BY <2>1, <2>2, <2>3
<1>7. CASE ~ bad
  <2>1. ~ Odd(int) /\ ~ Odd(frac) /\ Len(int) <= MaxIntegerDigits /\ k <= Scale
    BY <1>1, <1>7
  <2>2. int \in Seq(0..9) /\ frac \in Seq(0..9)
    BY <1>1, <2>1, EvenIs
  <2>3. p = Parsed(IF t.sign = "-" THEN -n ELSE n)
    BY <2>1, <2>2, TextNumber DEF p
  <2> HIDE DEF bad, n
  <2> QED BY <1>7, <2>3
<1> QED BY <1>6, <1>7

\* What is sent is read back.
LEMMA NumbersAreReadBack ==
  ASSUME NEW v
  PROVE  TextReadBack(v)
<1> SUFFICES ASSUME v \in Raw PROVE TextReadBack(v)
  BY DEF TextReadBack
<1> DEFINE text == decimal_to_string(v)
           Back == v > -max_int - 1 /\ Len(text.int) <= MaxIntegerDigits =>
                     parse_decimal_t(text) = Parsed(v)
           Short == is_valid(v) => Len(text.int) <= MaxIntegerDigits
           Scientific == LET s == int128_to_scientific(v)
                             shift == s.exp - Len(s.frac)
                             n == Number(s.int \o s.frac) * (IF s.sign = "-" THEN -1 ELSE 1)
                         IN  IF shift >= 0 THEN n * 10^shift = v ELSE n = v * 10^(-shift)
           Scaled == \A k \in 0..Scale :
                       is_valid(v) /\ is_valid(v * 10^(Scale - k)) =>
                         Rescale(v, k) = v * 10^(Scale - k)
<1>1. Back
  BY StringReadBack
<1>2. Short
  <2> SUFFICES ASSUME is_valid(v) PROVE Len(text.int) <= MaxIntegerDigits
    OBVIOUS
  <2>1. v > -max_int - 1
    <3>1. v \in Int /\ max_int \in Nat /\ max_raw \in Nat /\ 2 * max_raw <= max_int
      BY RawIs, Widths, DecimalAssumption
    <3> QED BY <3>1 DEF is_valid
  <2> QED BY <2>1, StringReadBack
<1>3. Scientific
  BY ScientificExact
<1>4. Scaled
  BY RescaleExact
<1> HIDE DEF Back, Short, Scientific, Scaled
<1>5. Back /\ Short /\ Scientific /\ Scaled
  BY <1>1, <1>2, <1>3, <1>4
<1> QED BY <1>5 DEF TextReadBack, Back, Short, Scientific, Scaled, text

\* Whatever number a decimal_t holds: to_string and parse_decimal_t (decimal.cpp)
\* bring it back, unless it is too long to be read, and no valid number is; the scientific form of int128_to_scientific and a change of scale are exact.
THEOREM NumbersReadBack == \A v : TextReadBack(v)
BY NumbersAreReadBack

\* Whatever characters a text consists of, parse_decimal_t returns the number that
\* it stands for or throws, as long as its fractional digits can be counted.
THEOREM TextsAreJudged ==
  \A sign : \A int, frac \in Seq(Int) : TextJudged([sign |-> sign, int |-> int, frac |-> frac])
<1> SUFFICES ASSUME NEW sign, NEW int \in Seq(Int), NEW frac \in Seq(Int)
             PROVE  TextJudged([sign |-> sign, int |-> int, frac |-> frac])
  OBVIOUS
<1> DEFINE t == [sign |-> sign, int |-> int, frac |-> frac]
<1>1. t.int \in Seq(Int) /\ t.frac \in Seq(Int)
  OBVIOUS
<1> HIDE DEF t
<1>2. TextJudged(t)
  BY <1>1, TextsAreRead
<1> QED BY <1>2 DEF t

\* The texts that are looked at consist of characters.
LEMMA CharactersAreInt == \A t \in Texts : t.int \in Seq(Int) /\ t.frac \in Seq(Int)
<1> SUFFICES ASSUME NEW t \in Texts PROVE t.int \in Seq(Int) /\ t.frac \in Seq(Int)
  OBVIOUS
<1>1. ASSUME NEW S \in SUBSET Int, NEW n, n \in Nat PROVE SeqOf(S, n) \subseteq Seq(Int)
  <2> SUFFICES ASSUME NEW s \in SeqOf(S, n) PROVE s \in Seq(Int)
    OBVIOUS
  <2>1. PICK m \in 0..n : s \in [1..m -> S]
    BY DEF SeqOf
  <2>2. m \in Nat
    BY <1>1
  <2>3. s \in [1..m -> Int]
    BY <1>1, <2>1
  <2> QED BY <2>2, <2>3, SeqDef
<1>2. {0, 9, 10} \in SUBSET Int /\ {0, 7, 10} \in SUBSET Int
  OBVIOUS
<1>3. MaxIntegerDigits + 2 \in Nat
  BY DecimalAssumption
<1>4. 2^CountBits + 1 \in Nat
  <2> DEFINE c == 2^CountBits
  <2>1. c \in Nat \ {0}
    BY ScaleIs
  <2> HIDE DEF c
  <2>2. c + 1 \in Nat
    BY <2>1
  <2> QED BY <2>2 DEF c
<1>5. t.int \in SeqOf({0, 9, 10}, MaxIntegerDigits + 2) /\ t.frac \in SeqOf({0, 7, 10}, 2^CountBits + 1)
  BY DEF Texts
<1> QED BY <1>1, <1>2, <1>3, <1>4, <1>5

\* The text that is looked at is made of characters.
TextGiven == entry.kind = "text" => entry.of.int \in Seq(Int) /\ entry.of.frac \in Seq(Int)

\* A price or a quantity is never another one: in the arithmetic of decimal_t, in
\* the text it is sent as, and in the text it is read from.
THEOREM NumbersAreRight == Spec => []DecimalRight
<1>1. Init => TextGiven
  BY DEF Init, NoEntry, TextGiven
<1>2. TextGiven /\ [Next]_vars => TextGiven'
  <2> SUFFICES ASSUME TextGiven, [Next]_vars PROVE TextGiven'
    OBVIOUS
  <2>1. CASE UNCHANGED entry
    BY <2>1 DEF TextGiven
  <2>2. CASE LookUp
    <3>1. ASSUME NEW t \in Texts, Look([kind |-> "text", of |-> t]) PROVE TextGiven'
      <4>1. t.int \in Seq(Int) /\ t.frac \in Seq(Int)
        BY CharactersAreInt
      <4> QED BY <3>1, <4>1 DEF Look, TextGiven
    <3>2. ASSUME NEW m, \/ Look([kind |-> "meta", of |-> m]) \/ Look([kind |-> "array", of |-> m])
                        \/ Look([kind |-> "enum", of |-> m]) \/ Look([kind |-> "topic", of |-> m])
                        \/ Look([kind |-> "event", of |-> m]) \/ Look([kind |-> "frame", of |-> m])
                        \/ Look([kind |-> "number", of |-> m])
          PROVE  TextGiven'
      BY <3>2 DEF Look, TextGiven
    <3> QED BY <2>2, <3>1, <3>2 DEF LookUp
  <2>3. \A t, given : RestCall(t, given) \/ RpcCall(t, given) => UNCHANGED entry
    BY DEF RestCall, RpcCall
  <2>4. RestAnswer \/ RpcStep \/ CombinedStep => UNCHANGED entry
    BY DEF RestAnswer, RpcStep, CombinedStep
  <2> QED BY <2>1, <2>2, <2>3, <2>4 DEF Next, vars
<1>3. TextGiven => DecimalRight
  <2> SUFFICES ASSUME TextGiven PROVE DecimalRight
    OBVIOUS
  <2>1. DecimalExact
    BY ArithmeticIsExact DEF DecimalExact
  <2>2. DecimalReadBack
    BY NumbersAreReadBack DEF DecimalReadBack
  <2>3. DecimalJudged
    BY TextsAreRead DEF DecimalJudged, TextGiven
  <2> QED BY <2>1, <2>2, <2>3 DEF DecimalRight
<1>4. Spec => []TextGiven
  BY <1>1, <1>2, PTL DEF Spec
<1> QED BY <1>3, <1>4, PTL
=============================================================================
