------------------------------- MODULE Fapi -------------------------------
(***************************************************************************)
(* The USD-M futures client as a whole, above its transports: a REST call, *)
(* a WebSocket API session, a combined stream, and the tables of types,    *)
(* names and topics that they share.  The parts have no state in common    *)
(* and are looked at one at a time.                                        *)
(***************************************************************************)
EXTENDS FapiRequest, FapiStreamEvents, WebsocketApiClient, CombinedMarketStream, Decimal

VARIABLES
    part,      \* "rest", "rpc", "combined" or "tables"
    request,   \* the REST or RPC request made, with what is set in it
    answer,    \* the answer to the REST request, and what the caller is told
    entry      \* the entry of the tables that is looked at

vars == <<clientVars, combinedVars, part, request, answer, entry>>

NoRequest == [kind |-> "none"]
NoAnswer == [kind |-> "none"]
NoEntry == [kind |-> "none"]

Init ==
    /\ part \in {"rest", "rpc", "combined", "tables"}
    /\ ClientInit
    /\ IF part = "combined" THEN CombinedInit
       ELSE /\ category_ = "public_" /\ subs = <<>> /\ at = "connect"
            /\ failed = 0 /\ last_error = "unset" /\ yields = <<>>
    /\ request = NoRequest /\ answer = NoAnswer /\ entry = NoEntry

\* The optional members that are set: none, one, or all of them.
Given(r) == {{}, r.optional} \cup {{m} : m \in r.optional}

\* service::async_execute.
RestCall(t, given) ==
    /\ part = "rest" /\ request = NoRequest
    /\ request' = [kind |-> "rest", traits |-> t, given |-> given]
    /\ UNCHANGED <<clientVars, combinedVars, part, answer, entry>>

(***************************************************************************)
(* Where two request types share an endpoint, the one without a symbol is  *)
(* the question for all symbols, and its answer is an array.  The exchange *)
(* goes by the query it gets, not by the type that made it.                *)
(***************************************************************************)
Asked(t, given) ==
    IF \E u \in RestTraits : u.endpoint = t.endpoint /\ u.response.array
                             /\ Present(t.request, given) = {}
      THEN CHOOSE u \in RestTraits : u.endpoint = t.endpoint /\ u.response.array
      ELSE t

\* The response arrives and is decoded: the answer in full or without what is
\* optional, a refusal, an error page.
Answers(t, given) ==
    [doc : {OwnDocument(Asked(t, given).response, TRUE),
            OwnDocument(Asked(t, given).response, FALSE)},
     ok : {TRUE}, kind : {"own"}]
    \cup [doc : {ErrorDocument}, ok : BOOLEAN, kind : {"refusal"}]
    \cup [doc : {NotJson}, ok : BOOLEAN, kind : {"page"}]

RestAnswer ==
    /\ request.kind = "rest" /\ answer = NoAnswer
    /\ \E a \in Answers(request.traits, request.given) :
         answer' = [kind |-> a.kind, ok |-> a.ok,
                    told |-> decode_response(request.traits.response, a.ok, a.doc)]
    /\ UNCHANGED <<clientVars, combinedVars, part, request, entry>>

\* client::async_execute, or async_session_logon: the parameters of the call.
RpcCall(t, given) ==
    /\ part = "rpc" /\ request = NoRequest /\ Write
    /\ request' = [kind |-> "rpc", traits |-> t, given |-> given]
    /\ UNCHANGED <<combinedVars, part, answer, entry>>

RpcStep ==
    /\ part = "rpc" /\ ClientStep
    /\ request' = NoRequest
    /\ UNCHANGED <<combinedVars, part, answer, entry>>

CombinedStep ==
    /\ part = "combined" /\ CombinedNext
    /\ UNCHANGED <<clientVars, part, request, answer, entry>>

Metas == UNION {MarketDataMetas, TradeMetas, AccountMetas, StreamEventsMetas,
                WebsocketTypesMetas}
ArrayMetas == {<<price_level_t, price_level_t_meta>>, <<kline_t, kline_t_meta>>}

\* What a connection of a dynamic stream brings: the events of the
\* subscriptions, and the answers to SUBSCRIBE and UNSUBSCRIBE.
Frames ==
    {[kind |-> "data", of |-> stream_traits[s].event_type,
      array |-> stream_traits[s].vector,
      e |-> market_event_traits[stream_traits[s].event_type].wire_name] :
        s \in DOMAIN stream_traits}
    \cup {[kind |-> k] : k \in {"accepted", "refused", "odd"}}

Look(e) ==
    /\ entry' = e
    /\ UNCHANGED <<clientVars, combinedVars, part, request, answer>>

LookUp ==
    /\ part = "tables" /\ entry = NoEntry
    /\ \/ \E m \in Metas : Look([kind |-> "meta", of |-> m])
       \/ \E m \in ArrayMetas : Look([kind |-> "array", of |-> m])
       \/ \E e \in Enums : Look([kind |-> "enum", of |-> e])
       \/ \E s \in DOMAIN subscriptions : Look([kind |-> "topic", of |-> s])
       \/ \E e \in DOMAIN user_event_traits : Look([kind |-> "event", of |-> e])
       \/ \E f \in Frames : Look([kind |-> "frame", of |-> f])
       \/ \E n \in Raw \cup Edges : Look([kind |-> "number", of |-> n])
       \/ \E t \in Texts : Look([kind |-> "text", of |-> t])

Next ==
    \/ \E t \in RestTraits : \E given \in Given(t.request) : RestCall(t, given)
    \/ RestAnswer
    \/ \E t \in RpcTraits \cup {session_logon} : \E given \in Given(t.request) : RpcCall(t, given)
    \/ RpcStep
    \/ CombinedStep
    \/ LookUp

Spec == Init /\ [][Next]_vars

-----------------------------------------------------------------------------
\* Every request carries what its endpoint asks for, in the place the method
\* has for it: the signature covers all that is sent but itself, whatever
\* optional members are set, and no member of a request bears the name of an
\* authentication parameter, which would overwrite it.  An order of the
\* WebSocket API is signed with all its fields.
RequestSigned ==
    LET auth == {"recvWindow", "timestamp", "signature"}
        t == request.traits
        r == IF request.kind = "rest" THEN async_execute(t, request.given)
             ELSE LET p == rpc_params(t, request.given)
                  IN  [over |-> p.over, target |-> {}, body |-> p.query]
        sent == r.target \cup r.body
        signs == IF request.kind = "rest"
                   THEN t.endpoint.security \in {"trade", "user_data"}
                   ELSE t.auth \in {"inject", "signed_base", "logon"}
    IN  request.kind \in {"rest", "rpc"} =>
          /\ IF signs THEN auth \subseteq sent /\ r.over = sent \ {"signature"}
             ELSE sent \cap auth = {}
          /\ r.target = {} \/ r.body = {}
          /\ request.kind = "rest" =>
               /\ Members(t.request) \cap auth = {}
               /\ t.endpoint.requires_timestamp = signs

\* The members of t.request by which one object and an array are told apart.
SymbolLeftOut(t, given) ==
    ~t.response.array /\ Asked(t, given).response.array

\* A caller is told success if and only if the exchange did what was asked: a
\* refusal is never read as an answer, even with status 200, except where the
\* answer is itself {code, msg} or is not read at all; a complete answer is
\* never an error, except where a symbol is left out of a request whose
\* response is one object.
AnswerTold ==
    answer.kind # "none" =>
      LET t == request.traits
      IN  /\ answer.kind = "own" =>
               IF SymbolLeftOut(t, request.given) THEN answer.told = "json"
               ELSE answer.told = "success"
          /\ answer.kind # "own" /\ answer.told = "success" =>
               /\ answer.ok
               /\ t.response.type \in {code_msg_response_t, empty_response_t}
          /\ answer.kind = "refusal" /\ ~answer.ok => answer.told = "binance"

\* Every member of every type has one key of its own: what is missing from a
\* glz::meta is silently never read or sent, and of two members with one key
\* only one is.  The meta of an array has every member at one position.
MetaComplete ==
    LET t == entry.of[1]
        meta == entry.of[2]
    IN  /\ entry.kind \in {"meta", "array"} => IsInjective(meta)
        /\ entry.kind = "meta" => DOMAIN meta = Members(t)
        /\ entry.kind = "array" => Range(meta) = Members(t)

\* An enumerator is read back from the name it is sent under: no two share one
\* and none is without.
EnumRoundTrip ==
    entry.kind = "enum" =>
        \A v \in entry.of[1] :
            read(to_string(v, entry.of[2]), entry.of[2]) = {v}

\* No two subscriptions have the same topic, and a topic tells apart any two
\* subscriptions of its type: each field is part of it.
TopicsApart ==
    entry.kind = "topic" =>
        LET s == entry.of
        IN  /\ subscriptions[s] \subseteq Range(stream_traits[s].topic)
            /\ \A o \in DOMAIN subscriptions \ {s} :
                   stream_traits[o].topic # stream_traits[s].topic

\* A message of the user stream is parsed as the event that its "e" names: the
\* enumeration, the traits and the table agree on every one of them.
UserEventDispatched ==
    entry.kind = "event" =>
        parse_variant(user_event_traits[entry.of].wire_name,
                      user_event_mapping, user_event_traits,
                      user_event_type_t_meta) = entry.of

\* A frame of a dynamic stream is read as what it is: each event as the type
\* that its subscription is for, an answer as a control response, and nothing
\* else as either.  The arrays of the all-market subscriptions, which
\* async_subscribe takes like any other, can only be read as failures.
FrameTold ==
    entry.kind = "frame" =>
        LET f == entry.of
        IN  async_read_event(f) =
              (IF f.kind = "data" THEN IF f.array THEN "nullopt" ELSE f.of
               ELSE IF f.kind = "odd" THEN "nullopt" ELSE "control_response_t")

\* Multiplication, division and addition of any decimal_t with one at the edges
\* of the range, of the halves of a word or of the scale: nothing is lost or
\* wraps without being reported.
DecimalExact == entry.kind = "number" => ArithmeticExact(entry.of)

\* A decimal_t is read back from the text it is sent as.
DecimalReadBack == entry.kind = "number" => TextReadBack(entry.of)

\* A text is read as the number it stands for, or refused.
DecimalJudged == entry.kind = "text" => TextJudged(entry.of)

\* The three of them: a price or a quantity is never another one.
DecimalRight == DecimalExact /\ DecimalReadBack /\ DecimalJudged

\* Keys, names, topics and event types are told apart, each by the table that is
\* used for it.
TablesRight ==
    MetaComplete /\ EnumRoundTrip /\ TopicsApart /\ UserEventDispatched /\ FrameTold
=============================================================================
