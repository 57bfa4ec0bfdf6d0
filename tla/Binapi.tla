------------------------------ MODULE Binapi ------------------------------
(***************************************************************************)
(* binapi, the first version of the library.  Its REST api and its         *)
(* websockets share nothing but the io_context that runs their handlers,   *)
(* one at a time: their states and steps are looked at one part at a time, *)
(* with the calls of the api, and the types they return, as a third part.  *)
(***************************************************************************)
EXTENDS BinapiRest, BinapiWebsockets, BinapiEndpoints, BinapiChannels, BinapiTypes,
        BinapiEnums

VARIABLES
    part,   \* the part that is looked at
    call,   \* the method called, with the arguments that are absent
    shown   \* the type, list, filter or enumeration that is converted, the channel
            \* that is opened, or the message of the user data channel

NoCall == [method |-> ping, absent |-> {}]

vars == <<restVars, websocketsVars, part, call, shown>>

Init ==
    /\ RestInit /\ WebsocketsInit /\ call = NoCall /\ shown = ""
    /\ part \in {"rest", "websockets", "calls", "types"}

RestStep ==
    /\ part = "rest" /\ RestNext
    /\ UNCHANGED <<websocketsVars, part, call, shown>>

OfWebsockets(A) ==
    part = "websockets" /\ A /\ UNCHANGED <<restVars, part, call, shown>>

WebsocketsStep == OfWebsockets(WebsocketsNext)

\* A method is called: any of its arguments may be null or zero.
Call(m) ==
    /\ part = "calls" /\ call = NoCall /\ shown = ""
    /\ \E absent \in SUBSET Range(m.params) :
           call' = [method |-> m, absent |-> absent]
    /\ UNCHANGED <<restVars, websocketsVars, part, shown>>

\* A value of one of the types is printed and read, or one of its names.
Convert(n) ==
    /\ part = "types" /\ shown = "" /\ shown' = n
    /\ UNCHANGED <<restVars, websocketsVars, part, call>>

Named == UNION {DOMAIN Types, DOMAIN Lists, DOMAIN Filters, DOMAIN Enums,
                DOMAIN Channels, UserMessages}

Next == RestStep \/ WebsocketsStep \/ (\E m \in Methods : Call(m))
        \/ \E n \in Named : Convert(n)

(***************************************************************************)
(* The io_context runs queued handlers, and a read on a closed websocket   *)
(* fails (see BinapiWebsockets).                                           *)
(***************************************************************************)
Spec ==
    /\ Init /\ [][Next]_vars
    /\ \A s \in Socket :
         /\ WF_vars(OfWebsockets(Run(s)))
         /\ WF_vars(OfWebsockets(link[s] = "closed" /\ Complete(s, "error")))

-----------------------------------------------------------------------------
\* The signature of a call is made over every parameter that is sent and over
\* nothing else, in the order in which they are sent, the last one being the
\* signature itself; a call that is not signed carries no time stamp.  Whatever
\* arguments are absent, impl::post sends none of them.
SignedAsSent ==
  part = "calls" =>
    LET r == Build(call.method, call.absent)
        sent == r.target \o r.body
    IN  /\ IF call.method.signed THEN sent = Append(r.over, "signature")
           ELSE Range(sent) \cap {"timestamp", "recvWindow", "signature"} = {}
        /\ Range(sent) \cap call.absent = {}
        /\ r.target = <<>> \/ r.body = <<>>

(***************************************************************************)
(* What operator<< prints is not what construct() reads: the member ok of  *)
(* four answers; a balance, whose construct() returns an empty object; the *)
(* four flags of a symbol that are never read; the permissions, read of    *)
(* each symbol and printed beside the symbols; a trade and an aggregated   *)
(* trade, read from the first element of an array and printed as an        *)
(* object, the latter under other keys; the levels of the two depth        *)
(* streams, which are not printed; a candle of the stream, read from the   *)
(* object k and printed flat; and the event time of a mini ticker, printed *)
(* under "E:".                                                             *)
(***************************************************************************)
Lossy == {"ping_t", "new_test_order_info_t", "ping_user_data_stream_t",
    "close_user_data_stream_t", "account_info_t_balance_t",
    "exchange_symbol_t", "exchange_info_t", "trades_t_trade_t",
    "agg_trades_t_agg_trade_t", "ws_part_depths_t_depth_t",
    "ws_diff_depths_t_depth_t", "ws_kline_t", "ws_mini_ticker_t"}

\* Every type of types.hpp but the ones above is read back as it was printed:
\* construct() sets every declared member, from a key that no other member is
\* read from and under which operator<< prints that member.  The ones above are
\* not.  A list reads of each element what the element prints, except the
\* aggregated trades and the mini tickers, whose elements have other keys; and a
\* filter's filterType chooses the case that reads its members.  This is about
\* members and keys; how a value is written, and the commas, are not looked at.
TypesReadBack ==
    /\ shown \in DOMAIN Types =>
         LET t == Types[shown]
         IN  /\ shown \in Lossy <=> t.read # t.printed
             /\ shown \notin Lossy => DOMAIN t.read = t.members
             /\ \A m, o \in DOMAIN t.read : t.read[m] = t.read[o] => m = o
    /\ shown \in DOMAIN Lists =>
         (shown \in {"agg_trades_t", "ws_mini_tickers_t"}
            <=> Lists[shown].read # Lists[shown].item.printed)
    /\ shown \in DOMAIN Filters =>
         LET f == Filters[shown]
         IN  f.printed = f.members /\ filters[f.tag] = f.members

\* The name of an enumerator is read back as that enumerator, so the side, the
\* type and the time in force of an order reach the exchange as they were
\* meant.  Not so e_trade_resp_type::ACK: it is named "ASK", which nothing reads.
EnumsReadBack ==
    shown \in DOMAIN Enums =>
        LET e == Enums[shown]
        IN  \A v \in e.values :
                v # "ACK" <=> e.to[v] \in DOMAIN e.from /\ e.from[e.to[v]] = v

\* An answer to a new order is read as what it is: the keys of a full answer
\* include those of a result, and a result's those of an acknowledgement, so
\* the order in which new_order_resp_type looks for them matters.
OrderAnswersApart ==
    shown \in OrderAnswers =>
        LET t == Types[shown]
        IN  new_order_resp_type({t.read[m] : m \in t.members \ {"ok"}}) = shown

\* Two calls open the same target only if they are the same call: each argument
\* is part of the target, and no two methods share one.
ChannelsApart ==
    shown \in DOMAIN Channels =>
        LET c == Channels[shown]
        IN  /\ c.args \subseteq Range(c.target)
            /\ \A o \in DOMAIN Channels \ {shown} : Channels[o].target # c.target

\* A user data channel that ends is told to every callback, and an event only to
\* its own; the channel is closed without a word for a list status alone.
UserdataTold ==
    shown \in UserMessages =>
        LET r == userdata_cb(shown)
        IN  /\ shown = "error" => r.told = UserCallbacks
            /\ r.told = {} => shown = "listStatus"
            /\ TRUE \in r.more => Cardinality(r.told) = 1
            /\ \A other \in UserMessages \ {shown, "error"} :
                  shown # "error" => userdata_cb(other).told \cap r.told = {}

\* The tables of the first version: what is printed is read as what it was, and
\* what is asked for is what is sent.
TablesReadBack ==
    TypesReadBack /\ EnumsReadBack /\ OrderAnswersApart /\ ChannelsApart /\ UserdataTold
=============================================================================
