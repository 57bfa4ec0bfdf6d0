-------------------------- MODULE BinapiChannels --------------------------
(***************************************************************************)
(* The channels of binapi::ws::websockets: the target each method opens,   *)
(* and what userdata() does with its messages.  A target is the sequence of*)
(* its parts, an argument is in braces.                                    *)
(***************************************************************************)
EXTENDS Sequences

\* make_channel_name: a pair, but none that starts with "!", is turned to lower
\* case before the channel is added, which keeps its case.
NoPair == ""
make_channel_name(pair, channel) ==
    <<"/ws/">> \o (CASE pair = NoPair -> <<>>
                     [] pair = "{pair}" -> <<"to_lower", pair, "@">>
                     [] OTHER -> <<pair, "@">>) \o channel

\* Faulty variant: every update speed of a channel has the same target.
part_depth_NoFreq == make_channel_name("{pair}", <<"depth", "{level}">>)

part_depth == make_channel_name("{pair}", <<"depth", "{level}", "@", "{freq}", "ms">>)
diff_depth == make_channel_name("{pair}", <<"depth@", "{freq}", "ms">>)
\* The sixteen intervals of the table; any other is an assertion.
ws_klines == make_channel_name("{pair}", <<"kline_", "{interval}">>)
ws_trade == make_channel_name("{pair}", <<"trade">>)
ws_agg_trade == make_channel_name("{pair}", <<"aggTrade">>)
mini_ticker == make_channel_name("{pair}", <<"miniTicker">>)
mini_tickers == make_channel_name("!miniTicker", <<"arr">>)
market == make_channel_name("{pair}", <<"ticker">>)
markets == make_channel_name("!ticker", <<"arr">>)
book == make_channel_name("{pair}", <<"bookTicker">>)
\* No pair: the listen key keeps its case.
userdata == make_channel_name(NoPair, <<"{lkey}">>)

\* Each channel with the arguments of its method.
Channels ==
    [part_depth |-> [target |-> part_depth, args |-> {"{pair}", "{level}", "{freq}"}],
     diff_depth |-> [target |-> diff_depth, args |-> {"{pair}", "{freq}"}],
     klines |-> [target |-> ws_klines, args |-> {"{pair}", "{interval}"}],
     trade |-> [target |-> ws_trade, args |-> {"{pair}"}],
     agg_trade |-> [target |-> ws_agg_trade, args |-> {"{pair}"}],
     mini_ticker |-> [target |-> mini_ticker, args |-> {"{pair}"}],
     mini_tickers |-> [target |-> mini_tickers, args |-> {}],
     market |-> [target |-> market, args |-> {"{pair}"}],
     markets |-> [target |-> markets, args |-> {}],
     book |-> [target |-> book, args |-> {"{pair}"}],
     userdata |-> [target |-> userdata, args |-> {"{lkey}"}]]

-----------------------------------------------------------------------------
UserCallbacks == {"account_update", "balance_update", "order_update"}

\* Faulty variant: an error is told to the first callback only.
userdata_cb_OneTold(what) ==
    CASE what = "error" -> [told |-> {"account_update"}, more |-> {FALSE}]
      [] what = "outboundAccountPosition" -> [told |-> {"account_update"}, more |-> BOOLEAN]
      [] what = "balanceUpdate" -> [told |-> {"balance_update"}, more |-> BOOLEAN]
      [] what = "executionReport" -> [told |-> {"order_update"}, more |-> BOOLEAN]
      [] OTHER -> [told |-> {}, more |-> {FALSE}]

\* The callback of a user data channel: who is told, and whether the channel may
\* stay open, which is the callback's answer.  A list status is not implemented:
\* without assertions nobody is told of it, and the channel is closed.
userdata_cb(what) ==
    CASE what = "error" -> [told |-> UserCallbacks, more |-> {FALSE}]
      [] what = "outboundAccountPosition" -> [told |-> {"account_update"}, more |-> BOOLEAN]
      [] what = "balanceUpdate" -> [told |-> {"balance_update"}, more |-> BOOLEAN]
      [] what = "executionReport" -> [told |-> {"order_update"}, more |-> BOOLEAN]
      [] OTHER -> [told |-> {}, more |-> {FALSE}]

UserMessages == {"error", "outboundAccountPosition", "balanceUpdate", "executionReport",
                 "listStatus"}
=============================================================================
