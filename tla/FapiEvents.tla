----------------------------- MODULE FapiEvents -----------------------------
(***************************************************************************)
(* What the exchange pushes and how a message finds its type: the traits   *)
(* of the events (event_traits.hpp), the subscriptions with their topics   *)
(* (subscriptions.hpp, stream_traits.hpp) and the dispatch over the        *)
(* discriminator "e" (variant_parse.hpp, user_stream.hpp).                 *)
(***************************************************************************)
EXTENDS FapiEnums

Event(wire_name, enum_value) ==
    [wire_name |-> wire_name, enum_value |-> enum_value]

market_event_traits == [
    book_ticker_stream_event_t |-> Event("bookTicker", "book_ticker"),
    aggregate_trade_stream_event_t |-> Event("aggTrade", "agg_trade"),
    mark_price_stream_event_t |->
        Event("markPriceUpdate", "mark_price_update"),
    depth_stream_event_t |-> Event("depthUpdate", "depth_update"),
    mini_ticker_stream_event_t |->
        Event("24hrMiniTicker", "mini_ticker_24hr"),
    ticker_stream_event_t |-> Event("24hrTicker", "ticker_24hr"),
    liquidation_order_stream_event_t |-> Event("forceOrder", "force_order"),
    kline_stream_event_t |-> Event("kline", "kline"),
    continuous_contract_kline_stream_event_t |->
        Event("continuous_kline", "continuous_kline"),
    composite_index_stream_event_t |->
        Event("compositeIndex", "composite_index"),
    contract_info_stream_event_t |-> Event("contractInfo", "contract_info"),
    asset_index_stream_event_t |->
        Event("assetIndexUpdate", "asset_index_update"),
    trading_session_stream_event_t |->
        Event("tradingSession", "trading_session")]

user_event_traits == [
    account_update_event_t |-> Event("ACCOUNT_UPDATE", "account_update"),
    order_trade_update_event_t |->
        Event("ORDER_TRADE_UPDATE", "order_trade_update"),
    margin_call_event_t |-> Event("MARGIN_CALL", "margin_call"),
    listen_key_expired_event_t |->
        Event("listenKeyExpired", "listen_key_expired"),
    account_config_update_event_t |->
        Event("ACCOUNT_CONFIG_UPDATE", "account_config_update"),
    trade_lite_event_t |-> Event("TRADE_LITE", "trade_lite"),
    algo_order_update_event_t |-> Event("ALGO_UPDATE", "algo_update"),
    conditional_order_trigger_reject_event_t |->
        Event("CONDITIONAL_ORDER_TRIGGER_REJECT",
              "conditional_order_trigger_reject"),
    grid_update_event_t |-> Event("GRID_UPDATE", "grid_update"),
    strategy_update_event_t |-> Event("STRATEGY_UPDATE", "strategy_update")]

\* Faulty variant: one event has no entry.
user_event_mapping_Misses == <<
    "account_update_event_t", "order_trade_update_event_t",
    "listen_key_expired_event_t", "account_config_update_event_t",
    "trade_lite_event_t", "algo_order_update_event_t",
    "conditional_order_trigger_reject_event_t", "grid_update_event_t",
    "strategy_update_event_t">>

user_event_mapping == <<
    "account_update_event_t", "order_trade_update_event_t",
    "margin_call_event_t", "listen_key_expired_event_t",
    "account_config_update_event_t", "trade_lite_event_t",
    "algo_order_update_event_t", "conditional_order_trigger_reject_event_t",
    "grid_update_event_t", "strategy_update_event_t">>

-----------------------------------------------------------------------------
\* The fields of a subscription.
subscriptions == [
    aggregate_trade_subscription |-> {"symbol"},
    book_ticker_subscription |-> {"symbol"},
    mark_price_subscription |-> {"symbol", "every_1s"},
    diff_book_depth_subscription |-> {"symbol", "speed"},
    mini_ticker_subscription |-> {"symbol"},
    all_market_mini_ticker_subscription |-> {},
    ticker_subscription |-> {"symbol"},
    all_market_ticker_subscription |-> {},
    all_book_ticker_subscription |-> {},
    liquidation_order_subscription |-> {"symbol"},
    all_market_liquidation_order_subscription |-> {},
    partial_book_depth_subscription |-> {"symbol", "levels", "speed"},
    kline_subscription |-> {"symbol", "interval"},
    continuous_contract_kline_subscription |->
        {"pair", "contract_type", "interval"},
    all_market_mark_price_subscription |-> {"every_1s"},
    composite_index_subscription |-> {"symbol"},
    contract_info_subscription |-> {},
    asset_index_subscription |-> {"symbol"},
    all_asset_index_subscription |-> {},
    trading_session_subscription |-> {},
    rpi_diff_book_depth_subscription |-> {"symbol"}]

(***************************************************************************)
(* The URL category of a subscription, the type of its events, and its     *)
(* topic: literal parts and, by name, the fields that are written between  *)
(* them.  Arrays: the type is a std::vector of the event, which has no       *)
(* event_traits, so it cannot be part of a combined stream.                *)
(***************************************************************************)
\* Faulty variant: a topic ends with its first literal part.
Stream_Cut(category, event_type, topic) ==
    [category |-> category, event_type |-> event_type,
     topic |-> IF Len(topic) > 2 THEN SubSeq(topic, 1, 2) ELSE topic,
     vector |-> FALSE]

Stream(category, event_type, topic) ==
    [category |-> category, event_type |-> event_type, topic |-> topic,
     vector |-> FALSE]
Arrays(category, event_type, topic) ==
    [category |-> category, event_type |-> event_type, topic |-> topic,
     vector |-> TRUE]

symbol_stream_traits == [
    aggregate_trade_subscription |->
        Stream("market", "aggregate_trade_stream_event_t",
               <<"symbol", "@aggTrade">>),
    book_ticker_subscription |->
        Stream("public_", "book_ticker_stream_event_t",
               <<"symbol", "@bookTicker">>),
    mark_price_subscription |->
        Stream("market", "mark_price_stream_event_t",
               <<"symbol", "@markPrice", "every_1s">>),
    mini_ticker_subscription |->
        Stream("market", "mini_ticker_stream_event_t",
               <<"symbol", "@miniTicker">>),
    ticker_subscription |->
        Stream("market", "ticker_stream_event_t", <<"symbol", "@ticker">>),
    diff_book_depth_subscription |->
        Stream("public_", "depth_stream_event_t",
               <<"symbol", "@depth@", "speed">>),
    partial_book_depth_subscription |->
        Stream("public_", "depth_stream_event_t",
               <<"symbol", "@depth", "levels", "@", "speed">>),
    kline_subscription |->
        Stream("market", "kline_stream_event_t",
               <<"symbol", "@kline_", "interval">>),
    liquidation_order_subscription |->
        Stream("market", "liquidation_order_stream_event_t",
               <<"symbol", "@forceOrder">>),
    composite_index_subscription |->
        Stream("market", "composite_index_stream_event_t",
               <<"symbol", "@compositeIndex">>),
    asset_index_subscription |->
        Stream("market", "asset_index_stream_event_t",
               <<"symbol", "@assetIndex">>),
    rpi_diff_book_depth_subscription |->
        Stream("public_", "depth_stream_event_t", <<"symbol", "@rpiDepth">>)]

all_market_stream_traits == [
    all_market_mini_ticker_subscription |->
        Arrays("market", "mini_ticker_stream_event_t",
               <<"!miniTicker@arr">>),
    all_market_ticker_subscription |->
        Arrays("market", "ticker_stream_event_t", <<"!ticker@arr">>),
    all_book_ticker_subscription |->
        Stream("public_", "book_ticker_stream_event_t", <<"!bookTicker">>),
    all_market_liquidation_order_subscription |->
        Stream("market", "liquidation_order_stream_event_t",
               <<"!forceOrder@arr">>),
    all_market_mark_price_subscription |->
        Arrays("market", "mark_price_stream_event_t",
               <<"!markPrice@arr", "every_1s">>),
    contract_info_subscription |->
        Stream("market", "contract_info_stream_event_t",
               <<"!contractInfo">>),
    all_asset_index_subscription |->
        Arrays("market", "asset_index_stream_event_t",
               <<"!assetIndex@arr">>),
    trading_session_subscription |->
        Stream("market", "trading_session_stream_event_t",
               <<"!tradingSession">>),
    continuous_contract_kline_subscription |->
        Stream("market", "continuous_contract_kline_stream_event_t",
               <<"pair", "_", "contract_type", "@continuousKline_",
                 "interval">>)]

stream_traits ==
    [s \in DOMAIN symbol_stream_traits \cup DOMAIN all_market_stream_traits |->
        IF s \in DOMAIN symbol_stream_traits THEN symbol_stream_traits[s]
                                             ELSE all_market_stream_traits[s]]

-----------------------------------------------------------------------------
\* Faulty variant: every entry whose struct has an "e" is a candidate.
parse_variant_First(e, mapping, traits, meta) ==
    IF mapping = <<>> \/ read(e, meta) = {} THEN "nullopt" ELSE Head(mapping)

\* parse_variant: the discriminator becomes an enumerator, and the first entry
\* of the table that has it gives the type; "nullopt" if there is none.
parse_variant(e, mapping, traits, meta) ==
    LET hits == {i \in DOMAIN mapping :
                    traits[mapping[i]].enum_value \in read(e, meta)}
    IN  IF hits = {} THEN "nullopt"
        ELSE mapping[CHOOSE i \in hits : \A j \in hits : i <= j]
-----------------------------------------------------------------------------
\* Faulty variant: one event has no entry.
market_event_mapping_Misses == <<
    "book_ticker_stream_event_t", "aggregate_trade_stream_event_t",
    "mark_price_stream_event_t", "depth_stream_event_t",
    "mini_ticker_stream_event_t", "ticker_stream_event_t",
    "liquidation_order_stream_event_t", "kline_stream_event_t",
    "composite_index_stream_event_t", "contract_info_stream_event_t",
    "asset_index_stream_event_t", "trading_session_stream_event_t">>

market_event_mapping == <<
    "book_ticker_stream_event_t", "aggregate_trade_stream_event_t",
    "mark_price_stream_event_t", "depth_stream_event_t",
    "mini_ticker_stream_event_t", "ticker_stream_event_t",
    "liquidation_order_stream_event_t", "kline_stream_event_t",
    "continuous_contract_kline_stream_event_t",
    "composite_index_stream_event_t", "contract_info_stream_event_t",
    "asset_index_stream_event_t", "trading_session_stream_event_t">>

\* basic_dynamic_market_stream::async_read_event: a frame with a topic is an
\* event, unless its data is an array (the "e" of its elements is not at the
\* top level) or has no entry; any other frame with an id is a control
\* response, the refusal of a request too, because result is optional.
async_read_event(frame) ==
    CASE frame.kind = "data" /\ ~frame.array ->
           parse_variant(frame.e, market_event_mapping, market_event_traits,
                         market_event_type_t_meta)
      [] frame.kind \in {"accepted", "refused"} -> "control_response_t"
      [] OTHER -> "nullopt"
=============================================================================
