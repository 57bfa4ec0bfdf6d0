----------------------------- MODULE FapiEnums -----------------------------
(***************************************************************************)
(* The enumerations of types/enums.hpp: the enumerators of each and the    *)
(* glz::meta that lists, in order, wire names and what they stand for.     *)
(***************************************************************************)
EXTENDS Sequences, Integers, SequencesExt

security_type_t == {"none", "market_data", "user_stream", "user_data", "trade"}
security_type_t_meta == <<
    <<"none", "none">>, <<"market_data", "market_data">>,
    <<"user_stream", "user_stream">>, <<"user_data", "user_data">>,
    <<"trade", "trade">>>>
order_side_t == {"buy", "sell"}
\* Faulty variant: the second line was copied from the first.
order_side_t_meta_Copied == <<<<"BUY", "buy">>, <<"BUY", "sell">>>>
order_side_t_meta == <<<<"BUY", "buy">>, <<"SELL", "sell">>>>
order_type_t == {
    "limit", "market", "stop", "stop_market", "take_profit",
    "take_profit_market", "trailing_stop_market"}
order_type_t_meta == <<
    <<"LIMIT", "limit">>, <<"MARKET", "market">>, <<"STOP", "stop">>,
    <<"STOP_MARKET", "stop_market">>, <<"TAKE_PROFIT", "take_profit">>,
    <<"TAKE_PROFIT_MARKET", "take_profit_market">>,
    <<"TRAILING_STOP_MARKET", "trailing_stop_market">>>>
time_in_force_t == {"gtc", "ioc", "fok", "gtx", "gtd", "rpi"}
time_in_force_t_meta == <<
    <<"GTC", "gtc">>, <<"IOC", "ioc">>, <<"FOK", "fok">>, <<"GTX", "gtx">>,
    <<"GTD", "gtd">>, <<"RPI", "rpi">>>>
kline_interval_t == {
    "m1", "m3", "m5", "m15", "m30", "h1", "h2", "h4", "h6", "h8", "h12", "d1",
    "d3", "w1", "mo1"}
kline_interval_t_meta == <<
    <<"1m", "m1">>, <<"3m", "m3">>, <<"5m", "m5">>, <<"15m", "m15">>,
    <<"30m", "m30">>, <<"1h", "h1">>, <<"2h", "h2">>, <<"4h", "h4">>,
    <<"6h", "h6">>, <<"8h", "h8">>, <<"12h", "h12">>, <<"1d", "d1">>,
    <<"3d", "d3">>, <<"1w", "w1">>, <<"1M", "mo1">>>>
position_side_t == {"both", "long_side", "short_side"}
position_side_t_meta == <<
    <<"BOTH", "both">>, <<"LONG", "long_side">>, <<"SHORT", "short_side">>>>
working_type_t == {"mark_price_t", "contract_price"}
working_type_t_meta == <<
    <<"MARK_PRICE", "mark_price_t">>, <<"CONTRACT_PRICE", "contract_price">>>>
response_type_t == {"ack", "result"}
response_type_t_meta == <<<<"ACK", "ack">>, <<"RESULT", "result">>>>
margin_type_t == {"isolated", "crossed"}
margin_type_t_meta == <<
    <<"ISOLATED", "isolated">>, <<"CROSSED", "crossed">>,
    <<"isolated", "isolated">>, <<"cross", "crossed">>>>
futures_type_t == {"u_margined", "coin_margined"}
futures_type_t_meta == <<
    <<"U_MARGINED", "u_margined">>, <<"COIN_MARGINED", "coin_margined">>>>
position_control_side_t == {"none", "long_side", "short_side", "both"}
position_control_side_t_meta == <<
    <<"NONE", "none">>, <<"LONG", "long_side">>, <<"SHORT", "short_side">>,
    <<"BOTH", "both">>>>
trading_permission_t == {"grid", "copy", "dca", "rpi", "psb"}
trading_permission_t_meta == <<
    <<"GRID", "grid">>, <<"COPY", "copy">>, <<"DCA", "dca">>,
    <<"RPI", "rpi">>, <<"PSB", "psb">>>>
contract_type_t == {
    "perpetual", "current_month", "next_month", "current_quarter",
    "next_quarter", "perpetual_delivering", "current_quarter_delivering",
    "tradifi_perpetual"}
contract_type_t_meta == <<
    <<"PERPETUAL", "perpetual">>, <<"CURRENT_MONTH", "current_month">>,
    <<"NEXT_MONTH", "next_month">>, <<"CURRENT_QUARTER", "current_quarter">>,
    <<"NEXT_QUARTER", "next_quarter">>,
    <<"PERPETUAL_DELIVERING", "perpetual_delivering">>,
    <<"CURRENT_QUARTER DELIVERING", "current_quarter_delivering">>,
    <<"TRADIFI_PERPETUAL", "tradifi_perpetual">>>>
contract_status_t == {
    "pending_trading", "trading", "pre_delivering", "delivering", "delivered",
    "pre_settle", "settling", "close"}
contract_status_t_meta == <<
    <<"PENDING_TRADING", "pending_trading">>, <<"TRADING", "trading">>,
    <<"PRE_DELIVERING", "pre_delivering">>, <<"DELIVERING", "delivering">>,
    <<"DELIVERED", "delivered">>, <<"PRE_SETTLE", "pre_settle">>,
    <<"SETTLING", "settling">>, <<"CLOSE", "close">>>>
order_status_t == {
    "new_order", "partially_filled", "filled", "canceled", "rejected",
    "expired", "expired_in_match"}
order_status_t_meta == <<
    <<"NEW", "new_order">>, <<"PARTIALLY_FILLED", "partially_filled">>,
    <<"FILLED", "filled">>, <<"CANCELED", "canceled">>,
    <<"REJECTED", "rejected">>, <<"EXPIRED", "expired">>,
    <<"EXPIRED_IN_MATCH", "expired_in_match">>>>
stp_mode_t == {"none", "expire_taker", "expire_both", "expire_maker"}
stp_mode_t_meta == <<
    <<"NONE", "none">>, <<"EXPIRE_TAKER", "expire_taker">>,
    <<"EXPIRE_BOTH", "expire_both">>, <<"EXPIRE_MAKER", "expire_maker">>>>
price_match_t == {
    "none", "opponent", "opponent_5", "opponent_10", "opponent_20", "queue",
    "queue_5", "queue_10", "queue_20"}
price_match_t_meta == <<
    <<"NONE", "none">>, <<"OPPONENT", "opponent">>,
    <<"OPPONENT_5", "opponent_5">>, <<"OPPONENT_10", "opponent_10">>,
    <<"OPPONENT_20", "opponent_20">>, <<"QUEUE", "queue">>,
    <<"QUEUE_5", "queue_5">>, <<"QUEUE_10", "queue_10">>,
    <<"QUEUE_20", "queue_20">>>>
income_type_t == {
    "transfer", "welcome_bonus", "realized_pnl", "funding_fee", "commission",
    "insurance_clear", "referral_kickback", "commission_rebate", "api_rebate",
    "contest_reward", "cross_collateral_transfer", "options_premium_fee",
    "options_settle_profit", "internal_transfer", "auto_exchange",
    "delivered_settelment", "coin_swap_deposit", "coin_swap_withdraw",
    "position_limit_increase_fee"}
income_type_t_meta == <<
    <<"TRANSFER", "transfer">>, <<"WELCOME_BONUS", "welcome_bonus">>,
    <<"REALIZED_PNL", "realized_pnl">>, <<"FUNDING_FEE", "funding_fee">>,
    <<"COMMISSION", "commission">>, <<"INSURANCE_CLEAR", "insurance_clear">>,
    <<"REFERRAL_KICKBACK", "referral_kickback">>,
    <<"COMMISSION_REBATE", "commission_rebate">>,
    <<"API_REBATE", "api_rebate">>, <<"CONTEST_REWARD", "contest_reward">>,
    <<"CROSS_COLLATERAL_TRANSFER", "cross_collateral_transfer">>,
    <<"OPTIONS_PREMIUM_FEE", "options_premium_fee">>,
    <<"OPTIONS_SETTLE_PROFIT", "options_settle_profit">>,
    <<"INTERNAL_TRANSFER", "internal_transfer">>,
    <<"AUTO_EXCHANGE", "auto_exchange">>,
    <<"DELIVERED_SETTELMENT", "delivered_settelment">>,
    <<"COIN_SWAP_DEPOSIT", "coin_swap_deposit">>,
    <<"COIN_SWAP_WITHDRAW", "coin_swap_withdraw">>,
    <<"POSITION_LIMIT_INCREASE_FEE", "position_limit_increase_fee">>>>
futures_data_period_t == {
    "m5", "m15", "m30", "h1", "h2", "h4", "h6", "h12", "d1"}
futures_data_period_t_meta == <<
    <<"5m", "m5">>, <<"15m", "m15">>, <<"30m", "m30">>, <<"1h", "h1">>,
    <<"2h", "h2">>, <<"4h", "h4">>, <<"6h", "h6">>, <<"12h", "h12">>,
    <<"1d", "d1">>>>
execution_type_t == {
    "new_order", "partial_fill", "fill", "canceled", "rejected", "expired",
    "trade"}
execution_type_t_meta == <<
    <<"NEW", "new_order">>, <<"PARTIAL_FILL", "partial_fill">>,
    <<"FILL", "fill">>, <<"CANCELED", "canceled">>,
    <<"REJECTED", "rejected">>, <<"EXPIRED", "expired">>, <<"TRADE", "trade">>>>
rate_limit_type_t == {
    "request_weight", "orders", "orders_1s", "orders_1m", "orders_1h",
    "orders_1d"}
rate_limit_type_t_meta == <<
    <<"REQUEST_WEIGHT", "request_weight">>, <<"ORDERS", "orders">>,
    <<"ORDERS_1S", "orders_1s">>, <<"ORDERS_1M", "orders_1m">>,
    <<"ORDERS_1H", "orders_1h">>, <<"ORDERS_1D", "orders_1d">>>>
rate_limit_interval_t == {"second", "minute", "hour", "day"}
rate_limit_interval_t_meta == <<
    <<"SECOND", "second">>, <<"MINUTE", "minute">>, <<"HOUR", "hour">>,
    <<"DAY", "day">>>>
auto_close_type_t == {"liquidation", "adl"}
auto_close_type_t_meta == <<
    <<"LIQUIDATION", "liquidation">>, <<"ADL", "adl">>>>
delta_type_t == {"add", "reduce"}
delta_type_t_meta == <<<<"1", "add">>, <<"2", "reduce">>>>
market_event_type_t == {
    "agg_trade", "mark_price_update", "depth_update", "mini_ticker_24hr",
    "ticker_24hr", "force_order", "kline", "continuous_kline",
    "composite_index", "contract_info", "asset_index_update", "book_ticker",
    "equity_update", "commodity_update", "trading_session"}
market_event_type_t_meta == <<
    <<"aggTrade", "agg_trade">>, <<"markPriceUpdate", "mark_price_update">>,
    <<"depthUpdate", "depth_update">>,
    <<"24hrMiniTicker", "mini_ticker_24hr">>, <<"24hrTicker", "ticker_24hr">>,
    <<"forceOrder", "force_order">>, <<"kline", "kline">>,
    <<"continuous_kline", "continuous_kline">>,
    <<"compositeIndex", "composite_index">>,
    <<"contractInfo", "contract_info">>,
    <<"assetIndexUpdate", "asset_index_update">>,
    <<"bookTicker", "book_ticker">>, <<"EquityUpdate", "equity_update">>,
    <<"CommodityUpdate", "commodity_update">>,
    <<"tradingSession", "trading_session">>>>
user_event_type_t == {
    "account_update", "order_trade_update", "margin_call",
    "listen_key_expired", "account_config_update", "trade_lite",
    "algo_update", "conditional_order_trigger_reject", "grid_update",
    "strategy_update"}
user_event_type_t_meta == <<
    <<"ACCOUNT_UPDATE", "account_update">>,
    <<"ORDER_TRADE_UPDATE", "order_trade_update">>,
    <<"MARGIN_CALL", "margin_call">>,
    <<"listenKeyExpired", "listen_key_expired">>,
    <<"ACCOUNT_CONFIG_UPDATE", "account_config_update">>,
    <<"TRADE_LITE", "trade_lite">>, <<"ALGO_UPDATE", "algo_update">>,
    <<"CONDITIONAL_ORDER_TRIGGER_REJECT", "conditional_order_trigger_reject">>,
    <<"GRID_UPDATE", "grid_update">>, <<"STRATEGY_UPDATE", "strategy_update">>>>
algo_type_t == {"twap", "vp"}
algo_type_t_meta == <<<<"TWAP", "twap">>, <<"VP", "vp">>>>
algo_status_t == {"working", "cancelled", "rejected", "expired", "triggered"}
algo_status_t_meta == <<
    <<"WORKING", "working">>, <<"CANCELLED", "cancelled">>,
    <<"REJECTED", "rejected">>, <<"EXPIRED", "expired">>,
    <<"TRIGGERED", "triggered">>>>
reason_type_t == {
    "deposit", "withdraw", "order", "funding_fee", "withdraw_reject",
    "adjustment", "insurance_clear", "admin_deposit", "admin_withdraw",
    "margin_transfer", "margin_type_change", "asset_transfer",
    "options_premium_fee", "options_settle_profit", "auto_exchange",
    "coin_swap_deposit", "coin_swap_withdraw"}
reason_type_t_meta == <<
    <<"DEPOSIT", "deposit">>, <<"WITHDRAW", "withdraw">>,
    <<"ORDER", "order">>, <<"FUNDING_FEE", "funding_fee">>,
    <<"WITHDRAW_REJECT", "withdraw_reject">>, <<"ADJUSTMENT", "adjustment">>,
    <<"INSURANCE_CLEAR", "insurance_clear">>,
    <<"ADMIN_DEPOSIT", "admin_deposit">>,
    <<"ADMIN_WITHDRAW", "admin_withdraw">>,
    <<"MARGIN_TRANSFER", "margin_transfer">>,
    <<"MARGIN_TYPE_CHANGE", "margin_type_change">>,
    <<"ASSET_TRANSFER", "asset_transfer">>,
    <<"OPTIONS_PREMIUM_FEE", "options_premium_fee">>,
    <<"OPTIONS_SETTLE_PROFIT", "options_settle_profit">>,
    <<"AUTO_EXCHANGE", "auto_exchange">>,
    <<"COIN_SWAP_DEPOSIT", "coin_swap_deposit">>,
    <<"COIN_SWAP_WITHDRAW", "coin_swap_withdraw">>>>
session_type_t == {
    "pre_market", "regular", "after_market", "overnight", "no_trading"}
session_type_t_meta == <<
    <<"PRE_MARKET", "pre_market">>, <<"REGULAR", "regular">>,
    <<"AFTER_MARKET", "after_market">>, <<"OVERNIGHT", "overnight">>,
    <<"NO_TRADING", "no_trading">>>>
strategy_type_t == {"grid"}
strategy_type_t_meta == <<<<"GRID", "grid">>>>
strategy_status_t == {"new_strategy", "working", "cancelled", "expired"}
strategy_status_t_meta == <<
    <<"NEW", "new_strategy">>, <<"WORKING", "working">>,
    <<"CANCELLED", "cancelled">>, <<"EXPIRED", "expired">>>>

Enums == {
    <<security_type_t, security_type_t_meta>>,
    <<order_side_t, order_side_t_meta>>,
    <<order_type_t, order_type_t_meta>>,
    <<time_in_force_t, time_in_force_t_meta>>,
    <<kline_interval_t, kline_interval_t_meta>>,
    <<position_side_t, position_side_t_meta>>,
    <<working_type_t, working_type_t_meta>>,
    <<response_type_t, response_type_t_meta>>,
    <<margin_type_t, margin_type_t_meta>>,
    <<futures_type_t, futures_type_t_meta>>,
    <<position_control_side_t, position_control_side_t_meta>>,
    <<trading_permission_t, trading_permission_t_meta>>,
    <<contract_type_t, contract_type_t_meta>>,
    <<contract_status_t, contract_status_t_meta>>,
    <<order_status_t, order_status_t_meta>>,
    <<stp_mode_t, stp_mode_t_meta>>,
    <<price_match_t, price_match_t_meta>>,
    <<income_type_t, income_type_t_meta>>,
    <<futures_data_period_t, futures_data_period_t_meta>>,
    <<execution_type_t, execution_type_t_meta>>,
    <<rate_limit_type_t, rate_limit_type_t_meta>>,
    <<rate_limit_interval_t, rate_limit_interval_t_meta>>,
    <<auto_close_type_t, auto_close_type_t_meta>>,
    <<delta_type_t, delta_type_t_meta>>,
    <<market_event_type_t, market_event_type_t_meta>>,
    <<user_event_type_t, user_event_type_t_meta>>,
    <<algo_type_t, algo_type_t_meta>>,
    <<algo_status_t, algo_status_t_meta>>,
    <<reason_type_t, reason_type_t_meta>>,
    <<session_type_t, session_type_t_meta>>,
    <<strategy_type_t, strategy_type_t_meta>>,
    <<strategy_status_t, strategy_status_t_meta>>}

-----------------------------------------------------------------------------
\* to_string: the first name in the list that stands for the value.
to_string(v, meta) ==
    LET hits == SelectSeq(meta, LAMBDA p : p[2] = v)
    IN  IF hits = <<>> THEN "invalid_argument" ELSE hits[1][1]

\* What glaze reads a wire name as.
read(name, meta) ==
    {p[2] : p \in {q \in Range(meta) : q[1] = name}}
=============================================================================
