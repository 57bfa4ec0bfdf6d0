------------------------- MODULE FapiStreamEvents -------------------------
(***************************************************************************)
(* The events of the market and the user data streams.                     *)
(***************************************************************************)
EXTENDS FapiStruct

-----------------------------------------------------------------------------
\* types/market_stream_events.hpp
book_ticker_stream_event_t == Struct(
    {"update_id", "symbol", "best_bid_price", "best_bid_qty", "best_ask_price",
     "best_ask_qty", "transaction_time", "event_time"},
    {})
book_ticker_stream_event_t_meta == [
    update_id |-> "u", symbol |-> "s", best_bid_price |-> "b",
    best_bid_qty |-> "B", best_ask_price |-> "a", best_ask_qty |-> "A",
    transaction_time |-> "T", event_time |-> "E"]
aggregate_trade_stream_event_t == Struct(
    {"event_time", "symbol", "agg_trade_id", "price", "quantity",
     "first_trade_id", "last_trade_id", "trade_time", "is_buyer_maker"},
    {"normal_quantity"})
aggregate_trade_stream_event_t_meta == [
    event_time |-> "E", symbol |-> "s", agg_trade_id |-> "a", price |-> "p",
    quantity |-> "q", first_trade_id |-> "f", last_trade_id |-> "l",
    trade_time |-> "T", is_buyer_maker |-> "m", normal_quantity |-> "nq"]
mark_price_stream_event_t == Struct(
    {"event_time", "symbol", "mark_price_t", "index_price", "settle_price",
     "funding_rate", "next_funding_time"},
    {"mark_price_avg"})
mark_price_stream_event_t_meta == [
    event_time |-> "E", symbol |-> "s", mark_price_t |-> "p",
    mark_price_avg |-> "ap", index_price |-> "i", settle_price |-> "P",
    funding_rate |-> "r", next_funding_time |-> "T"]
depth_stream_event_t == Struct(
    {"event_time", "transaction_time", "symbol", "first_update_id",
     "final_update_id", "prev_final_update_id", "bids", "asks"},
    {})
depth_stream_event_t_meta == [
    event_time |-> "E", transaction_time |-> "T", symbol |-> "s",
    first_update_id |-> "U", final_update_id |-> "u",
    prev_final_update_id |-> "pu", bids |-> "b", asks |-> "a"]
mini_ticker_stream_event_t == Struct(
    {"event_time", "symbol", "close_price", "open_price", "high_price",
     "low_price", "base_volume", "quote_volume"},
    {})
mini_ticker_stream_event_t_meta == [
    event_time |-> "E", symbol |-> "s", close_price |-> "c",
    open_price |-> "o", high_price |-> "h", low_price |-> "l",
    base_volume |-> "v", quote_volume |-> "q"]
ticker_stream_event_t == Struct(
    {"event_time", "symbol", "price_change", "price_change_pct",
     "weighted_avg_price", "last_price", "last_quantity", "open_price",
     "high_price", "low_price", "base_volume", "quote_volume",
     "stats_open_time", "stats_close_time", "first_trade_id", "last_trade_id",
     "trade_count"},
    {})
ticker_stream_event_t_meta == [
    event_time |-> "E", symbol |-> "s", price_change |-> "p",
    price_change_pct |-> "P", weighted_avg_price |-> "w", last_price |-> "c",
    last_quantity |-> "Q", open_price |-> "o", high_price |-> "h",
    low_price |-> "l", base_volume |-> "v", quote_volume |-> "q",
    stats_open_time |-> "O", stats_close_time |-> "C", first_trade_id |-> "F",
    last_trade_id |-> "L", trade_count |-> "n"]
liquidation_order_stream_data_t == Struct(
    {"symbol", "side", "type", "tif", "original_quantity", "price",
     "average_price", "status", "last_filled_qty", "filled_accum_qty",
     "trade_time"},
    {})
liquidation_order_stream_data_t_meta == [
    symbol |-> "s", side |-> "S", type |-> "o", tif |-> "f",
    original_quantity |-> "q", price |-> "p", average_price |-> "ap",
    status |-> "X", last_filled_qty |-> "l", filled_accum_qty |-> "z",
    trade_time |-> "T"]
liquidation_order_stream_event_t == Struct({"event_time", "order"}, {})
liquidation_order_stream_event_t_meta == [event_time |-> "E", order |-> "o"]
kline_stream_data_t == Struct(
    {"open_time", "close_time", "symbol", "interval", "first_trade_id",
     "last_trade_id", "open_price", "close_price", "high_price", "low_price",
     "base_volume", "trade_count", "is_closed", "quote_volume",
     "taker_buy_base_vol", "taker_buy_quote_vol", "ignore"},
    {})
kline_stream_data_t_meta == [
    open_time |-> "t", close_time |-> "T", symbol |-> "s", interval |-> "i",
    first_trade_id |-> "f", last_trade_id |-> "L", open_price |-> "o",
    close_price |-> "c", high_price |-> "h", low_price |-> "l",
    base_volume |-> "v", trade_count |-> "n", is_closed |-> "x",
    quote_volume |-> "q", taker_buy_base_vol |-> "V",
    taker_buy_quote_vol |-> "Q", ignore |-> "B"]
kline_stream_event_t == Struct({"event_time", "symbol", "kline_t"}, {})
kline_stream_event_t_meta == [
    event_time |-> "E", symbol |-> "s", kline_t |-> "k"]
continuous_contract_kline_stream_data_t == Struct(
    {"open_time", "close_time", "interval", "first_update_id",
     "last_update_id", "open_price", "close_price", "high_price", "low_price",
     "volume", "trade_count", "is_closed", "quote_volume", "taker_buy_volume",
     "taker_buy_quote_vol", "ignore"},
    {})
continuous_contract_kline_stream_data_t_meta == [
    open_time |-> "t", close_time |-> "T", interval |-> "i",
    first_update_id |-> "f", last_update_id |-> "L", open_price |-> "o",
    close_price |-> "c", high_price |-> "h", low_price |-> "l",
    volume |-> "v", trade_count |-> "n", is_closed |-> "x",
    quote_volume |-> "q", taker_buy_volume |-> "V",
    taker_buy_quote_vol |-> "Q", ignore |-> "B"]
continuous_contract_kline_stream_event_t == Struct(
    {"event_time", "pair", "contractType", "kline_t"},
    {})
continuous_contract_kline_stream_event_t_meta == [
    event_time |-> "E", pair |-> "ps", contractType |-> "ct", kline_t |-> "k"]
composite_index_constituent_t == Struct(
    {"base_asset", "quote_asset", "weight_in_quantity", "weight_in_pct",
     "index_price"},
    {})
composite_index_constituent_t_meta == [
    base_asset |-> "b", quote_asset |-> "q", weight_in_quantity |-> "w",
    weight_in_pct |-> "W", index_price |-> "i"]
composite_index_stream_event_t == Struct(
    {"event_time", "symbol", "price", "composition"},
    {"base_asset_type"})
composite_index_stream_event_t_meta == [
    event_time |-> "E", symbol |-> "s", price |-> "p",
    base_asset_type |-> "C", composition |-> "c"]
contract_info_bracket_t == Struct(
    {"notional_bracket", "bracket_floor", "bracket_cap", "maint_margin_ratio",
     "calc_factor", "min_leverage", "max_leverage"},
    {})
contract_info_bracket_t_meta == [
    notional_bracket |-> "bs", bracket_floor |-> "bnf", bracket_cap |-> "bnc",
    maint_margin_ratio |-> "mmr", calc_factor |-> "cf", min_leverage |-> "mi",
    max_leverage |-> "ma"]
contract_info_stream_event_t == Struct(
    {"event_time", "symbol", "pair", "contractType", "delivery_time",
     "onboard_time", "contractStatus"},
    {"brackets"})
contract_info_stream_event_t_meta == [
    event_time |-> "E", symbol |-> "s", pair |-> "ps", contractType |-> "ct",
    delivery_time |-> "dt", onboard_time |-> "ot", contractStatus |-> "cs",
    brackets |-> "bks"]
asset_index_stream_event_t == Struct(
    {"event_time", "symbol", "index_price", "bid_buffer", "ask_buffer",
     "bid_rate", "ask_rate", "auto_exch_bid_buffer", "auto_exch_ask_buffer",
     "auto_exch_bid_rate", "auto_exch_ask_rate"},
    {})
asset_index_stream_event_t_meta == [
    event_time |-> "E", symbol |-> "s", index_price |-> "i",
    bid_buffer |-> "b", ask_buffer |-> "a", bid_rate |-> "B",
    ask_rate |-> "A", auto_exch_bid_buffer |-> "q",
    auto_exch_ask_buffer |-> "g", auto_exch_bid_rate |-> "Q",
    auto_exch_ask_rate |-> "G"]
trading_session_stream_event_t == Struct(
    {"event_time", "session_start_time", "session_end_time", "session_type"},
    {})
trading_session_stream_event_t_meta == [
    event_time |-> "E", session_start_time |-> "t", session_end_time |-> "T",
    session_type |-> "S"]
-----------------------------------------------------------------------------
\* types/user_stream_events.hpp
account_update_balance_t == Struct(
    {"asset", "wallet_balance", "cross_wallet_balance", "balance_change"},
    {})
account_update_balance_t_meta == [
    asset |-> "a", wallet_balance |-> "wb", cross_wallet_balance |-> "cw",
    balance_change |-> "bc"]
account_update_position_t == Struct(
    {"symbol", "position_amount", "entry_price", "accum_realized",
     "unrealized_pnl", "margin", "isolated_wallet", "pos_side",
     "breakeven_price"},
    {})
account_update_position_t_meta == [
    symbol |-> "s", position_amount |-> "pa", entry_price |-> "ep",
    accum_realized |-> "cr", unrealized_pnl |-> "up", margin |-> "mt",
    isolated_wallet |-> "iw", pos_side |-> "ps", breakeven_price |-> "bep"]
account_update_data_t == Struct({"reason_type", "balances", "positions"}, {})
account_update_data_t_meta == [
    reason_type |-> "m", balances |-> "B", positions |-> "P"]
account_update_event_t == Struct(
    {"event_time", "transaction_time", "update_data"},
    {})
account_update_event_t_meta == [
    event_time |-> "E", transaction_time |-> "T", update_data |-> "a"]
order_trade_update_order_t == Struct(
    {"symbol", "client_order_id", "side", "type", "tif", "original_quantity",
     "original_price", "average_price", "stop_price", "exec_type", "status",
     "order_id", "last_filled_qty", "filled_accum_qty", "last_filled_price",
     "commission_asset", "commission", "trade_time", "trade_id",
     "bids_notional", "ask_notional", "is_maker", "is_reduce_only",
     "work_type", "orig_order_type", "pos_side", "is_close_all",
     "price_protection", "ignore_si", "ignore_ss", "realized_profit", "stp",
     "price_match_mode"},
    {"activation_price", "callback_rate", "gtd_auto_cancel", "expiry_reason"})
order_trade_update_order_t_meta == [
    symbol |-> "s", client_order_id |-> "c", side |-> "S", type |-> "o",
    tif |-> "f", original_quantity |-> "q", original_price |-> "p",
    average_price |-> "ap", stop_price |-> "sp", exec_type |-> "x",
    status |-> "X", order_id |-> "i", last_filled_qty |-> "l",
    filled_accum_qty |-> "z", last_filled_price |-> "L",
    commission_asset |-> "N", commission |-> "n", trade_time |-> "T",
    trade_id |-> "t", bids_notional |-> "b", ask_notional |-> "a",
    is_maker |-> "m", is_reduce_only |-> "R", work_type |-> "wt",
    orig_order_type |-> "ot", pos_side |-> "ps", is_close_all |-> "cp",
    activation_price |-> "AP", callback_rate |-> "cr",
    price_protection |-> "pP", ignore_si |-> "si", ignore_ss |-> "ss",
    realized_profit |-> "rp", stp |-> "V", price_match_mode |-> "pm",
    gtd_auto_cancel |-> "gtd", expiry_reason |-> "er"]
order_trade_update_event_t == Struct(
    {"event_time", "transaction_time", "order"},
    {})
order_trade_update_event_t_meta == [
    event_time |-> "E", transaction_time |-> "T", order |-> "o"]
margin_call_position_t == Struct(
    {"symbol", "pos_side", "position_amount", "margin", "isolated_wallet",
     "mark_price_t", "unrealized_pnl", "maint_margin"},
    {})
margin_call_position_t_meta == [
    symbol |-> "s", pos_side |-> "ps", position_amount |-> "pa",
    margin |-> "mt", isolated_wallet |-> "iw", mark_price_t |-> "mp",
    unrealized_pnl |-> "up", maint_margin |-> "mm"]
margin_call_event_t == Struct(
    {"event_time", "cross_wallet_balance", "positions"},
    {})
margin_call_event_t_meta == [
    event_time |-> "E", cross_wallet_balance |-> "cw", positions |-> "p"]
listen_key_expired_event_t == Struct(
    {"event_time", "transaction_time", "listen_key"},
    {})
listen_key_expired_event_t_meta == [
    event_time |-> "E", transaction_time |-> "T", listen_key |-> "listenKey"]
account_config_leverage_t == Struct({"symbol", "leverage"}, {})
account_config_leverage_t_meta == [symbol |-> "s", leverage |-> "l"]
account_config_multi_assets_t == Struct({"multi_assets_mode"}, {})
account_config_multi_assets_t_meta == [multi_assets_mode |-> "j"]
account_config_update_event_t == Struct(
    {"event_time", "transaction_time"},
    {"leverage_config", "multi_assets_config"})
account_config_update_event_t_meta == [
    event_time |-> "E", transaction_time |-> "T", leverage_config |-> "ac",
    multi_assets_config |-> "ai"]
trade_lite_event_t == Struct(
    {"event_time", "transaction_time", "symbol", "original_quantity",
     "original_price", "is_maker", "client_order_id", "side",
     "last_filled_price", "last_filled_qty", "trade_id", "order_id"},
    {})
trade_lite_event_t_meta == [
    event_time |-> "E", transaction_time |-> "T", symbol |-> "s",
    original_quantity |-> "q", original_price |-> "p", is_maker |-> "m",
    client_order_id |-> "c", side |-> "S", last_filled_price |-> "L",
    last_filled_qty |-> "l", trade_id |-> "t", order_id |-> "i"]
algo_order_update_data_t == Struct(
    {"client_algo_id", "algo_id", "alg_type", "type", "symbol", "side",
     "pos_side", "tif", "quantity", "alg_status"},
    {"matched_order_id", "avg_fill_price", "executed_quantity",
     "actual_order_type", "trigger_price", "order_price", "stp", "work_type",
     "price_match_mode", "is_close_all", "price_protection", "is_reduce_only",
     "trigger_time", "gtd_cancel_time", "reject_reason"})
algo_order_update_data_t_meta == [
    client_algo_id |-> "caid", algo_id |-> "aid", alg_type |-> "at",
    type |-> "o", symbol |-> "s", side |-> "S", pos_side |-> "ps",
    tif |-> "f", quantity |-> "q", alg_status |-> "X",
    matched_order_id |-> "ai", avg_fill_price |-> "ap",
    executed_quantity |-> "aq", actual_order_type |-> "act",
    trigger_price |-> "tp", order_price |-> "p", stp |-> "V",
    work_type |-> "wt", price_match_mode |-> "pm", is_close_all |-> "cp",
    price_protection |-> "pP", is_reduce_only |-> "R", trigger_time |-> "tt",
    gtd_cancel_time |-> "gtd", reject_reason |-> "rm"]
algo_order_update_event_t == Struct(
    {"transaction_time", "event_time", "order"},
    {})
algo_order_update_event_t_meta == [
    transaction_time |-> "T", event_time |-> "E", order |-> "o"]
conditional_order_reject_data_t == Struct(
    {"symbol", "order_id", "reject_reason"},
    {})
conditional_order_reject_data_t_meta == [
    symbol |-> "s", order_id |-> "i", reject_reason |-> "r"]
conditional_order_trigger_reject_event_t == Struct(
    {"event_time", "message_send_time", "order_reject"},
    {})
conditional_order_trigger_reject_event_t_meta == [
    event_time |-> "E", message_send_time |-> "T", order_reject |-> "or"]
grid_update_data_t == Struct(
    {"strategy_id", "strategy_type", "strategy_status", "symbol",
     "realized_pnl", "unmatched_avg_price", "unmatched_qty", "unmatched_fee",
     "matched_pnl", "update_time"},
    {})
grid_update_data_t_meta == [
    strategy_id |-> "si", strategy_type |-> "st", strategy_status |-> "ss",
    symbol |-> "s", realized_pnl |-> "r", unmatched_avg_price |-> "up",
    unmatched_qty |-> "uq", unmatched_fee |-> "uf", matched_pnl |-> "mp",
    update_time |-> "ut"]
grid_update_event_t == Struct(
    {"transaction_time", "event_time", "grid_update"},
    {})
grid_update_event_t_meta == [
    transaction_time |-> "T", event_time |-> "E", grid_update |-> "gu"]
strategy_update_data_t == Struct(
    {"strategy_id", "strategy_type", "strategy_status", "symbol",
     "update_time", "op_code"},
    {})
strategy_update_data_t_meta == [
    strategy_id |-> "si", strategy_type |-> "st", strategy_status |-> "ss",
    symbol |-> "s", update_time |-> "ut", op_code |-> "c"]
strategy_update_event_t == Struct(
    {"transaction_time", "event_time", "strategy_update"},
    {})
strategy_update_event_t_meta == [
    transaction_time |-> "T", event_time |-> "E", strategy_update |-> "su"]
StreamEventsMetas == {
    <<book_ticker_stream_event_t, book_ticker_stream_event_t_meta>>,
    <<aggregate_trade_stream_event_t, aggregate_trade_stream_event_t_meta>>,
    <<mark_price_stream_event_t, mark_price_stream_event_t_meta>>,
    <<depth_stream_event_t, depth_stream_event_t_meta>>,
    <<mini_ticker_stream_event_t, mini_ticker_stream_event_t_meta>>,
    <<ticker_stream_event_t, ticker_stream_event_t_meta>>,
    <<liquidation_order_stream_data_t, liquidation_order_stream_data_t_meta>>,
    <<liquidation_order_stream_event_t, liquidation_order_stream_event_t_meta>>,
    <<kline_stream_data_t, kline_stream_data_t_meta>>,
    <<kline_stream_event_t, kline_stream_event_t_meta>>,
    <<continuous_contract_kline_stream_data_t, continuous_contract_kline_stream_data_t_meta>>,
    <<continuous_contract_kline_stream_event_t, continuous_contract_kline_stream_event_t_meta>>,
    <<composite_index_constituent_t, composite_index_constituent_t_meta>>,
    <<composite_index_stream_event_t, composite_index_stream_event_t_meta>>,
    <<contract_info_bracket_t, contract_info_bracket_t_meta>>,
    <<contract_info_stream_event_t, contract_info_stream_event_t_meta>>,
    <<asset_index_stream_event_t, asset_index_stream_event_t_meta>>,
    <<trading_session_stream_event_t, trading_session_stream_event_t_meta>>,
    <<account_update_balance_t, account_update_balance_t_meta>>,
    <<account_update_position_t, account_update_position_t_meta>>,
    <<account_update_data_t, account_update_data_t_meta>>,
    <<account_update_event_t, account_update_event_t_meta>>,
    <<order_trade_update_order_t, order_trade_update_order_t_meta>>,
    <<order_trade_update_event_t, order_trade_update_event_t_meta>>,
    <<margin_call_position_t, margin_call_position_t_meta>>,
    <<margin_call_event_t, margin_call_event_t_meta>>,
    <<listen_key_expired_event_t, listen_key_expired_event_t_meta>>,
    <<account_config_leverage_t, account_config_leverage_t_meta>>,
    <<account_config_multi_assets_t, account_config_multi_assets_t_meta>>,
    <<account_config_update_event_t, account_config_update_event_t_meta>>,
    <<trade_lite_event_t, trade_lite_event_t_meta>>,
    <<algo_order_update_data_t, algo_order_update_data_t_meta>>,
    <<algo_order_update_event_t, algo_order_update_event_t_meta>>,
    <<conditional_order_reject_data_t, conditional_order_reject_data_t_meta>>,
    <<conditional_order_trigger_reject_event_t, conditional_order_trigger_reject_event_t_meta>>,
    <<grid_update_data_t, grid_update_data_t_meta>>,
    <<grid_update_event_t, grid_update_event_t_meta>>,
    <<strategy_update_data_t, strategy_update_data_t_meta>>,
    <<strategy_update_event_t, strategy_update_event_t_meta>>}
=============================================================================
