--------------------------- MODULE FapiEndpoints ---------------------------
(***************************************************************************)
(* The REST endpoints of the exchange (generated_endpoints.hpp) and, for   *)
(* every request type, its endpoint and the type of its response           *)
(* (endpoint_traits.hpp).                                                  *)
(***************************************************************************)
EXTENDS FapiMarketData, FapiTrade, FapiAccount

\* method, path, security, then: signed? with a timestamp? with a recvWindow?
Endpoint(method, path, security, signed, timestamp, window) ==
    [method |-> method, path |-> path, security |-> security,
     signed_request |-> signed, requires_timestamp |-> timestamp,
     allows_recv_window |-> window]

\* A body that is one object, or an array of them.
One(t, keys) == [array |-> FALSE, type |-> t, keys |-> keys]
Many(t, keys) == [array |-> TRUE, type |-> t, keys |-> keys]
\* An array of arrays: the key of a member is its place.
Rows(t, order) ==
    Many(t, [m \in Range(order) |-> CHOOSE i \in DOMAIN order : order[i] = m])

\* endpoint_traits<request>.
Traits(request, endpoint, response) ==
    [request |-> request, endpoint |-> endpoint, response |-> response]

-----------------------------------------------------------------------------
\* rest/generated_endpoints.hpp
market_endpoints == [
    ping |-> Endpoint("get", "/fapi/v1/ping", "none", FALSE, FALSE, FALSE),
    server_time |-> Endpoint("get", "/fapi/v1/time", "none", FALSE, FALSE, FALSE),
    exchange_info |->
        Endpoint("get", "/fapi/v1/exchangeInfo", "none", FALSE, FALSE, FALSE),
    order_book |-> Endpoint("get", "/fapi/v1/depth", "none", FALSE, FALSE, FALSE),
    recent_trades |-> Endpoint("get", "/fapi/v1/trades", "none", FALSE, FALSE, FALSE),
    aggregate_trades |->
        Endpoint("get", "/fapi/v1/aggTrades", "none", FALSE, FALSE, FALSE),
    klines |-> Endpoint("get", "/fapi/v1/klines", "none", FALSE, FALSE, FALSE),
    continuous_klines |->
        Endpoint("get", "/fapi/v1/continuousKlines", "none", FALSE, FALSE, FALSE),
    index_price_klines |->
        Endpoint("get", "/fapi/v1/indexPriceKlines", "none", FALSE, FALSE, FALSE),
    mark_price_klines |->
        Endpoint("get", "/fapi/v1/markPriceKlines", "none", FALSE, FALSE, FALSE),
    premium_index_klines |->
        Endpoint("get", "/fapi/v1/premiumIndexKlines", "none", FALSE, FALSE, FALSE),
    book_ticker |->
        Endpoint("get", "/fapi/v1/ticker/bookTicker", "none", FALSE, FALSE, FALSE),
    price_ticker |->
        Endpoint("get", "/fapi/v1/ticker/price", "none", FALSE, FALSE, FALSE),
    ticker_24hr |-> Endpoint("get", "/fapi/v1/ticker/24hr", "none", FALSE, FALSE, FALSE),
    mark_price |-> Endpoint("get", "/fapi/v1/premiumIndex", "none", FALSE, FALSE, FALSE),
    funding_rate_history |->
        Endpoint("get", "/fapi/v1/fundingRate", "none", FALSE, FALSE, FALSE),
    funding_rate_info |->
        Endpoint("get", "/fapi/v1/fundingInfo", "none", FALSE, FALSE, FALSE),
    open_interest |->
        Endpoint("get", "/fapi/v1/openInterest", "none", FALSE, FALSE, FALSE),
    open_interest_statistics |->
        Endpoint("get", "/futures/data/openInterestHist", "none", FALSE, FALSE, FALSE),
    top_long_short_account_ratio |->
        Endpoint("get", "/futures/data/topLongShortAccountRatio", "none", FALSE, FALSE, FALSE),
    top_trader_long_short_ratio |->
        Endpoint("get", "/futures/data/topLongShortPositionRatio", "none", FALSE, FALSE, FALSE),
    long_short_ratio |->
        Endpoint("get", "/futures/data/globalLongShortAccountRatio", "none", FALSE, FALSE, FALSE),
    taker_buy_sell_volume |->
        Endpoint("get", "/futures/data/takerlongshortRatio", "none", FALSE, FALSE, FALSE),
    historical_trades |->
        Endpoint("get", "/fapi/v1/historicalTrades", "market_data", FALSE, FALSE, FALSE)]

stream_and_order_endpoints == [
    account_information |->
        Endpoint("get", "/fapi/v3/account", "user_data", TRUE, TRUE, TRUE),
    account_balances |->
        Endpoint("get", "/fapi/v3/balance", "user_data", TRUE, TRUE, TRUE),
    position_risk |->
        Endpoint("get", "/fapi/v2/positionRisk", "user_data", TRUE, TRUE, TRUE),
    start_listen_key |->
        Endpoint("post", "/fapi/v1/listenKey", "user_stream", FALSE, FALSE, FALSE),
    keepalive_listen_key |->
        Endpoint("put", "/fapi/v1/listenKey", "user_stream", FALSE, FALSE, FALSE),
    close_listen_key |->
        Endpoint("delete", "/fapi/v1/listenKey", "user_stream", FALSE, FALSE, FALSE),
    new_order |-> Endpoint("post", "/fapi/v1/order", "trade", TRUE, TRUE, TRUE),
    modify_order |-> Endpoint("put", "/fapi/v1/order", "trade", TRUE, TRUE, TRUE),
    cancel_order |-> Endpoint("delete", "/fapi/v1/order", "trade", TRUE, TRUE, TRUE),
    query_order |-> Endpoint("get", "/fapi/v1/order", "trade", TRUE, TRUE, TRUE),
    basis |-> Endpoint("get", "/futures/data/basis", "none", FALSE, FALSE, FALSE),
    price_ticker_v2 |->
        Endpoint("get", "/fapi/v2/ticker/price", "none", FALSE, FALSE, FALSE),
    delivery_price |->
        Endpoint("get", "/futures/data/delivery-price", "none", FALSE, FALSE, FALSE),
    composite_index_info |->
        Endpoint("get", "/fapi/v1/indexInfo", "none", FALSE, FALSE, FALSE),
    index_constituents |->
        Endpoint("get", "/fapi/v1/constituents", "none", FALSE, FALSE, FALSE),
    asset_index |-> Endpoint("get", "/fapi/v1/assetIndex", "none", FALSE, FALSE, FALSE),
    insurance_fund |->
        Endpoint("get", "/fapi/v1/insuranceBalance", "none", FALSE, FALSE, FALSE),
    adl_risk |-> Endpoint("get", "/fapi/v1/symbolAdlRisk", "none", FALSE, FALSE, FALSE),
    rpi_depth |-> Endpoint("get", "/fapi/v1/rpiDepth", "none", FALSE, FALSE, FALSE),
    trading_schedule |->
        Endpoint("get", "/fapi/v1/tradingSchedule", "none", FALSE, FALSE, FALSE)]

trade_endpoints == [
    test_order |-> Endpoint("post", "/fapi/v1/order/test", "trade", TRUE, TRUE, TRUE),
    batch_orders |-> Endpoint("post", "/fapi/v1/batchOrders", "trade", TRUE, TRUE, TRUE),
    modify_batch_orders |->
        Endpoint("put", "/fapi/v1/batchOrders", "trade", TRUE, TRUE, TRUE),
    cancel_batch_orders |->
        Endpoint("delete", "/fapi/v1/batchOrders", "trade", TRUE, TRUE, TRUE),
    cancel_all_open_orders |->
        Endpoint("delete", "/fapi/v1/allOpenOrders", "trade", TRUE, TRUE, TRUE),
    auto_cancel |->
        Endpoint("post", "/fapi/v1/countdownCancelAll", "trade", TRUE, TRUE, TRUE),
    query_open_order |->
        Endpoint("get", "/fapi/v1/openOrder", "user_data", TRUE, TRUE, TRUE),
    all_open_orders |->
        Endpoint("get", "/fapi/v1/openOrders", "user_data", TRUE, TRUE, TRUE),
    all_orders |-> Endpoint("get", "/fapi/v1/allOrders", "user_data", TRUE, TRUE, TRUE),
    position_risk_v3 |->
        Endpoint("get", "/fapi/v3/positionRisk", "user_data", TRUE, TRUE, TRUE),
    adl_quantile |->
        Endpoint("get", "/fapi/v1/adlQuantile", "user_data", TRUE, TRUE, TRUE),
    force_orders |->
        Endpoint("get", "/fapi/v1/forceOrders", "user_data", TRUE, TRUE, TRUE),
    account_trades |->
        Endpoint("get", "/fapi/v1/userTrades", "user_data", TRUE, TRUE, TRUE),
    change_position_mode |->
        Endpoint("post", "/fapi/v1/positionSide/dual", "trade", TRUE, TRUE, TRUE),
    change_multi_assets |->
        Endpoint("post", "/fapi/v1/multiAssetsMargin", "trade", TRUE, TRUE, TRUE),
    change_leverage |-> Endpoint("post", "/fapi/v1/leverage", "trade", TRUE, TRUE, TRUE),
    change_margin_type |->
        Endpoint("post", "/fapi/v1/marginType", "trade", TRUE, TRUE, TRUE),
    modify_isolated_margin |->
        Endpoint("post", "/fapi/v1/positionMargin", "trade", TRUE, TRUE, TRUE),
    position_margin_history |->
        Endpoint("get", "/fapi/v1/positionMargin/history", "user_data", TRUE, TRUE, TRUE),
    order_modify_history |->
        Endpoint("get", "/fapi/v1/orderAmendment", "user_data", TRUE, TRUE, TRUE)]

algo_and_account_endpoints == [
    new_algo_order |-> Endpoint("post", "/fapi/v1/algoOrder", "trade", TRUE, TRUE, TRUE),
    cancel_algo_order |->
        Endpoint("delete", "/fapi/v1/algoOrder", "trade", TRUE, TRUE, TRUE),
    query_algo_order |->
        Endpoint("get", "/fapi/v1/algoOrder", "user_data", TRUE, TRUE, TRUE),
    all_algo_orders |->
        Endpoint("get", "/fapi/v1/allAlgoOrders", "user_data", TRUE, TRUE, TRUE),
    open_algo_orders |->
        Endpoint("get", "/fapi/v1/openAlgoOrders", "user_data", TRUE, TRUE, TRUE),
    cancel_all_algo_orders |->
        Endpoint("delete", "/fapi/v1/algoOpenOrders", "trade", TRUE, TRUE, TRUE),
    account_config |->
        Endpoint("get", "/fapi/v1/accountConfig", "user_data", TRUE, TRUE, TRUE),
    symbol_config |->
        Endpoint("get", "/fapi/v1/symbolConfig", "user_data", TRUE, TRUE, TRUE),
    get_multi_assets_mode |->
        Endpoint("get", "/fapi/v1/multiAssetsMargin", "user_data", TRUE, TRUE, TRUE),
    get_position_mode |->
        Endpoint("get", "/fapi/v1/positionSide/dual", "user_data", TRUE, TRUE, TRUE),
    income_history |-> Endpoint("get", "/fapi/v1/income", "user_data", TRUE, TRUE, TRUE),
    leverage_brackets |->
        Endpoint("get", "/fapi/v1/leverageBracket", "user_data", TRUE, TRUE, TRUE),
    commission_rate |->
        Endpoint("get", "/fapi/v1/commissionRate", "user_data", TRUE, TRUE, TRUE),
    rate_limit_order |->
        Endpoint("get", "/fapi/v1/rateLimit/order", "user_data", TRUE, TRUE, TRUE),
    download_id_transaction |->
        Endpoint("get", "/fapi/v1/income/asyn", "user_data", TRUE, TRUE, TRUE),
    download_link_transaction |->
        Endpoint("get", "/fapi/v1/income/asyn/id", "user_data", TRUE, TRUE, TRUE),
    download_id_order |->
        Endpoint("get", "/fapi/v1/order/asyn", "user_data", TRUE, TRUE, TRUE),
    download_link_order |->
        Endpoint("get", "/fapi/v1/order/asyn/id", "user_data", TRUE, TRUE, TRUE),
    download_id_trade |->
        Endpoint("get", "/fapi/v1/trade/asyn", "user_data", TRUE, TRUE, TRUE),
    download_link_trade |->
        Endpoint("get", "/fapi/v1/trade/asyn/id", "user_data", TRUE, TRUE, TRUE),
    get_bnb_burn |-> Endpoint("get", "/fapi/v1/feeBurn", "user_data", TRUE, TRUE, TRUE),
    toggle_bnb_burn |-> Endpoint("post", "/fapi/v1/feeBurn", "trade", TRUE, TRUE, TRUE),
    quantitative_rules |->
        Endpoint("get", "/fapi/v1/apiTradingStatus", "user_data", TRUE, TRUE, TRUE),
    convert_get_quote |->
        Endpoint("post", "/fapi/v1/convert/getQuote", "trade", TRUE, TRUE, TRUE),
    convert_accept_quote |->
        Endpoint("post", "/fapi/v1/convert/acceptQuote", "trade", TRUE, TRUE, TRUE),
    convert_order_status |->
        Endpoint("get", "/fapi/v1/convert/orderStatus", "user_data", TRUE, TRUE, TRUE),
    pm_account_info |->
        Endpoint("get", "/fapi/v1/pmAccountInfo", "user_data", TRUE, TRUE, TRUE),
    tradfi_perps |->
        Endpoint("post", "/fapi/v1/stock/contract", "trade", TRUE, TRUE, TRUE)]

\* Two tables as one.
Joined(f, g) == [n \in DOMAIN f \cup DOMAIN g |-> IF n \in DOMAIN f THEN f[n] ELSE g[n]]

endpoint ==
    Joined(Joined(market_endpoints, stream_and_order_endpoints),
           Joined(trade_endpoints, algo_and_account_endpoints))

Endpoints == Range(endpoint)
-----------------------------------------------------------------------------
\* rest/endpoint_traits.hpp
market_data_traits == {
    Traits(ping_request_t, endpoint.ping,
           One(empty_response_t, empty_response_t_meta)),
    Traits(server_time_request_t, endpoint.server_time,
           One(server_time_response_t, server_time_response_t_meta)),
    Traits(exchange_info_request_t, endpoint.exchange_info,
           One(exchange_info_response_t, exchange_info_response_t_meta)),
    Traits(order_book_request_t, endpoint.order_book,
           One(order_book_response_t, order_book_response_t_meta)),
    Traits(recent_trades_request_t, endpoint.recent_trades,
           Many(recent_trade_t, recent_trade_t_meta)),
    Traits(aggregate_trades_request_t, endpoint.aggregate_trades,
           Many(aggregate_trade_t, aggregate_trade_t_meta)),
    Traits(continuous_kline_request_t, endpoint.continuous_klines,
           Rows(kline_t, kline_t_meta)),
    Traits(index_price_kline_request_t, endpoint.index_price_klines,
           Rows(kline_t, kline_t_meta)),
    Traits(book_ticker_request_t, endpoint.book_ticker,
           One(book_ticker_t, book_ticker_t_meta)),
    Traits(price_ticker_request_t, endpoint.price_ticker,
           One(price_ticker_t, price_ticker_t_meta)),
    Traits(ticker_24hr_request_t, endpoint.ticker_24hr,
           One(ticker_24hr_t, ticker_24hr_t_meta)),
    Traits(mark_price_request_t, endpoint.mark_price,
           One(mark_price_t, mark_price_t_meta)),
    Traits(funding_rate_history_request_t, endpoint.funding_rate_history,
           Many(funding_rate_history_entry_t, funding_rate_history_entry_t_meta)),
    Traits(open_interest_request_t, endpoint.open_interest,
           One(open_interest_t, open_interest_t_meta)),
    Traits(historical_trades_request_t, endpoint.historical_trades,
           Many(recent_trade_t, recent_trade_t_meta))}
more_market_data_traits == {
    Traits(basis_request_t, endpoint.basis,
           Many(basis_entry_t, basis_entry_t_meta)),
    Traits(price_ticker_v2_request_t, endpoint.price_ticker_v2,
           One(price_ticker_t, price_ticker_t_meta)),
    Traits(delivery_price_request_t, endpoint.delivery_price,
           Many(delivery_price_entry_t, delivery_price_entry_t_meta)),
    Traits(composite_index_info_request_t, endpoint.composite_index_info,
           Many(composite_index_info_t, composite_index_info_t_meta)),
    Traits(index_constituents_request_t, endpoint.index_constituents,
           One(index_constituents_response_t, index_constituents_response_t_meta)),
    Traits(asset_index_request_t, endpoint.asset_index,
           Many(asset_index_t, asset_index_t_meta)),
    Traits(insurance_fund_request_t, endpoint.insurance_fund,
           One(insurance_fund_response_t, insurance_fund_response_t_meta)),
    Traits(insurance_funds_request_t, endpoint.insurance_fund,
           Many(insurance_fund_response_t, insurance_fund_response_t_meta)),
    Traits(adl_risk_request_t, endpoint.adl_risk,
           Many(adl_risk_entry_t, adl_risk_entry_t_meta)),
    Traits(rpi_depth_request_t, endpoint.rpi_depth,
           One(order_book_response_t, order_book_response_t_meta)),
    Traits(trading_schedule_request_t, endpoint.trading_schedule,
           One(trading_schedule_response_t, trading_schedule_response_t_meta))}
account_traits == {
    Traits(position_risk_request_t, endpoint.position_risk,
           Many(position_risk_t, position_risk_t_meta)),
    Traits(symbol_config_request_t, endpoint.symbol_config,
           Many(symbol_config_entry_t, symbol_config_entry_t_meta)),
    Traits(income_history_request_t, endpoint.income_history,
           Many(income_history_entry_t, income_history_entry_t_meta)),
    Traits(leverage_bracket_request_t, endpoint.leverage_brackets,
           Many(symbol_leverage_brackets_t, symbol_leverage_brackets_t_meta)),
    Traits(commission_rate_request_t, endpoint.commission_rate,
           One(commission_rate_response_t, commission_rate_response_t_meta)),
    Traits(toggle_bnb_burn_request_t, endpoint.toggle_bnb_burn,
           One(bnb_burn_status_response_t, bnb_burn_status_response_t_meta)),
    Traits(quantitative_rules_request_t, endpoint.quantitative_rules,
           One(quantitative_rules_response_t, quantitative_rules_response_t_meta)),
    Traits(pm_account_info_request_t, endpoint.pm_account_info,
           One(pm_account_info_response_t, pm_account_info_response_t_meta))}
trade_traits == {
    Traits(new_order_request_t, endpoint.new_order,
           One(order_response_t, order_response_t_meta)),
    Traits(modify_order_request_t, endpoint.modify_order,
           One(order_response_t, order_response_t_meta)),
    Traits(cancel_order_request_t, endpoint.cancel_order,
           One(order_response_t, order_response_t_meta)),
    Traits(query_order_request_t, endpoint.query_order,
           One(order_response_t, order_response_t_meta)),
    Traits(cancel_all_open_orders_request_t, endpoint.cancel_all_open_orders,
           One(code_msg_response_t, code_msg_response_t_meta)),
    Traits(auto_cancel_request_t, endpoint.auto_cancel,
           One(auto_cancel_response_t, auto_cancel_response_t_meta)),
    Traits(query_open_order_request_t, endpoint.query_open_order,
           One(order_response_t, order_response_t_meta)),
    Traits(all_open_orders_request_t, endpoint.all_open_orders,
           Many(order_response_t, order_response_t_meta)),
    Traits(all_orders_request_t, endpoint.all_orders,
           Many(order_response_t, order_response_t_meta)),
    Traits(position_info_v3_request_t, endpoint.position_risk_v3,
           Many(position_risk_v3_t, position_risk_v3_t_meta)),
    Traits(adl_quantile_request_t, endpoint.adl_quantile,
           Many(adl_quantile_entry_t, adl_quantile_entry_t_meta)),
    Traits(force_orders_request_t, endpoint.force_orders,
           Many(order_response_t, order_response_t_meta)),
    Traits(account_trade_request_t, endpoint.account_trades,
           Many(account_trade_entry_t, account_trade_entry_t_meta)),
    Traits(change_position_mode_request_t, endpoint.change_position_mode,
           One(code_msg_response_t, code_msg_response_t_meta)),
    Traits(change_multi_assets_mode_request_t, endpoint.change_multi_assets,
           One(code_msg_response_t, code_msg_response_t_meta)),
    Traits(change_leverage_request_t, endpoint.change_leverage,
           One(change_leverage_response_t, change_leverage_response_t_meta)),
    Traits(change_margin_type_request_t, endpoint.change_margin_type,
           One(code_msg_response_t, code_msg_response_t_meta)),
    Traits(modify_isolated_margin_request_t, endpoint.modify_isolated_margin,
           One(modify_isolated_margin_response_t, modify_isolated_margin_response_t_meta))}
more_trade_traits == {
    Traits(position_margin_history_request_t, endpoint.position_margin_history,
           Many(position_margin_history_entry_t, position_margin_history_entry_t_meta)),
    Traits(order_modify_history_request_t, endpoint.order_modify_history,
           Many(order_response_t, order_response_t_meta)),
    Traits(new_algo_order_request_t, endpoint.new_algo_order,
           One(algo_order_response_t, algo_order_response_t_meta)),
    Traits(cancel_algo_order_request_t, endpoint.cancel_algo_order,
           One(code_msg_response_t, code_msg_response_t_meta)),
    Traits(query_algo_order_request_t, endpoint.query_algo_order,
           One(algo_order_response_t, algo_order_response_t_meta)),
    Traits(all_algo_orders_request_t, endpoint.all_algo_orders,
           Many(algo_order_response_t, algo_order_response_t_meta))}
convert_traits == {
    Traits(convert_quote_request_t, endpoint.convert_get_quote,
           One(convert_quote_response_t, convert_quote_response_t_meta)),
    Traits(convert_accept_request_t, endpoint.convert_accept_quote,
           One(convert_accept_response_t, convert_accept_response_t_meta)),
    Traits(convert_order_status_request_t, endpoint.convert_order_status,
           One(convert_order_status_response_t, convert_order_status_response_t_meta))}
parameterless_market_data_traits == {
    Traits(book_tickers_request_t, endpoint.book_ticker,
           Many(book_ticker_t, book_ticker_t_meta)),
    Traits(price_tickers_request_t, endpoint.price_ticker,
           Many(price_ticker_t, price_ticker_t_meta)),
    Traits(price_tickers_v2_request_t, endpoint.price_ticker_v2,
           Many(price_ticker_t, price_ticker_t_meta)),
    Traits(ticker_24hrs_request_t, endpoint.ticker_24hr,
           Many(ticker_24hr_t, ticker_24hr_t_meta)),
    Traits(mark_prices_request_t, endpoint.mark_price,
           Many(mark_price_t, mark_price_t_meta)),
    Traits(funding_rate_info_request_t, endpoint.funding_rate_info,
           Many(funding_rate_info_t, funding_rate_info_t_meta))}
kline_traits == {
    Traits(klines_request_t, endpoint.klines, Rows(kline_t, kline_t_meta)),
    Traits(mark_price_klines_request_t, endpoint.mark_price_klines,
           Rows(kline_t, kline_t_meta)),
    Traits(premium_index_klines_request_t, endpoint.premium_index_klines,
           Rows(kline_t, kline_t_meta))}
futures_data_traits == {
    Traits(open_interest_statistics_request_t, endpoint.open_interest_statistics,
           Many(open_interest_statistics_entry_t, open_interest_statistics_entry_t_meta)),
    Traits(top_long_short_account_ratio_request_t, endpoint.top_long_short_account_ratio,
           Many(long_short_ratio_entry_t, long_short_ratio_entry_t_meta)),
    Traits(top_trader_long_short_ratio_request_t, endpoint.top_trader_long_short_ratio,
           Many(long_short_ratio_entry_t, long_short_ratio_entry_t_meta)),
    Traits(long_short_ratio_request_t, endpoint.long_short_ratio,
           Many(long_short_ratio_entry_t, long_short_ratio_entry_t_meta)),
    Traits(taker_buy_sell_volume_request_t, endpoint.taker_buy_sell_volume,
           Many(taker_buy_sell_volume_entry_t, taker_buy_sell_volume_entry_t_meta))}
parameterless_account_traits == {
    Traits(account_information_request_t, endpoint.account_information,
           One(account_information_t, account_information_t_meta)),
    Traits(balances_request_t, endpoint.account_balances,
           Many(futures_account_balance_t, futures_account_balance_t_meta)),
    Traits(account_config_request_t, endpoint.account_config,
           One(account_config_response_t, account_config_response_t_meta)),
    Traits(get_multi_assets_mode_request_t, endpoint.get_multi_assets_mode,
           One(multi_assets_mode_response_t, multi_assets_mode_response_t_meta)),
    Traits(get_position_mode_request_t, endpoint.get_position_mode,
           One(position_mode_response_t, position_mode_response_t_meta)),
    Traits(rate_limit_order_request_t, endpoint.rate_limit_order,
           Many(rate_limit_t, rate_limit_t_meta)),
    Traits(get_bnb_burn_request_t, endpoint.get_bnb_burn,
           One(bnb_burn_status_response_t, bnb_burn_status_response_t_meta))}
download_traits == {
    Traits(download_id_transaction_request_t, endpoint.download_id_transaction,
           One(download_id_response_t, download_id_response_t_meta)),
    Traits(download_link_transaction_request_t, endpoint.download_link_transaction,
           One(download_link_response_t, download_link_response_t_meta)),
    Traits(download_id_order_request_t, endpoint.download_id_order,
           One(download_id_response_t, download_id_response_t_meta)),
    Traits(download_link_order_request_t, endpoint.download_link_order,
           One(download_link_response_t, download_link_response_t_meta)),
    Traits(download_id_trade_request_t, endpoint.download_id_trade,
           One(download_id_response_t, download_id_response_t_meta)),
    Traits(download_link_trade_request_t, endpoint.download_link_trade,
           One(download_link_response_t, download_link_response_t_meta))}
parameterless_trade_traits == {
    Traits(test_order_request_t, endpoint.test_order,
           One(order_response_t, order_response_t_meta)),
    Traits(open_algo_orders_request_t, endpoint.open_algo_orders,
           Many(algo_order_response_t, algo_order_response_t_meta)),
    Traits(cancel_all_algo_orders_request_t, endpoint.cancel_all_algo_orders,
           One(code_msg_response_t, code_msg_response_t_meta)),
    Traits(tradfi_perps_request_t, endpoint.tradfi_perps,
           One(code_msg_response_t, code_msg_response_t_meta))}
user_data_stream_traits == {
    Traits(start_listen_key_request_t, endpoint.start_listen_key,
           One(listen_key_response_t, listen_key_response_t_meta)),
    Traits(keepalive_listen_key_request_t, endpoint.keepalive_listen_key,
           One(listen_key_response_t, listen_key_response_t_meta)),
    Traits(close_listen_key_request_t, endpoint.close_listen_key,
           One(empty_response_t, empty_response_t_meta))}

RestTraits ==
    UNION {market_data_traits, more_market_data_traits,
           account_traits, trade_traits,
           more_trade_traits, convert_traits,
           parameterless_market_data_traits, kline_traits,
           futures_data_traits, parameterless_account_traits,
           download_traits, parameterless_trade_traits,
           user_data_stream_traits}
=============================================================================
