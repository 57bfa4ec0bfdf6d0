---------------------------- MODULE BinapiTypes ----------------------------
(***************************************************************************)
(* The types of binapi (types.hpp, types.cpp, enums.cpp): the members that *)
(* a struct declares, the JSON key from which construct() sets each, and   *)
(* the key under which operator<< prints it.  The key of a member that is  *)
(* not at the top level of the document is a path: "k.t" is the key t of   *)
(* the object k, "0.id" the key id of the first element.                   *)
(***************************************************************************)
EXTENDS Sequences, SequencesExt

Same(members) == [m \in members |-> m]

\* A struct: the keys it is read from and the keys it is printed under.
Type(members, read, printed) ==
    [members |-> members, read |-> read, printed |-> printed]
Alike(members, keys) == Type(members, Same(keys), Same(keys))

\* A struct that is read from an array and printed as one: a member's key is
\* its place.
Positions(members, order) ==
    LET place == [m \in Range(order) |->
                      CHOOSE i \in DOMAIN order : order[i] = m]
    IN  Type(members, place, place)

\* ok is set when the document has no key, and printed as any member is.
WhenEmpty(members) == Type(members, [ok |-> "(no key)"], Same({"ok"}))

\* A filter of a symbol: the filterType it has, the members it prints.
Filter(members, tag, printed) ==
    [members |-> members, tag |-> tag, printed |-> printed]

\* An array of structs: what its construct() reads of each.
List(members, item, read) ==
    [members |-> members, item |-> item, read |-> read]

-----------------------------------------------------------------------------
\* types.hpp
ping_t_members == {"ok"}
server_time_t_members == {"serverTime"}
avg_price_t_members == {"mins", "price"}
prices_t_members == {"prices"}
prices_t_price_t_members == {"symbol", "price"}
_24hrs_tickers_t_members == {"tickers"}
_24hrs_tickers_t__24hrs_ticker_t_members == {
    "symbol", "priceChange", "priceChangePercent", "weightedAvgPrice",
    "prevClosePrice", "lastPrice", "lastQty", "bidPrice", "askPrice",
    "openPrice", "highPrice", "lowPrice", "volume", "quoteVolume",
    "openTime", "closeTime", "firstId", "lastId", "count"}
account_info_t_members == {
    "makerCommission", "takerCommission", "buyerCommission",
    "sellerCommission", "canTrade", "canWithdraw", "canDeposit",
    "updateTime", "balances"}
account_info_t_balance_t_members == {"asset", "free", "locked"}
exchange_info_t_members == {
    "timezone", "serverTime", "exchangeFilters", "rateLimits", "symbols",
    "permissions"}
exchange_rate_limit_t_members == {"rateLimitType", "interval", "limit"}
exchange_symbol_t_members == {
    "symbol", "status", "baseAsset", "baseAssetPrecision", "quoteAsset",
    "quotePrecision", "orderTypes", "icebergAllowed", "ocoAllowed",
    "quoteOrderQtyMarketAllowed", "allowTrailingStop",
    "cancelReplaceAllowed", "filters"}
filter_price_t_members == {"minPrice", "maxPrice", "tickSize"}
filter_percent_price_t_members == {
    "multiplierUp", "multiplierDown", "avgPriceMins"}
filter_percent_price_by_side_t_members == {
    "bidMultiplierUp", "bidMultiplierDown", "askMultiplierUp",
    "askMultiplierDown", "avgPriceMins"}
filter_lot_size_t_members == {"minQty", "maxQty", "stepSize"}
filter_market_lot_size_t_members == {"minQty", "maxQty", "stepSize"}
filter_min_notional_t_members == {"minNotional"}
filter_iceberg_parts_t_members == {"limit"}
filter_max_num_orders_t_members == {"maxNumOrders"}
filter_max_num_algo_orders_t_members == {"maxNumAlgoOrders"}
filter_max_position_t_members == {"maxPosition"}
filter_trailing_delta_t_members == {
    "minTrailingAboveDelta", "maxTrailingAboveDelta",
    "minTrailingBelowDelta", "maxTrailingBelowDelta"}
filter_notional_t_members == {
    "minNotional", "applyMinToMarket", "maxNotional", "applyMaxToMarket",
    "avgPriceMins"}
depths_t_members == {"lastUpdateId", "bids", "asks"}
depths_t_depth_t_members == {"price", "amount"}
trades_t_members == {"trades"}
trades_t_trade_t_members == {
    "id", "price", "qty", "time", "isBuyerMaker", "isBestMatch"}
agg_trades_t_members == {"trades"}
agg_trades_t_agg_trade_t_members == {
    "id", "price", "qty", "first_id", "last_id", "time", "isBuyerMaker",
    "isBestMatch"}
klines_t_members == {"klines"}
klines_t_kline_t_members == {
    "start_time", "end_time", "open", "high", "low", "close", "volume",
    "quote_volume", "num_trades", "taker_buy_base_vol",
    "taker_buy_quote_vol"}
order_info_t_members == {
    "symbol", "orderId", "clientOrderId", "price", "origQty", "executedQty",
    "cummulativeQuoteQty", "status", "timeInForce", "type", "side",
    "stopPrice", "icebergQty", "time", "updateTime", "isWorking"}
orders_info_t_members == {"orders"}
new_order_info_ack_t_members == {
    "symbol", "orderId", "clientOrderId", "transactTime"}
new_order_info_result_t_members == {
    "symbol", "orderId", "clientOrderId", "transactTime", "price",
    "origQty", "executedQty", "cummulativeQuoteQty", "status",
    "timeInForce", "type", "side"}
new_order_info_full_t_members == {
    "symbol", "orderId", "clientOrderId", "transactTime", "price",
    "origQty", "executedQty", "cummulativeQuoteQty", "status",
    "timeInForce", "type", "side", "fills"}
new_order_info_full_t_fill_part_members == {
    "price", "qty", "commission", "commissionAsset"}
new_test_order_info_t_members == {"ok"}
cancel_order_info_t_members == {
    "symbol", "orderId", "origClientOrderId", "clientOrderId", "price",
    "origQty", "executedQty", "cummulativeQuoteQty", "status",
    "timeInForce", "type", "side"}
cancel_all_open_orders_info_t_members == {"orders"}
my_trades_info_t_members == {"trades"}
my_trades_info_t_my_trade_info_t_members == {
    "symbol", "id", "orderId", "price", "qty", "commission",
    "commissionAsset", "time", "isBuyer", "isMaker", "isBestMatch"}
start_user_data_stream_t_members == {"listenKey"}
ping_user_data_stream_t_members == {"ok"}
close_user_data_stream_t_members == {"ok"}
ws_agg_trade_t_members == {
    "e", "E", "s", "a", "p", "q", "f", "l", "T", "m", "M"}
ws_trade_t_members == {"E", "s", "t", "p", "q", "T", "m", "M"}
ws_part_depths_t_members == {"a", "b"}
ws_part_depths_t_depth_t_members == {"price", "amount"}
ws_diff_depths_t_members == {"E", "s", "u", "U", "a", "b"}
ws_diff_depths_t_depth_t_members == {"price", "amount"}
ws_kline_t_members == {
    "E", "s", "t", "T", "i", "f", "L", "o", "c", "h", "l", "v", "n", "x",
    "q", "V", "Q"}
ws_mini_ticker_t_members == {"E", "s", "c", "o", "h", "l", "v", "q"}
ws_mini_tickers_t_members == {"tickers"}
ws_market_ticker_t_members == {
    "E", "s", "p", "P", "w", "x", "c", "Q", "b", "B", "a", "A", "o", "h",
    "l", "v", "q", "O", "C", "F", "L", "n"}
ws_markets_tickers_t_members == {"tickers"}
ws_book_ticker_t_members == {"u", "s", "b", "B", "a", "A"}
userdata_account_update_t_members == {"e", "E", "u", "B"}
userdata_account_update_t_balance_t_members == {"a", "f", "l"}
userdata_balance_update_t_members == {"e", "E", "a", "d", "T"}
userdata_order_update_t_members == {
    "e", "E", "s", "c", "S", "o", "f", "q", "p", "P", "F", "C", "x", "X",
    "r", "i", "l", "z", "L", "n", "N", "T", "t", "I", "w", "m", "M", "O",
    "Z"}

-----------------------------------------------------------------------------
\* types.cpp
ping_t == WhenEmpty(ping_t_members)
server_time_t == Alike(server_time_t_members, {"serverTime"})
\* Faulty variant: both members are read from one key.
avg_price_t_Misread == Type(avg_price_t_members,
    [mins |-> "price", price |-> "price"], Same({"mins", "price"}))

avg_price_t == Alike(avg_price_t_members, {"mins", "price"})
prices_t_price_t == Alike(prices_t_price_t_members, {"symbol", "price"})
prices_t == List(prices_t_members, prices_t_price_t, Same({"symbol", "price"}))
_24hrs_tickers_t__24hrs_ticker_t ==
    Alike(_24hrs_tickers_t__24hrs_ticker_t_members, {
    "symbol", "priceChange", "priceChangePercent", "weightedAvgPrice",
    "prevClosePrice", "lastPrice", "lastQty", "bidPrice", "askPrice",
    "openPrice", "highPrice", "lowPrice", "volume", "quoteVolume",
    "openTime", "closeTime", "firstId", "lastId", "count"})
_24hrs_tickers_t == List(_24hrs_tickers_t_members,
    _24hrs_tickers_t__24hrs_ticker_t, _24hrs_tickers_t__24hrs_ticker_t.read)
account_info_t == Alike(account_info_t_members, {
    "makerCommission", "takerCommission", "buyerCommission",
    "sellerCommission", "canTrade", "canWithdraw", "canDeposit",
    "updateTime", "balances"})
account_info_t_balance_t == Type(account_info_t_balance_t_members,
    Same({}),
    Same({"asset", "free", "locked"}))
exchange_info_t == Type(exchange_info_t_members,
    [timezone |-> "timezone", serverTime |-> "serverTime",
     exchangeFilters |-> "exchangeFilters", rateLimits |-> "rateLimits",
     symbols |-> "symbols", permissions |-> "symbols.permissions"],
    Same({"timezone", "serverTime", "exchangeFilters", "rateLimits",
     "symbols", "permissions"}))
exchange_rate_limit_t == Alike(exchange_rate_limit_t_members, {
    "rateLimitType", "interval", "limit"})
exchange_symbol_t == Type(exchange_symbol_t_members,
    Same({"symbol", "status", "baseAsset", "baseAssetPrecision",
     "quoteAsset", "quotePrecision", "icebergAllowed", "orderTypes",
     "filters"}),
    Same({"symbol", "status", "baseAsset", "baseAssetPrecision",
     "quoteAsset", "quotePrecision", "orderTypes", "icebergAllowed",
     "ocoAllowed", "quoteOrderQtyMarketAllowed", "allowTrailingStop",
     "cancelReplaceAllowed", "filters"}))
filter_price_t == Filter(filter_price_t_members, "PRICE_FILTER", {
    "minPrice", "maxPrice", "tickSize"})
filter_percent_price_t ==
    Filter(filter_percent_price_t_members, "PERCENT_PRICE", {
    "multiplierUp", "multiplierDown", "avgPriceMins"})
filter_percent_price_by_side_t ==
    Filter(filter_percent_price_by_side_t_members, "PERCENT_PRICE_BY_SIDE", {
    "bidMultiplierUp", "bidMultiplierDown", "askMultiplierUp",
    "askMultiplierDown", "avgPriceMins"})
filter_lot_size_t == Filter(filter_lot_size_t_members, "LOT_SIZE", {
    "minQty", "maxQty", "stepSize"})
filter_market_lot_size_t ==
    Filter(filter_market_lot_size_t_members, "MARKET_LOT_SIZE", {
    "minQty", "maxQty", "stepSize"})
filter_min_notional_t ==
    Filter(filter_min_notional_t_members, "MIN_NOTIONAL", {
    "minNotional"})
filter_iceberg_parts_t ==
    Filter(filter_iceberg_parts_t_members, "ICEBERG_PARTS", {
    "limit"})
filter_max_num_orders_t ==
    Filter(filter_max_num_orders_t_members, "MAX_NUM_ORDERS", {
    "maxNumOrders"})
filter_max_num_algo_orders_t ==
    Filter(filter_max_num_algo_orders_t_members, "MAX_NUM_ALGO_ORDERS", {
    "maxNumAlgoOrders"})
filter_max_position_t ==
    Filter(filter_max_position_t_members, "MAX_POSITION", {
    "maxPosition"})
filter_trailing_delta_t ==
    Filter(filter_trailing_delta_t_members, "TRAILING_DELTA", {
    "minTrailingAboveDelta", "maxTrailingAboveDelta",
    "minTrailingBelowDelta", "maxTrailingBelowDelta"})
filter_notional_t == Filter(filter_notional_t_members, "NOTIONAL", {
    "minNotional", "applyMinToMarket", "maxNotional", "applyMaxToMarket",
    "avgPriceMins"})
depths_t == Alike(depths_t_members, {"lastUpdateId", "bids", "asks"})
depths_t_depth_t == Positions(depths_t_depth_t_members, <<"price", "amount">>)
trades_t_trade_t == Type(trades_t_trade_t_members,
    [id |-> "0.id", price |-> "0.price", qty |-> "0.qty", time |-> "0.time",
     isBuyerMaker |-> "0.isBuyerMaker", isBestMatch |-> "0.isBestMatch"],
    Same({"id", "price", "qty", "time", "isBuyerMaker", "isBestMatch"}))
trades_t == List(trades_t_members, trades_t_trade_t, Same({
    "id", "price", "qty", "time", "isBuyerMaker", "isBestMatch"}))
agg_trades_t_agg_trade_t == Type(agg_trades_t_agg_trade_t_members,
    [id |-> "0.a", price |-> "0.p", qty |-> "0.q", first_id |-> "0.f",
     last_id |-> "0.l", time |-> "0.T", isBuyerMaker |-> "0.m",
     isBestMatch |-> "0.M"],
    Same({"id", "price", "qty", "first_id", "last_id", "time",
     "isBuyerMaker", "isBestMatch"}))
agg_trades_t == List(agg_trades_t_members, agg_trades_t_agg_trade_t,
    [id |-> "a", price |-> "p", qty |-> "q", first_id |-> "f",
     last_id |-> "l", time |-> "T", isBuyerMaker |-> "m",
     isBestMatch |-> "M"])
klines_t_kline_t == Positions(klines_t_kline_t_members, <<
    "start_time", "open", "high", "low", "close", "volume", "end_time",
    "quote_volume", "num_trades", "taker_buy_base_vol",
    "taker_buy_quote_vol">>)
klines_t ==
    List(klines_t_members, klines_t_kline_t,
         Positions(klines_t_kline_t_members, <<
    "start_time", "open", "high", "low", "close", "volume", "end_time",
    "quote_volume", "num_trades", "taker_buy_base_vol",
    "taker_buy_quote_vol">>).read)
order_info_t == Alike(order_info_t_members, {
    "symbol", "orderId", "clientOrderId", "price", "origQty", "executedQty",
    "cummulativeQuoteQty", "status", "timeInForce", "type", "side",
    "stopPrice", "icebergQty", "time", "updateTime", "isWorking"})
orders_info_t == List(orders_info_t_members, order_info_t, Same({
    "symbol", "orderId", "clientOrderId", "price", "origQty", "executedQty",
    "cummulativeQuoteQty", "status", "timeInForce", "type", "side",
    "stopPrice", "icebergQty", "time", "updateTime", "isWorking"}))
new_order_info_ack_t == Alike(new_order_info_ack_t_members, {
    "symbol", "orderId", "clientOrderId", "transactTime"})
new_order_info_result_t == Alike(new_order_info_result_t_members, {
    "symbol", "orderId", "clientOrderId", "transactTime", "price",
    "origQty", "executedQty", "cummulativeQuoteQty", "status",
    "timeInForce", "type", "side"})
new_order_info_full_t == Alike(new_order_info_full_t_members, {
    "symbol", "orderId", "clientOrderId", "transactTime", "price",
    "origQty", "executedQty", "cummulativeQuoteQty", "status",
    "timeInForce", "type", "side", "fills"})
new_order_info_full_t_fill_part ==
    Alike(new_order_info_full_t_fill_part_members, {
    "price", "qty", "commission", "commissionAsset"})
new_test_order_info_t == WhenEmpty(new_test_order_info_t_members)
cancel_order_info_t == Alike(cancel_order_info_t_members, {
    "symbol", "orderId", "origClientOrderId", "clientOrderId", "price",
    "origQty", "executedQty", "cummulativeQuoteQty", "status",
    "timeInForce", "type", "side"})
cancel_all_open_orders_info_t == List(cancel_all_open_orders_info_t_members,
    cancel_order_info_t, cancel_order_info_t.read)
my_trades_info_t_my_trade_info_t ==
    Alike(my_trades_info_t_my_trade_info_t_members, {
    "symbol", "id", "orderId", "price", "qty", "commission",
    "commissionAsset", "time", "isBuyer", "isMaker", "isBestMatch"})
my_trades_info_t == List(my_trades_info_t_members,
    my_trades_info_t_my_trade_info_t, my_trades_info_t_my_trade_info_t.read)
start_user_data_stream_t == Alike(start_user_data_stream_t_members, {
    "listenKey"})
ping_user_data_stream_t == WhenEmpty(ping_user_data_stream_t_members)
close_user_data_stream_t == WhenEmpty(close_user_data_stream_t_members)
ws_agg_trade_t == Alike(ws_agg_trade_t_members, {
    "e", "E", "s", "a", "p", "q", "f", "l", "T", "m", "M"})
ws_trade_t == Alike(ws_trade_t_members, {
    "E", "s", "t", "p", "q", "T", "m", "M"})
ws_part_depths_t == Type(ws_part_depths_t_members,
    [a |-> "asks", b |-> "bids"],
    [a |-> "asks", b |-> "bids"])
ws_part_depths_t_depth_t == Type(ws_part_depths_t_depth_t_members,
    [price |-> 1, amount |-> 2],
    Same({}))
ws_diff_depths_t == Alike(ws_diff_depths_t_members, {
    "E", "s", "u", "U", "a", "b"})
ws_diff_depths_t_depth_t == Type(ws_diff_depths_t_depth_t_members,
    [price |-> 1, amount |-> 2],
    Same({}))
ws_kline_t == Type(ws_kline_t_members,
    [E |-> "E", s |-> "s", t |-> "k.t", T |-> "k.T", i |-> "k.i",
     f |-> "k.f", L |-> "k.L", o |-> "k.o", c |-> "k.c", h |-> "k.h",
     l |-> "k.l", v |-> "k.v", n |-> "k.n", x |-> "k.x", q |-> "k.q",
     V |-> "k.V", Q |-> "k.Q"],
    Same({"E", "s", "t", "T", "i", "f", "L", "o", "c", "h", "l", "v", "n",
     "x", "q", "V", "Q"}))
ws_mini_ticker_t == Type(ws_mini_ticker_t_members,
    Same({"E", "s", "c", "o", "h", "l", "v", "q"}),
    [E |-> "E:", s |-> "s", c |-> "c", o |-> "o", h |-> "h", l |-> "l",
     v |-> "v", q |-> "q"])
ws_mini_tickers_t == List(ws_mini_tickers_t_members,
    ws_mini_ticker_t, ws_mini_ticker_t.read)
ws_market_ticker_t == Alike(ws_market_ticker_t_members, {
    "E", "s", "p", "P", "w", "x", "c", "Q", "b", "B", "a", "A", "o", "h",
    "l", "v", "q", "O", "C", "F", "L", "n"})
ws_markets_tickers_t ==
    List(ws_markets_tickers_t_members, ws_market_ticker_t, Same({
    "E", "s", "p", "P", "w", "x", "c", "Q", "b", "B", "a", "A", "o", "h",
    "l", "v", "q", "O", "C", "F", "L", "n"}))
ws_book_ticker_t == Alike(ws_book_ticker_t_members, {
    "u", "s", "b", "B", "a", "A"})
userdata_account_update_t == Alike(userdata_account_update_t_members, {
    "e", "E", "u", "B"})
userdata_account_update_t_balance_t ==
    Alike(userdata_account_update_t_balance_t_members, {
    "a", "f", "l"})
userdata_balance_update_t == Alike(userdata_balance_update_t_members, {
    "e", "E", "a", "d", "T"})
userdata_order_update_t == Alike(userdata_order_update_t_members, {
    "e", "E", "s", "c", "S", "o", "f", "q", "p", "P", "F", "C", "x", "X",
    "r", "i", "l", "z", "L", "n", "N", "T", "t", "I", "w", "m", "M", "O",
    "Z"})
account_info_t_items ==
    List({"balances"}, account_info_t_balance_t, Same({
    "asset", "free", "locked"}))

\* The switch over filterType in exchange_info_t::construct.
filters == [
    PRICE_FILTER |-> {"minPrice", "maxPrice", "tickSize"},
    PERCENT_PRICE |-> {"multiplierUp", "multiplierDown", "avgPriceMins"},
    PERCENT_PRICE_BY_SIDE |-> {"bidMultiplierUp", "bidMultiplierDown",
        "askMultiplierUp", "askMultiplierDown", "avgPriceMins"},
    LOT_SIZE |-> {"minQty", "maxQty", "stepSize"},
    MARKET_LOT_SIZE |-> {"minQty", "maxQty", "stepSize"},
    MIN_NOTIONAL |-> {"minNotional"},
    ICEBERG_PARTS |-> {"limit"},
    MAX_NUM_ORDERS |-> {"maxNumOrders"},
    MAX_NUM_ALGO_ORDERS |-> {"maxNumAlgoOrders"},
    MAX_POSITION |-> {"maxPosition"},
    TRAILING_DELTA |-> {"minTrailingAboveDelta", "maxTrailingAboveDelta",
        "minTrailingBelowDelta", "maxTrailingBelowDelta"},
    NOTIONAL |-> {"minNotional", "applyMinToMarket", "maxNotional",
        "applyMaxToMarket", "avgPriceMins"}]

\* Faulty variant: the keys are looked for in the other order.
new_order_resp_type_ResultFirst(keys) ==
    IF "side" \in keys THEN "new_order_info_result_t"
    ELSE IF "fills" \in keys THEN "new_order_info_full_t"
    ELSE IF "symbol" \in keys THEN "new_order_info_ack_t"
    ELSE IF keys = {} THEN "new_test_order_info_t" ELSE "unreachable"

\* new_order_resp_type::construct: the alternative that a document with these
\* keys is read as.  Any other document is past the assertion.
new_order_resp_type(keys) ==
    IF "fills" \in keys THEN "new_order_info_full_t"
    ELSE IF "side" \in keys THEN "new_order_info_result_t"
    ELSE IF "symbol" \in keys THEN "new_order_info_ack_t"
    ELSE IF keys = {} THEN "new_test_order_info_t" ELSE "unreachable"

OrderAnswers == {"new_order_info_full_t", "new_order_info_result_t",
    "new_order_info_ack_t", "new_test_order_info_t"}

Types == [
    ping_t |-> ping_t, server_time_t |-> server_time_t,
    avg_price_t |-> avg_price_t, prices_t_price_t |-> prices_t_price_t,
    _24hrs_tickers_t__24hrs_ticker_t |-> _24hrs_tickers_t__24hrs_ticker_t,
    account_info_t |-> account_info_t,
    account_info_t_balance_t |-> account_info_t_balance_t,
    exchange_info_t |-> exchange_info_t,
    exchange_rate_limit_t |-> exchange_rate_limit_t,
    exchange_symbol_t |-> exchange_symbol_t, depths_t |-> depths_t,
    depths_t_depth_t |-> depths_t_depth_t,
    trades_t_trade_t |-> trades_t_trade_t,
    agg_trades_t_agg_trade_t |-> agg_trades_t_agg_trade_t,
    klines_t_kline_t |-> klines_t_kline_t, order_info_t |-> order_info_t,
    new_order_info_ack_t |-> new_order_info_ack_t,
    new_order_info_result_t |-> new_order_info_result_t,
    new_order_info_full_t |-> new_order_info_full_t,
    new_order_info_full_t_fill_part |-> new_order_info_full_t_fill_part,
    new_test_order_info_t |-> new_test_order_info_t,
    cancel_order_info_t |-> cancel_order_info_t,
    my_trades_info_t_my_trade_info_t |-> my_trades_info_t_my_trade_info_t,
    start_user_data_stream_t |-> start_user_data_stream_t,
    ping_user_data_stream_t |-> ping_user_data_stream_t,
    close_user_data_stream_t |-> close_user_data_stream_t,
    ws_agg_trade_t |-> ws_agg_trade_t, ws_trade_t |-> ws_trade_t,
    ws_part_depths_t |-> ws_part_depths_t,
    ws_part_depths_t_depth_t |-> ws_part_depths_t_depth_t,
    ws_diff_depths_t |-> ws_diff_depths_t,
    ws_diff_depths_t_depth_t |-> ws_diff_depths_t_depth_t,
    ws_kline_t |-> ws_kline_t, ws_mini_ticker_t |-> ws_mini_ticker_t,
    ws_market_ticker_t |-> ws_market_ticker_t,
    ws_book_ticker_t |-> ws_book_ticker_t,
    userdata_account_update_t |-> userdata_account_update_t,
    userdata_account_update_t_balance_t |->
        userdata_account_update_t_balance_t,
    userdata_balance_update_t |-> userdata_balance_update_t,
    userdata_order_update_t |-> userdata_order_update_t]

Filters == [
    filter_price_t |-> filter_price_t,
    filter_percent_price_t |-> filter_percent_price_t,
    filter_percent_price_by_side_t |-> filter_percent_price_by_side_t,
    filter_lot_size_t |-> filter_lot_size_t,
    filter_market_lot_size_t |-> filter_market_lot_size_t,
    filter_min_notional_t |-> filter_min_notional_t,
    filter_iceberg_parts_t |-> filter_iceberg_parts_t,
    filter_max_num_orders_t |-> filter_max_num_orders_t,
    filter_max_num_algo_orders_t |-> filter_max_num_algo_orders_t,
    filter_max_position_t |-> filter_max_position_t,
    filter_trailing_delta_t |-> filter_trailing_delta_t,
    filter_notional_t |-> filter_notional_t]

Lists == [
    prices_t |-> prices_t, _24hrs_tickers_t |-> _24hrs_tickers_t,
    trades_t |-> trades_t, agg_trades_t |-> agg_trades_t,
    klines_t |-> klines_t, orders_info_t |-> orders_info_t,
    cancel_all_open_orders_info_t |-> cancel_all_open_orders_info_t,
    my_trades_info_t |-> my_trades_info_t,
    ws_mini_tickers_t |-> ws_mini_tickers_t,
    ws_markets_tickers_t |-> ws_markets_tickers_t,
    account_info_t_items |-> account_info_t_items]
=============================================================================
