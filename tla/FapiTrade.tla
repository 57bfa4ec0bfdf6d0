----------------------------- MODULE FapiTrade -----------------------------
(***************************************************************************)
(* The request and response types of the trade service.                    *)
(***************************************************************************)
EXTENDS FapiStruct

-----------------------------------------------------------------------------
\* types/trade.hpp
new_order_request_t == Struct(
    {"symbol", "side", "type", "quantity"},
    {"timeInForce", "price", "newClientOrderId", "stopPrice", "positionSide",
     "reduceOnly", "closePosition", "activationPrice", "callbackRate",
     "workingType", "priceProtect", "newOrderRespType", "priceMatch",
     "selfTradePreventionMode", "goodTillDate"})
order_response_t == Struct(
    {"clientOrderId", "cumQuote", "executedQty", "orderId", "avgPrice",
     "origQty", "price", "reduceOnly", "side", "positionSide", "status",
     "stopPrice", "closePosition", "symbol", "timeInForce", "type",
     "origType"},
    {"cumQty", "cumBase", "pair", "workingType", "priceProtect", "priceMatch",
     "selfTradePreventionMode", "goodTillDate", "activatePrice", "priceRate",
     "time", "updateTime"})
order_response_t_meta == Same({
    "clientOrderId", "cumQty", "cumQuote", "executedQty", "cumBase",
    "orderId", "avgPrice", "origQty", "pair", "price", "reduceOnly", "side",
    "positionSide", "status", "stopPrice", "closePosition", "symbol",
    "timeInForce", "type", "workingType", "priceProtect", "origType",
    "priceMatch", "selfTradePreventionMode", "goodTillDate", "activatePrice",
    "priceRate", "time", "updateTime"})
modify_order_request_t == Struct(
    {"symbol", "side", "quantity", "price"},
    {"orderId", "origClientOrderId", "priceMatch"})
cancel_order_request_t == Struct({"symbol"}, {"orderId", "origClientOrderId"})
query_order_request_t == Struct({"symbol"}, {"orderId", "origClientOrderId"})
cancel_all_open_orders_request_t == Struct({"symbol"}, {})
code_msg_response_t == Struct({"code", "msg"}, {})
\* Faulty variant: one member was forgotten.
code_msg_response_t_meta_Forgets == Same({"code"})
code_msg_response_t_meta == Same({"code", "msg"})
auto_cancel_request_t == Struct({"symbol", "countdownTime"}, {})
auto_cancel_response_t == Struct({"symbol", "countdownTime"}, {})
auto_cancel_response_t_meta == Same({"symbol", "countdownTime"})
query_open_order_request_t == Struct(
    {"symbol"},
    {"orderId", "origClientOrderId"})
all_open_orders_request_t == Struct({}, {"symbol"})
all_orders_request_t == Struct(
    {"symbol"},
    {"orderId", "startTime", "endTime", "limit"})
position_risk_v3_t == Struct(
    {"symbol", "positionSide", "positionAmt", "entryPrice", "breakEvenPrice",
     "markPrice", "unRealizedProfit", "liquidationPrice", "isolatedMargin",
     "notional", "marginAsset", "isolatedWallet", "initialMargin",
     "maintMargin", "positionInitialMargin", "openOrderInitialMargin", "adl",
     "bidNotional", "askNotional", "updateTime"},
    {})
position_risk_v3_t_meta == Same({
    "symbol", "positionSide", "positionAmt", "entryPrice", "breakEvenPrice",
    "markPrice", "unRealizedProfit", "liquidationPrice", "isolatedMargin",
    "notional", "marginAsset", "isolatedWallet", "initialMargin",
    "maintMargin", "positionInitialMargin", "openOrderInitialMargin", "adl",
    "bidNotional", "askNotional", "updateTime"})
position_info_v3_request_t == Struct({}, {"symbol"})
adl_quantile_values_t == Struct({"LONG", "SHORT"}, {"BOTH", "HEDGE"})
adl_quantile_values_t_meta == Same({"LONG", "SHORT", "BOTH", "HEDGE"})
adl_quantile_entry_t == Struct({"symbol", "adlQuantile"}, {})
adl_quantile_entry_t_meta == Same({"symbol", "adlQuantile"})
adl_quantile_request_t == Struct({}, {"symbol"})
force_orders_request_t == Struct(
    {},
    {"symbol", "autoCloseType", "startTime", "endTime", "limit"})
account_trade_request_t == Struct(
    {"symbol"},
    {"orderId", "startTime", "endTime", "fromId", "limit"})
account_trade_entry_t == Struct(
    {"id", "orderId", "symbol", "side", "positionSide", "price", "qty",
     "quoteQty", "commission", "commissionAsset", "time", "buyer", "maker",
     "realizedPnl"},
    {})
account_trade_entry_t_meta == Same({
    "id", "orderId", "symbol", "side", "positionSide", "price", "qty",
    "quoteQty", "commission", "commissionAsset", "time", "buyer", "maker",
    "realizedPnl"})
change_position_mode_request_t == Struct({"dualSidePosition"}, {})
change_multi_assets_mode_request_t == Struct({"multiAssetsMargin"}, {})
change_leverage_request_t == Struct({"symbol", "leverage"}, {})
change_leverage_response_t == Struct(
    {"leverage", "maxNotionalValue", "symbol"},
    {})
change_leverage_response_t_meta == Same({
    "leverage", "maxNotionalValue", "symbol"})
change_margin_type_request_t == Struct({"symbol", "marginType"}, {})
modify_isolated_margin_request_t == Struct(
    {"symbol", "amount", "type"},
    {"positionSide"})
modify_isolated_margin_response_t == Struct(
    {"code", "msg", "amount", "type"},
    {})
modify_isolated_margin_response_t_meta == Same({
    "code", "msg", "amount", "type"})
position_margin_history_request_t == Struct(
    {"symbol"},
    {"type", "startTime", "endTime", "limit"})
position_margin_history_entry_t == Struct(
    {"symbol", "type", "deltaType", "amount", "asset", "time", "positionSide"},
    {})
position_margin_history_entry_t_meta == Same({
    "symbol", "type", "deltaType", "amount", "asset", "time", "positionSide"})
order_modify_history_request_t == Struct(
    {"symbol"},
    {"orderId", "origClientOrderId", "startTime", "endTime", "limit"})
new_algo_order_request_t == Struct(
    {"symbol", "side", "type", "quantity", "algoType"},
    {"positionSide", "timeInForce", "price", "triggerPrice", "workingType",
     "clientAlgoId", "priceMatch", "closePosition", "priceProtect",
     "reduceOnly", "activatePrice", "callbackRate", "newOrderRespType",
     "selfTradePreventionMode", "goodTillDate"})
algo_order_response_t == Struct(
    {"algoId", "algoType", "symbol", "side", "algoStatus"},
    {"clientAlgoId", "positionSide", "orderType", "timeInForce", "quantity",
     "triggerPrice", "price", "icebergQuantity", "selfTradePreventionMode",
     "workingType", "priceMatch", "closePosition", "priceProtect",
     "reduceOnly", "activatePrice", "callbackRate", "createTime", "updateTime",
     "triggerTime", "goodTillDate"})
algo_order_response_t_meta == Same({
    "algoId", "clientAlgoId", "algoType", "symbol", "side", "positionSide",
    "algoStatus", "orderType", "timeInForce", "quantity", "triggerPrice",
    "price", "icebergQuantity", "selfTradePreventionMode", "workingType",
    "priceMatch", "closePosition", "priceProtect", "reduceOnly",
    "activatePrice", "callbackRate", "createTime", "updateTime",
    "triggerTime", "goodTillDate"})
cancel_algo_order_request_t == Struct({}, {"algoId", "clientAlgoId"})
query_algo_order_request_t == Struct({}, {"algoId", "clientAlgoId"})
all_algo_orders_request_t == Struct(
    {"symbol"},
    {"algoId", "startTime", "endTime", "page", "limit"})
tradfi_perps_request_t == Struct({}, {})
open_algo_orders_request_t == Struct({}, {})
cancel_all_algo_orders_request_t == Struct({}, {})
test_order_request_t == Struct(
    {"symbol", "side", "type", "quantity"},
    {"timeInForce", "price", "newClientOrderId", "stopPrice",
     "activationPrice", "callbackRate", "workingType", "reduceOnly",
     "positionSide", "closePosition", "newOrderRespType", "priceProtect",
     "priceMatch", "selfTradePreventionMode", "goodTillDate"})
TradeMetas == {
    <<order_response_t, order_response_t_meta>>,
    <<code_msg_response_t, code_msg_response_t_meta>>,
    <<auto_cancel_response_t, auto_cancel_response_t_meta>>,
    <<position_risk_v3_t, position_risk_v3_t_meta>>,
    <<adl_quantile_values_t, adl_quantile_values_t_meta>>,
    <<adl_quantile_entry_t, adl_quantile_entry_t_meta>>,
    <<account_trade_entry_t, account_trade_entry_t_meta>>,
    <<change_leverage_response_t, change_leverage_response_t_meta>>,
    <<modify_isolated_margin_response_t, modify_isolated_margin_response_t_meta>>,
    <<position_margin_history_entry_t, position_margin_history_entry_t_meta>>,
    <<algo_order_response_t, algo_order_response_t_meta>>}
=============================================================================
