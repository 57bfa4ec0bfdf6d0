---------------------------- MODULE FapiAccount ----------------------------
(***************************************************************************)
(* The types shared by all services, and those of the account, user data   *)
(* stream and convert services.                                            *)
(***************************************************************************)
EXTENDS FapiStruct

-----------------------------------------------------------------------------
\* types/common.hpp
empty_response_t == Struct({}, {})
empty_response_t_meta == Same({})
rate_limit_t == Struct(
    {"rateLimitType", "interval", "intervalNum", "limit"},
    {"count"})
rate_limit_t_meta == Same({
    "rateLimitType", "interval", "intervalNum", "limit", "count"})
server_time_response_t == Struct({"serverTime"}, {})
server_time_response_t_meta == Same({"serverTime"})
binance_error_document_t == Struct({"code", "msg"}, {})
binance_error_document_t_meta == Same({"code", "msg"})
price_level_t == Struct({"price", "quantity"}, {})
price_level_t_meta == <<"price", "quantity">>
exchange_info_asset_t == Struct(
    {"asset", "marginAvailable"},
    {"autoAssetExchange"})
exchange_info_asset_t_meta == Same({
    "asset", "marginAvailable", "autoAssetExchange"})
symbol_filter_t == Struct(
    {"filterType"},
    {"maxPrice", "minPrice", "tickSize", "maxQty", "minQty", "stepSize",
     "limit", "notional", "multiplierUp", "multiplierDown",
     "multiplierDecimal", "positionControlSide"})
symbol_filter_t_meta == Same({
    "filterType", "maxPrice", "minPrice", "tickSize", "maxQty", "minQty",
    "stepSize", "limit", "notional", "multiplierUp", "multiplierDown",
    "multiplierDecimal", "positionControlSide"})
symbol_info_t == Struct(
    {"symbol", "pair", "contractType", "deliveryDate", "onboardDate", "status",
     "maintMarginPercent", "requiredMarginPercent", "baseAsset", "quoteAsset",
     "marginAsset", "pricePrecision", "quantityPrecision",
     "baseAssetPrecision", "quotePrecision", "underlyingType",
     "underlyingSubType", "triggerProtect", "filters", "orderTypes",
     "timeInForce", "liquidationFee", "marketTakeBound", "permissionSets"},
    {"settlePlan", "maxMoveOrderLimit"})
symbol_info_t_meta == Same({
    "symbol", "pair", "contractType", "deliveryDate", "onboardDate", "status",
    "maintMarginPercent", "requiredMarginPercent", "baseAsset", "quoteAsset",
    "marginAsset", "pricePrecision", "quantityPrecision",
    "baseAssetPrecision", "quotePrecision", "underlyingType",
    "underlyingSubType", "settlePlan", "triggerProtect", "filters",
    "orderTypes", "timeInForce", "liquidationFee", "marketTakeBound",
    "maxMoveOrderLimit", "permissionSets"})
exchange_info_response_t == Struct(
    {"timezone", "serverTime", "futuresType", "exchangeFilters", "rateLimits",
     "assets", "symbols"},
    {})
exchange_info_response_t_meta == Same({
    "timezone", "serverTime", "futuresType", "exchangeFilters", "rateLimits",
    "assets", "symbols"})
listen_key_response_t == Struct({"listenKey"}, {})
listen_key_response_t_meta == Same({"listenKey"})
combined_stream_frame_t == Struct({"stream", "data"}, {})
combined_stream_frame_t_meta == Same({"stream", "data"})
-----------------------------------------------------------------------------
\* types/account.hpp
account_asset_t == Struct(
    {"asset", "walletBalance", "unrealizedProfit", "marginBalance",
     "maintMargin", "initialMargin", "positionInitialMargin",
     "openOrderInitialMargin", "crossWalletBalance", "crossUnPnl",
     "availableBalance", "maxWithdrawAmount", "updateTime"},
    {"marginAvailable"})
account_asset_t_meta == Same({
    "asset", "walletBalance", "unrealizedProfit", "marginBalance",
    "maintMargin", "initialMargin", "positionInitialMargin",
    "openOrderInitialMargin", "crossWalletBalance", "crossUnPnl",
    "availableBalance", "maxWithdrawAmount", "marginAvailable", "updateTime"})
account_position_t == Struct(
    {"symbol", "initialMargin", "maintMargin", "unrealizedProfit",
     "positionSide", "positionAmt", "updateTime"},
    {"positionInitialMargin", "openOrderInitialMargin", "leverage", "isolated",
     "entryPrice", "breakEvenPrice", "maxNotional", "bidNotional",
     "askNotional", "isolatedMargin", "notional", "isolatedWallet"})
account_position_t_meta == Same({
    "symbol", "initialMargin", "maintMargin", "unrealizedProfit",
    "positionInitialMargin", "openOrderInitialMargin", "leverage", "isolated",
    "entryPrice", "breakEvenPrice", "maxNotional", "bidNotional",
    "askNotional", "positionSide", "positionAmt", "isolatedMargin",
    "notional", "isolatedWallet", "updateTime"})
account_information_t == Struct(
    {"totalInitialMargin", "totalMaintMargin", "totalWalletBalance",
     "totalUnrealizedProfit", "totalMarginBalance",
     "totalPositionInitialMargin", "totalOpenOrderInitialMargin",
     "totalCrossWalletBalance", "totalCrossUnPnl", "availableBalance",
     "maxWithdrawAmount", "assets", "positions"},
    {"feeTier", "canTrade", "canDeposit", "canWithdraw", "updateTime",
     "multiAssetsMargin", "tradeGroupId"})
account_information_t_meta == Same({
    "feeTier", "canTrade", "canDeposit", "canWithdraw", "updateTime",
    "multiAssetsMargin", "tradeGroupId", "totalInitialMargin",
    "totalMaintMargin", "totalWalletBalance", "totalUnrealizedProfit",
    "totalMarginBalance", "totalPositionInitialMargin",
    "totalOpenOrderInitialMargin", "totalCrossWalletBalance",
    "totalCrossUnPnl", "availableBalance", "maxWithdrawAmount", "assets",
    "positions"})
futures_account_balance_t == Struct(
    {"accountAlias", "asset", "balance", "crossWalletBalance", "crossUnPnl",
     "availableBalance", "maxWithdrawAmount", "marginAvailable", "updateTime"},
    {})
futures_account_balance_t_meta == Same({
    "accountAlias", "asset", "balance", "crossWalletBalance", "crossUnPnl",
    "availableBalance", "maxWithdrawAmount", "marginAvailable", "updateTime"})
position_risk_request_t == Struct({}, {"symbol"})
position_risk_t == Struct(
    {"symbol", "positionAmt", "entryPrice", "breakEvenPrice", "markPrice",
     "unRealizedProfit", "liquidationPrice", "leverage", "maxNotionalValue",
     "marginType", "isolatedMargin", "isAutoAddMargin", "positionSide",
     "notional", "isolatedWallet", "updateTime"},
    {})
position_risk_t_meta == Same({
    "symbol", "positionAmt", "entryPrice", "breakEvenPrice", "markPrice",
    "unRealizedProfit", "liquidationPrice", "leverage", "maxNotionalValue",
    "marginType", "isolatedMargin", "isAutoAddMargin", "positionSide",
    "notional", "isolatedWallet", "updateTime"})
account_config_response_t == Struct(
    {"feeTier", "canTrade", "canDeposit", "canWithdraw", "dualSidePosition",
     "multiAssetsMargin", "updateTime"},
    {"tradeGroupId"})
account_config_response_t_meta == Same({
    "feeTier", "canTrade", "canDeposit", "canWithdraw", "dualSidePosition",
    "multiAssetsMargin", "tradeGroupId", "updateTime"})
symbol_config_request_t == Struct({}, {"symbol"})
symbol_config_entry_t == Struct(
    {"symbol", "marginType", "isAutoAddMargin", "leverage",
     "maxNotionalValue"},
    {})
symbol_config_entry_t_meta == Same({
    "symbol", "marginType", "isAutoAddMargin", "leverage",
    "maxNotionalValue"})
multi_assets_mode_response_t == Struct({"multiAssetsMargin"}, {})
multi_assets_mode_response_t_meta == Same({"multiAssetsMargin"})
position_mode_response_t == Struct({"dualSidePosition"}, {})
position_mode_response_t_meta == Same({"dualSidePosition"})
income_history_request_t == Struct(
    {},
    {"symbol", "incomeType", "startTime", "endTime", "page", "limit"})
income_history_entry_t == Struct(
    {"symbol", "incomeType", "income", "asset", "info", "time", "tranId",
     "tradeId"},
    {})
income_history_entry_t_meta == Same({
    "symbol", "incomeType", "income", "asset", "info", "time", "tranId",
    "tradeId"})
leverage_bracket_request_t == Struct({}, {"symbol"})
leverage_bracket_entry_t == Struct(
    {"bracket", "initialLeverage", "notionalCap", "notionalFloor",
     "maintMarginRatio", "cum"},
    {})
leverage_bracket_entry_t_meta == Same({
    "bracket", "initialLeverage", "notionalCap", "notionalFloor",
    "maintMarginRatio", "cum"})
symbol_leverage_brackets_t == Struct({"symbol", "brackets"}, {"notionalCoef"})
symbol_leverage_brackets_t_meta == Same({"symbol", "notionalCoef", "brackets"})
commission_rate_request_t == Struct({"symbol"}, {})
commission_rate_response_t == Struct(
    {"symbol", "makerCommissionRate", "takerCommissionRate"},
    {"rpiCommissionRate"})
commission_rate_response_t_meta == Same({
    "symbol", "makerCommissionRate", "takerCommissionRate",
    "rpiCommissionRate"})
download_id_response_t == Struct(
    {"avgCostTimestampOfLast30d", "downloadId"},
    {})
download_id_response_t_meta == Same({
    "avgCostTimestampOfLast30d", "downloadId"})
download_link_response_t == Struct(
    {"downloadId", "status", "url", "notified", "expirationTimestamp",
     "isExpired"},
    {})
download_link_response_t_meta == Same({
    "downloadId", "status", "url", "notified", "expirationTimestamp",
    "isExpired"})
bnb_burn_status_response_t == Struct({"feeBurn"}, {})
bnb_burn_status_response_t_meta == Same({"feeBurn"})
toggle_bnb_burn_request_t == Struct({"feeBurn"}, {})
trading_status_indicator_t == Struct(
    {"isLocked", "plannedRecoverTime", "indicator", "value", "triggerValue"},
    {})
trading_status_indicator_t_meta == Same({
    "isLocked", "plannedRecoverTime", "indicator", "value", "triggerValue"})
quantitative_rules_request_t == Struct({}, {"symbol"})
quantitative_rules_response_t == Struct({"indicators", "updateTime"}, {})
quantitative_rules_response_t_meta == Same({"indicators", "updateTime"})
pm_account_info_request_t == Struct({"asset"}, {})
pm_account_info_response_t == Struct(
    {"maxWithdrawAmountUSD", "asset", "maxWithdrawAmount"},
    {})
pm_account_info_response_t_meta == Same({
    "maxWithdrawAmountUSD", "asset", "maxWithdrawAmount"})
account_information_request_t == Struct({}, {})
balances_request_t == Struct({}, {})
account_config_request_t == Struct({}, {})
get_multi_assets_mode_request_t == Struct({}, {})
get_position_mode_request_t == Struct({}, {})
rate_limit_order_request_t == Struct({}, {})
get_bnb_burn_request_t == Struct({}, {})
download_id_transaction_request_t == Struct({"startTime", "endTime"}, {})
download_link_transaction_request_t == Struct({"downloadId"}, {})
download_id_order_request_t == Struct({"startTime", "endTime"}, {})
download_link_order_request_t == Struct({"downloadId"}, {})
download_id_trade_request_t == Struct({"startTime", "endTime"}, {})
download_link_trade_request_t == Struct({"downloadId"}, {})
start_listen_key_request_t == Struct({}, {})
keepalive_listen_key_request_t == Struct({}, {})
close_listen_key_request_t == Struct({}, {})
-----------------------------------------------------------------------------
\* types/convert.hpp
convert_quote_request_t == Struct(
    {"fromAsset", "toAsset"},
    {"fromAmount", "toAmount", "validTime"})
convert_quote_response_t == Struct(
    {"quoteId", "ratio", "inverseRatio", "validTimestamp", "toAmount",
     "fromAmount"},
    {})
convert_quote_response_t_meta == Same({
    "quoteId", "ratio", "inverseRatio", "validTimestamp", "toAmount",
    "fromAmount"})
convert_accept_request_t == Struct({"quoteId"}, {})
convert_accept_response_t == Struct(
    {"orderId", "createTime", "orderStatus"},
    {})
convert_accept_response_t_meta == Same({
    "orderId", "createTime", "orderStatus"})
convert_order_status_request_t == Struct({}, {"orderId", "quoteId"})
convert_order_status_response_t == Struct(
    {"orderId", "orderStatus", "fromAsset", "fromAmount", "toAsset",
     "toAmount", "ratio", "inverseRatio", "createTime"},
    {})
convert_order_status_response_t_meta == Same({
    "orderId", "orderStatus", "fromAsset", "fromAmount", "toAsset",
    "toAmount", "ratio", "inverseRatio", "createTime"})
AccountMetas == {
    <<empty_response_t, empty_response_t_meta>>,
    <<rate_limit_t, rate_limit_t_meta>>,
    <<server_time_response_t, server_time_response_t_meta>>,
    <<binance_error_document_t, binance_error_document_t_meta>>,
    <<exchange_info_asset_t, exchange_info_asset_t_meta>>,
    <<symbol_filter_t, symbol_filter_t_meta>>,
    <<symbol_info_t, symbol_info_t_meta>>,
    <<exchange_info_response_t, exchange_info_response_t_meta>>,
    <<listen_key_response_t, listen_key_response_t_meta>>,
    <<combined_stream_frame_t, combined_stream_frame_t_meta>>,
    <<account_asset_t, account_asset_t_meta>>,
    <<account_position_t, account_position_t_meta>>,
    <<account_information_t, account_information_t_meta>>,
    <<futures_account_balance_t, futures_account_balance_t_meta>>,
    <<position_risk_t, position_risk_t_meta>>,
    <<account_config_response_t, account_config_response_t_meta>>,
    <<symbol_config_entry_t, symbol_config_entry_t_meta>>,
    <<multi_assets_mode_response_t, multi_assets_mode_response_t_meta>>,
    <<position_mode_response_t, position_mode_response_t_meta>>,
    <<income_history_entry_t, income_history_entry_t_meta>>,
    <<leverage_bracket_entry_t, leverage_bracket_entry_t_meta>>,
    <<symbol_leverage_brackets_t, symbol_leverage_brackets_t_meta>>,
    <<commission_rate_response_t, commission_rate_response_t_meta>>,
    <<download_id_response_t, download_id_response_t_meta>>,
    <<download_link_response_t, download_link_response_t_meta>>,
    <<bnb_burn_status_response_t, bnb_burn_status_response_t_meta>>,
    <<trading_status_indicator_t, trading_status_indicator_t_meta>>,
    <<quantitative_rules_response_t, quantitative_rules_response_t_meta>>,
    <<pm_account_info_response_t, pm_account_info_response_t_meta>>,
    <<convert_quote_response_t, convert_quote_response_t_meta>>,
    <<convert_accept_response_t, convert_accept_response_t_meta>>,
    <<convert_order_status_response_t, convert_order_status_response_t_meta>>}
=============================================================================
