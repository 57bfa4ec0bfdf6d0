-------------------------- MODULE FapiMarketData --------------------------
(***************************************************************************)
(* The request and response types of the market data service, as the JSON  *)
(* and query keys they stand for: the required and the optional members of *)
(* each struct and, where there is a glz::meta, the key of each member.    *)
(***************************************************************************)
EXTENDS FapiStruct

-----------------------------------------------------------------------------
\* types/market_data.hpp
ping_request_t == Struct({}, {})
server_time_request_t == Struct({}, {})
exchange_info_request_t == Struct({}, {"symbol"})
order_book_request_t == Struct({"symbol"}, {"limit"})
order_book_response_t == Struct(
    {"lastUpdateId", "message_output_time", "transaction_time", "bids",
     "asks"},
    {})
order_book_response_t_meta == [
    lastUpdateId |-> "lastUpdateId", message_output_time |-> "E",
    transaction_time |-> "T", bids |-> "bids", asks |-> "asks"]
recent_trades_request_t == Struct({"symbol"}, {"limit"})
recent_trade_t == Struct(
    {"id", "price", "qty", "quoteQty", "time", "isBuyerMaker"},
    {"isRPITrade"})
recent_trade_t_meta == Same({
    "id", "price", "qty", "quoteQty", "time", "isBuyerMaker", "isRPITrade"})
aggregate_trades_request_t == Struct(
    {"symbol"},
    {"fromId", "startTime", "endTime", "limit"})
aggregate_trade_t == Struct(
    {"agg_trade_id", "price", "quantity", "first_trade_id", "last_trade_id",
     "timestamp", "is_buyer_maker"},
    {})
aggregate_trade_t_meta == [
    agg_trade_id |-> "a", price |-> "p", quantity |-> "q",
    first_trade_id |-> "f", last_trade_id |-> "l", timestamp |-> "T",
    is_buyer_maker |-> "m"]
historical_trades_request_t == Struct({"symbol"}, {"limit", "fromId"})
continuous_kline_request_t == Struct(
    {"pair", "contractType", "interval"},
    {"startTime", "endTime", "limit"})
index_price_kline_request_t == Struct(
    {"pair", "interval"},
    {"startTime", "endTime", "limit"})
kline_t == Struct(
    {"openTime", "open", "high", "low", "close", "volume", "closeTime",
     "quoteAssetVolume", "numberOfTrades", "takerBuyBaseAssetVolume",
     "takerBuyQuoteAssetVolume", "ignore"},
    {})
kline_t_meta == <<
    "openTime", "open", "high", "low", "close", "volume", "closeTime",
    "quoteAssetVolume", "numberOfTrades", "takerBuyBaseAssetVolume",
    "takerBuyQuoteAssetVolume", "ignore">>
book_ticker_request_t == Struct({}, {"symbol"})
book_ticker_t == Struct(
    {"symbol", "bidPrice", "bidQty", "askPrice", "askQty", "time"},
    {"lastUpdateId"})
book_ticker_t_meta == Same({
    "symbol", "bidPrice", "bidQty", "askPrice", "askQty", "time",
    "lastUpdateId"})
price_ticker_request_t == Struct({}, {"symbol"})
price_ticker_t == Struct({"symbol", "price", "time"}, {})
price_ticker_t_meta == Same({"symbol", "price", "time"})
ticker_24hr_request_t == Struct({}, {"symbol"})
ticker_24hr_t == Struct(
    {"symbol", "priceChange", "priceChangePercent", "weightedAvgPrice",
     "lastPrice", "lastQty", "openPrice", "highPrice", "lowPrice", "volume",
     "quoteVolume", "openTime", "closeTime", "firstId", "lastId", "count"},
    {})
ticker_24hr_t_meta == Same({
    "symbol", "priceChange", "priceChangePercent", "weightedAvgPrice",
    "lastPrice", "lastQty", "openPrice", "highPrice", "lowPrice", "volume",
    "quoteVolume", "openTime", "closeTime", "firstId", "lastId", "count"})
mark_price_request_t == Struct({}, {"symbol"})
mark_price_t == Struct(
    {"symbol", "markPrice", "indexPrice", "estimatedSettlePrice",
     "lastFundingRate", "interestRate", "nextFundingTime", "time"},
    {})
mark_price_t_meta == Same({
    "symbol", "markPrice", "indexPrice", "estimatedSettlePrice",
    "lastFundingRate", "interestRate", "nextFundingTime", "time"})
funding_rate_history_request_t == Struct(
    {},
    {"symbol", "startTime", "endTime", "limit"})
funding_rate_history_entry_t == Struct(
    {"symbol", "fundingRate", "fundingTime", "markPrice"},
    {})
funding_rate_history_entry_t_meta == Same({
    "symbol", "fundingRate", "fundingTime", "markPrice"})
funding_rate_info_t == Struct(
    {"symbol", "adjustedFundingRateCap", "adjustedFundingRateFloor",
     "fundingIntervalHours", "disclaimer"},
    {})
funding_rate_info_t_meta == Same({
    "symbol", "adjustedFundingRateCap", "adjustedFundingRateFloor",
    "fundingIntervalHours", "disclaimer"})
open_interest_request_t == Struct({"symbol"}, {})
open_interest_t == Struct({"openInterest", "symbol", "time"}, {})
open_interest_t_meta == Same({"openInterest", "symbol", "time"})
open_interest_statistics_entry_t == Struct(
    {"symbol", "sumOpenInterest", "sumOpenInterestValue",
     "CMCCirculatingSupply", "timestamp"},
    {})
open_interest_statistics_entry_t_meta == Same({
    "symbol", "sumOpenInterest", "sumOpenInterestValue",
    "CMCCirculatingSupply", "timestamp"})
long_short_ratio_entry_t == Struct(
    {"symbol", "longShortRatio", "longAccount", "shortAccount", "timestamp"},
    {})
long_short_ratio_entry_t_meta == Same({
    "symbol", "longShortRatio", "longAccount", "shortAccount", "timestamp"})
taker_buy_sell_volume_entry_t == Struct(
    {"buySellRatio", "buyVol", "sellVol", "timestamp"},
    {})
taker_buy_sell_volume_entry_t_meta == Same({
    "buySellRatio", "buyVol", "sellVol", "timestamp"})
basis_request_t == Struct(
    {"pair", "contractType", "period"},
    {"limit", "startTime", "endTime"})
basis_entry_t == Struct(
    {"pair", "contractType", "basis", "basisRate", "futuresPrice",
     "indexPrice", "annualizedBasisRate", "timestamp"},
    {})
basis_entry_t_meta == Same({
    "pair", "contractType", "basis", "basisRate", "futuresPrice",
    "indexPrice", "annualizedBasisRate", "timestamp"})
price_ticker_v2_request_t == Struct({}, {"symbol"})
delivery_price_request_t == Struct({"pair"}, {})
delivery_price_entry_t == Struct({"deliveryTime", "deliveryPrice"}, {})
delivery_price_entry_t_meta == Same({"deliveryTime", "deliveryPrice"})
composite_index_info_request_t == Struct({}, {"symbol"})
composite_index_base_asset_t == Struct(
    {"baseAsset", "quoteAsset", "weightInQuantity", "weightInPercentage"},
    {})
composite_index_base_asset_t_meta == Same({
    "baseAsset", "quoteAsset", "weightInQuantity", "weightInPercentage"})
composite_index_info_t == Struct(
    {"symbol", "time", "component", "baseAssetList"},
    {})
composite_index_info_t_meta == Same({
    "symbol", "time", "component", "baseAssetList"})
index_constituents_request_t == Struct({"symbol"}, {})
index_constituent_t == Struct({"exchange", "symbol", "price", "weight"}, {})
index_constituent_t_meta == Same({"exchange", "symbol", "price", "weight"})
index_constituents_response_t == Struct({"symbol", "time", "constituents"}, {})
index_constituents_response_t_meta == Same({"symbol", "time", "constituents"})
asset_index_request_t == Struct({}, {"symbol"})
asset_index_t == Struct(
    {"symbol", "time", "index", "bidBuffer", "askBuffer", "bidRate", "askRate",
     "autoExchangeBidBuffer", "autoExchangeAskBuffer", "autoExchangeBidRate",
     "autoExchangeAskRate"},
    {})
asset_index_t_meta == Same({
    "symbol", "time", "index", "bidBuffer", "askBuffer", "bidRate", "askRate",
    "autoExchangeBidBuffer", "autoExchangeAskBuffer", "autoExchangeBidRate",
    "autoExchangeAskRate"})
insurance_fund_request_t == Struct({"symbol"}, {})
insurance_funds_request_t == Struct({}, {})
insurance_fund_asset_t == Struct({"asset", "marginBalance", "updateTime"}, {})
insurance_fund_asset_t_meta == Same({"asset", "marginBalance", "updateTime"})
insurance_fund_response_t == Struct({"symbols", "assets"}, {})
insurance_fund_response_t_meta == Same({"symbols", "assets"})
adl_risk_request_t == Struct({}, {"symbol"})
adl_risk_entry_t == Struct({"symbol", "adlRisk", "updateTime"}, {})
adl_risk_entry_t_meta == Same({"symbol", "adlRisk", "updateTime"})
rpi_depth_request_t == Struct({"symbol"}, {"limit"})
trading_schedule_request_t == Struct({}, {})
trading_session_entry_t == Struct({"startTime", "endTime", "type"}, {})
trading_session_entry_t_meta == Same({"startTime", "endTime", "type"})
market_schedule_t == Struct({"sessions"}, {})
market_schedule_t_meta == Same({"sessions"})
trading_schedule_response_t == Struct({"updateTime", "marketSchedules"}, {})
trading_schedule_response_t_meta == Same({"updateTime", "marketSchedules"})
book_tickers_request_t == Struct({}, {})
price_tickers_request_t == Struct({}, {})
price_tickers_v2_request_t == Struct({}, {})
ticker_24hrs_request_t == Struct({}, {})
mark_prices_request_t == Struct({}, {})
funding_rate_info_request_t == Struct({}, {})
klines_request_t == Struct(
    {"symbol", "interval"},
    {"startTime", "endTime", "limit"})
mark_price_klines_request_t == Struct(
    {"symbol", "interval"},
    {"startTime", "endTime", "limit"})
premium_index_klines_request_t == Struct(
    {"symbol", "interval"},
    {"startTime", "endTime", "limit"})
open_interest_statistics_request_t == Struct(
    {"symbol", "period"},
    {"limit", "startTime", "endTime"})
top_long_short_account_ratio_request_t == Struct(
    {"symbol", "period"},
    {"limit", "startTime", "endTime"})
top_trader_long_short_ratio_request_t == Struct(
    {"symbol", "period"},
    {"limit", "startTime", "endTime"})
long_short_ratio_request_t == Struct(
    {"symbol", "period"},
    {"limit", "startTime", "endTime"})
taker_buy_sell_volume_request_t == Struct(
    {"symbol", "period"},
    {"limit", "startTime", "endTime"})
MarketDataMetas == {
    <<order_book_response_t, order_book_response_t_meta>>,
    <<recent_trade_t, recent_trade_t_meta>>,
    <<aggregate_trade_t, aggregate_trade_t_meta>>,
    <<book_ticker_t, book_ticker_t_meta>>,
    <<price_ticker_t, price_ticker_t_meta>>,
    <<ticker_24hr_t, ticker_24hr_t_meta>>,
    <<mark_price_t, mark_price_t_meta>>,
    <<funding_rate_history_entry_t, funding_rate_history_entry_t_meta>>,
    <<funding_rate_info_t, funding_rate_info_t_meta>>,
    <<open_interest_t, open_interest_t_meta>>,
    <<open_interest_statistics_entry_t, open_interest_statistics_entry_t_meta>>,
    <<long_short_ratio_entry_t, long_short_ratio_entry_t_meta>>,
    <<taker_buy_sell_volume_entry_t, taker_buy_sell_volume_entry_t_meta>>,
    <<basis_entry_t, basis_entry_t_meta>>,
    <<delivery_price_entry_t, delivery_price_entry_t_meta>>,
    <<composite_index_base_asset_t, composite_index_base_asset_t_meta>>,
    <<composite_index_info_t, composite_index_info_t_meta>>,
    <<index_constituent_t, index_constituent_t_meta>>,
    <<index_constituents_response_t, index_constituents_response_t_meta>>,
    <<asset_index_t, asset_index_t_meta>>,
    <<insurance_fund_asset_t, insurance_fund_asset_t_meta>>,
    <<insurance_fund_response_t, insurance_fund_response_t_meta>>,
    <<adl_risk_entry_t, adl_risk_entry_t_meta>>,
    <<trading_session_entry_t, trading_session_entry_t_meta>>,
    <<market_schedule_t, market_schedule_t_meta>>,
    <<trading_schedule_response_t, trading_schedule_response_t_meta>>}
=============================================================================
