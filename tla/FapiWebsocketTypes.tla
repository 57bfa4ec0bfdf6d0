------------------------ MODULE FapiWebsocketTypes ------------------------
(***************************************************************************)
(* The request and result types of the WebSocket API.                      *)
(***************************************************************************)
EXTENDS FapiEndpoints

-----------------------------------------------------------------------------
\* types/websocket_api.hpp
websocket_api_error_t == Struct({"code", "msg"}, {})
websocket_api_error_t_meta == Same({"code", "msg"})
session_logon_request_t == Struct(
    {"apiKey", "timestamp", "recvWindow", "signature"},
    {})
session_logon_request_t_meta == Same({
    "apiKey", "timestamp", "recvWindow", "signature"})
session_logon_result_t == Struct(
    {},
    {"apiKey", "authorizedSince", "connectedSince", "returnRateLimits",
     "serverTime"})
session_logon_result_t_meta == Same({
    "apiKey", "authorizedSince", "connectedSince", "returnRateLimits",
    "serverTime"})
websocket_api_signed_request_t == Struct(
    {"apiKey", "timestamp", "signature"},
    {"recvWindow"})
websocket_api_signed_request_t_meta == Same({
    "apiKey", "timestamp", "recvWindow", "signature"})
websocket_api_order_place_request_t == Extend(websocket_api_signed_request_t,
    {"symbol", "side", "type", "quantity"},
    {"timeInForce", "price", "newClientOrderId", "stopPrice"})
websocket_api_order_place_request_t_meta == Same({
    "apiKey", "timestamp", "recvWindow", "signature", "symbol", "side",
    "type", "timeInForce", "quantity", "price", "newClientOrderId",
    "stopPrice"})
websocket_api_order_query_request_t == Extend(websocket_api_signed_request_t,
    {"symbol"},
    {"orderId", "origClientOrderId"})
websocket_api_order_query_request_t_meta == Same({
    "apiKey", "timestamp", "recvWindow", "signature", "symbol", "orderId",
    "origClientOrderId"})
websocket_api_order_cancel_request_t == Extend(websocket_api_signed_request_t,
    {"symbol"},
    {"orderId", "origClientOrderId"})
websocket_api_order_cancel_request_t_meta == Same({
    "apiKey", "timestamp", "recvWindow", "signature", "symbol", "orderId",
    "origClientOrderId"})
websocket_api_book_ticker_request_t == Struct({"symbol"}, {})
websocket_api_book_ticker_request_t_meta == Same({"symbol"})
websocket_api_book_tickers_request_t == Struct({}, {})
websocket_api_price_ticker_request_t == Struct({"symbol"}, {})
websocket_api_price_ticker_request_t_meta == Same({"symbol"})
websocket_api_price_tickers_request_t == Struct({}, {})
websocket_api_order_modify_request_t == Extend(websocket_api_signed_request_t,
    {"symbol", "side", "quantity", "price"},
    {"orderId", "origClientOrderId", "priceMatch"})
websocket_api_order_modify_request_t_meta == Same({
    "apiKey", "timestamp", "recvWindow", "signature", "symbol", "orderId",
    "origClientOrderId", "side", "quantity", "price", "priceMatch"})
websocket_api_position_request_t == Extend(websocket_api_signed_request_t,
    {},
    {"symbol"})
websocket_api_position_request_t_meta == Same({
    "apiKey", "timestamp", "recvWindow", "signature", "symbol"})
websocket_api_algo_order_place_request_t == Extend(websocket_api_signed_request_t,
    {"symbol", "side", "type", "quantity", "algoType"},
    {"positionSide", "timeInForce", "price", "triggerPrice", "workingType",
     "priceMatch", "closePosition", "priceProtect", "reduceOnly",
     "activationPrice", "callbackRate", "clientAlgoId", "newOrderRespType",
     "selfTradePreventionMode", "goodTillDate"})
websocket_api_algo_order_place_request_t_meta == [
    apiKey |-> "apiKey", timestamp |-> "timestamp",
    recvWindow |-> "recvWindow", signature |-> "signature",
    symbol |-> "symbol", side |-> "side", positionSide |-> "positionSide",
    type |-> "type", timeInForce |-> "timeInForce", quantity |-> "quantity",
    price |-> "price", triggerPrice |-> "triggerPrice",
    algoType |-> "algoType", workingType |-> "workingType",
    priceMatch |-> "priceMatch", closePosition |-> "closePosition",
    priceProtect |-> "priceProtect", reduceOnly |-> "reduceOnly",
    activationPrice |-> "activatePrice", callbackRate |-> "callbackRate",
    clientAlgoId |-> "clientAlgoId", newOrderRespType |-> "newOrderRespType",
    selfTradePreventionMode |-> "selfTradePreventionMode",
    goodTillDate |-> "goodTillDate"]
websocket_api_algo_order_cancel_request_t == Extend(websocket_api_signed_request_t,
    {},
    {"algoId", "clientAlgoId"})
websocket_api_algo_order_cancel_request_t_meta == Same({
    "apiKey", "timestamp", "recvWindow", "signature", "algoId",
    "clientAlgoId"})
websocket_api_user_data_stream_request_t == Struct({"apiKey"}, {})
websocket_api_user_data_stream_request_t_meta == Same({"apiKey"})
websocket_api_listen_key_result_t == Struct({"listenKey"}, {})
websocket_api_listen_key_result_t_meta == Same({"listenKey"})
websocket_api_response_t == Struct(
    {"id", "status"},
    {"result", "rateLimits", "error"})
websocket_api_response_t_meta == Same({
    "id", "status", "result", "rateLimits", "error"})
ws_account_status_request_t == Struct({}, {})
ws_account_status_v2_request_t == Struct({}, {})
ws_account_balance_request_t == Struct({}, {})
ws_user_data_stream_start_request_t == Struct({}, {})
ws_user_data_stream_ping_request_t == Struct({}, {})
ws_user_data_stream_stop_request_t == Struct({}, {})
WebsocketTypesMetas == {
    <<websocket_api_error_t, websocket_api_error_t_meta>>,
    <<session_logon_request_t, session_logon_request_t_meta>>,
    <<session_logon_result_t, session_logon_result_t_meta>>,
    <<websocket_api_signed_request_t, websocket_api_signed_request_t_meta>>,
    <<websocket_api_order_place_request_t, websocket_api_order_place_request_t_meta>>,
    <<websocket_api_order_query_request_t, websocket_api_order_query_request_t_meta>>,
    <<websocket_api_order_cancel_request_t, websocket_api_order_cancel_request_t_meta>>,
    <<websocket_api_book_ticker_request_t, websocket_api_book_ticker_request_t_meta>>,
    <<websocket_api_price_ticker_request_t, websocket_api_price_ticker_request_t_meta>>,
    <<websocket_api_order_modify_request_t, websocket_api_order_modify_request_t_meta>>,
    <<websocket_api_position_request_t, websocket_api_position_request_t_meta>>,
    <<websocket_api_algo_order_place_request_t, websocket_api_algo_order_place_request_t_meta>>,
    <<websocket_api_algo_order_cancel_request_t, websocket_api_algo_order_cancel_request_t_meta>>,
    <<websocket_api_user_data_stream_request_t, websocket_api_user_data_stream_request_t_meta>>,
    <<websocket_api_listen_key_result_t, websocket_api_listen_key_result_t_meta>>,
    <<websocket_api_response_t, websocket_api_response_t_meta>>}
-----------------------------------------------------------------------------
\* websocket_api/generated_methods.hpp
method == [
    session_logon |-> "session.logon",
    account_status |-> "account.status",
    account_balance |-> "account.balance",
    order_place |-> "order.place",
    order_status |-> "order.status",
    order_cancel |-> "order.cancel",
    ticker_book |-> "ticker.book",
    ticker_price |-> "ticker.price",
    order_modify |-> "order.modify",
    account_position |-> "account.position",
    account_position_v2 |-> "v2/account.position",
    account_status_v2 |-> "v2/account.status",
    algo_order_place |-> "algoOrder.place",
    algo_order_cancel |-> "algoOrder.cancel",
    user_data_stream_start |-> "userDataStream.start",
    user_data_stream_ping |-> "userDataStream.ping",
    user_data_stream_stop |-> "userDataStream.stop"]
-----------------------------------------------------------------------------
\* websocket_api/endpoint_traits.hpp: the method, how the request is signed,
\* and the type of the result.
Rpc(request, keys, name, auth, response) ==
    [request |-> request, keys |-> keys, method |-> name, auth |-> auth,
     response |-> response]
RpcTraits == {
    Rpc(websocket_api_book_ticker_request_t, websocket_api_book_ticker_request_t_meta,
        method.ticker_book, "none",
        One(book_ticker_t, book_ticker_t_meta)),
    Rpc(websocket_api_book_tickers_request_t, Reflected(websocket_api_book_tickers_request_t),
        method.ticker_book, "none",
        Many(book_ticker_t, book_ticker_t_meta)),
    Rpc(websocket_api_price_ticker_request_t, websocket_api_price_ticker_request_t_meta,
        method.ticker_price, "none",
        One(price_ticker_t, price_ticker_t_meta)),
    Rpc(websocket_api_price_tickers_request_t, Reflected(websocket_api_price_tickers_request_t),
        method.ticker_price, "none",
        Many(price_ticker_t, price_ticker_t_meta)),
    Rpc(websocket_api_order_place_request_t, websocket_api_order_place_request_t_meta,
        method.order_place, "inject",
        One(order_response_t, order_response_t_meta)),
    Rpc(websocket_api_order_query_request_t, websocket_api_order_query_request_t_meta,
        method.order_status, "inject",
        One(order_response_t, order_response_t_meta)),
    Rpc(websocket_api_order_cancel_request_t, websocket_api_order_cancel_request_t_meta,
        method.order_cancel, "inject",
        One(order_response_t, order_response_t_meta)),
    Rpc(websocket_api_order_modify_request_t, websocket_api_order_modify_request_t_meta,
        method.order_modify, "inject",
        One(order_response_t, order_response_t_meta)),
    Rpc(websocket_api_position_request_t, websocket_api_position_request_t_meta,
        method.account_position, "inject",
        Many(position_risk_t, position_risk_t_meta)),
    Rpc(websocket_api_algo_order_place_request_t, websocket_api_algo_order_place_request_t_meta,
        method.algo_order_place, "inject",
        One(algo_order_response_t, algo_order_response_t_meta)),
    Rpc(websocket_api_algo_order_cancel_request_t, websocket_api_algo_order_cancel_request_t_meta,
        method.algo_order_cancel, "inject",
        One(code_msg_response_t, code_msg_response_t_meta)),
    Rpc(ws_account_status_request_t, Reflected(ws_account_status_request_t),
        method.account_status, "signed_base",
        One(account_information_t, account_information_t_meta)),
    Rpc(ws_account_status_v2_request_t, Reflected(ws_account_status_v2_request_t),
        method.account_status_v2, "signed_base",
        One(account_information_t, account_information_t_meta)),
    Rpc(ws_account_balance_request_t, Reflected(ws_account_balance_request_t),
        method.account_balance, "signed_base",
        Many(futures_account_balance_t, futures_account_balance_t_meta)),
    Rpc(ws_user_data_stream_start_request_t, Reflected(ws_user_data_stream_start_request_t),
        method.user_data_stream_start, "api_key_only",
        One(websocket_api_listen_key_result_t, websocket_api_listen_key_result_t_meta)),
    Rpc(ws_user_data_stream_ping_request_t, Reflected(ws_user_data_stream_ping_request_t),
        method.user_data_stream_ping, "api_key_only",
        One(websocket_api_listen_key_result_t, websocket_api_listen_key_result_t_meta)),
    Rpc(ws_user_data_stream_stop_request_t, Reflected(ws_user_data_stream_stop_request_t),
        method.user_data_stream_stop, "api_key_only",
        One(empty_response_t, empty_response_t_meta))}
=============================================================================
