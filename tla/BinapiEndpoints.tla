-------------------------- MODULE BinapiEndpoints --------------------------
(***************************************************************************)
(* binapi::rest::api: what each method of the class asks for, and how      *)
(* impl::post turns a call into an HTTP request.  A parameter is its name; *)
(* a request carries a sequence of names, in its target or in its body.    *)
(***************************************************************************)
EXTENDS Sequences, SequencesExt

\* A method: is it signed, its path, its verb, its parameters in order.
Method(signed, path, verb, params) ==
    [signed |-> signed, path |-> path, verb |-> verb, params |-> params]

ping == Method(FALSE, "ping", "get", <<>>)
server_time == Method(FALSE, "time", "get", <<>>)
price == Method(FALSE, "ticker/price", "get", <<"symbol">>)
prices == Method(FALSE, "ticker/price", "get", <<>>)
avg_price == Method(FALSE, "avgPrice", "get", <<"symbol">>)
_24hrs_ticker == Method(FALSE, "ticker/24hr", "get", <<"symbol">>)
_24hrs_tickers == Method(FALSE, "ticker/24hr", "get", <<>>)
exchange_info(by) == Method(FALSE, "exchangeInfo", "get", by)
depths == Method(FALSE, "depth", "get", <<"symbol", "limit">>)
trade == Method(FALSE, "trades", "get", <<"symbol", "limit">>)
trades == Method(FALSE, "trades", "get", <<"symbol", "limit">>)
agg_trade == Method(FALSE, "aggTrades", "get", <<"symbol", "limit">>)
agg_trades == Method(FALSE, "aggTrades", "get", <<"symbol", "limit">>)
klines == Method(FALSE, "klines", "get", <<"symbol", "limit", "interval">>)

account_info == Method(TRUE, "account", "get", <<>>)
order_info ==
    Method(TRUE, "order", "get", <<"symbol", "orderId", "origClientOrderId">>)
open_orders == Method(TRUE, "openOrders", "get", <<"symbol">>)
all_orders ==
    Method(TRUE, "allOrders", "get",
           <<"symbol", "orderId", "startTime", "endTime", "limit">>)

order_params ==
    <<"symbol", "side", "type", "timeInForce", "quantity", "price",
      "newClientOrderId", "stopPrice", "icebergQty", "newOrderRespType">>
new_order == Method(TRUE, "order", "post", order_params)
new_test_order == Method(TRUE, "order/test", "post", order_params)
cancel_order ==
    Method(TRUE, "order", "delete",
           <<"symbol", "orderId", "origClientOrderId", "newClientOrderId">>)
cancel_all_open_orders == Method(TRUE, "openOrders", "delete", <<"symbol">>)
my_trades ==
    Method(TRUE, "myTrades", "get",
           <<"symbol", "startTime", "endTime", "fromId", "limit">>)

start_user_data_stream == Method(FALSE, "userDataStream", "post", <<>>)
ping_user_data_stream == Method(FALSE, "userDataStream", "put", <<"listenKey">>)
close_user_data_stream == Method(FALSE, "userDataStream", "delete", <<"listenKey">>)

Methods ==
    {ping, server_time, price, prices, avg_price, _24hrs_ticker, _24hrs_tickers,
     exchange_info(<<>>), exchange_info(<<"symbol">>), exchange_info(<<"symbols">>),
     depths, trade, trades, agg_trade, agg_trades, klines,
     account_info, order_info, open_orders, all_orders, new_order, new_test_order,
     cancel_order, cancel_all_open_orders, my_trades,
     start_user_data_stream, ping_user_data_stream, close_user_data_stream}

-----------------------------------------------------------------------------
\* is_valid_value: null pointers and zeroes (absent) are not sent.
Given(m, absent) == SelectSeq(m.params, LAMBDA p : p \notin absent)

\* Faulty variant: recvWindow is added after the signature was made.
Sign_WindowLast(data) ==
    [over |-> Append(data, "timestamp"),
     data |-> data \o <<"timestamp", "signature", "recvWindow">>]

\* The parameters of a signed request, and what its signature is made over.
Sign(data) ==
    LET over == data \o <<"timestamp", "recvWindow">>
    IN  [over |-> over, data |-> Append(over, "signature")]

\* impl::post up to the queue: the parameters of get and delete go into the
\* target, those of post and put into the body.
Build(m, absent) ==
    LET s == IF m.signed THEN Sign(Given(m, absent))
             ELSE [over |-> <<>>, data |-> Given(m, absent)]
        inTarget == m.verb \in {"get", "delete"}
    IN  [target |-> IF inTarget THEN s.data ELSE <<>>,
         body |-> IF inTarget THEN <<>> ELSE s.data,
         over |-> s.over]
=============================================================================
