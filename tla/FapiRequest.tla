---------------------------- MODULE FapiRequest ----------------------------
(***************************************************************************)
(* A request on its way out and an answer on its way in, for the REST      *)
(* pipeline (query.hpp, signing.cpp, pipeline.hpp, decode.hpp) and the     *)
(* WebSocket API (client.cpp).  A query is the set of its keys: the        *)
(* std::map that holds it has one order, which the canonical string and    *)
(* the request share.  A signature is the set of keys it was made over.    *)
(***************************************************************************)
EXTENDS FapiEndpoints, FapiWebsocketTypes

\* The members that a request has when these optional ones are set.
Present(request, given) == request.required \cup (request.optional \cap given)

\* to_query_map: std::nullopt members are left out.
to_query_map(request, keys, given) == {keys[m] : m \in Present(request, given)}

inject_auth_query(query) == query \cup {"recvWindow", "timestamp"}

\* Faulty variant: signed before the time stamp and the window are added.
Signed_Early(query) ==
    [query |-> inject_auth_query(query) \cup {"signature"}, over |-> query]

\* The signing part of pipeline::async_execute: inject_auth_query, sign_query.
Signed(query) ==
    LET authed == inject_auth_query(query)
    IN  [query |-> authed \cup {"signature"}, over |-> authed]

Unsigned(query) == [query |-> query, over |-> {}]

\* What pipeline::async_execute sends for a request.
async_execute(t, given) ==
    LET query == to_query_map(t.request, Reflected(t.request), given)
        r == IF t.endpoint.signed_request THEN Signed(query) ELSE Unsigned(query)
        in == t.endpoint.method \in {"get", "delete"}
    IN  [over |-> r.over,
         target |-> IF in THEN r.query ELSE {},
         body |-> IF in THEN {} ELSE r.query]

-----------------------------------------------------------------------------
(***************************************************************************)
(* A JSON document: an object with these keys, or an array of such.  Both  *)
(* read options of json_opts.hpp: a key that is not known is skipped, and  *)
(* a member that is missing, unless it is std::optional, is an error.      *)
(***************************************************************************)
Document(array, keys) == [json |-> TRUE, array |-> array, keys |-> keys]
NotJson == [json |-> FALSE, array |-> FALSE, keys |-> {}]
ErrorDocument == Document(FALSE, {"code", "msg"})

Keys(response, members) ==
    {response.keys[m] : m \in members}

read_json(response, doc) ==
    /\ doc.json /\ doc.array = response.array
    /\ Keys(response, response.type.required) \subseteq doc.keys

\* What the exchange sends for a response type, with or without what is
\* optional in it.
OwnDocument(response, full) ==
    Document(response.array, Keys(response, response.type.required \cup
                             IF full THEN response.type.optional ELSE {}))

\* Faulty variant: the body is read before the status is looked at.
decode_response_BodyFirst(response, ok, doc) ==
    IF response.type = empty_response_t \/ read_json(response, doc)
      THEN "success"
    ELSE IF ok THEN "json"
    ELSE IF read_json(One(binance_error_document_t, binance_error_document_t_meta), doc)
      THEN "binance" ELSE "http_status"

\* decode_response: ok is a status in 200..299.
decode_response(response, ok, doc) ==
    IF ~ok
      THEN IF read_json(One(binance_error_document_t, binance_error_document_t_meta), doc)
             THEN "binance" ELSE "http_status"
    ELSE IF response.type = empty_response_t \/ read_json(response, doc)
      THEN "success" ELSE "json"

-----------------------------------------------------------------------------
\* make_signed_request_base, for a method that has no parameters of its own.
make_signed_request_base ==
    [query |-> Members(websocket_api_signed_request_t),
     over |-> inject_auth_query({}) \cup {"apiKey"}]

\* async_session_logon signs in its own way.
session_logon ==
    Rpc(session_logon_request_t, session_logon_request_t_meta,
        method.session_logon, "logon",
        One(session_logon_result_t, session_logon_result_t_meta))
session_logon_params ==
    [query |-> Members(session_logon_request_t),
     over |-> inject_auth_query({}) \cup {"apiKey"}]

\* Faulty variant: only the authentication is signed, not the order.
inject_auth_Base(t, given) ==
    [query |-> to_query_map(t.request, t.keys, given \cup {"recvWindow"}),
     over |-> {"apiKey", "timestamp", "recvWindow"}]

\* inject_auth: the three members are set, then everything that is present but
\* the signature is signed.
inject_auth(t, given) ==
    LET query == to_query_map(t.request, t.keys, given \cup {"recvWindow"})
    IN  [query |-> query, over |-> query \ {"signature"}]

\* The parameters that client::async_execute sends.
rpc_params(t, given) ==
    CASE t.auth = "signed_base" -> make_signed_request_base
      [] t.auth = "logon" -> session_logon_params
      [] t.auth = "api_key_only" ->
           Unsigned(Members(websocket_api_user_data_stream_request_t))
      [] t.auth = "inject" -> inject_auth(t, given)
      [] t.auth = "none" -> Unsigned(to_query_map(t.request, t.keys, given))
=============================================================================
