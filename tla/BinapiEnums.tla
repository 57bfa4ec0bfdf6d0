---------------------------- MODULE BinapiEnums ----------------------------
(***************************************************************************)
(* The enumerations of binapi (enums.hpp) and their names, both ways       *)
(* (enums.cpp).  A name that no case of a from_string has is past an       *)
(* assertion: what it becomes is not defined.                              *)
(***************************************************************************)

e_side == {"buy", "sell"}
e_side_from_string == [BUY |-> "buy", SELL |-> "sell"]
e_side_to_string == [buy |-> "BUY", sell |-> "SELL"]

e_type == {"limit", "market", "stop_loss", "stop_loss_limit", "take_profit",
    "take_profit_limit", "limit_maker"}
e_type_from_string == [
    LIMIT |-> "limit", MARKET |-> "market", STOP_LOSS |-> "stop_loss",
    STOP_LOSS_LIMIT |-> "stop_loss_limit", TAKE_PROFIT |-> "take_profit",
    TAKE_PROFIT_LIMIT |-> "take_profit_limit", LIMIT_MAKER |-> "limit_maker"]

\* Faulty variant: one order type is sent as another.
e_type_to_string_Merged == [
    limit |-> "LIMIT", market |-> "MARKET", stop_loss |-> "STOP_LOSS",
    stop_loss_limit |-> "STOP_LOSS", take_profit |-> "TAKE_PROFIT",
    take_profit_limit |-> "TAKE_PROFIT_LIMIT", limit_maker |-> "LIMIT_MAKER"]

e_type_to_string == [
    limit |-> "LIMIT", market |-> "MARKET", stop_loss |-> "STOP_LOSS",
    stop_loss_limit |-> "STOP_LOSS_LIMIT", take_profit |-> "TAKE_PROFIT",
    take_profit_limit |-> "TAKE_PROFIT_LIMIT", limit_maker |-> "LIMIT_MAKER"]

e_time == {"GTC", "IOC", "FOK"}
e_time_from_string == [GTC |-> "GTC", IOC |-> "IOC", FOK |-> "FOK"]
e_time_to_string == [GTC |-> "GTC", IOC |-> "IOC", FOK |-> "FOK"]

e_trade_resp_type == {"ACK", "RESULT", "FULL", "TEST", "UNKNOWN"}
e_trade_resp_type_from_string == [ACK |-> "ACK", RESULT |-> "RESULT",
    FULL |-> "FULL", TEST |-> "TEST", UNKNOWN |-> "UNKNOWN"]
e_trade_resp_type_to_string == [ACK |-> "ASK", RESULT |-> "RESULT",
    FULL |-> "FULL", TEST |-> "TEST", UNKNOWN |-> "UNKNOWN"]

e_permissions == {"NONE", "SPOT", "MARGIN", "LEVERAGED", "TRD_GRP_002",
    "TRD_GRP_003", "TRD_GRP_004", "TRD_GRP_005"}
e_permissions_from_string == [v \in {"NONE", "SPOT", "MARGIN", "LEVERAGED",
    "TRD_GRP_002", "TRD_GRP_003", "TRD_GRP_004", "TRD_GRP_005"} |-> v]
e_permissions_to_string == [v \in {"NONE", "SPOT", "MARGIN", "LEVERAGED",
    "TRD_GRP_002", "TRD_GRP_003", "TRD_GRP_004", "TRD_GRP_005"} |-> v]

Enum(values, to, from) == [values |-> values, to |-> to, from |-> from]

Enums == [
    e_side |-> Enum(e_side, e_side_to_string, e_side_from_string),
    e_type |-> Enum(e_type, e_type_to_string, e_type_from_string),
    e_time |-> Enum(e_time, e_time_to_string, e_time_from_string),
    e_trade_resp_type |-> Enum(e_trade_resp_type, e_trade_resp_type_to_string,
                               e_trade_resp_type_from_string),
    e_permissions |-> Enum(e_permissions, e_permissions_to_string,
                           e_permissions_from_string)]
=============================================================================
