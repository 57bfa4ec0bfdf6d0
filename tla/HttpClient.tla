---------------------------- MODULE HttpClient ----------------------------
(***************************************************************************)
(* binapi2::fapi::transport::http_client: one TLS connection that is reused*)
(* by one request after the other, and on a failure replaced by a new one  *)
(* on which the request is sent once more.                                 *)
(*                                                                         *)
(* The server and the network are external.  A request that has reached the*)
(* server is executed sooner or later, also when its connection is gone by *)
(* then; the answer travels on the connection the request came on.  The    *)
(* client serves one caller at a time: nothing in it serialises callers.   *)
(***************************************************************************)
EXTENDS Integers, Sequences, FiniteSets

CONSTANTS
    MaxRequests,   \* bound: calls of async_request
    MaxLinks       \* bound: connections the server accepts

ASSUME HttpAssumption == MaxRequests \in Nat /\ MaxLinks \in Nat

VARIABLES
    op,         \* what is awaited: "none", "connect", "write", "read"
    attempt,    \* 0 in async_connect(), 1 or 2 in async_request()
    connected,
    link,       \* connections so far: the name of the current one
    request,    \* requests so far: the name of the current one
    result,     \* result[r]: what async_request returned for request r
    inbox,      \* requests that have reached the server, with their link
    answers,    \* answers on their way on the current connection
    executed    \* executed[r]: how often the server has executed r

Request == 1..MaxRequests

clientVars == <<op, attempt, connected, link>>
callVars == <<request, result>>
serverVars == <<inbox, answers, executed>>
vars == <<clientVars, callVars, serverVars>>

\* A result is an answer (to request answer), or an error.
Answer(r) == [status |-> "ok", answer |-> r]
TransportError == [status |-> "error", answer |-> 0]
NotConnected == [status |-> "refused", answer |-> 0]
NoResult == [status |-> "none", answer |-> 0]

Init ==
    /\ op = "none" /\ attempt = 0 /\ connected = FALSE /\ link = 0
    /\ request = 0 /\ result = [r \in Request |-> NoResult]
    /\ inbox = <<>> /\ answers = <<>> /\ executed = [r \in Request |-> 0]

-----------------------------------------------------------------------------
\* The server executes the oldest request it has and answers it.
Execute ==
    /\ inbox # <<>> /\ inbox' = Tail(inbox)
    /\ LET r == Head(inbox) IN
         /\ executed' = [executed EXCEPT ![r.request] = @ + 1]
         /\ answers' = IF r.link = link /\ connected
                       THEN Append(answers, r.request) ELSE answers
    /\ UNCHANGED <<clientVars, callVars>>

Reaches == inbox' = Append(inbox, [request |-> request, link |-> link])

Return(what) ==
    /\ result' = [result EXCEPT ![request] = what]
    /\ op' = "none"

\* async_connect(), which does nothing on a connected client.
AsyncConnect ==
    /\ op = "none" /\ ~connected
    /\ op' = "connect" /\ attempt' = 0
    /\ UNCHANGED <<connected, link, callVars, serverVars>>

\* async_request() on a client that is not connected.
Refuse ==
    /\ op = "none" /\ request < MaxRequests /\ ~connected
    /\ request' = request + 1
    /\ result' = [result EXCEPT ![request'] = NotConnected]
    /\ UNCHANGED <<clientVars, serverVars>>

\* Faulty variant: connected is not looked at.
AsyncRequest_NoCheck ==
    /\ op = "none" /\ request < MaxRequests
    /\ request' = request + 1
    /\ op' = "write" /\ attempt' = 1
    /\ UNCHANGED <<connected, link, result, serverVars>>

\* async_request(): the first attempt.
AsyncRequest ==
    /\ op = "none" /\ request < MaxRequests /\ connected
    /\ request' = request + 1
    /\ op' = "write" /\ attempt' = 1
    /\ UNCHANGED <<connected, link, result, serverVars>>

WriteDone ==
    /\ op = "write" /\ op' = "read"
    /\ Reaches
    /\ UNCHANGED <<attempt, connected, link, callVars, answers, executed>>

ReadDone ==
    /\ op = "read" /\ answers # <<>>
    /\ answers' = Tail(answers)
    /\ Return(Answer(Head(answers)))
    /\ UNCHANGED <<attempt, connected, link, request, inbox, executed>>

\* Faulty variant: the stream is kept.
Disconnect_KeepsStream == connected' = FALSE /\ UNCHANGED answers

\* disconnect(): what was on its way on the connection is gone with it.
Disconnect == connected' = FALSE /\ answers' = <<>>

\* Faulty variant: every failure is retried.
SendFails_Always ==
    /\ op \in {"write", "read"}
    /\ IF op = "write" THEN Reaches \/ UNCHANGED inbox ELSE UNCHANGED inbox
    /\ Disconnect
    /\ op' = "connect"
    /\ UNCHANGED <<attempt, link, callVars, executed>>

\* Writing or reading throws; the request may have reached the server all the
\* same.  The first time the client reconnects, the second time it gives up.
SendFails ==
    /\ op \in {"write", "read"}
    /\ IF op = "write" THEN Reaches \/ UNCHANGED inbox ELSE UNCHANGED inbox
    /\ Disconnect
    /\ \/ attempt = 1 /\ op' = "connect" /\ UNCHANGED result
       \/ attempt = 2 /\ Return(TransportError)
    /\ UNCHANGED <<attempt, link, request, executed>>

\* A new connection, for async_connect() or for the second attempt.
ConnectDone ==
    /\ op = "connect" /\ link < MaxLinks
    /\ connected' = TRUE /\ link' = link + 1
    /\ \/ attempt = 0 /\ op' = "none" /\ UNCHANGED attempt
       \/ attempt > 0 /\ op' = "write" /\ attempt' = 2
    /\ UNCHANGED <<callVars, serverVars>>

ConnectFails ==
    /\ op = "connect"
    /\ connected' = FALSE
    /\ \/ attempt = 0 /\ op' = "none" /\ UNCHANGED result
       \/ attempt > 0 /\ Return(TransportError)
    /\ UNCHANGED <<attempt, link, request, serverVars>>

Resume == WriteDone \/ ReadDone \/ SendFails \/ ConnectDone \/ ConnectFails

Next == Execute \/ AsyncConnect \/ Refuse \/ AsyncRequest \/ Resume

Spec == Init /\ [][Next]_vars

-----------------------------------------------------------------------------
\* The operations of the client and the ranges of the counters.
TypeOK ==
    /\ op \in {"none", "connect", "write", "read"} /\ attempt \in 0..2
    /\ connected \in BOOLEAN /\ (op \in {"write", "read"} => connected)
    /\ link \in 0..MaxLinks /\ request \in 0..MaxRequests
    /\ result \in [Request -> [status : {"none", "ok", "error", "refused"},
                               answer : 0..MaxRequests]]
    /\ inbox \in Seq([request : Request, link : 1..MaxLinks])
    /\ answers \in Seq(Request) /\ executed \in [Request -> Nat]

\* The late answer to an attempt that was given up is never taken for the
\* answer to a later request: async_request returns the server's answer to the
\* request it was called with, and the server has executed it.
AnswersOwnRequest ==
    \A r \in Request : result[r].status = "ok" =>
        result[r].answer = r /\ executed[r] > 0

\* "reconnects and retries the request once" (http_client.cpp:9): whatever
\* fails, a request is executed at most twice, now or later, and one that was
\* refused never.
AtMostTwice ==
    \A r \in Request :
        LET waiting == {i \in DOMAIN inbox : inbox[i].request = r}
        IN  executed[r] + Cardinality(waiting) <=
                (IF result[r].status = "refused" THEN 0 ELSE 2)

\* What the callers of the client can rely on: the retry neither mixes up answers
\* nor executes a request more often than it is said to.
RetrySafe == TypeOK /\ AnswersOwnRequest /\ AtMostTwice
=============================================================================
