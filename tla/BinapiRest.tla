---------------------------- MODULE BinapiRest ----------------------------
(***************************************************************************)
(* binapi::rest::api::impl.  With a callback a request goes into a queue of*)
(* which the first is carried through a chain of handlers on a connection  *)
(* of its own (resolve, connect, TLS handshake, write, read, shutdown); all*)
(* of it runs on the thread of the io_context.  Without a callback the     *)
(* same is done in one blocking call.  What a request consists of is the   *)
(* subject of BinapiEndpoints.                                             *)
(*                                                                         *)
(* A callback may call the api again before it returns: that call finds    *)
(* the members as process_reply has left them.  The server is external: a  *)
(* request that has reached it is executed sooner or later, also when its  *)
(* connection is gone.  m_buffer may keep the beginning of an answer that  *)
(* was cut off, and then the next read fails: any read may fail here.      *)
(***************************************************************************)
EXTENDS Integers, Sequences

CONSTANT MaxRequests   \* bound: calls of post()

ASSUME RestAssumption == MaxRequests \in Nat

VARIABLES
    m_async_requests,
    m_write_in_process,
    operation,  \* the operation whose handler comes next, or "none"
    posted,     \* calls so far: the name of the last request
    told,       \* told[r]: what the callback or the caller of r was told; "swallowed"
                \* or "lost" of a callback that will never be called
    calls,      \* history: the requests whose callbacks were called, in order
    inbox,      \* requests that have reached the server
    executed,   \* executed[r]: how often the server has executed r
    null_read   \* the program has read through a null pointer

Request == 1..MaxRequests

queueVars == <<m_async_requests, m_write_in_process, operation>>
userVars == <<posted, told, calls, null_read>>
serverVars == <<inbox, executed>>
restVars == <<queueVars, userVars, serverVars>>

RestInit ==
    /\ m_async_requests = <<>> /\ m_write_in_process = FALSE /\ operation = "none"
    /\ posted = 0 /\ told = [r \in Request |-> "nothing"] /\ calls = <<>>
    /\ inbox = {} /\ executed = [r \in Request |-> 0]
    /\ null_read = FALSE

-----------------------------------------------------------------------------
\* Faulty variant: the flag is not looked at.
async_post_Always(queue, busy) ==
    /\ m_async_requests' = queue
    /\ m_write_in_process' = TRUE /\ operation' = "resolve"

\* async_post() on a queue: unless a request is in process, start the first.
async_post(queue, busy) ==
    /\ m_async_requests' = queue
    /\ IF busy THEN UNCHANGED <<m_write_in_process, operation>>
               ELSE m_write_in_process' = TRUE /\ operation' = "resolve"

\* A new request, if the bound allows.
NewRequest == posted < MaxRequests /\ posted' = posted + 1

\* post() with a callback, called from outside the handlers.
Post ==
    /\ ~null_read /\ NewRequest
    /\ async_post(Append(m_async_requests, posted'), m_write_in_process)
    /\ UNCHANGED <<told, calls, null_read, serverVars>>

\* invoker::invoke: what a callback is told of a body that was received.  One
\* that is empty is a success with an empty value.  One that is JSON and not what
\* T::construct expects ("odd") makes it throw: invoke catches the exception and
\* returns, and the callback is not called.
Invoke(body) ==
    CASE body \in {"value", "empty"} -> "ok"
      [] body = "api_error" -> "api_error"
      [] body \in {"html", "not_json"} -> "json_error"
      [] body = "odd" -> "swallowed"

\* process_reply: the callback of the first request is told of its end.
Reply(what) ==
    /\ told' = [told EXCEPT ![m_async_requests[1]] = what]
    /\ calls' = IF what = "swallowed" THEN calls ELSE Append(calls, m_async_requests[1])

\* Faulty variant: the request is popped when its callback has returned.
Fail_PopLast ==
    /\ Reply("error")
    /\ \/ /\ m_async_requests' = Tail(m_async_requests)
          /\ m_write_in_process' = FALSE /\ operation' = "none"
          /\ UNCHANGED posted
       \/ NewRequest /\ async_post(Append(m_async_requests, posted'), FALSE)

\* The error branch of a handler: the flag is reset, then process_reply pops
\* the request and calls back.  Nothing starts the next request, unless the
\* callback makes a call of its own.
Fail ==
    /\ Reply("error")
    /\ \/ /\ m_async_requests' = Tail(m_async_requests)
          /\ m_write_in_process' = FALSE /\ operation' = "none"
          /\ UNCHANGED posted
       \/ NewRequest /\ async_post(Append(Tail(m_async_requests), posted'), FALSE)

HandlerFails ==
    /\ ~null_read
    /\ operation \in {"resolve", "connect", "handshake", "write", "read"}
    /\ Fail
    /\ \/ UNCHANGED inbox
       \/ operation = "write" /\ inbox' = inbox \cup {m_async_requests[1]}
    /\ UNCHANGED <<executed, null_read>>

\* on_resolve, SSL_set_tlsext_host_name fails: the chain ends here, with the
\* request in the queue and the flag set.
on_resolve_SniFails ==
    /\ ~null_read /\ operation = "resolve" /\ operation' = "none"
    /\ told' = [told EXCEPT ![m_async_requests[1]] = "lost"]
    /\ UNCHANGED <<m_async_requests, m_write_in_process, posted, calls, null_read, serverVars>>

\* on_resolve, on_connect and on_handshake start the next operation.
NextOperation ==
    /\ ~null_read
    /\ \/ operation = "resolve" /\ operation' = "connect"
       \/ operation = "connect" /\ operation' = "handshake"
       \/ operation = "handshake" /\ operation' = "write"
    /\ UNCHANGED <<m_async_requests, m_write_in_process, userVars, serverVars>>

on_write ==
    /\ ~null_read /\ operation = "write" /\ operation' = "read"
    /\ inbox' = inbox \cup {m_async_requests[1]}
    /\ UNCHANGED <<m_async_requests, m_write_in_process, userVars, executed>>

\* An answer can be read once the server has executed the request, or a
\* gateway before it has refused it with a page of its own.
on_read ==
    /\ ~null_read /\ operation = "read" /\ operation' = "shutdown"
    /\ inbox' = inbox \ {m_async_requests[1]}
    /\ UNCHANGED <<m_async_requests, m_write_in_process, userVars, executed>>

\* Faulty variant: the next request is not started.
Continue_Not(queue) ==
    /\ m_async_requests' = queue
    /\ m_write_in_process' = FALSE /\ operation' = "none"

\* Faulty variant: an empty queue is not noticed.
Continue_NoCheck(queue) == async_post(queue, FALSE)

\* The end of on_shutdown: reset the flag, start the next request if any.
Continue(queue) ==
    IF queue # <<>> THEN async_post(queue, FALSE)
    ELSE /\ m_async_requests' = queue
         /\ m_write_in_process' = FALSE /\ operation' = "none"

\* on_shutdown: the flag is still set while the callback runs, so a call from
\* there, if it is called, only adds to the queue.
on_shutdown(body) ==
    /\ ~null_read /\ operation = "shutdown"
    /\ (body = "html") <=> (executed[m_async_requests[1]] = 0)
    /\ Reply(Invoke(body))
    /\ \/ Continue(Tail(m_async_requests)) /\ UNCHANGED posted
       \/ /\ Invoke(body) # "swallowed" /\ NewRequest
          /\ Continue(Append(Tail(m_async_requests), posted'))
    /\ UNCHANGED <<null_read, serverVars>>

\* post() without a callback: sync_post, then the decoding of what it returned.
\* A failed exchange returns an empty body; flatjson reports no error for it,
\* and is_object() reads its first token, which is not there.  Here an exception
\* of R::construct becomes the message of the error that is returned.
SyncPost(body) ==
    /\ ~null_read /\ NewRequest
    /\ \/ /\ body \in {"failed", "empty"} /\ null_read' = TRUE
          /\ UNCHANGED told
       \/ /\ body \in {"value", "html"}
          /\ told' = [told EXCEPT ![posted'] = "ok"] /\ UNCHANGED null_read
       \/ /\ body \in {"api_error", "not_json"}
          /\ told' = [told EXCEPT ![posted'] = body] /\ UNCHANGED null_read
       \/ /\ body = "odd"
          /\ told' = [told EXCEPT ![posted'] = "error"] /\ UNCHANGED null_read
    /\ \/ executed' = [executed EXCEPT ![posted'] = 1] /\ UNCHANGED inbox
       \/ body = "failed" /\ inbox' \in {inbox, inbox \cup {posted'}} /\ UNCHANGED executed
       \/ body = "html" /\ UNCHANGED serverVars
    /\ UNCHANGED <<queueVars, calls>>

\* The server executes a request it has received.
Execute(r) ==
    /\ inbox' = inbox \ {r}
    /\ executed' = [executed EXCEPT ![r] = @ + 1]
    /\ UNCHANGED <<queueVars, userVars>>

Body == {"value", "empty", "api_error", "not_json", "html", "odd"}

RestNext ==
    \/ Post
    \/ HandlerFails \/ on_resolve_SniFails \/ NextOperation \/ on_write \/ on_read
    \/ \E body \in Body : on_shutdown(body)
    \/ \E body \in Body \cup {"failed"} : SyncPost(body)
    \/ \E r \in inbox : Execute(r)

RestSpec == RestInit /\ [][RestNext]_restVars

-----------------------------------------------------------------------------
Outcome == {"nothing", "ok", "error", "api_error", "json_error", "not_json", "swallowed", "lost"}

\* The stages of the chain; while it runs the flag is set and there is a request.
RestTypeOK ==
    /\ m_async_requests \in Seq(Request) /\ calls \in Seq(Request)
    /\ {m_write_in_process, null_read} \subseteq BOOLEAN
    /\ operation \in {"none", "resolve", "connect", "handshake", "write", "read", "shutdown"}
    /\ operation # "none" => m_write_in_process /\ m_async_requests # <<>>
    /\ posted \in 0..MaxRequests
    /\ told \in [Request -> Outcome]
    /\ inbox \subseteq Request /\ executed \in [Request -> Nat]

\* Every callback is called at most once, and callbacks are called in the order
\* of the calls they belong to, whatever fails and whatever they call themselves.
CallbacksInOrder == \A i, j \in DOMAIN calls : i < j => calls[i] < calls[j]

\* No request is sent twice: an order is placed at most once, now or later.  And
\* a callback that is told the exchange's answer, good or bad, belongs to a
\* request that the exchange has executed.
ExecutedOnce ==
    /\ \A r \in Request : executed[r] + (IF r \in inbox THEN 1 ELSE 0) <= 1
    /\ \A i \in DOMAIN calls : told[calls[i]] \in {"ok", "api_error"} => executed[calls[i]] = 1

\* Nothing is under way in two cases only.  The flag is reset: then a request
\* waits only if the exchange before it has failed, and the next post() starts it;
\* after a success, also one that construct() threw on, the queue goes on by
\* itself.  Or the flag is set, and the first request is one whose SNI name could
\* not be set.
RestsAfterFailure ==
    operation = "none" =>
        IF m_write_in_process
        THEN m_async_requests # <<>> /\ told[m_async_requests[1]] = "lost"
        ELSE m_async_requests # <<>> => calls # <<>> /\ told[calls[Len(calls)]] = "error"

\* No call is forgotten: one of which nothing was told is in the queue, unless the
\* program has crashed in it.  A failed SNI name is for ever: its request stays the
\* first of the queue, with the flag set and nothing under way, whatever is posted
\* after it.
Accounted ==
    /\ \A r \in 1..posted : told[r] = "nothing" =>
          null_read \/ \E i \in DOMAIN m_async_requests : m_async_requests[i] = r
    /\ \A r \in Request : told[r] = "lost" =>
          /\ m_async_requests # <<>> /\ m_async_requests[1] = r
          /\ m_write_in_process /\ operation = "none"

\* "returns FALSE when error" (api.hpp:46): a blocking call whose exchange has
\* failed comes back, and with an error.
FalseOnError == ~null_read

\* What the users of the queue can rely on: a call is carried out and told at most
\* once and in its turn, one that was not told is still in the queue or had an
\* answer construct() threw on, and the queue stops only after an error that was
\* told, until the next call, or, for good, when an SNI name could not be set.
QueueInOrder ==
    RestTypeOK /\ CallbacksInOrder /\ ExecutedOnce /\ RestsAfterFailure /\ Accounted
=============================================================================
