--------------------------- MODULE BinapiProofs ---------------------------
(***************************************************************************)
(* Proofs about the two parts of binapi that keep state: the queue of REST *)
(* requests (BinapiRest), for every number of calls, and the websockets    *)
(* (BinapiWebsockets), for every number of objects, sockets and messages.  *)
(***************************************************************************)
EXTENDS BinapiRest, BinapiWebsockets, SequenceTheorems, TLAPS

(***************************************************************************)
(* The queue of REST requests.                                             *)
(*                                                                         *)
(* A request's name is the number of its call.  What was called back, then *)
(* what is in the queue, is in the order of the calls; that is more than   *)
(* CallbacksInOrder says, and what every step preserves.                   *)
(***************************************************************************)
Ordered(queue, called, last) ==
    /\ \A i, j \in DOMAIN queue : i < j => queue[i] < queue[j]
    /\ \A i, j \in DOMAIN called : i < j => called[i] < called[j]
    /\ \A i \in DOMAIN queue : queue[i] <= last
    /\ \A i \in DOMAIN called : called[i] <= last
    /\ \A i \in DOMAIN called, j \in DOMAIN queue : called[i] < queue[j]

QueueOrdered == Ordered(m_async_requests, calls, posted)

\* The requests that cannot have reached the server: those still to be made, those
\* behind the first in the queue, and the first before its write has ended.
Unsent(r) ==
    \/ r > posted
    \/ \E i \in DOMAIN m_async_requests :
           m_async_requests[i] = r /\ (i > 1 \/ operation \notin {"read", "shutdown"})

NothingOfUnsent == \A r \in Request : Unsent(r) => executed[r] = 0 /\ r \notin inbox

\* The inductive invariant.
RestInv == QueueInOrder /\ QueueOrdered /\ NothingOfUnsent

-----------------------------------------------------------------------------
\* The facts about sequences that the steps of the queue use.
LEMMA Joined ==
  ASSUME NEW q \in Seq(Request), NEW r \in Request
  PROVE  /\ Append(q, r) \in Seq(Request)
         /\ DOMAIN q = 1..Len(q) /\ Len(q) \in Nat
         /\ DOMAIN Append(q, r) = 1..(Len(q) + 1) /\ Len(Append(q, r)) = Len(q) + 1
         /\ Append(q, r)[Len(q) + 1] = r
         /\ \A i \in DOMAIN q : Append(q, r)[i] = q[i] /\ q[i] \in Request
         /\ \A i \in DOMAIN Append(q, r) : i \in DOMAIN q \/ i = Len(q) + 1
BY LenProperties, AppendProperties

LEMMA Left ==
  ASSUME NEW q \in Seq(Request), q # <<>>
  PROVE  /\ DOMAIN q = 1..Len(q) /\ Len(q) \in Nat \ {0} /\ q[1] \in Request
         /\ Tail(q) \in Seq(Request) /\ DOMAIN Tail(q) = 1..(Len(q) - 1)
         /\ \A i \in DOMAIN Tail(q) : /\ Tail(q)[i] = q[i + 1]
                                      /\ i + 1 \in DOMAIN q /\ i + 1 > 1 /\ i \in Nat
BY LenProperties, HeadTailProperties, EmptySeq

\* Names of requests can be compared.
LEMMA Names ==
  /\ \A r \in Request : r \in Nat
  /\ \A q \in Seq(Request) : \A i \in DOMAIN q : i \in Nat /\ q[i] \in Nat /\ q[i] \in Request
BY LenProperties, RestAssumption DEF Request

\* A new request joins the queue behind all others.
LEMMA OrderedJoin ==
  ASSUME NEW q \in Seq(Request), NEW c \in Seq(Request), NEW n \in Nat,
         n + 1 \in Request, Ordered(q, c, n)
  PROVE  Append(q, n + 1) \in Seq(Request) /\ Ordered(Append(q, n + 1), c, n + 1)
<1> DEFINE p == Append(q, n + 1)
<1>1. /\ p \in Seq(Request)
      /\ DOMAIN q = 1..Len(q) /\ Len(q) \in Nat
      /\ p[Len(q) + 1] = n + 1
      /\ \A i \in DOMAIN q : p[i] = q[i] /\ q[i] \in Nat
      /\ \A i \in DOMAIN p : i \in DOMAIN q \/ i = Len(q) + 1
      /\ \A i \in DOMAIN p : i \in Nat
      /\ \A i \in DOMAIN c : c[i] \in Nat
  BY Joined, Names
<1> HIDE DEF p
<1>2. \A i \in DOMAIN q : p[i] <= n
  BY <1>1 DEF Ordered
<1>3. \A i, j \in DOMAIN p : i < j => p[i] < p[j]
  <2> SUFFICES ASSUME NEW i \in DOMAIN p, NEW j \in DOMAIN p, i < j PROVE p[i] < p[j]
    OBVIOUS
  <2>1. i \in DOMAIN q
    BY <1>1
  <2>2. CASE j \in DOMAIN q
    BY <2>1, <2>2, <1>1 DEF Ordered
  <2>3. CASE j = Len(q) + 1
    BY <2>1, <2>3, <1>1, <1>2
  <2> QED BY <2>2, <2>3, <1>1
<1>4. \A i \in DOMAIN p : p[i] <= n + 1
  BY <1>1, <1>2
<1>5. \A i \in DOMAIN c : c[i] <= n /\ c[i] <= n + 1
  BY <1>1 DEF Ordered
<1>6. \A i \in DOMAIN c, j \in DOMAIN p : c[i] < p[j]
  BY <1>1, <1>5 DEF Ordered
<1>7. Ordered(p, c, n + 1)
  BY <1>3, <1>4, <1>5, <1>6 DEF Ordered
<1> QED BY <1>1, <1>7 DEF p

\* The first request leaves the queue and is called back after all others.
LEMMA OrderedLeave ==
  ASSUME NEW q \in Seq(Request), q # <<>>, NEW c \in Seq(Request), NEW n \in Nat,
         Ordered(q, c, n)
  PROVE  Tail(q) \in Seq(Request) /\ Ordered(Tail(q), Append(c, q[1]), n)
<1> DEFINE t == Tail(q)
           d == Append(c, q[1])
<1>1. /\ t \in Seq(Request) /\ q[1] \in Nat /\ 1 \in DOMAIN q
      /\ \A i \in DOMAIN t : t[i] = q[i + 1] /\ i + 1 \in DOMAIN q /\ i + 1 > 1 /\ i \in Nat
      /\ \A i \in DOMAIN q : q[i] \in Nat
  BY Left, Names
<1>2. /\ DOMAIN c = 1..Len(c) /\ Len(c) \in Nat
      /\ d[Len(c) + 1] = q[1]
      /\ \A i \in DOMAIN c : d[i] = c[i] /\ c[i] \in Nat
      /\ \A i \in DOMAIN d : i \in DOMAIN c \/ i = Len(c) + 1
      /\ \A i \in DOMAIN d : i \in Nat /\ d[i] \in Nat
  <2>1. q[1] \in Request
    BY Left
  <2> QED BY <2>1, Joined, Names
<1> HIDE DEF t, d
<1>3. \A i, j \in DOMAIN t : i < j => t[i] < t[j]
  <2> SUFFICES ASSUME NEW i \in DOMAIN t, NEW j \in DOMAIN t, i < j PROVE t[i] < t[j]
    OBVIOUS
  <2>1. i + 1 \in DOMAIN q /\ j + 1 \in DOMAIN q /\ i + 1 < j + 1
    BY <1>1
  <2>2. q[i + 1] < q[j + 1]
    BY <2>1 DEF Ordered
  <2> QED BY <2>2, <1>1
<1>4. \A i, j \in DOMAIN d : i < j => d[i] < d[j]
  <2> SUFFICES ASSUME NEW i \in DOMAIN d, NEW j \in DOMAIN d, i < j PROVE d[i] < d[j]
    OBVIOUS
  <2>1. i \in DOMAIN c
    BY <1>2
  <2>2. CASE j \in DOMAIN c
    BY <2>1, <2>2, <1>2 DEF Ordered
  <2>3. CASE j = Len(c) + 1
    BY <2>1, <2>3, <1>1, <1>2 DEF Ordered
  <2> QED BY <2>2, <2>3, <1>2
<1>5. \A i \in DOMAIN t : t[i] <= n
  BY <1>1 DEF Ordered
<1>6. \A i \in DOMAIN d : d[i] <= n /\ d[i] <= q[1]
  <2> TAKE i \in DOMAIN d
  <2>1. CASE i \in DOMAIN c
    BY <2>1, <1>1, <1>2 DEF Ordered
  <2>2. CASE i = Len(c) + 1
    BY <2>2, <1>1, <1>2 DEF Ordered
  <2> QED BY <2>1, <2>2, <1>2
<1>7. \A j \in DOMAIN t : q[1] < t[j] /\ t[j] \in Nat
  BY <1>1 DEF Ordered
<1>8. \A i \in DOMAIN d, j \in DOMAIN t : d[i] < t[j]
  BY <1>1, <1>2, <1>6, <1>7
<1>9. Ordered(t, d, n)
  BY <1>3, <1>4, <1>5, <1>6, <1>8 DEF Ordered
<1> QED BY <1>1, <1>9 DEF t, d

\* A callback that is not called leaves the order as it is.
LEMMA OrderedLess ==
  ASSUME NEW q \in Seq(Request), NEW c \in Seq(Request), NEW r \in Request, NEW n \in Nat,
         Ordered(q, Append(c, r), n)
  PROVE  Ordered(q, c, n)
<1> DEFINE d == Append(c, r)
<1>1. \A i \in DOMAIN c : i \in DOMAIN d /\ d[i] = c[i]
  BY Joined
<1>2. Ordered(q, d, n)
  OBVIOUS
<1> HIDE DEF d
<1> QED BY <1>1, <1>2 DEF Ordered

-----------------------------------------------------------------------------
\* A new request has the next name.
LEMMA Named ==
  ASSUME RestInv, NewRequest
  PROVE  posted' = posted + 1 /\ posted \in Nat /\ posted' \in Request /\ posted' \in 0..MaxRequests
BY RestAssumption DEF RestInv, QueueInOrder, RestTypeOK, NewRequest, Request

\* The first request leaves the queue and is told or not, and its callback may
\* have made a call: the order is kept, and of the requests that are left the
\* server still has seen nothing.
LEMMA Leaves ==
  ASSUME RestInv, m_async_requests # <<>>,
         calls' = Append(calls, m_async_requests[1]) \/ calls' = calls,
         \/ m_async_requests' = Tail(m_async_requests) /\ posted' = posted
         \/ NewRequest /\ m_async_requests' = Append(Tail(m_async_requests), posted'),
         operation' \notin {"read", "shutdown"}
  PROVE  /\ m_async_requests' \in Seq(Request) /\ calls' \in Seq(Request)
         /\ posted' \in 0..MaxRequests /\ QueueOrdered'
         /\ m_async_requests[1] \in Request
         /\ \A r \in Request : Unsent(r)' => Unsent(r) /\ r # m_async_requests[1]
<1> DEFINE t == Tail(m_async_requests)
           c == Append(calls, m_async_requests[1])
<1>1. /\ m_async_requests \in Seq(Request) /\ calls \in Seq(Request) /\ posted \in 0..MaxRequests
      /\ m_async_requests[1] \in Request /\ 1 \in DOMAIN m_async_requests
      /\ Ordered(m_async_requests, calls, posted)
  BY Left DEF RestInv, QueueInOrder, RestTypeOK, QueueOrdered
<1>2. c \in Seq(Request) /\ t \in Seq(Request) /\ Ordered(t, c, posted)
  BY <1>1, OrderedLeave, Joined
<1>3. \A i \in DOMAIN t : \E k \in DOMAIN m_async_requests : k > 1 /\ t[i] = m_async_requests[k]
  BY <1>1, Left
<1>4. m_async_requests[1] = c[Len(calls) + 1] /\ Len(calls) + 1 \in DOMAIN c
  BY <1>1, Joined
<1>5. m_async_requests[1] \in Nat /\ m_async_requests[1] <= posted /\ posted \in Nat
  BY <1>1, Names, RestAssumption DEF Ordered
<1>6. /\ calls' \in Seq(Request)
      /\ \A q \in Seq(Request), n \in Nat : Ordered(q, c, n) => Ordered(q, calls', n)
  <2>1. CASE calls' = Append(calls, m_async_requests[1])
    BY <2>1, <1>2
  <2>2. CASE calls' = calls
    BY <2>2, <1>1, OrderedLess
  <2> QED BY <2>1, <2>2
<1>7. CASE m_async_requests' = t /\ posted' = posted
  <2> HIDE DEF t, c
  <2>1. QueueOrdered'
    BY <1>2, <1>5, <1>7, <1>6 DEF QueueOrdered
  <2>2. ASSUME NEW r \in Request, Unsent(r)'
        PROVE  Unsent(r) /\ r # m_async_requests[1]
    <3>1. CASE r > posted
      BY <3>1, <1>5, Names DEF Unsent
    <3>2. CASE \E i \in DOMAIN t : t[i] = r
      <4>1. PICK i \in DOMAIN t : t[i] = r
        BY <3>2
      <4>2. c[Len(calls) + 1] < t[i]
        BY <1>2, <1>4 DEF Ordered
      <4>3. Unsent(r)
        BY <4>1, <1>3 DEF Unsent
      <4> QED BY <4>1, <4>2, <4>3, <1>4, <1>5, Names
    <3> QED BY <2>2, <3>1, <3>2, <1>7 DEF Unsent
  <2> QED BY <1>1, <1>2, <1>7, <1>6, <2>1, <2>2
<1>8. CASE NewRequest /\ m_async_requests' = Append(t, posted')
  <2> DEFINE q == Append(t, posted')
  <2>1. posted' = posted + 1 /\ posted' \in Request /\ posted' \in 0..MaxRequests
    BY <1>8, Named
  <2>2. q \in Seq(Request) /\ Ordered(q, c, posted')
    <3> HIDE DEF t, c
    <3> QED BY <1>2, <1>5, <2>1, OrderedJoin
  <2>3. \A i \in DOMAIN q : q[i] = posted' \/ \E k \in DOMAIN t : q[i] = t[k]
    <3> HIDE DEF t, c
    <3> QED BY <1>2, <2>1, Joined
  <2> HIDE DEF t, c, q
  <2>4. QueueOrdered'
    <3>1. m_async_requests' = q /\ posted' \in Nat
      BY <1>5, <1>8, <2>1 DEF q
    <3>2. Ordered(q, calls', posted')
      BY <3>1, <1>6, <2>2
    <3> QED BY <3>1, <3>2 DEF QueueOrdered
  <2>5. ASSUME NEW r \in Request, Unsent(r)'
        PROVE  Unsent(r) /\ r # m_async_requests[1]
    <3>1. CASE r > posted
      BY <3>1, <1>5, Names DEF Unsent
    <3>2. CASE \E i \in DOMAIN q : q[i] = r
      <4>1. PICK i \in DOMAIN q : q[i] = r
        BY <3>2
      <4>2. c[Len(calls) + 1] < q[i]
        BY <2>2, <1>4 DEF Ordered
      <4>3. Unsent(r)
        <5>1. CASE q[i] = posted'
          <6>1. r = posted'
            BY <5>1, <4>1
          <6>2. r > posted
            BY <6>1, <2>1, <1>5
          <6> QED BY <6>2 DEF Unsent
        <5>2. CASE \E k \in DOMAIN t : q[i] = t[k]
          BY <5>2, <4>1, <1>3 DEF Unsent
        <5> QED BY <5>1, <5>2, <2>3
      <4> QED BY <4>1, <4>2, <4>3, <1>4, <1>5, Names
    <3>3. r > posted' => r > posted
      BY <2>1, <1>5, Names
    <3> QED BY <2>5, <3>1, <3>2, <3>3, <1>8 DEF Unsent, q
  <2> QED BY <1>1, <1>2, <1>8, <1>6, <2>1, <2>2, <2>4, <2>5 DEF q
<1> QED BY <1>7, <1>8

\* What callbacks were told before is not changed by telling one more.
LEMMA Told ==
  ASSUME RestInv, m_async_requests # <<>>, NEW what, Reply(what),
         what \in Outcome \ {"nothing", "lost"},
         what \in {"ok", "api_error"} => executed[m_async_requests[1]] = 1
  PROVE  /\ told' \in [Request -> Outcome] /\ calls' \in Seq(Request)
         /\ calls' = Append(calls, m_async_requests[1]) \/ calls' = calls
         /\ what # "swallowed" => calls' # <<>> /\ told'[calls'[Len(calls')]] = what
         /\ \A i \in DOMAIN calls' : told'[calls'[i]] \in {"ok", "api_error"} => executed[calls'[i]] = 1
<1> DEFINE h == m_async_requests[1]
           d == Append(calls, h)
<1>1. /\ m_async_requests \in Seq(Request) /\ calls \in Seq(Request)
      /\ h \in Request /\ 1 \in DOMAIN m_async_requests
      /\ \A i \in DOMAIN calls : calls[i] < h /\ calls[i] \in Request /\ calls[i] \in Nat
      /\ told \in [Request -> Outcome]
      /\ told' = [told EXCEPT ![h] = what]
      /\ calls' = IF what = "swallowed" THEN calls ELSE d
  BY Left, Names DEF RestInv, QueueInOrder, RestTypeOK, QueueOrdered, Ordered, Reply
<1>2. /\ DOMAIN calls = 1..Len(calls) /\ Len(calls) \in Nat /\ h \in Nat
      /\ d \in Seq(Request) /\ Len(d) = Len(calls) + 1 /\ d[Len(calls) + 1] = h
      /\ \A i \in DOMAIN calls : d[i] = calls[i]
      /\ \A i \in DOMAIN d : i \in DOMAIN calls \/ i = Len(calls) + 1
  BY <1>1, Joined, Names
<1>3. calls' = d \/ calls' = calls
  BY <1>1
<1> HIDE DEF h, d
<1>4. d # <<>>
  BY <1>2
<1>5. told' \in [Request -> Outcome] /\ told'[h] = what
      /\ \A x \in Request : x # h => told'[x] = told[x]
  BY <1>1
<1>6. what # "swallowed" => calls' # <<>> /\ told'[calls'[Len(calls')]] = what
  BY <1>1, <1>2, <1>4, <1>5
<1>7. ASSUME NEW i \in DOMAIN calls', told'[calls'[i]] \in {"ok", "api_error"}
      PROVE  executed[calls'[i]] = 1
  <2>1. CASE i \in DOMAIN calls
    <3>1. calls'[i] = calls[i] /\ told'[calls[i]] = told[calls[i]]
      BY <2>1, <1>1, <1>2, <1>5
    <3> QED BY <3>1, <2>1, <1>7 DEF RestInv, QueueInOrder, ExecutedOnce
  <2>2. CASE i = Len(calls) + 1 /\ calls' = d
    BY <2>2, <1>2, <1>5, <1>7 DEF h
  <2> QED BY <2>1, <2>2, <1>1, <1>2, <1>3
<1>8. calls' \in Seq(Request)
  BY <1>1, <1>2
<1> QED BY <1>3, <1>5, <1>6, <1>7, <1>8 DEF h, d

\* Nothing is forgotten when the first request leaves the queue.
LEMMA LeavesAccounted ==
  ASSUME RestInv, m_async_requests # <<>>, operation # "none", NEW what, Reply(what),
         what \in Outcome \ {"nothing", "lost"}, null_read' = null_read,
         \/ m_async_requests' = Tail(m_async_requests) /\ posted' = posted
         \/ NewRequest /\ m_async_requests' = Append(Tail(m_async_requests), posted')
  PROVE  Accounted'
<1> DEFINE h == m_async_requests[1]
           t == Tail(m_async_requests)
<1>1. /\ m_async_requests \in Seq(Request) /\ h \in Request /\ t \in Seq(Request)
      /\ told' = [told EXCEPT ![h] = what] /\ told \in [Request -> Outcome]
      /\ posted \in 0..MaxRequests
  BY Left DEF RestInv, QueueInOrder, RestTypeOK, Reply
<1>2. \A i \in DOMAIN m_async_requests :
         i # 1 => i - 1 \in DOMAIN t /\ t[i - 1] = m_async_requests[i]
  BY <1>1, Left
<1>3. \A i \in DOMAIN t : \E j \in DOMAIN m_async_requests' : m_async_requests'[j] = t[i]
  <2>1. CASE m_async_requests' = t
    BY <2>1
  <2>2. CASE NewRequest /\ m_async_requests' = Append(t, posted')
    <3>1. posted' \in Request
      BY <2>2, Named
    <3> HIDE DEF t
    <3> QED BY <1>1, <2>2, <3>1, Joined
  <2> QED BY <2>1, <2>2
<1>4. posted' = posted \/ /\ posted' = posted + 1
                          /\ \E j \in DOMAIN m_async_requests' : m_async_requests'[j] = posted'
  <2>1. CASE NewRequest /\ m_async_requests' = Append(t, posted')
    <3>1. posted' = posted + 1 /\ posted' \in Request
      BY <2>1, Named
    <3> HIDE DEF t
    <3> QED BY <1>1, <2>1, <3>1, Joined
  <2> QED BY <2>1
<1>5. posted' \in 0..MaxRequests
  BY <1>1, Named
<1> HIDE DEF t
<1>6. ASSUME NEW r \in Request, told'[r] \in {"nothing", "lost"}
      PROVE  r # h /\ told'[r] = told[r]
  <2> HIDE DEF h
  <2> QED BY <1>1, <1>6
<1>7. ASSUME NEW r \in 1..posted', told'[r] = "nothing"
      PROVE  null_read' \/ \E j \in DOMAIN m_async_requests' : m_async_requests'[j] = r
  <2>1. CASE r = posted' /\ posted' # posted
    BY <2>1, <1>4
  <2>2. CASE r \in 1..posted
    <3>1. r \in Request
      BY <1>5, RestAssumption DEF Request
    <3>2. r # h /\ told[r] = "nothing"
      BY <3>1, <1>6, <1>7
    <3>3. CASE null_read
      BY <3>3
    <3>4. CASE \E i \in DOMAIN m_async_requests : m_async_requests[i] = r
      <4>1. PICK i \in DOMAIN m_async_requests : m_async_requests[i] = r
        BY <3>4
      <4>2. i # 1
        BY <4>1, <3>2
      <4> QED BY <4>1, <4>2, <1>2, <1>3
    <3> QED BY <2>2, <3>2, <3>3, <3>4 DEF RestInv, QueueInOrder, Accounted
  <2> QED BY <2>1, <2>2, <1>1, <1>4, RestAssumption
<1>8. \A r \in Request : told'[r] # "lost"
  BY <1>6 DEF RestInv, QueueInOrder, Accounted
<1> QED BY <1>7, <1>8 DEF Accounted

-----------------------------------------------------------------------------
\* post() with a callback.
LEMMA PostKeeps == RestInv /\ Post => RestInv'
<1> SUFFICES ASSUME RestInv, Post PROVE RestInv'
  OBVIOUS
<1> DEFINE q == Append(m_async_requests, posted')
<1>1. /\ m_async_requests \in Seq(Request) /\ calls \in Seq(Request) /\ posted \in 0..MaxRequests
      /\ operation # "none" => m_write_in_process /\ m_async_requests # <<>>
      /\ m_write_in_process \in BOOLEAN
      /\ Ordered(m_async_requests, calls, posted)
  BY DEF RestInv, QueueInOrder, RestTypeOK, QueueOrdered
<1>2. /\ posted' = posted + 1 /\ posted \in Nat /\ posted' \in Request /\ posted' \in 0..MaxRequests
      /\ m_async_requests' = q
      /\ UNCHANGED <<told, calls, null_read, inbox, executed>>
      /\ IF m_write_in_process THEN UNCHANGED <<m_write_in_process, operation>>
         ELSE m_write_in_process' = TRUE /\ operation' = "resolve"
  BY Named DEF Post, async_post, serverVars
<1>3. q \in Seq(Request) /\ Ordered(q, calls, posted')
  BY <1>1, <1>2, OrderedJoin
<1>4. q # <<>> /\ \A i \in DOMAIN q :
          \/ i \in DOMAIN m_async_requests /\ q[i] = m_async_requests[i]
          \/ q[i] = posted'
  BY <1>1, <1>2, Joined
<1> HIDE DEF q
<1>5. m_write_in_process' /\ m_write_in_process' \in BOOLEAN
  BY <1>1, <1>2
<1>6. RestTypeOK'
  BY <1>2, <1>3, <1>4, <1>5 DEF RestInv, QueueInOrder, RestTypeOK
<1>7. QueueOrdered' /\ CallbacksInOrder'
  BY <1>2, <1>3 DEF QueueOrdered, Ordered, CallbacksInOrder
<1>8. ExecutedOnce'
  BY <1>2 DEF RestInv, QueueInOrder, ExecutedOnce
<1>9. m_async_requests # <<>> => q[1] = m_async_requests[1]
  <2>1. m_async_requests # <<>> => 1 \in DOMAIN m_async_requests
    BY <1>1, Left
  <2> QED BY <2>1, <1>1, <1>2, Joined DEF q
<1>10. RestsAfterFailure'
  BY <1>2, <1>4, <1>5, <1>9 DEF RestInv, QueueInOrder, RestsAfterFailure
<1>11. Accounted'
  <2>1. /\ \A i \in DOMAIN m_async_requests : i \in DOMAIN q /\ q[i] = m_async_requests[i]
        /\ \E i \in DOMAIN q : q[i] = posted'
    BY <1>1, <1>2, Joined DEF q
  <2>2. \A r \in 1..posted' : r \in 1..posted \/ r = posted'
    BY <1>2
  <2>3. \A r \in 1..posted' : told'[r] = "nothing" =>
           null_read' \/ \E i \in DOMAIN m_async_requests' : m_async_requests'[i] = r
    BY <1>2, <2>1, <2>2 DEF RestInv, QueueInOrder, Accounted
  <2>4. ASSUME NEW r \in Request, told'[r] = "lost"
        PROVE  /\ m_async_requests' # <<>> /\ m_async_requests'[1] = r
               /\ m_write_in_process' /\ operation' = "none"
    <3>1. /\ m_async_requests # <<>> /\ m_async_requests[1] = r
          /\ m_write_in_process /\ operation = "none"
      BY <1>2, <2>4 DEF RestInv, QueueInOrder, Accounted
    <3> QED BY <3>1, <1>2, <1>4, <1>9
  <2> QED BY <2>3, <2>4 DEF Accounted
<1>12. NothingOfUnsent'
  <2> SUFFICES ASSUME NEW r \in Request, Unsent(r)' PROVE Unsent(r)
    BY <1>2 DEF RestInv, NothingOfUnsent
  <2>1. r \in Nat /\ (r > posted' => r > posted) /\ (r = posted' => r > posted)
    BY <1>2, Names
  <2>2. operation' \notin {"read", "shutdown"} => operation \notin {"read", "shutdown"}
    BY <1>1, <1>2
  <2> QED BY <2>1, <2>2, <1>2, <1>4 DEF Unsent
<1> QED BY <1>6, <1>7, <1>8, <1>12, <1>10, <1>11 DEF RestInv, QueueInOrder

\* A handler's error branch: the request is told and gone.  If it was being
\* written it may reach the server nevertheless, for the first time.
LEMMA HandlerFailsKeeps == RestInv /\ HandlerFails => RestInv'
<1> SUFFICES ASSUME RestInv, HandlerFails PROVE RestInv'
  OBVIOUS
<1> DEFINE h == m_async_requests[1]
<1>1. /\ operation \in {"resolve", "connect", "handshake", "write", "read"}
      /\ m_async_requests # <<>>
      /\ Reply("error") /\ UNCHANGED <<executed, null_read>>
      /\ \/ inbox' = inbox
         \/ operation = "write" /\ inbox' = inbox \cup {h}
  BY DEF HandlerFails, Fail, RestInv, QueueInOrder, RestTypeOK
<1>2. \/ /\ m_async_requests' = Tail(m_async_requests) /\ posted' = posted
         /\ m_write_in_process' = FALSE /\ operation' = "none"
      \/ /\ NewRequest /\ m_async_requests' = Append(Tail(m_async_requests), posted')
         /\ m_write_in_process' = TRUE /\ operation' = "resolve"
  BY DEF HandlerFails, Fail, async_post
<1>3. calls' = Append(calls, h)
  BY <1>1 DEF Reply
<1>4. "error" \in Outcome \ {"nothing", "lost"}
  BY DEF Outcome
<1>5. Accounted'
  BY <1>1, <1>2, <1>4, LeavesAccounted
<1>6. /\ m_async_requests' \in Seq(Request) /\ calls' \in Seq(Request)
      /\ posted' \in 0..MaxRequests /\ QueueOrdered' /\ h \in Request
      /\ \A r \in Request : Unsent(r)' => Unsent(r) /\ r # h
  BY <1>1, <1>2, <1>3, Leaves
<1>7. /\ told' \in [Request -> Outcome]
      /\ calls' # <<>> /\ told'[calls'[Len(calls')]] = "error"
      /\ \A i \in DOMAIN calls' : told'[calls'[i]] \in {"ok", "api_error"} => executed[calls'[i]] = 1
  BY <1>1, <1>4, Told
<1>8. operation' = "resolve" => m_async_requests' # <<>>
  <2>1. ASSUME NewRequest, m_async_requests' = Append(Tail(m_async_requests), posted')
        PROVE  m_async_requests' # <<>>
    <3>1. Tail(m_async_requests) \in Seq(Request) /\ posted' \in Request
      BY <2>1, <1>1, Named, Left DEF RestInv, QueueInOrder, RestTypeOK
    <3> QED BY <2>1, <3>1
  <2> QED BY <1>2, <2>1
<1>9. operation = "write" => executed[h] = 0 /\ h \notin inbox
  <2>1. 1 \in DOMAIN m_async_requests
    BY <1>1, Left DEF RestInv, QueueInOrder, RestTypeOK
  <2> QED BY <2>1, <1>6 DEF RestInv, NothingOfUnsent, Unsent
<1> HIDE DEF h
<1>10. RestTypeOK'
  <2>1. m_write_in_process' \in BOOLEAN /\ (operation' # "none" => m_write_in_process')
        /\ operation' \in {"none", "resolve"}
    BY <1>2
  <2>2. inbox' \subseteq Request
    BY <1>1, <1>6 DEF RestInv, QueueInOrder, RestTypeOK
  <2> QED BY <2>1, <2>2, <1>1, <1>6, <1>7, <1>8 DEF RestInv, QueueInOrder, RestTypeOK
<1>11. CallbacksInOrder'
  BY <1>6 DEF CallbacksInOrder, QueueOrdered, Ordered
<1>12. ExecutedOnce'
  BY <1>1, <1>6, <1>7, <1>9 DEF RestInv, QueueInOrder, ExecutedOnce
<1>13. RestsAfterFailure'
  BY <1>2, <1>7 DEF RestsAfterFailure
<1>14. NothingOfUnsent'
  BY <1>1, <1>6 DEF RestInv, NothingOfUnsent
<1> QED BY <1>6, <1>10, <1>11, <1>12, <1>13, <1>14, <1>5 DEF RestInv, QueueInOrder

\* The handlers before the write: the chain goes on, or ends without a word.
LEMMA ChainKeeps == RestInv /\ (on_resolve_SniFails \/ NextOperation) => RestInv'
<1> SUFFICES ASSUME RestInv, on_resolve_SniFails \/ NextOperation PROVE RestInv'
  OBVIOUS
<1> DEFINE h == m_async_requests[1]
<1>1. /\ UNCHANGED <<m_async_requests, m_write_in_process, posted, calls, null_read,
                     inbox, executed>>
      /\ operation \in {"resolve", "connect", "handshake"}
      /\ \/ told' = told /\ operation' \in {"connect", "handshake", "write"}
         \/ told' = [told EXCEPT ![h] = "lost"] /\ operation' = "none"
  BY DEF on_resolve_SniFails, NextOperation, userVars, serverVars
<1>2. /\ m_async_requests \in Seq(Request) /\ m_async_requests # <<>> /\ m_write_in_process
      /\ h \in Request /\ 1 \in DOMAIN m_async_requests /\ told \in [Request -> Outcome]
  <2>1. /\ m_async_requests \in Seq(Request) /\ m_async_requests # <<>> /\ m_write_in_process
        /\ told \in [Request -> Outcome]
    BY <1>1 DEF RestInv, QueueInOrder, RestTypeOK
  <2> QED BY <2>1, Left
<1>3. \A i \in DOMAIN calls : calls[i] \in Request /\ calls[i] # h
  <2>1. \A i \in DOMAIN calls : calls[i] < h /\ calls[i] \in Request /\ calls[i] \in Nat
    BY <1>2, Names DEF RestInv, QueueOrdered, Ordered, QueueInOrder, RestTypeOK
  <2>2. h \in Nat
    BY <1>2, Names
  <2> HIDE DEF h
  <2> QED BY <2>1, <2>2
<1> HIDE DEF h
<1>4. /\ told' \in [Request -> Outcome]
      /\ \A r \in Request : told'[r] = told[r] \/ (r = h /\ told'[r] = "lost" /\ operation' = "none")
      /\ operation' = "none" => told'[h] = "lost"
  BY <1>1, <1>2 DEF Outcome
<1>5. RestTypeOK'
  BY <1>1, <1>2, <1>4 DEF RestInv, QueueInOrder, RestTypeOK
<1>6. CallbacksInOrder' /\ QueueOrdered'
  BY <1>1 DEF RestInv, QueueInOrder, CallbacksInOrder, QueueOrdered, Ordered
<1>7. ExecutedOnce'
  BY <1>1, <1>3, <1>4 DEF RestInv, QueueInOrder, ExecutedOnce
<1>8. RestsAfterFailure'
  BY <1>1, <1>2, <1>4 DEF RestsAfterFailure, h
<1>9. Accounted'
  <2>1. \A r \in Request : told[r] # "lost"
    BY <1>1 DEF RestInv, QueueInOrder, Accounted
  <2>2. \A r \in 1..posted : r \in Request
    BY RestAssumption DEF RestInv, QueueInOrder, RestTypeOK, Request
  <2>3. \A r \in 1..posted' : told'[r] = "nothing" =>
           null_read' \/ \E i \in DOMAIN m_async_requests' : m_async_requests'[i] = r
    BY <1>1, <1>4, <2>2 DEF RestInv, QueueInOrder, Accounted
  <2> QED BY <1>1, <1>2, <1>4, <2>1, <2>3 DEF Accounted, h
<1>10. \A r \in Request : Unsent(r)' => Unsent(r)
  BY <1>1 DEF Unsent
<1>11. NothingOfUnsent'
  BY <1>1, <1>10 DEF RestInv, NothingOfUnsent
<1> QED BY <1>5, <1>6, <1>7, <1>8, <1>9, <1>11 DEF RestInv, QueueInOrder

\* The write has ended: the server has the first request, and no other.  The read
\* has ended: whatever the server has not executed of it, it never will.
LEMMA ExchangeKeeps == RestInv /\ (on_write \/ on_read) => RestInv'
<1> SUFFICES ASSUME RestInv, on_write \/ on_read PROVE RestInv'
  OBVIOUS
<1> DEFINE h == m_async_requests[1]
<1>1. /\ UNCHANGED <<m_async_requests, m_write_in_process, posted, told, calls, null_read, executed>>
      /\ operation # "none"
      /\ \/ operation = "write" /\ operation' = "read" /\ inbox' = inbox \cup {h}
         \/ operation = "read" /\ operation' = "shutdown" /\ inbox' = inbox \ {h}
  BY DEF on_write, on_read, userVars
<1>2. /\ m_async_requests \in Seq(Request) /\ h \in Request /\ 1 \in DOMAIN m_async_requests
      /\ m_write_in_process
  <2>1. m_async_requests \in Seq(Request) /\ m_async_requests # <<>> /\ m_write_in_process
    BY <1>1 DEF RestInv, QueueInOrder, RestTypeOK
  <2> QED BY <2>1, Left
<1>3. operation = "write" => executed[h] = 0 /\ h \notin inbox
  BY <1>2 DEF RestInv, NothingOfUnsent, Unsent
<1>4. ASSUME NEW r \in Request, Unsent(r)' PROVE Unsent(r) /\ r # h
  <2>1. CASE r > posted
    <3>1. h <= posted /\ h \in Nat /\ r \in Nat /\ posted \in Nat
      BY <1>2, Names, RestAssumption DEF RestInv, QueueOrdered, Ordered, QueueInOrder, RestTypeOK
    <3> QED BY <2>1, <3>1 DEF Unsent
  <2>2. CASE \E i \in DOMAIN m_async_requests : m_async_requests[i] = r /\ i > 1
    <3>1. PICK i \in DOMAIN m_async_requests : m_async_requests[i] = r /\ i > 1
      BY <2>2
    <3>2. h < r /\ h \in Nat /\ r \in Nat
      BY <3>1, <1>2, Names DEF RestInv, QueueOrdered, Ordered
    <3> QED BY <3>1, <3>2 DEF Unsent
  <2> QED BY <2>1, <2>2, <1>1, <1>4 DEF Unsent
<1> HIDE DEF h
<1>5. RestTypeOK'
  BY <1>1, <1>2 DEF RestInv, QueueInOrder, RestTypeOK
<1>6. CallbacksInOrder' /\ RestsAfterFailure' /\ QueueOrdered'
  BY <1>1 DEF RestInv, QueueInOrder, CallbacksInOrder, RestsAfterFailure, QueueOrdered, Ordered
<1>7. Accounted'
  BY <1>1 DEF RestInv, QueueInOrder, Accounted
<1>8. ExecutedOnce'
  <2> SUFFICES ASSUME NEW r \in Request
               PROVE  executed[r] + (IF r \in inbox' THEN 1 ELSE 0) <= 1
    BY <1>1 DEF RestInv, QueueInOrder, ExecutedOnce
  <2>1. executed[r] + (IF r \in inbox THEN 1 ELSE 0) <= 1 /\ executed[r] \in Nat
    BY DEF RestInv, QueueInOrder, ExecutedOnce, RestTypeOK
  <2> QED BY <2>1, <1>1, <1>3
<1>9. NothingOfUnsent'
  BY <1>1, <1>4 DEF RestInv, NothingOfUnsent
<1> QED BY <1>5, <1>6, <1>8, <1>9, <1>7 DEF RestInv, QueueInOrder

\* The exchange has ended: the callback is told its answer, then the next request
\* is started, if there is one.
LEMMA ShutdownKeeps ==
  ASSUME RestInv, NEW body \in Body, on_shutdown(body)
  PROVE  RestInv'
<1> DEFINE h == m_async_requests[1]
<1>1. /\ operation = "shutdown" /\ m_async_requests # <<>>
      /\ Reply(Invoke(body)) /\ UNCHANGED <<executed, inbox, null_read>>
      /\ \/ m_async_requests' = Tail(m_async_requests) /\ posted' = posted
         \/ NewRequest /\ m_async_requests' = Append(Tail(m_async_requests), posted')
      /\ \/ m_async_requests' # <<>> /\ m_write_in_process' = TRUE /\ operation' = "resolve"
         \/ m_async_requests' = <<>> /\ m_write_in_process' = FALSE /\ operation' = "none"
  <2>1. operation = "shutdown" /\ Reply(Invoke(body)) /\ UNCHANGED <<executed, inbox, null_read>>
    BY DEF on_shutdown, serverVars
  <2>2. m_async_requests # <<>>
    BY <2>1 DEF RestInv, QueueInOrder, RestTypeOK
  <2>3. \/ Continue(Tail(m_async_requests)) /\ posted' = posted
        \/ NewRequest /\ Continue(Append(Tail(m_async_requests), posted'))
    BY DEF on_shutdown
  <2>4. ASSUME NEW q, Continue(q)
        PROVE  /\ m_async_requests' = q
               /\ \/ m_async_requests' # <<>> /\ m_write_in_process' = TRUE /\ operation' = "resolve"
                  \/ m_async_requests' = <<>> /\ m_write_in_process' = FALSE /\ operation' = "none"
    BY <2>4 DEF Continue, async_post
  <2> QED BY <2>1, <2>2, <2>3, <2>4
<1>2. calls' = Append(calls, h) \/ calls' = calls
  BY <1>1 DEF Reply
<1>3. /\ m_async_requests' \in Seq(Request) /\ calls' \in Seq(Request)
      /\ posted' \in 0..MaxRequests /\ QueueOrdered' /\ h \in Request
      /\ \A r \in Request : Unsent(r)' => Unsent(r) /\ r # h
  BY <1>1, <1>2, Leaves
<1>4. /\ Invoke(body) \in Outcome \ {"nothing", "lost"}
      /\ Invoke(body) \in {"ok", "api_error"} => executed[h] = 1
  <2>1. executed[h] \in Nat /\ executed[h] <= 1
    <3>1. executed[h] \in Nat /\ executed[h] + (IF h \in inbox THEN 1 ELSE 0) <= 1
      BY <1>3 DEF RestInv, QueueInOrder, RestTypeOK, ExecutedOnce
    <3> HIDE DEF h
    <3> QED BY <3>1
  <2>2. body # "html" => executed[h] = 1
    BY <2>1 DEF on_shutdown
  <2> QED BY <2>2 DEF Invoke, Body, Outcome
<1>5. /\ told' \in [Request -> Outcome]
      /\ \A i \in DOMAIN calls' : told'[calls'[i]] \in {"ok", "api_error"} => executed[calls'[i]] = 1
      /\ Accounted'
  <2> DEFINE w == Invoke(body)
  <2>1. Reply(w) /\ w \in Outcome \ {"nothing", "lost"}
        /\ (w \in {"ok", "api_error"} => executed[m_async_requests[1]] = 1)
    BY <1>1, <1>4
  <2>2. operation # "none" /\ null_read' = null_read
    BY <1>1
  <2> HIDE DEF w
  <2>3. Accounted'
    BY <2>1, <2>2, <1>1, LeavesAccounted
  <2> QED BY <2>1, <2>3, <1>1, Told
<1> HIDE DEF h
<1>6. RestTypeOK'
  <2>1. m_write_in_process' \in BOOLEAN
        /\ (operation' # "none" => m_write_in_process' /\ m_async_requests' # <<>>)
        /\ operation' \in {"none", "resolve"}
    BY <1>1
  <2> QED BY <2>1, <1>1, <1>3, <1>5 DEF RestInv, QueueInOrder, RestTypeOK
<1>7. CallbacksInOrder'
  BY <1>3 DEF CallbacksInOrder, QueueOrdered, Ordered
<1>8. ExecutedOnce'
  BY <1>1, <1>5 DEF RestInv, QueueInOrder, ExecutedOnce
<1>9. RestsAfterFailure'
  BY <1>1 DEF RestsAfterFailure
<1>10. NothingOfUnsent'
  BY <1>1, <1>3 DEF RestInv, NothingOfUnsent
<1> QED BY <1>3, <1>5, <1>6, <1>7, <1>8, <1>9, <1>10 DEF RestInv, QueueInOrder

\* post() without a callback: a request of its own, past the queue.
LEMMA SyncPostKeeps ==
  ASSUME RestInv, NEW body \in Body \cup {"failed"}, SyncPost(body)
  PROVE  RestInv'
<1>1. /\ posted' = posted + 1 /\ posted \in Nat /\ posted' \in Request /\ posted' \in 0..MaxRequests
      /\ UNCHANGED <<m_async_requests, m_write_in_process, operation, calls>>
  BY Named DEF SyncPost, queueVars
<1>2. /\ ~null_read
      /\ \/ told' = told /\ null_read' = TRUE
         \/ told' = [told EXCEPT ![posted'] = "ok"] /\ null_read' = null_read
         \/ told' = [told EXCEPT ![posted'] = "error"] /\ null_read' = null_read
         \/ /\ told' = [told EXCEPT ![posted'] = body] /\ body \in {"api_error", "not_json"}
            /\ null_read' = null_read
      /\ null_read' \in BOOLEAN
      /\ \/ executed' = [executed EXCEPT ![posted'] = 1] /\ inbox' = inbox
         \/ executed' = executed /\ inbox' \in {inbox, inbox \cup {posted'}}
  BY DEF SyncPost, serverVars, RestInv, QueueInOrder, RestTypeOK
<1>3. executed[posted'] = 0 /\ posted' \notin inbox
  <2>1. Unsent(posted + 1)
    BY <1>1 DEF Unsent
  <2> QED BY <2>1, <1>1 DEF RestInv, NothingOfUnsent
<1>4. \A i \in DOMAIN calls : calls[i] # posted' /\ calls[i] \in Request
  <2>1. \A i \in DOMAIN calls : calls[i] <= posted /\ calls[i] \in Nat /\ calls[i] \in Request
    BY Names DEF RestInv, QueueOrdered, Ordered, QueueInOrder, RestTypeOK
  <2> QED BY <2>1, <1>1
<1>5. \A r \in Request : r # posted' =>
         /\ told'[r] = told[r] /\ executed'[r] = executed[r] /\ (r \in inbox' <=> r \in inbox)
  BY <1>1, <1>2 DEF RestInv, QueueInOrder, RestTypeOK
<1>6. RestTypeOK'
  <2>1. told' \in [Request -> Outcome]
    BY <1>1, <1>2 DEF RestInv, QueueInOrder, RestTypeOK, Outcome
  <2>2. executed' \in [Request -> Nat]
    <3>1. executed \in [Request -> Nat]
      BY DEF RestInv, QueueInOrder, RestTypeOK
    <3> QED BY <3>1, <1>1, <1>2
  <2>3. inbox' \subseteq Request
    <3>1. inbox \subseteq Request /\ inbox' \subseteq inbox \cup {posted'}
      BY <1>2 DEF RestInv, QueueInOrder, RestTypeOK
    <3> QED BY <3>1, <1>1
  <2> QED BY <2>1, <2>2, <2>3, <1>1, <1>2 DEF RestInv, QueueInOrder, RestTypeOK
<1>7. CallbacksInOrder'
  BY <1>1 DEF RestInv, QueueInOrder, CallbacksInOrder
<1>8. RestsAfterFailure'
  <2>1. calls # <<>> => Len(calls) \in DOMAIN calls
    BY LenProperties, EmptySeq DEF RestInv, QueueInOrder, RestTypeOK
  <2>2. m_async_requests # <<>> => m_async_requests[1] \in Request /\ m_async_requests[1] # posted'
    <3> SUFFICES ASSUME m_async_requests # <<>>
                 PROVE  m_async_requests[1] \in Request /\ m_async_requests[1] # posted'
      OBVIOUS
    <3>1. m_async_requests \in Seq(Request) /\ 1 \in DOMAIN m_async_requests
      BY Left DEF RestInv, QueueInOrder, RestTypeOK
    <3>2. m_async_requests[1] \in Request /\ m_async_requests[1] \in Nat /\ m_async_requests[1] <= posted
      BY <3>1, Names DEF RestInv, QueueOrdered, Ordered
    <3> QED BY <3>2, <1>1
  <2> QED BY <2>1, <2>2, <1>1, <1>4, <1>5 DEF RestInv, QueueInOrder, RestsAfterFailure
<1>9. Accounted'
  <2>1. (told'[posted'] = told[posted'] /\ null_read') \/ told'[posted'] \notin {"nothing", "lost"}
    BY <1>1, <1>2 DEF RestInv, QueueInOrder, RestTypeOK
  <2>2. \A r \in 1..posted' : r = posted' \/ (r \in 1..posted /\ r \in Request /\ r # posted')
    BY <1>1, RestAssumption DEF Request
  <2>3. \A r \in 1..posted' : told'[r] = "nothing" =>
           null_read' \/ \E i \in DOMAIN m_async_requests' : m_async_requests'[i] = r
    BY <1>1, <1>2, <1>5, <2>1, <2>2 DEF RestInv, QueueInOrder, Accounted
  <2>4. \A r \in Request : told'[r] = "lost" => told[r] = "lost"
    BY <1>5, <2>1
  <2> QED BY <1>1, <2>3, <2>4 DEF RestInv, QueueInOrder, Accounted
<1>10. QueueOrdered'
  <2>1. \A n \in Nat, m \in Nat : m <= n => m <= n + 1
    OBVIOUS
  <2>2. /\ \A i \in DOMAIN calls : calls[i] \in Nat
        /\ \A i \in DOMAIN m_async_requests : m_async_requests[i] \in Nat
    BY Names DEF RestInv, QueueInOrder, RestTypeOK
  <2> QED BY <2>1, <2>2, <1>1 DEF RestInv, QueueOrdered, Ordered
<1>11. ExecutedOnce'
  <2>1. ASSUME NEW r \in Request
        PROVE  executed'[r] + (IF r \in inbox' THEN 1 ELSE 0) <= 1
    <3>1. executed[r] + (IF r \in inbox THEN 1 ELSE 0) <= 1
      BY DEF RestInv, QueueInOrder, ExecutedOnce
    <3>2. CASE r # posted'
      BY <3>1, <3>2, <1>5
    <3>3. CASE r = posted'
      <4>1. \/ executed'[r] = 1 /\ r \notin inbox'
            \/ executed'[r] = 0
        BY <3>3, <1>2, <1>3 DEF RestInv, QueueInOrder, RestTypeOK
      <4> QED BY <4>1
    <3> QED BY <3>2, <3>3
  <2>2. \A i \in DOMAIN calls' :
          told'[calls'[i]] \in {"ok", "api_error"} => executed'[calls'[i]] = 1
    BY <1>1, <1>4, <1>5 DEF RestInv, QueueInOrder, ExecutedOnce
  <2> QED BY <2>1, <2>2 DEF ExecutedOnce
<1>12. NothingOfUnsent'
  <2> SUFFICES ASSUME NEW r \in Request, Unsent(r)'
               PROVE  Unsent(r) /\ r # posted'
    BY <1>5 DEF RestInv, NothingOfUnsent
  <2>1. r \in Nat /\ \A i \in DOMAIN m_async_requests :
                        m_async_requests[i] <= posted /\ m_async_requests[i] \in Nat
    BY Names DEF RestInv, QueueOrdered, Ordered, QueueInOrder, RestTypeOK
  <2>2. r > posted' => r > posted /\ r # posted'
    BY <1>1, <2>1
  <2>3. r <= posted => r # posted'
    BY <1>1, <2>1
  <2> QED BY <1>1, <2>1, <2>2, <2>3 DEF Unsent
<1> QED BY <1>6, <1>7, <1>8, <1>10, <1>11, <1>12, <1>9 DEF RestInv, QueueInOrder

\* The server executes what it has received.
LEMMA ServerKeeps ==
  ASSUME RestInv, NEW r \in inbox, Execute(r)
  PROVE  RestInv'
<1>1. /\ inbox' = inbox \ {r} /\ executed' = [executed EXCEPT ![r] = @ + 1] /\ r \in Request
      /\ UNCHANGED <<m_async_requests, m_write_in_process, operation, posted, told, calls, null_read>>
  BY DEF Execute, queueVars, userVars, RestInv, QueueInOrder, RestTypeOK
<1>2. executed[r] = 0 /\ ~Unsent(r)
  BY <1>1 DEF RestInv, QueueInOrder, RestTypeOK, ExecutedOnce, NothingOfUnsent
<1>3. RestTypeOK'
  BY <1>1 DEF RestInv, QueueInOrder, RestTypeOK
<1>4. CallbacksInOrder' /\ RestsAfterFailure' /\ Accounted' /\ QueueOrdered'
  BY <1>1 DEF RestInv, QueueInOrder, CallbacksInOrder, RestsAfterFailure, Accounted,
              QueueOrdered, Ordered
<1>5. ExecutedOnce'
  <2>1. \A x \in Request : executed'[x] = (IF x = r THEN 1 ELSE executed[x])
    BY <1>1, <1>2 DEF RestInv, QueueInOrder, RestTypeOK
  <2>2. \A i \in DOMAIN calls : calls[i] \in Request
    BY Names DEF RestInv, QueueInOrder, RestTypeOK
  <2> QED BY <1>1, <2>1, <2>2 DEF RestInv, QueueInOrder, ExecutedOnce
<1>6. NothingOfUnsent'
  <2>1. \A x \in Request : Unsent(x)' <=> Unsent(x)
    BY <1>1 DEF Unsent
  <2>2. \A x \in Request : x # r => executed'[x] = executed[x]
    BY <1>1 DEF RestInv, QueueInOrder, RestTypeOK
  <2> QED BY <1>1, <1>2, <2>1, <2>2 DEF RestInv, NothingOfUnsent
<1> QED BY <1>3, <1>4, <1>5, <1>6 DEF RestInv, QueueInOrder

\* The invariant is inductive.
LEMMA RestInvariant ==
  /\ RestInit => RestInv
  /\ RestInv /\ [RestNext]_restVars => RestInv'
<1>1. RestInit => RestInv
  <2> SUFFICES ASSUME RestInit PROVE RestInv
    OBVIOUS
  <2>1. DOMAIN m_async_requests = {} /\ DOMAIN calls = {}
    BY DEF RestInit
  <2>2. m_async_requests \in Seq(Request) /\ calls \in Seq(Request)
    BY EmptySeq DEF RestInit
  <2>3. m_write_in_process \in BOOLEAN /\ null_read \in BOOLEAN
    BY DEF RestInit
  <2>4. RestTypeOK
    BY <2>2, <2>3, RestAssumption DEF RestInit, RestTypeOK, Outcome
  <2>5. CallbacksInOrder /\ RestsAfterFailure /\ Accounted /\ QueueOrdered
    BY <2>1 DEF RestInit, CallbacksInOrder, RestsAfterFailure, Accounted, QueueOrdered, Ordered
  <2>6. ExecutedOnce /\ NothingOfUnsent
    BY <2>1 DEF RestInit, ExecutedOnce, NothingOfUnsent
  <2> QED BY <2>4, <2>5, <2>6 DEF RestInv, QueueInOrder
<1>2. ASSUME RestInv, [RestNext]_restVars PROVE RestInv'
  <2>1. CASE UNCHANGED restVars
    <3>1. UNCHANGED <<m_async_requests, m_write_in_process, operation, posted, told, calls,
                      null_read, inbox, executed>>
      BY <2>1 DEF restVars, queueVars, userVars, serverVars
    <3> QED BY <3>1, <1>2 DEF RestInv, QueueInOrder, RestTypeOK, CallbacksInOrder, ExecutedOnce,
                 RestsAfterFailure, Accounted, QueueOrdered, Ordered, NothingOfUnsent, Unsent
  <2> QED BY <1>2, <2>1, PostKeeps, HandlerFailsKeeps, ChainKeeps, ExchangeKeeps, ShutdownKeeps,
             SyncPostKeeps, ServerKeeps DEF RestNext
<1> QED BY <1>1, <1>2

\* api::impl keeps the order of the calls: each request is sent at most once, its
\* callback is called at most once and in turn and is told an answer only to what
\* the exchange has executed; a request whose callback was not called is still in
\* the queue, or its answer made construct() throw; and the queue rests only after
\* an error that was told, or for good after a failed SNI name.
THEOREM QueueIsInOrder == RestSpec => []QueueInOrder
<1>1. RestSpec => []RestInv
  BY RestInvariant, PTL DEF RestSpec
<1>2. RestInv => QueueInOrder
  BY DEF RestInv
<1> QED BY <1>1, <1>2, PTL

-----------------------------------------------------------------------------
(***************************************************************************)
(* The websockets.                                                         *)
(***************************************************************************)
What == {"message", "error"}
HowStopped == {"no", "connecting", "open", "async_close"}

\* What is kept for each socket, and that a chain has a handler queued only while
\* it is under way.
Chains ==
    /\ owner \in [Socket -> Object \cup {None}]
    /\ heard \in [Socket -> Seq(What)]
    /\ \A s \in Socket : /\ stage[s] = "new" <=> owner[s] = None
                         /\ stage[s] = "new" => ~m_stop_requested[s]
                         /\ stage[s] \in {"new", "freed"} => ready[s] = None
    /\ first = None => \A s \in Socket : stage[s] = "new"

\* An object finds only sockets of its own.
SetsOwn == \A o \in Object : \A s \in m_set[o] : owner[s] = o

\* A callback hears nothing before the first read, no error before the end, and no
\* more messages than there are.
HeardSoFar ==
    \A s \in Socket :
        /\ stage[s] \notin {"read", "freed"} => heard[s] = <<>>
        /\ stage[s] # "freed" => /\ Len(heard[s]) <= MaxMessages
                                 /\ \A i \in DOMAIN heard[s] : heard[s][i] # "error"
        /\ stage[s] = "read" /\ ready[s] = "ok" => Len(heard[s]) < MaxMessages

\* After unsubscribe() of an open channel no read can succeed, except the one that
\* had.  A channel that was stopped by handle has left the sets for good, and one
\* that was stopped while it was open has not heard an error.
LateAtMostOnce ==
    \A s \in Socket :
        /\ unsubscribed[s] = "open" => /\ link[s] = "closed" /\ late[s] <= 1
                                       /\ late[s] = 1 /\ stage[s] = "read" => ready[s] # "ok"
        /\ unsubscribed[s] = "no" => late[s] = 0
        /\ unsubscribed[s] # "no" => /\ m_stop_requested[s] /\ stage[s] # "new"
                                     /\ \A o \in Object : s \notin m_set[o]
        /\ unsubscribed[s] \in {"open", "async_close"} =>
              /\ stage[s] \in {"read", "freed"}
              /\ \A i \in DOMAIN heard[s] : heard[s][i] # "error"
        /\ unsubscribed[s] = "connecting" =>
              \A i \in DOMAIN heard[s] : heard[s][i] = "error" => i = 1

\* The inductive invariant.
WebsocketsInv ==
    /\ WebsocketsTypeOK /\ Chains /\ SetsOwn /\ SetIsLive
    /\ HeardSoFar /\ ErrorIsFinal /\ LateAtMostOnce

-----------------------------------------------------------------------------
Stages == {"new", "resolve", "connect", "tls", "upgrade", "read", "freed"}
Links == {None, "open", "closing", "closed"}

\* The types of the variables, in one place.
LEMMA Types ==
  ASSUME WebsocketsInv
  PROVE  /\ stage \in [Socket -> Stages] /\ ready \in [Socket -> {None, "ok", "error"}]
         /\ link \in [Socket -> Links] /\ m_stop_requested \in [Socket -> BOOLEAN]
         /\ crashed \in BOOLEAN /\ m_set \in [Object -> SUBSET Socket]
         /\ first \in Object \cup {None} /\ owner \in [Socket -> Object \cup {None}]
         /\ heard \in [Socket -> Seq(What)] 
         /\ unsubscribed \in [Socket -> HowStopped] /\ late \in [Socket -> Nat]
BY DEF WebsocketsInv, WebsocketsTypeOK, Chains, Stages, Links, HowStopped

\* What a handle finds belongs to the object, and its chain is under way.
LEMMA FoundOwn ==
  ASSUME WebsocketsInv, NEW o \in Object, NEW ss \in Found(o) \cup {{}}
  PROVE  /\ ss \subseteq m_set[o] /\ ss \subseteq Socket
         /\ \A x \in ss : owner[x] = o /\ stage[x] \notin {"new", "freed"}
<1>1. ss \subseteq m_set[o] /\ \A x \in ss : stage[x] # "freed"
  BY DEF Found
<1>2. m_set[o] \subseteq Socket
  BY Types
<1>3. \A x \in ss : owner[x] = o /\ owner[x] # None
  BY <1>1, WebsocketsAssumption DEF WebsocketsInv, SetsOwn
<1> QED BY <1>1, <1>2, <1>3 DEF WebsocketsInv, Chains

\* stop() on some sockets: a connection that was closed stays closed.
LEMMA StopSome ==
  ASSUME WebsocketsInv, NEW ss \in SUBSET Socket, NEW how \in {"closed", "closing"}
  PROVE  /\ Stopped(ss) \in [Socket -> BOOLEAN] /\ Closed(ss, how) \in [Socket -> Links]
         /\ \A x \in Socket :
              /\ Stopped(ss)[x] <=> m_stop_requested[x] \/ x \in ss
              /\ link[x] = None => Closed(ss, how)[x] = None
              /\ link[x] = "closed" => Closed(ss, how)[x] = "closed"
<1>1. Stopped(ss) \in [Socket -> BOOLEAN]
  BY DEF Stopped
<1>2. Closed(ss, how) \in [Socket -> Links]
  BY Types DEF Closed, Links
<1>3. ASSUME NEW x \in Socket
      PROVE  /\ Stopped(ss)[x] <=> m_stop_requested[x] \/ x \in ss
             /\ link[x] = None => Closed(ss, how)[x] = None
             /\ link[x] = "closed" => Closed(ss, how)[x] = "closed"
  <2>1. Stopped(ss)[x] <=> m_stop_requested[x] \/ x \in ss
    BY Types DEF Stopped
  <2>2. Closed(ss, how)[x] = IF x \in ss /\ link[x] \in {"open", "closing"} THEN how ELSE link[x]
    BY DEF Closed
  <2> QED BY <2>1, <2>2 DEF None
<1> QED BY <1>1, <1>2, <1>3

\* Stopping by handle is noted: of an open channel that is closed as such.
LEMMA NoteSome ==
  ASSUME WebsocketsInv, NEW o \in Object, NEW ss \in Found(o) \cup {{}},
         NEW how \in {"closed", "closing"}
  PROVE  /\ Noted(ss, how) \in [Socket -> HowStopped]
         /\ \A x \in Socket : x \notin ss => Noted(ss, how)[x] = unsubscribed[x]
         /\ \A x \in ss :
              /\ unsubscribed[x] = "no" /\ Noted(ss, how)[x] # "no"
              /\ Noted(ss, how)[x] = "open" => Closed(ss, how)[x] = "closed"
              /\ Noted(ss, how)[x] \in {"open", "async_close"} => stage[x] = "read"
<1>1. Noted(ss, how) \in [Socket -> HowStopped]
  BY Types DEF Noted, HowStopped
<1>2. \A x \in Socket : x \notin ss => Noted(ss, how)[x] = unsubscribed[x]
  BY DEF Noted
<1>3. ASSUME NEW x \in ss
      PROVE  /\ unsubscribed[x] = "no" /\ Noted(ss, how)[x] # "no"
             /\ Noted(ss, how)[x] = "open" => Closed(ss, how)[x] = "closed"
             /\ Noted(ss, how)[x] \in {"open", "async_close"} => stage[x] = "read"
  <2>1. x \in Socket /\ x \in m_set[o] /\ stage[x] # "freed"
    BY FoundOwn
  <2>2. unsubscribed[x] = "no"
    BY <2>1 DEF WebsocketsInv, LateAtMostOnce
  <2>3. link[x] = "open" => stage[x] = "read"
    BY <2>1 DEF WebsocketsInv, WebsocketsTypeOK, None
  <2>4. Noted(ss, how)[x] = IF link[x] # "open" THEN "connecting"
                            ELSE IF how = "closed" THEN "open" ELSE "async_close"
    BY <2>1, <2>2 DEF Noted
  <2>5. link[x] = "open" => Closed(ss, how)[x] = how
    BY <2>1 DEF Closed
  <2> QED BY <2>2, <2>3, <2>4, <2>5
<1> QED BY <1>1, <1>2, <1>3

\* Some channels are stopped by handle, and some messages are told: a channel that
\* was closed while it was open is told at most the one that was ready.
LEMMA LateKept ==
  ASSUME WebsocketsInv, NEW o \in Object, NEW ss \in Found(o) \cup {{}},
         NEW how \in {"closed", "closing"}, unsubscribed' = Noted(ss, how),
         \A x \in Socket : link'[x] = Closed(ss, how)[x] \/ link'[x] = "closed",
         \A x \in Socket : m_stop_requested[x] \/ x \in ss => m_stop_requested'[x],
         \A p \in Object : m_set'[p] \subseteq (IF p = o THEN m_set[p] \ ss ELSE m_set[p]),
         \A x \in Socket : stage'[x] = stage[x] \/ stage'[x] = "freed",
         \A x \in Socket :
            \/ late'[x] = late[x] /\ heard'[x] = heard[x] /\ ready'[x] = ready[x]
            \/ /\ stage[x] = "read" /\ ready[x] = "ok" /\ ready'[x] = None
               /\ late'[x] = IF unsubscribed[x] = "no" THEN late[x] ELSE late[x] + 1
               /\ \A i \in DOMAIN heard'[x] : heard'[x][i] # "error"
  PROVE  LateAtMostOnce'
<1> SUFFICES ASSUME NEW x \in Socket
             PROVE  /\ unsubscribed'[x] = "open" => /\ link'[x] = "closed" /\ late'[x] <= 1
                                                    /\ late'[x] = 1 /\ stage'[x] = "read" => ready'[x] # "ok"
                    /\ unsubscribed'[x] = "no" => late'[x] = 0
                    /\ unsubscribed'[x] # "no" => /\ m_stop_requested'[x] /\ stage'[x] # "new"
                                                  /\ \A p \in Object : x \notin m_set'[p]
                    /\ unsubscribed'[x] \in {"open", "async_close"} =>
                          /\ stage'[x] \in {"read", "freed"}
                          /\ \A i \in DOMAIN heard'[x] : heard'[x][i] # "error"
                    /\ unsubscribed'[x] = "connecting" =>
                          \A i \in DOMAIN heard'[x] : heard'[x][i] = "error" => i = 1
  BY DEF LateAtMostOnce
<1>1. late[x] \in Nat
  BY Types
<1>2. CASE x \in ss
  <2>1. /\ unsubscribed[x] = "no" /\ unsubscribed'[x] # "no" /\ late[x] = 0
        /\ unsubscribed'[x] = "open" => link'[x] = "closed"
        /\ unsubscribed'[x] \in {"open", "async_close"} => stage[x] = "read"
    BY <1>2, NoteSome DEF WebsocketsInv, LateAtMostOnce
  <2>2. x \in m_set[o] /\ owner[x] = o /\ stage[x] \notin {"new", "freed"}
    BY <1>2, FoundOwn
  <2>3. \A p \in Object : x \notin m_set'[p]
    BY <1>2, <2>2 DEF WebsocketsInv, SetsOwn
  <2>4. \A i \in DOMAIN heard[x] : heard[x][i] # "error"
    BY <2>2 DEF WebsocketsInv, HeardSoFar
  <2>5. late'[x] = 0
    BY <2>1
  <2>6. \A i \in DOMAIN heard'[x] : heard'[x][i] # "error"
    BY <2>4
  <2> QED BY <1>2, <2>1, <2>2, <2>3, <2>5, <2>6
<1>3. CASE x \notin ss
  <2>1. unsubscribed'[x] = unsubscribed[x] /\ unsubscribed[x] \in HowStopped
    BY <1>3, NoteSome, Types
  <2>2. ss \in SUBSET Socket
    BY FoundOwn
  <2>3. link[x] = "closed" => link'[x] = "closed"
    BY <2>2, StopSome
  <2>4. unsubscribed[x] # "no" => \A p \in Object : x \notin m_set'[p]
    BY DEF WebsocketsInv, LateAtMostOnce
  <2>5. unsubscribed[x] # "no" => m_stop_requested'[x] /\ stage'[x] # "new"
    BY DEF WebsocketsInv, LateAtMostOnce
  <2>6. unsubscribed[x] = "no" => late'[x] = 0
    BY DEF WebsocketsInv, LateAtMostOnce
  <2>7. unsubscribed[x] = "open" =>
          late'[x] <= 1 /\ (late'[x] = 1 /\ stage'[x] = "read" => ready'[x] # "ok")
    BY <1>1 DEF WebsocketsInv, LateAtMostOnce, None
  <2>8. unsubscribed[x] \in {"open", "async_close"} =>
          /\ stage'[x] \in {"read", "freed"}
          /\ \A i \in DOMAIN heard'[x] : heard'[x][i] # "error"
    BY DEF WebsocketsInv, LateAtMostOnce
  <2>9. unsubscribed[x] = "connecting" =>
          \A i \in DOMAIN heard'[x] : heard'[x][i] = "error" => i = 1
    BY DEF WebsocketsInv, LateAtMostOnce
  <2>10. unsubscribed[x] = "open" => link'[x] = "closed"
    BY <2>3 DEF WebsocketsInv, LateAtMostOnce
  <2> HIDE DEF WebsocketsInv
  <2> QED BY <2>1, <2>4, <2>5, <2>6, <2>7, <2>8, <2>9, <2>10
<1> QED BY <1>2, <1>3

\* A chain that is under way has an object, and there is a first one.
LEMMA UnderWay ==
  ASSUME WebsocketsInv, NEW s \in Socket, ready[s] # None
  PROVE  /\ stage[s] \notin {"new", "freed"} /\ owner[s] \in Object
         /\ first \in Object /\ first # None
<1>1. stage[s] \notin {"new", "freed"}
  BY DEF WebsocketsInv, Chains
<1>2. owner[s] \in Object /\ first # None
  BY <1>1, Types DEF WebsocketsInv, Chains
<1> QED BY <1>1, <1>2, Types

-----------------------------------------------------------------------------
\* subscribing: the new socket is alive and in its object's set.
LEMMA StartKeeps ==
  ASSUME WebsocketsInv, NEW o \in Object, NEW s \in Socket, start_channel(o, s)
  PROVE  WebsocketsInv'
<1>1. /\ stage[s] = "new" /\ stage' = [stage EXCEPT ![s] = "resolve"]
      /\ owner' = [owner EXCEPT ![s] = o]
      /\ m_set' = [m_set EXCEPT ![o] = @ \cup {s}]
      /\ first' = IF first = None THEN o ELSE first
      /\ UNCHANGED <<ready, link, m_stop_requested, heard, unsubscribed, late, crashed>>
  BY DEF start_channel, stopHistory
<1>2. owner[s] = None /\ ~m_stop_requested[s] /\ o # None
  BY <1>1, WebsocketsAssumption DEF WebsocketsInv, Chains
<1>3. WebsocketsTypeOK'
  <2>1. /\ stage' \in [Socket -> Stages] /\ m_set' \in [Object -> SUBSET Socket]
        /\ first' \in Object \cup {None} /\ owner' \in [Socket -> Object \cup {None}]
    BY <1>1, Types DEF Stages
  <2>2. \A x \in Socket : stage'[x] # "read" /\ stage'[x] # "freed" => link'[x] = None
    BY <1>1, Types DEF WebsocketsInv, WebsocketsTypeOK
  <2> QED BY <1>1, <2>1, <2>2, Types DEF WebsocketsInv, WebsocketsTypeOK, Stages
<1>4. Chains'
  <2>1. owner' \in [Socket -> Object \cup {None}]
    BY <1>1, Types
  <2>2. first' # None
    BY <1>1, <1>2
  <2>3. \A x \in Socket : /\ stage'[x] = "new" <=> owner'[x] = None
                          /\ stage'[x] = "new" => ~m_stop_requested'[x]
                          /\ stage'[x] \in {"new", "freed"} => ready'[x] = None
    BY <1>1, <1>2, Types DEF WebsocketsInv, Chains
  <2> QED BY <1>1, <2>1, <2>2, <2>3, Types DEF WebsocketsInv, Chains
<1>5. SetsOwn'
  <2> SUFFICES ASSUME NEW p \in Object, NEW x \in m_set'[p] PROVE owner'[x] = p
    BY DEF SetsOwn
  <2>1. x \in Socket /\ (x \in m_set[p] \/ (p = o /\ x = s))
    BY <1>1, Types
  <2> QED BY <2>1, <1>1, <1>2, Types, WebsocketsAssumption DEF WebsocketsInv, SetsOwn
<1>6. SetIsLive'
  <2>1. CASE first = None
    <3>1. \A x \in Socket : owner[x] = None
      BY <2>1 DEF WebsocketsInv, Chains
    <3>2. m_set[o] = {}
      BY <3>1, <1>2, Types DEF WebsocketsInv, SetsOwn
    <3>3. first' = o /\ m_set'[o] = {s}
      BY <2>1, <3>2, <1>1, Types
    <3>4. \A x \in Socket : owner'[x] = o <=> x = s
      BY <3>1, <1>1, <1>2, Types
    <3> QED BY <3>3, <3>4, <1>1, <1>2, Types DEF SetIsLive
  <2>2. CASE first # None
    <3>1. first' = first /\ first \in Object
      BY <2>2, <1>1, Types
    <3>2. \A x \in Socket : x \in m_set[first] <=>
             owner[x] = first /\ stage[x] # "freed" /\ ~m_stop_requested[x]
      BY <2>2 DEF WebsocketsInv, SetIsLive
    <3>3. \A x \in Socket : x \in m_set'[first] <=>
             owner'[x] = first /\ stage'[x] # "freed" /\ ~m_stop_requested'[x]
      BY <3>1, <3>2, <1>1, <1>2, Types
    <3>4. m_set'[first] \subseteq Socket
      BY <3>1, <1>1, Types
    <3> QED BY <3>1, <3>3, <3>4 DEF SetIsLive
  <2> QED BY <2>1, <2>2
<1>7. HeardSoFar' /\ ErrorIsFinal'
  <2>1. \A x \in Socket : stage'[x] = stage[x] \/ (x = s /\ stage'[x] = "resolve")
    BY <1>1, Types
  <2>2. heard[s] = <<>>
    BY <1>1 DEF WebsocketsInv, HeardSoFar
  <2> QED BY <1>1, <2>1, <2>2 DEF WebsocketsInv, HeardSoFar, ErrorIsFinal
<1>8. LateAtMostOnce'
  <2>1. unsubscribed[s] = "no"
    BY <1>1 DEF WebsocketsInv, LateAtMostOnce
  <2>2. \A x \in Socket : x # s =>
          stage'[x] = stage[x] /\ \A p \in Object : x \in m_set'[p] => x \in m_set[p]
    BY <1>1, Types
  <2> QED BY <1>1, <2>1, <2>2 DEF WebsocketsInv, LateAtMostOnce
<1> QED BY <1>3, <1>4, <1>5, <1>6, <1>7, <1>8 DEF WebsocketsInv

\* The sets after the sockets ss of object o were stopped and, if there is a
\* socket to be freed, the deleter has looked for it in the first object's set.
LEMMA SetsAfter ==
  ASSUME WebsocketsInv, NEW o \in Object, NEW ss \in Found(o) \cup {{}},
         NEW gone \in SUBSET Socket, first \in Object, first # None,
         first' = first, owner' = owner,
         m_set' \in [Object -> SUBSET Socket],
         \A p \in Object : m_set'[p] = (IF p = o THEN m_set[p] \ ss ELSE m_set[p])
                                       \ (IF p = first THEN gone ELSE {}),
         \A x \in Socket : stage'[x] = "freed" <=> stage[x] = "freed" \/ x \in gone,
         \A x \in Socket : x \notin gone => (m_stop_requested'[x] <=> m_stop_requested[x] \/ x \in ss)
  PROVE  SetsOwn' /\ SetIsLive'
<1>1. SetsOwn'
  BY DEF WebsocketsInv, SetsOwn
<1>2. \A x \in Socket : x \in m_set[first] <=>
         owner[x] = first /\ stage[x] # "freed" /\ ~m_stop_requested[x]
  BY DEF WebsocketsInv, SetIsLive
<1>3. ASSUME NEW x \in Socket
      PROVE  x \in m_set'[first] <=>
                owner[x] = first /\ stage'[x] # "freed" /\ ~m_stop_requested'[x]
  <2>1. x \in ss => owner[x] = o
    BY FoundOwn
  <2>2. x \in m_set'[first] <=> x \in m_set[first] /\ x \notin gone /\ ~(first = o /\ x \in ss)
    OBVIOUS
  <2> QED BY <2>1, <2>2, <1>2
<1>4. m_set'[first] \subseteq Socket
  OBVIOUS
<1> QED BY <1>1, <1>3, <1>4 DEF SetIsLive

\* unsubscribe() and its kin, called from outside the handlers.
LEMMA UnsubscribeKeeps ==
  ASSUME WebsocketsInv, NEW o \in Object, NEW ss \in SUBSET Socket,
         NEW how \in {"closed", "closing"}, Unsubscribe(o, ss, how)
  PROVE  WebsocketsInv'
<1>1. /\ ss \in Found(o) /\ ss # {}
      /\ m_stop_requested' = Stopped(ss) /\ link' = Closed(ss, how)
      /\ unsubscribed' = Noted(ss, how) /\ m_set' = [m_set EXCEPT ![o] = @ \ ss]
      /\ UNCHANGED <<stage, ready, owner, first, heard, late, crashed>>
  BY DEF Unsubscribe, unsubscribe
<1>2. /\ m_stop_requested' \in [Socket -> BOOLEAN] /\ link' \in [Socket -> Links]
      /\ unsubscribed' \in [Socket -> HowStopped]
      /\ \A x \in Socket :
           /\ m_stop_requested'[x] <=> m_stop_requested[x] \/ x \in ss
           /\ link[x] = None => link'[x] = None
  BY <1>1, StopSome, NoteSome
<1>3. ss \subseteq m_set[o] /\ \A x \in ss : owner[x] = o
  BY <1>1, FoundOwn
<1>4. first # None /\ first \in Object
  <2>1. PICK x \in ss : TRUE
    BY <1>1
  <2>2. x \in Socket /\ owner[x] # None
    BY <2>1, <1>3, WebsocketsAssumption
  <2> QED BY <2>2, Types DEF WebsocketsInv, Chains
<1>5. m_set' \in [Object -> SUBSET Socket]
  BY <1>1, Types
<1>6. WebsocketsTypeOK'
  BY <1>1, <1>2, <1>5, Types DEF WebsocketsInv, WebsocketsTypeOK, Links, HowStopped
<1>7. Chains'
  <2>1. \A x \in ss : stage[x] # "new"
    BY <1>3, WebsocketsAssumption DEF WebsocketsInv, Chains
  <2> QED BY <1>1, <1>2, <2>1, Types DEF WebsocketsInv, Chains
<1>8. SetsOwn' /\ SetIsLive'
  <2>1. \A p \in Object : m_set'[p] = (IF p = o THEN m_set[p] \ ss ELSE m_set[p])
                                      \ (IF p = first THEN {} ELSE {})
    BY <1>1, Types
  <2>2. /\ \A x \in Socket : stage'[x] = "freed" <=> stage[x] = "freed" \/ x \in {}
        /\ \A x \in Socket : x \notin {} => (m_stop_requested'[x] <=> m_stop_requested[x] \/ x \in ss)
        /\ first' = first /\ owner' = owner
    BY <1>1, <1>2
  <2>3. {} \in SUBSET Socket /\ ss \in Found(o) \cup {{}}
    BY <1>1
  <2> QED BY <1>4, <1>5, <2>1, <2>2, <2>3, SetsAfter
<1>9. HeardSoFar' /\ ErrorIsFinal'
  BY <1>1 DEF WebsocketsInv, HeardSoFar, ErrorIsFinal
<1>10. LateAtMostOnce'
  <2>1. \A p \in Object : m_set'[p] \subseteq (IF p = o THEN m_set[p] \ ss ELSE m_set[p])
    BY <1>1, Types
  <2> QED BY <1>1, <1>2, <2>1, LateKept
<1> QED BY <1>6, <1>7, <1>8, <1>9, <1>10 DEF WebsocketsInv

\* An operation completes: a read succeeds only on a connection that is not closed.
LEMMA CompleteKeeps ==
  ASSUME WebsocketsInv, NEW s \in Socket, NEW how \in {"ok", "error"}, Complete(s, how)
  PROVE  WebsocketsInv'
<1>1. /\ stage[s] \notin {"new", "freed"}
      /\ how = "ok" /\ stage[s] = "read" =>
           link[s] \in {"open", "closing"} /\ Len(heard[s]) < MaxMessages
      /\ ready' = [ready EXCEPT ![s] = how]
      /\ UNCHANGED <<stage, link, m_stop_requested, owner, m_set, first, heard, unsubscribed,
                     late, crashed>>
  BY DEF Complete, stopHistory
<1>2. ready' \in [Socket -> {None, "ok", "error"}] /\ ready'[s] = how
      /\ \A x \in Socket : x # s => ready'[x] = ready[x]
  BY <1>1, Types
<1>3. WebsocketsTypeOK' /\ Chains'
  BY <1>1, <1>2 DEF WebsocketsInv, WebsocketsTypeOK, Chains
<1>4. SetsOwn' /\ SetIsLive' /\ ErrorIsFinal'
  BY <1>1 DEF WebsocketsInv, SetsOwn, SetIsLive, ErrorIsFinal
<1>5. HeardSoFar'
  BY <1>1, <1>2 DEF WebsocketsInv, HeardSoFar
<1>6. LateAtMostOnce'
  BY <1>1, <1>2 DEF WebsocketsInv, LateAtMostOnce
<1> QED BY <1>3, <1>4, <1>5, <1>6 DEF WebsocketsInv

\* A handler of the first four operations, or one that meets a message that is not JSON.
LEMMA AdvanceKeeps ==
  ASSUME WebsocketsInv, NEW s \in Socket, Advance(s) \/ websocket_on_read_NotJson(s)
  PROVE  WebsocketsInv'
<1>1. /\ ready[s] = "ok" /\ ready' = [ready EXCEPT ![s] = None]
      /\ UNCHANGED <<m_stop_requested, owner, m_set, first, heard, unsubscribed, late>>
      /\ crashed' \in BOOLEAN
  BY Types DEF Advance, websocket_on_read_NotJson, Handler, stopHistory
<1>2. /\ stage' \in [Socket -> Stages] /\ link' \in [Socket -> Links]
      /\ ready' \in [Socket -> {None, "ok", "error"}] /\ ready'[s] = None
      /\ \A x \in Socket : x # s =>
             stage'[x] = stage[x] /\ link'[x] = link[x] /\ ready'[x] = ready[x]
  BY <1>1, Types DEF Advance, websocket_on_read_NotJson, Stages, Links
<1>3. \/ stage'[s] = stage[s] /\ link'[s] = link[s]
      \/ /\ stage[s] \in {"resolve", "connect", "tls"} /\ link'[s] = link[s]
         /\ stage'[s] \in {"connect", "tls", "upgrade"}
      \/ stage[s] = "upgrade" /\ stage'[s] = "read" /\ link'[s] = "open"
  BY Types DEF Advance, websocket_on_read_NotJson
<1>4. stage[s] \notin {"new", "freed"} /\ stage'[s] \notin {"new", "freed"}
      /\ (stage[s] # "read" => link[s] = None /\ heard[s] = <<>>)
  BY <1>1, <1>3, UnderWay, Types
  DEF WebsocketsInv, WebsocketsTypeOK, HeardSoFar, None
<1>5. WebsocketsTypeOK'
  <2>1. \A x \in Socket : stage'[x] # "read" /\ stage'[x] # "freed" => link'[x] = None
    BY <1>2, <1>3 DEF WebsocketsInv, WebsocketsTypeOK
  <2> QED BY <1>1, <1>2, <2>1, Types DEF WebsocketsInv, WebsocketsTypeOK, Stages, Links
<1>6. Chains'
  BY <1>1, <1>2, <1>4, Types DEF WebsocketsInv, Chains
<1>7. SetsOwn' /\ SetIsLive'
  <2>1. \A x \in Socket : stage'[x] = "freed" <=> stage[x] = "freed"
    BY <1>2, <1>4
  <2> QED BY <1>1, <2>1 DEF WebsocketsInv, SetsOwn, SetIsLive
<1>8. HeardSoFar' /\ ErrorIsFinal'
  <2>1. \A x \in Socket : stage'[x] = "freed" <=> stage[x] = "freed"
    BY <1>2, <1>4
  <2>2. ErrorIsFinal'
    BY <1>1, <2>1 DEF WebsocketsInv, ErrorIsFinal
  <2>3. \A x \in Socket : /\ stage'[x] \notin {"read", "freed"} => heard[x] = <<>>
                          /\ stage'[x] = "read" /\ ready'[x] = "ok" => Len(heard[x]) < MaxMessages
    <3> TAKE x \in Socket
    <3>1. CASE x = s
      BY <3>1, <1>2, <1>3, <1>4 DEF None
    <3>2. CASE x # s
      BY <3>2, <1>2 DEF WebsocketsInv, HeardSoFar
    <3> QED BY <3>1, <3>2
  <2> QED BY <1>1, <2>1, <2>2, <2>3 DEF WebsocketsInv, HeardSoFar
<1>9. LateAtMostOnce'
  <2>1. ASSUME NEW x \in Socket, unsubscribed[x] = "open"
        PROVE  link'[x] = "closed" /\ (late[x] = 1 /\ stage'[x] = "read" => ready'[x] # "ok")
    <3>1. link[x] = "closed" /\ stage[x] \in {"read", "freed"}
          /\ (late[x] = 1 /\ stage[x] = "read" => ready[x] # "ok")
      BY <2>1 DEF WebsocketsInv, LateAtMostOnce
    <3>2. CASE x = s
      BY <3>1, <3>2, <1>2, <1>3 DEF None
    <3>3. CASE x # s
      BY <3>1, <3>3, <1>2
    <3> QED BY <3>2, <3>3
  <2>2. \A x \in Socket : /\ stage[x] # "new" => stage'[x] # "new"
                          /\ stage[x] \in {"read", "freed"} => stage'[x] \in {"read", "freed"}
    BY <1>2, <1>3, <1>4
  <2> QED BY <1>1, <2>1, <2>2 DEF WebsocketsInv, LateAtMostOnce
<1> QED BY <1>5, <1>6, <1>7, <1>8, <1>9 DEF WebsocketsInv

\* A chain ends, with or without a word: the socket is freed, and the first object
\* forgets it if it was its own.
LEMMA EndKeeps ==
  ASSUME WebsocketsInv, NEW s \in Socket,
         SniFails(s) \/ Fails(s) \/ websocket_on_read_Throws(s)
  PROVE  WebsocketsInv'
<1>1. /\ ready[s] # None /\ ready' = [ready EXCEPT ![s] = None]
      /\ stage' = [stage EXCEPT ![s] = "freed"]
      /\ m_set' = [m_set EXCEPT ![first] = @ \ {s}]
      /\ UNCHANGED <<owner, first, unsubscribed, late, crashed>>
  BY DEF SniFails, Fails, websocket_on_read_Throws, Handler, Free, stopHistory, None
<1>2. stage[s] \notin {"new", "freed"} /\ first \in Object /\ first # None
  BY <1>1, UnderWay
<1>3. \/ heard' = heard
      \/ /\ heard' = [heard EXCEPT ![s] = Append(@, "error")]
         /\ ~m_stop_requested[s] \/ stage[s] = "resolve"
  BY DEF SniFails, Fails, websocket_on_read_Throws
<1>4. /\ m_stop_requested' \in [Socket -> BOOLEAN] /\ link' \in [Socket -> Links]
      /\ \A x \in Socket : /\ x # s => /\ m_stop_requested'[x] = m_stop_requested[x]
                                       /\ link'[x] = link[x]
                           /\ link[x] = "closed" => link'[x] = "closed"
                           /\ m_stop_requested[x] => m_stop_requested'[x]
  <2>1. CASE m_stop_requested' = m_stop_requested /\ link' = link
    BY <2>1, Types
  <2>2. CASE m_stop_requested' = Stopped({s}) /\ link' = Closed({s}, "closed")
    <3>1. \A x \in Socket : x # s => /\ Stopped({s})[x] = m_stop_requested[x]
                                     /\ Closed({s}, "closed")[x] = link[x]
      BY Types DEF Stopped, Closed
    <3>2. {s} \in SUBSET Socket /\ "closed" \in {"closed", "closing"}
      OBVIOUS
    <3>3. /\ Stopped({s}) \in [Socket -> BOOLEAN] /\ Closed({s}, "closed") \in [Socket -> Links]
          /\ \A x \in Socket : /\ link[x] = "closed" => Closed({s}, "closed")[x] = "closed"
                               /\ m_stop_requested[x] => Stopped({s})[x]
      BY <3>2, StopSome
    <3> QED BY <2>2, <3>1, <3>3
  <2> QED BY <2>1, <2>2 DEF SniFails, Fails, websocket_on_read_Throws
<1>5. /\ stage' \in [Socket -> Stages] /\ ready' \in [Socket -> {None, "ok", "error"}]
      /\ m_set' \in [Object -> SUBSET Socket]
      /\ \A x \in Socket : x # s => stage'[x] = stage[x] /\ ready'[x] = ready[x]
      /\ stage'[s] = "freed" /\ ready'[s] = None
  BY <1>1, <1>2, Types DEF Stages
<1>6. /\ heard' \in [Socket -> Seq(What)]
      /\ \A x \in Socket : x # s => heard'[x] = heard[x]
      /\ heard'[s] = heard[s] \/ heard'[s] = Append(heard[s], "error")
  <2>1. heard[s] \in Seq(What) /\ Append(heard[s], "error") \in Seq(What)
    BY Types, AppendProperties DEF What
  <2> QED BY <2>1, <1>3, Types
<1>7. /\ Len(heard'[s]) <= MaxMessages + 1
      /\ \A i \in DOMAIN heard'[s] : heard'[s][i] = "error" => i = Len(heard'[s])
  <2>1. /\ heard[s] \in Seq(What) /\ Len(heard[s]) <= MaxMessages /\ Len(heard[s]) \in Nat
        /\ \A i \in DOMAIN heard[s] : heard[s][i] # "error"
    BY <1>2, Types, LenProperties DEF WebsocketsInv, HeardSoFar
  <2>2. CASE heard'[s] = heard[s]
    BY <2>1, <2>2, WebsocketsAssumption
  <2>3. CASE heard'[s] = Append(heard[s], "error")
    <3>1. /\ Len(Append(heard[s], "error")) = Len(heard[s]) + 1
          /\ DOMAIN Append(heard[s], "error") = 1..(Len(heard[s]) + 1)
          /\ DOMAIN heard[s] = 1..Len(heard[s])
          /\ \A i \in 1..Len(heard[s]) : Append(heard[s], "error")[i] = heard[s][i]
      BY <2>1, AppendProperties, LenProperties DEF What
    <3>2. \A i \in 1..(Len(heard[s]) + 1) : i \in 1..Len(heard[s]) \/ i = Len(heard[s]) + 1
      BY <2>1
    <3> QED BY <2>1, <2>3, <3>1, <3>2, WebsocketsAssumption
  <2> QED BY <2>2, <2>3, <1>6
<1>8. WebsocketsTypeOK'
  <2>1. ASSUME NEW x \in Socket, stage'[x] # "read", stage'[x] # "freed" PROVE link'[x] = None
    <3>1. x # s /\ stage'[x] = stage[x] /\ link'[x] = link[x]
      BY <2>1, <1>4, <1>5
    <3> QED BY <2>1, <3>1 DEF WebsocketsInv, WebsocketsTypeOK
  <2>2. \A x \in Socket : Len(heard'[x]) <= MaxMessages + 1
    BY <1>6, <1>7 DEF WebsocketsInv, WebsocketsTypeOK
  <2> QED BY <1>1, <1>4, <1>5, <2>1, <2>2, Types
          DEF WebsocketsInv, WebsocketsTypeOK, Stages, Links
<1>9. Chains'
  <2>1. \A x \in Socket : stage'[x] = "new" <=> stage[x] = "new"
    BY <1>2, <1>5
  <2>2. \A x \in Socket : stage'[x] = "new" => ~m_stop_requested'[x]
    BY <1>2, <1>4, <1>5 DEF WebsocketsInv, Chains
  <2>3. \A x \in Socket : stage'[x] \in {"new", "freed"} => ready'[x] = None
    BY <1>5 DEF WebsocketsInv, Chains
  <2> QED BY <1>1, <1>2, <1>6, <2>1, <2>2, <2>3, Types DEF WebsocketsInv, Chains
<1>10. SetsOwn' /\ SetIsLive'
  <2> DEFINE gone == {s}
             none == {}
  <2>1. \A p \in Object : m_set'[p] = (IF p = first THEN m_set[p] \ none ELSE m_set[p])
                                      \ (IF p = first THEN gone ELSE {})
    BY <1>1, <1>2, Types
  <2>2. \A x \in Socket : stage'[x] = "freed" <=> stage[x] = "freed" \/ x \in gone
    BY <1>5
  <2>3. \A x \in Socket : x \notin gone => (m_stop_requested'[x] <=> m_stop_requested[x] \/ x \in none)
    BY <1>4
  <2>4. gone \in SUBSET Socket /\ none \in Found(first) \cup {{}} /\ first' = first /\ owner' = owner
    BY <1>1
  <2>5. first \in Object /\ first # None /\ m_set' \in [Object -> SUBSET Socket]
    BY <1>2, <1>5
  <2> HIDE DEF gone, none
  <2> QED BY <2>1, <2>2, <2>3, <2>4, <2>5, SetsAfter
<1>11. HeardSoFar' /\ ErrorIsFinal'
  <2> SUFFICES ASSUME NEW x \in Socket
               PROVE  /\ stage'[x] \notin {"read", "freed"} => heard'[x] = <<>>
                      /\ stage'[x] # "freed" => /\ Len(heard'[x]) <= MaxMessages
                                                /\ \A i \in DOMAIN heard'[x] : heard'[x][i] # "error"
                      /\ stage'[x] = "read" /\ ready'[x] = "ok" => Len(heard'[x]) < MaxMessages
                      /\ \A i \in DOMAIN heard'[x] :
                            heard'[x][i] = "error" => i = Len(heard'[x]) /\ stage'[x] = "freed"
    BY DEF HeardSoFar, ErrorIsFinal
  <2>1. CASE x = s
    BY <2>1, <1>5, <1>7
  <2>2. CASE x # s
    <3>1. stage'[x] = stage[x] /\ ready'[x] = ready[x] /\ heard'[x] = heard[x]
      BY <2>2, <1>5, <1>6
    <3> QED BY <3>1 DEF WebsocketsInv, HeardSoFar, ErrorIsFinal
  <2> QED BY <2>1, <2>2
<1>12. LateAtMostOnce'
  <2>1. \A x \in Socket, p \in Object : x \in m_set'[p] => x \in m_set[p]
    BY <1>1, <1>2, Types
  <2>2. \A x \in Socket : stage'[x] # "new" \/ stage'[x] = stage[x]
    BY <1>5
  <2>3. unsubscribed[s] # "no" =>
          \/ heard'[s] = heard[s]
          \/ unsubscribed[s] = "connecting" /\ \A i \in DOMAIN heard'[s] : i = 1
    <3> SUFFICES ASSUME unsubscribed[s] # "no", heard'[s] # heard[s]
                 PROVE  unsubscribed[s] = "connecting" /\ \A i \in DOMAIN heard'[s] : i = 1
      OBVIOUS
    <3>1. m_stop_requested[s]
      BY DEF WebsocketsInv, LateAtMostOnce
    <3>2. stage[s] = "resolve" /\ heard'[s] = Append(heard[s], "error")
      BY <3>1, <1>3, Types
    <3>3. heard[s] = <<>>
      BY <3>2 DEF WebsocketsInv, HeardSoFar
    <3>4. unsubscribed[s] = "connecting"
      BY <3>2, Types DEF WebsocketsInv, LateAtMostOnce, HowStopped
    <3>5. DOMAIN heard'[s] = {1}
      BY <3>2, <3>3
    <3> QED BY <3>4, <3>5
  <2> SUFFICES ASSUME NEW x \in Socket
               PROVE  /\ unsubscribed[x] = "open" => /\ link'[x] = "closed" /\ late[x] <= 1
                                                     /\ late[x] = 1 /\ stage'[x] = "read" => ready'[x] # "ok"
                      /\ unsubscribed[x] = "no" => late[x] = 0
                      /\ unsubscribed[x] # "no" => /\ m_stop_requested'[x] /\ stage'[x] # "new"
                                                   /\ \A o \in Object : x \notin m_set'[o]
                      /\ unsubscribed[x] \in {"open", "async_close"} =>
                            /\ stage'[x] \in {"read", "freed"}
                            /\ \A i \in DOMAIN heard'[x] : heard'[x][i] # "error"
                      /\ unsubscribed[x] = "connecting" =>
                            \A i \in DOMAIN heard'[x] : heard'[x][i] = "error" => i = 1
    BY <1>1 DEF LateAtMostOnce
  <2>4. CASE x = s
    BY <2>1, <2>3, <2>4, <1>4, <1>5 DEF WebsocketsInv, LateAtMostOnce
  <2>5. CASE x # s
    <3>1. stage'[x] = stage[x] /\ ready'[x] = ready[x] /\ heard'[x] = heard[x]
      BY <2>5, <1>5, <1>6
    <3> QED BY <3>1, <2>1, <1>4 DEF WebsocketsInv, LateAtMostOnce
  <2> QED BY <2>4, <2>5
<1> QED BY <1>8, <1>9, <1>10, <1>11, <1>12 DEF WebsocketsInv

\* A message is told, and the callback has closed what it liked: a read under way
\* is told at most once more after its own channel was closed.
LEMMA ReadKeeps ==
  ASSUME WebsocketsInv, NEW s \in Socket, NEW o \in Object, NEW ss \in SUBSET Socket,
         NEW how \in {"closed", "closing"}, NEW more \in BOOLEAN,
         websocket_on_read(s, o, ss, how, more)
  PROVE  WebsocketsInv'
<1> DEFINE gone == IF more THEN {} ELSE {s}
<1>1. /\ ready[s] = "ok" /\ ready' = [ready EXCEPT ![s] = None] /\ stage[s] = "read"
      /\ ss \in Found(o) \cup {{}}
      /\ heard' = [heard EXCEPT ![s] = Append(@, "message")]
      /\ unsubscribed' = Noted(ss, how)
      /\ late' = IF unsubscribed[s] = "no" THEN late ELSE [late EXCEPT ![s] = @ + 1]
      /\ UNCHANGED <<owner, first, crashed>>
  BY DEF websocket_on_read, Handler
<1>2. first \in Object /\ first # None
  BY <1>1, UnderWay DEF None
<1>3. \/ /\ more /\ m_stop_requested' = Stopped(ss) /\ link' = Closed(ss, how)
         /\ m_set' = [m_set EXCEPT ![o] = @ \ ss] /\ stage' = stage
      \/ /\ ~more /\ m_stop_requested' = Stopped(ss \cup {s})
         /\ link' = [Closed(ss, how) EXCEPT ![s] = "closed"]
         /\ stage' = [stage EXCEPT ![s] = "freed"]
         /\ m_set' = [[m_set EXCEPT ![o] = @ \ ss] EXCEPT ![first] = @ \ {s}]
  BY DEF websocket_on_read, Free
<1>4. /\ stage' \in [Socket -> Stages] /\ ready' \in [Socket -> {None, "ok", "error"}]
      /\ ready'[s] = None /\ \A x \in Socket : x # s => ready'[x] = ready[x]
      /\ \A x \in Socket : stage'[x] = IF x \in gone THEN "freed" ELSE stage[x]
  BY <1>1, <1>3, Types DEF Stages
<1>5. /\ m_set' \in [Object -> SUBSET Socket]
      /\ \A p \in Object : m_set'[p] = (IF p = o THEN m_set[p] \ ss ELSE m_set[p])
                                       \ (IF p = first THEN gone ELSE {})
  <2>1. CASE more
    BY <2>1, <1>3, Types
  <2>2. CASE ~more
    <3> DEFINE left == [m_set EXCEPT ![o] = @ \ ss]
    <3>1. /\ left \in [Object -> SUBSET Socket]
          /\ \A p \in Object : left[p] = (IF p = o THEN m_set[p] \ ss ELSE m_set[p])
      BY Types
    <3>2. m_set' = [left EXCEPT ![first] = @ \ {s}]
      BY <2>2, <1>3
    <3> HIDE DEF left
    <3> QED BY <3>1, <3>2, <2>2, <1>2
  <2> QED BY <2>1, <2>2
<1>6. /\ m_stop_requested' \in [Socket -> BOOLEAN]
      /\ \A x \in Socket : x \notin gone => (m_stop_requested'[x] <=> m_stop_requested[x] \/ x \in ss)
      /\ \A x \in Socket : m_stop_requested'[x] => m_stop_requested[x] \/ x \in ss \/ x = s
  <2>1. CASE more
    BY <2>1, <1>3, StopSome
  <2>2. CASE ~more
    BY <2>2, <1>3, Types DEF Stopped
  <2> QED BY <2>1, <2>2
<1>7. /\ link' \in [Socket -> Links] /\ late' \in [Socket -> Nat]
      /\ unsubscribed' \in [Socket -> HowStopped]
      /\ \A x \in Socket : /\ link[x] = None => link'[x] = None \/ x = s
                           /\ link'[x] = Closed(ss, how)[x] \/ link'[x] = "closed"
      /\ late'[s] = IF unsubscribed[s] = "no" THEN late[s] ELSE late[s] + 1
      /\ \A x \in Socket : x # s => late'[x] = late[x]
  <2>1. /\ Closed(ss, how) \in [Socket -> Links]
        /\ \A x \in Socket : link[x] = None => Closed(ss, how)[x] = None
    BY StopSome
  <2>2. link' = Closed(ss, how) \/ link' = [Closed(ss, how) EXCEPT ![s] = "closed"]
    BY <1>3
  <2>3. /\ link' \in [Socket -> Links]
        /\ \A x \in Socket : /\ link[x] = None => link'[x] = None \/ x = s
                             /\ link'[x] = Closed(ss, how)[x] \/ link'[x] = "closed"
    BY <2>1, <2>2 DEF Links
  <2>4. /\ late' \in [Socket -> Nat] /\ \A x \in Socket : x # s => late'[x] = late[x]
        /\ late'[s] = IF unsubscribed[s] = "no" THEN late[s] ELSE late[s] + 1
    BY <1>1, Types
  <2>5. unsubscribed' \in [Socket -> HowStopped]
    BY <1>1, NoteSome
  <2> QED BY <2>3, <2>4, <2>5
<1>8. /\ heard' \in [Socket -> Seq(What)] /\ \A x \in Socket : x # s => heard'[x] = heard[x]
      /\ Len(heard'[s]) <= MaxMessages /\ \A i \in DOMAIN heard'[s] : heard'[s][i] # "error"
  <2>1. /\ heard[s] \in Seq(What) /\ Len(heard[s]) < MaxMessages /\ Len(heard[s]) \in Nat
        /\ \A i \in DOMAIN heard[s] : heard[s][i] # "error"
    BY <1>1, Types, LenProperties DEF WebsocketsInv, HeardSoFar
  <2>2. "message" \in What
    BY DEF What
  <2>3. /\ Append(heard[s], "message") \in Seq(What)
        /\ Len(Append(heard[s], "message")) = Len(heard[s]) + 1
        /\ DOMAIN Append(heard[s], "message") = 1..(Len(heard[s]) + 1)
        /\ DOMAIN heard[s] = 1..Len(heard[s])
        /\ \A i \in 1..Len(heard[s]) : Append(heard[s], "message")[i] = heard[s][i]
        /\ Append(heard[s], "message")[Len(heard[s]) + 1] = "message"
    BY <2>1, <2>2, AppendProperties, LenProperties
  <2>4. \A i \in 1..(Len(heard[s]) + 1) : i \in 1..Len(heard[s]) \/ i = Len(heard[s]) + 1
    BY <2>1
  <2>5. heard'[s] = Append(heard[s], "message") /\ heard' \in [Socket -> Seq(What)]
        /\ \A x \in Socket : x # s => heard'[x] = heard[x]
    BY <1>1, <2>3, Types
  <2> QED BY <2>1, <2>2, <2>3, <2>4, <2>5, WebsocketsAssumption
<1>9. \A x \in ss : x \in Socket /\ owner[x] = o /\ owner[x] # None
  BY <1>1, FoundOwn, WebsocketsAssumption
<1> HIDE DEF gone
<1>10. gone \in SUBSET {s}
  BY DEF gone
<1>11. WebsocketsTypeOK'
  <2>1. \A x \in Socket : stage'[x] # "read" /\ stage'[x] # "freed" => link'[x] = None
    BY <1>1, <1>4, <1>7, <1>10 DEF WebsocketsInv, WebsocketsTypeOK
  <2>2. \A x \in Socket : Len(heard'[x]) <= MaxMessages + 1
    <3> SUFFICES ASSUME NEW x \in Socket PROVE Len(heard'[x]) <= MaxMessages + 1
      OBVIOUS
    <3>1. CASE x = s
      <4>1. Len(heard'[s]) \in Nat /\ Len(heard'[s]) <= MaxMessages
        BY <1>8, LenProperties
      <4> QED BY <3>1, <4>1, WebsocketsAssumption
    <3>2. CASE x # s
      <4>1. heard'[x] = heard[x]
        BY <3>2, <1>8
      <4> QED BY <4>1 DEF WebsocketsInv, WebsocketsTypeOK
    <3> QED BY <3>1, <3>2
  <2> QED BY <1>1, <1>4, <1>5, <1>6, <1>7, <2>1, <2>2, Types
          DEF WebsocketsInv, WebsocketsTypeOK, Stages, Links, HowStopped
<1>12. Chains'
  <2>1. \A x \in Socket : stage'[x] = "new" <=> stage[x] = "new"
    BY <1>1, <1>4, <1>10
  <2>2. \A x \in Socket : stage'[x] = "new" => ~m_stop_requested'[x]
    BY <1>1, <1>6, <1>9, <2>1 DEF WebsocketsInv, Chains
  <2>3. \A x \in Socket : stage'[x] \in {"new", "freed"} => ready'[x] = None
    BY <1>4, <1>10 DEF WebsocketsInv, Chains
  <2> QED BY <1>1, <1>2, <1>7, <1>8, <2>1, <2>2, <2>3, Types DEF WebsocketsInv, Chains
<1>13. SetsOwn' /\ SetIsLive'
  <2>1. \A x \in Socket : stage'[x] = "freed" <=> stage[x] = "freed" \/ x \in gone
    BY <1>4
  <2>2. gone \in SUBSET Socket /\ first' = first /\ owner' = owner
    BY <1>1, <1>10
  <2> QED BY <1>1, <1>2, <1>5, <1>6, <2>1, <2>2, SetsAfter
<1>14. HeardSoFar' /\ ErrorIsFinal'
  <2>1. HeardSoFar'
    <3> SUFFICES ASSUME NEW x \in Socket
                 PROVE  /\ stage'[x] \notin {"read", "freed"} => heard'[x] = <<>>
                        /\ stage'[x] # "freed" => /\ Len(heard'[x]) <= MaxMessages
                                                  /\ \A i \in DOMAIN heard'[x] : heard'[x][i] # "error"
                        /\ stage'[x] = "read" /\ ready'[x] = "ok" => Len(heard'[x]) < MaxMessages
      BY DEF HeardSoFar
    <3>1. CASE x = s
      BY <3>1, <1>1, <1>4, <1>8 DEF None
    <3>2. CASE x # s
      BY <3>2, <1>4, <1>8, <1>10 DEF WebsocketsInv, HeardSoFar
    <3> QED BY <3>1, <3>2
  <2>2. ErrorIsFinal'
    BY <1>4, <1>8, <1>10 DEF WebsocketsInv, ErrorIsFinal
  <2> QED BY <2>1, <2>2
<1>15. LateAtMostOnce'
  <2>1. \A x \in Socket : m_stop_requested[x] \/ x \in ss => m_stop_requested'[x]
    BY <1>3, Types DEF Stopped
  <2>2. \A p \in Object : m_set'[p] \subseteq (IF p = o THEN m_set[p] \ ss ELSE m_set[p])
    BY <1>5
  <2>3. \A x \in Socket : stage'[x] = stage[x] \/ stage'[x] = "freed"
    BY <1>4
  <2>4. \A x \in Socket :
          \/ late'[x] = late[x] /\ heard'[x] = heard[x] /\ ready'[x] = ready[x]
          \/ /\ stage[x] = "read" /\ ready[x] = "ok" /\ ready'[x] = None
             /\ late'[x] = IF unsubscribed[x] = "no" THEN late[x] ELSE late[x] + 1
             /\ \A i \in DOMAIN heard'[x] : heard'[x][i] # "error"
    <3> TAKE x \in Socket
    <3>1. CASE x = s
      BY <3>1, <1>1, <1>4, <1>7, <1>8
    <3>2. CASE x # s
      BY <3>2, <1>4, <1>7, <1>8
    <3> QED BY <3>1, <3>2
  <2>5. /\ ss \in Found(o) \cup {{}} /\ unsubscribed' = Noted(ss, how)
        /\ \A x \in Socket : link'[x] = Closed(ss, how)[x] \/ link'[x] = "closed"
    BY <1>1, <1>7
  <2> QED BY <2>1, <2>2, <2>3, <2>4, <2>5, LateKept
<1> QED BY <1>11, <1>12, <1>13, <1>14, <1>15 DEF WebsocketsInv

\* The invariant holds at the start and is kept by every step.
LEMMA WebsocketsInvariant ==
  /\ WebsocketsInit => WebsocketsInv
  /\ WebsocketsInv /\ [WebsocketsNext]_websocketsVars => WebsocketsInv'
<1>1. WebsocketsInit => WebsocketsInv
  <2> SUFFICES ASSUME WebsocketsInit PROVE WebsocketsInv
    OBVIOUS
  <2>1. /\ stage = [s \in Socket |-> "new"] /\ ready = [s \in Socket |-> None]
        /\ link = [s \in Socket |-> None]
        /\ owner = [s \in Socket |-> None] /\ m_set = [o \in Object |-> {}] /\ first = None
        /\ heard = [s \in Socket |-> <<>>] 
        /\ unsubscribed = [s \in Socket |-> "no"] /\ late = [s \in Socket |-> 0]
    BY DEF WebsocketsInit
  <2>2. m_stop_requested \in [Socket -> BOOLEAN] /\ \A s \in Socket : ~m_stop_requested[s]
    BY DEF WebsocketsInit
  <2>3. crashed \in BOOLEAN
    BY DEF WebsocketsInit
  <2>4. heard \in [Socket -> Seq(What)] /\ \A s \in Socket : heard[s] = <<>> /\ Len(heard[s]) = 0
    <3>1. <<>> \in Seq(What) /\ Len(<<>>) = 0
      BY EmptySeq
    <3> QED BY <2>1, <3>1
  <2>5. WebsocketsTypeOK
    BY <2>1, <2>2, <2>3, <2>4, WebsocketsAssumption DEF WebsocketsTypeOK, None
  <2>6. Chains /\ SetsOwn /\ SetIsLive
    BY <2>1, <2>2, <2>4 DEF Chains, SetsOwn, SetIsLive
  <2>7. HeardSoFar /\ ErrorIsFinal /\ LateAtMostOnce
    BY <2>1, <2>4, WebsocketsAssumption DEF HeardSoFar, ErrorIsFinal, LateAtMostOnce, None
  <2> QED BY <2>5, <2>6, <2>7 DEF WebsocketsInv
<1>2. WebsocketsInv /\ [WebsocketsNext]_websocketsVars => WebsocketsInv'
  <2> SUFFICES ASSUME WebsocketsInv, [WebsocketsNext]_websocketsVars PROVE WebsocketsInv'
    OBVIOUS
  <2>1. CASE \E o \in Object, s \in Socket : start_channel(o, s)
    BY <2>1, StartKeeps
  <2>2. CASE \E o \in Object, ss \in SUBSET Socket, how \in {"closed", "closing"} :
                Unsubscribe(o, ss, how)
    BY <2>2, UnsubscribeKeeps
  <2>3. CASE \E s \in Socket : Complete(s, "ok") \/ Complete(s, "error") \/ Run(s)
    <3> PICK s \in Socket : Complete(s, "ok") \/ Complete(s, "error") \/ Run(s)
      BY <2>3
    <3>1. CASE Complete(s, "ok") \/ Complete(s, "error")
      BY <3>1, CompleteKeeps
    <3>2. CASE Advance(s) \/ websocket_on_read_NotJson(s)
      BY <3>2, AdvanceKeeps
    <3>3. CASE SniFails(s) \/ Fails(s) \/ websocket_on_read_Throws(s)
      BY <3>3, EndKeeps
    <3>4. CASE \E o \in Object, ss \in SUBSET Socket, how \in {"closed", "closing"},
                  more \in BOOLEAN : websocket_on_read(s, o, ss, how, more)
      BY <3>4, ReadKeeps
    <3> QED BY <3>1, <3>2, <3>3, <3>4 DEF Run
  <2>4. CASE UNCHANGED websocketsVars
    BY <2>4 DEF websocketsVars, sockVars, stopHistory, WebsocketsInv, WebsocketsTypeOK, Chains, SetsOwn,
                SetIsLive, HeardSoFar, ErrorIsFinal, LateAtMostOnce
  <2> QED BY <2>1, <2>2, <2>3, <2>4 DEF WebsocketsNext
<1> QED BY <1>1, <1>2

\* The set of raw pointers of the object that has opened the first channel holds
\* exactly its live sockets that were not stopped (start_channel's deleter and
\* unsubscribe, websockets.cpp), for any number of objects and sockets.
THEOREM SetStaysLive == WebsocketsSpec => []SetIsLive
<1>1. WebsocketsSpec => []WebsocketsInv
  BY WebsocketsInvariant, PTL DEF WebsocketsSpec
<1>2. WebsocketsInv => SetIsLive
  BY DEF WebsocketsInv
<1> QED BY <1>1, <1>2, PTL

\* A callback hears nothing after a transport error, and at most one message after
\* unsubscribe() has closed its open channel.  A channel that was stopped in any way
\* is in no set any more and is told no error, unless it was still connecting: then
\* the error is the only thing its callback hears.
THEOREM CallbackFallsSilent == WebsocketsSpec => []FallsSilent
<1>1. WebsocketsSpec => []WebsocketsInv
  BY WebsocketsInvariant, PTL DEF WebsocketsSpec
<1>2. WebsocketsInv => FallsSilent
  <2> SUFFICES ASSUME WebsocketsInv PROVE FallsSilent
    OBVIOUS
  <2>1. OneLate
    BY Types DEF WebsocketsInv, LateAtMostOnce, OneLate, HowStopped
  <2> QED BY <2>1 DEF WebsocketsInv, FallsSilent
<1> QED BY <1>1, <1>2, PTL
=============================================================================
