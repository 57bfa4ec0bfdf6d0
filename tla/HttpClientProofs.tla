------------------------- MODULE HttpClientProofs -------------------------
(***************************************************************************)
(* Proofs about HttpClient, for every number of requests and connections.  *)
(*                                                                         *)
(* An answer carries no name of the request it belongs to: it is taken for *)
(* the answer to the current request because it is read from the current   *)
(* connection.  So the proof follows, connection by connection, what is    *)
(* under way, and, request by request, how many copies of it were sent.    *)
(***************************************************************************)
EXTENDS HttpClient, FiniteSetTheorems, SequenceTheorems, FunctionTheorems, TLAPS

Message == [request : Request, link : 1..MaxLinks]

\* The places of request r in a sequence of messages.
Places(q, r) == {i \in DOMAIN q : q[i].request = r}

\* How often r was executed or will be.
Copies(r) == executed[r] + Cardinality(Places(inbox, r))

\* How often r may have been sent so far: not at all before its turn, while it
\* is in work once for each write that has begun and ended, twice in the end.
Allowed(r) ==
    IF r > request \/ result[r].status = "refused" THEN 0
    ELSE IF r = request /\ op = "write" THEN attempt - 1
    ELSE IF r = request /\ op = "read" THEN attempt
    ELSE IF r = request /\ op = "connect" /\ attempt > 0 THEN 1
    ELSE 2

\* What is awaited tells which attempt it is, and whether there is a connection.
Stage ==
    /\ op = "connect" => ~connected /\ attempt \in {0, 1}
    /\ op \in {"write", "read"} => attempt \in {1, 2}
    /\ op \in {"write", "read"} \/ (op = "connect" /\ attempt > 0) =>
           request > 0 /\ result[request].status = "none"
    /\ connected => link > 0

\* No message is on a connection that is still to come.
LinksPast == \A i \in DOMAIN inbox : inbox[i].link <= link

\* On the current connection nothing is under way, except between the end of
\* a write and the end of the read that follows it: then it is the current
\* request, or the answer to it, which the server has executed.
OnlyOwn ==
    /\ connected /\ op # "read" => \A i \in DOMAIN inbox : inbox[i].link # link
    /\ op = "read" => \A i \in DOMAIN inbox :
                          inbox[i].link = link => inbox[i].request = request
    /\ op # "read" => answers = <<>>
    /\ answers # <<>> => /\ answers = <<request>> /\ executed[request] > 0
                         /\ \A i \in DOMAIN inbox : inbox[i].link # link
    /\ \A i, j \in DOMAIN inbox :
           op = "read" /\ inbox[i].link = link /\ inbox[j].link = link => i = j

\* The copies of every request, and no result for one that was not made yet.
CopiesAllowed ==
    \A r \in Request :
        /\ Copies(r) <= Allowed(r)
        /\ r > request => result[r].status = "none"

\* The inductive invariant.
Inv == TypeOK /\ Stage /\ LinksPast /\ OnlyOwn /\ CopiesAllowed /\ AnswersOwnRequest

-----------------------------------------------------------------------------
\* The places of a request in a sequence of messages can be counted.
LEMMA PlacesFinite ==
  ASSUME NEW q \in Seq(Message), NEW r
  PROVE  /\ IsFiniteSet(Places(q, r))
         /\ Cardinality(Places(q, r)) \in Nat
<1>1. DOMAIN q = 1..Len(q) /\ Len(q) \in Nat
  BY LenProperties
<1>2. Places(q, r) \in SUBSET (1..Len(q)) /\ IsFiniteSet(1..Len(q))
  BY <1>1, FS_Interval DEF Places
<1> QED BY <1>2, FS_Subset, FS_CardinalityType

\* A message that is added takes a place of the request it carries.
LEMMA PlacesAppend ==
  ASSUME NEW q \in Seq(Message), NEW m \in Message, NEW r
  PROVE  Cardinality(Places(Append(q, m), r)) =
             Cardinality(Places(q, r)) + (IF m.request = r THEN 1 ELSE 0)
<1> DEFINE n == Len(q) + 1
<1>1. /\ DOMAIN q = 1..Len(q) /\ Len(q) \in Nat
      /\ DOMAIN Append(q, m) = 1..n
      /\ Append(q, m)[n] = m
      /\ \A i \in 1..Len(q) : Append(q, m)[i] = q[i]
  BY LenProperties, AppendProperties
<1>2. n \notin Places(q, r)
  BY <1>1 DEF Places
<1>3. Places(Append(q, m), r) =
          IF m.request = r THEN Places(q, r) \cup {n} ELSE Places(q, r)
  BY <1>1 DEF Places
<1> HIDE DEF n
<1>4. Cardinality(Places(q, r) \cup {n}) = Cardinality(Places(q, r)) + 1
  BY <1>2, FS_AddElement, PlacesFinite
<1> QED BY <1>3, <1>4, PlacesFinite

\* What is left of a sequence without its head.
LEMMA TailPlaces ==
  ASSUME NEW q \in Seq(Message), q # <<>>
  PROVE  /\ DOMAIN q = 1..Len(q) /\ Len(q) \in Nat \ {0}
         /\ Head(q) \in Message /\ Head(q) = q[1]
         /\ Tail(q) \in Seq(Message) /\ DOMAIN Tail(q) = 1..(Len(q) - 1)
         /\ \A i \in DOMAIN Tail(q) : Tail(q)[i] = q[i + 1] /\ i + 1 \in DOMAIN q
BY LenProperties, HeadTailProperties, EmptySeq

\* The message at the head leaves the place of the request it carries.
LEMMA PlacesTail ==
  ASSUME NEW q \in Seq(Message), q # <<>>, NEW r
  PROVE  Cardinality(Places(q, r)) =
             Cardinality(Places(Tail(q), r)) + (IF Head(q).request = r THEN 1 ELSE 0)
<1> DEFINE S == Places(q, r) \ {1}
           T == Places(Tail(q), r)
           f == [i \in T |-> i + 1]
<1>1. /\ DOMAIN q = 1..Len(q) /\ Len(q) \in Nat \ {0} /\ Head(q) = q[1]
      /\ Tail(q) \in Seq(Message) /\ DOMAIN Tail(q) = 1..(Len(q) - 1)
      /\ \A i \in 1..(Len(q) - 1) : Tail(q)[i] = q[i + 1]
  BY TailPlaces
<1>2. f \in [T -> S] /\ \A i, j \in T : f[i] = f[j] => i = j
  BY <1>1 DEF Places
<1>3. \A j \in S : \E i \in T : f[i] = j
  <2> TAKE j \in S
  <2>1. j \in Int /\ j - 1 \in T
    BY <1>1 DEF Places
  <2>2. f[j - 1] = j
    BY <2>1
  <2> QED BY <2>1, <2>2
<1>4. f \in Bijection(T, S)
  <2> HIDE DEF f, S, T
  <2>1. f \in Injection(T, S)
    BY <1>2 DEF Injection, IsInjective
  <2>2. f \in Surjection(T, S)
    BY <1>2, <1>3 DEF Surjection
  <2> QED BY <2>1, <2>2 DEF Bijection
<1>5. IsFiniteSet(T) /\ Cardinality(T) \in Nat /\ Cardinality(S) = Cardinality(T)
  <2>1. IsFiniteSet(T) /\ Cardinality(T) \in Nat
    BY <1>1, PlacesFinite
  <2> HIDE DEF f, S, T
  <2> QED BY <2>1, <1>4, FS_Bijection DEF ExistsBijection
<1>6. 1 \in Places(q, r) <=> Head(q).request = r
  BY <1>1 DEF Places
<1>7. Cardinality(S) =
          IF 1 \in Places(q, r) THEN Cardinality(Places(q, r)) - 1
          ELSE Cardinality(Places(q, r))
  BY FS_RemoveElement, PlacesFinite
<1> HIDE DEF f, S
<1> QED BY <1>5, <1>6, <1>7, PlacesFinite

-----------------------------------------------------------------------------
\* Initially nothing was sent.
LEMMA InitInv == Init => Inv
<1> SUFFICES ASSUME Init PROVE Inv
  OBVIOUS
<1>1. TypeOK /\ Stage /\ LinksPast /\ OnlyOwn /\ AnswersOwnRequest
  <2>1. result \in [Request -> [status : {"none", "ok", "error", "refused"},
                                answer : 0..MaxRequests]]
    BY HttpAssumption DEF Init, NoResult
  <2>2. inbox \in Seq([request : Request, link : 1..MaxLinks]) /\ answers \in Seq(Request)
    BY EmptySeq DEF Init
  <2>2a. connected \in BOOLEAN /\ op = "none" /\ attempt = 0
    BY DEF Init
  <2>2b. link \in 0..MaxLinks /\ request \in 0..MaxRequests /\ executed \in [Request -> Nat]
    BY HttpAssumption DEF Init
  <2>2c. TypeOK
    BY <2>1, <2>2, <2>2a, <2>2b DEF TypeOK
  <2>3. DOMAIN inbox = {}
    BY DEF Init
  <2>4. LinksPast /\ OnlyOwn
    BY <2>3 DEF Init, LinksPast, OnlyOwn
  <2> QED BY <2>2c, <2>4 DEF Init, Stage, AnswersOwnRequest, NoResult
<1>2. ASSUME NEW r \in Request PROVE Copies(r) = 0
  <2>1. Places(inbox, r) = {}
    BY DEF Init, Places
  <2> QED BY <2>1, FS_EmptySet DEF Init, Copies
<1>3. CopiesAllowed
  BY <1>2, HttpAssumption DEF CopiesAllowed, Allowed, Init, Request, NoResult
<1> QED BY <1>1, <1>3 DEF Inv

\* A message under way to the server, or already executed, counts once: the
\* server moves it from one side of the sum to the other.
LEMMA ExecuteKeeps == Inv /\ Execute => Inv'
<1> SUFFICES ASSUME Inv, Execute PROVE Inv'
  OBVIOUS
<1> USE DEF Inv
<1> DEFINE m == Head(inbox)
<1>1. /\ inbox \in Seq(Message) /\ inbox # <<>> /\ inbox' = Tail(inbox)
      /\ m \in Message /\ m = inbox[1]
      /\ DOMAIN inbox = 1..Len(inbox) /\ Len(inbox) \in Nat \ {0}
      /\ inbox' \in Seq(Message) /\ DOMAIN inbox' = 1..(Len(inbox) - 1)
      /\ \A i \in DOMAIN inbox' : inbox'[i] = inbox[i + 1] /\ i + 1 \in DOMAIN inbox
  <2>1. inbox \in Seq(Message) /\ inbox # <<>> /\ inbox' = Tail(inbox)
    BY DEF Execute, TypeOK, Message
  <2> QED BY <2>1, TailPlaces
<1>2. /\ executed' = [executed EXCEPT ![m.request] = @ + 1]
      /\ answers' = IF m.link = link /\ connected
                    THEN Append(answers, m.request) ELSE answers
      /\ UNCHANGED <<op, attempt, connected, link, request, result>>
  BY DEF Execute, clientVars, callVars
<1>3. m.request \in Request /\ m.link \in 1..MaxLinks
  BY <1>1 DEF Message
<1> HIDE DEF m
<1>4. TypeOK'
  <2>1. executed' \in [Request -> Nat]
    BY <1>2, <1>3 DEF TypeOK
  <2>2. answers' \in Seq(Request)
    BY <1>2, <1>3, AppendProperties DEF TypeOK
  <2> QED BY <1>1, <1>2, <2>1, <2>2 DEF TypeOK, Message
<1>5. Stage' /\ LinksPast'
  BY <1>1, <1>2 DEF Stage, LinksPast
<1>6. OnlyOwn'
  <2>1. CASE m.link = link /\ connected
    <3>1. op = "read" /\ m.request = request /\ answers = <<>>
      BY <2>1, <1>1 DEF OnlyOwn, m
    <3>2. answers' = <<request>> /\ executed'[request] > 0
      BY <2>1, <3>1, <1>2, <1>3 DEF TypeOK
    <3>3. \A i \in DOMAIN inbox' : inbox'[i].link # link
      <4> TAKE i \in DOMAIN inbox'
      <4>1. i + 1 \in DOMAIN inbox /\ 1 \in DOMAIN inbox /\ i + 1 # 1
        BY <1>1
      <4>2. inbox[1].link = link
        BY <1>1, <2>1
      <4>3. inbox[i + 1].link # link
        BY <4>1, <4>2, <3>1 DEF OnlyOwn
      <4> QED BY <4>3, <1>1
    <3> QED BY <3>1, <3>2, <3>3, <1>2 DEF OnlyOwn
  <2>2. CASE ~(m.link = link /\ connected)
    <3>1. answers' = answers
      BY <2>2, <1>2
    <3>2. answers # <<>> => executed[request] > 0 /\ executed'[request] > 0
      BY <1>2, <1>3 DEF OnlyOwn, TypeOK
    <3>3. \A i, j \in DOMAIN inbox' :
            op = "read" /\ inbox'[i].link = link /\ inbox'[j].link = link => i = j
      <4> TAKE i, j \in DOMAIN inbox'
      <4>1. op = "read" /\ inbox[i + 1].link = link /\ inbox[j + 1].link = link
              => i + 1 = j + 1
        BY <1>1 DEF OnlyOwn
      <4> QED BY <4>1, <1>1
    <3> QED BY <3>1, <3>2, <3>3, <1>1, <1>2 DEF OnlyOwn
  <2> QED BY <2>1, <2>2
<1>7. CopiesAllowed'
  <2>1. ASSUME NEW r \in Request PROVE Copies(r)' = Copies(r)
    <3>1. Cardinality(Places(inbox, r)) =
            Cardinality(Places(inbox', r)) + (IF m.request = r THEN 1 ELSE 0)
      BY <1>1, PlacesTail DEF m
    <3>2. executed'[r] = executed[r] + (IF m.request = r THEN 1 ELSE 0)
      BY <1>2, <1>3 DEF TypeOK
    <3>3. Cardinality(Places(inbox', r)) \in Nat /\ executed[r] \in Nat
      BY <1>1, PlacesFinite DEF TypeOK
    <3> QED BY <3>1, <3>2, <3>3 DEF Copies
  <2>2. \A r \in Request : Allowed(r)' = Allowed(r)
    BY <1>2 DEF Allowed
  <2> QED BY <2>1, <2>2, <1>2 DEF CopiesAllowed
<1>8. AnswersOwnRequest'
  <2>1. \A r \in Request : executed'[r] >= executed[r] /\ executed[r] \in Nat
    BY <1>2, <1>3 DEF TypeOK
  <2> QED BY <2>1, <1>2, <1>4 DEF AnswersOwnRequest, TypeOK
<1> QED BY <1>4, <1>5, <1>6, <1>7, <1>8

-----------------------------------------------------------------------------
\* A step that sends nothing leaves the copies alone.
LEMMA NothingSent ==
  ASSUME UNCHANGED <<inbox, executed>>, NEW r
  PROVE  Copies(r)' = Copies(r)
BY DEF Copies

\* A request that reaches the server is one more copy of it, on the current link.
LEMMA OneSent ==
  ASSUME TypeOK, Reaches, UNCHANGED executed, request \in Request, link \in 1..MaxLinks
  PROVE  /\ inbox' \in Seq(Message)
         /\ DOMAIN inbox = 1..Len(inbox) /\ Len(inbox) \in Nat
         /\ DOMAIN inbox' = 1..(Len(inbox) + 1)
         /\ \A i \in DOMAIN inbox : inbox'[i] = inbox[i]
         /\ inbox'[Len(inbox) + 1] = [request |-> request, link |-> link]
         /\ \A r \in Request : Copies(r)' = Copies(r) + (IF r = request THEN 1 ELSE 0)
<1> DEFINE m == [request |-> request, link |-> link]
<1>1. inbox \in Seq(Message) /\ m \in Message /\ inbox' = Append(inbox, m)
  BY DEF TypeOK, Message, Reaches
<1>2. m.request = request
  OBVIOUS
<1> HIDE DEF m
<1>3. /\ inbox' \in Seq(Message)
      /\ DOMAIN inbox = 1..Len(inbox) /\ Len(inbox) \in Nat
      /\ DOMAIN inbox' = 1..(Len(inbox) + 1)
      /\ \A i \in DOMAIN inbox : inbox'[i] = inbox[i]
      /\ inbox'[Len(inbox) + 1] = m
  BY <1>1, LenProperties, AppendProperties
<1>4. ASSUME NEW r \in Request
      PROVE  Copies(r)' = Copies(r) + (IF r = request THEN 1 ELSE 0)
  <2>1. Cardinality(Places(inbox', r)) =
          Cardinality(Places(inbox, r)) + (IF m.request = r THEN 1 ELSE 0)
    BY <1>1, PlacesAppend
  <2>2. Cardinality(Places(inbox, r)) \in Nat /\ executed[r] \in Nat
    BY <1>1, PlacesFinite DEF TypeOK
  <2> QED BY <2>1, <2>2, <1>2 DEF Copies
<1> QED BY <1>3, <1>4 DEF m

\* A request is in work: it has a name, and a connection if it is being sent.
LEMMA InWork ==
  ASSUME Inv
  PROVE  /\ op \in {"write", "read"} => request \in Request /\ link \in 1..MaxLinks
         /\ op = "connect" /\ attempt > 0 => request \in Request
         /\ \A r \in Request : Copies(r) \in Nat /\ request \in Nat /\ r \in Nat
<1>1. ASSUME NEW r \in Request PROVE Copies(r) \in Nat
  <2>1. inbox \in Seq(Message) /\ executed[r] \in Nat
    BY DEF Inv, TypeOK, Message
  <2>2. Cardinality(Places(inbox, r)) \in Nat
    BY <2>1, PlacesFinite
  <2> QED BY <2>1, <2>2 DEF Copies
<1> QED BY <1>1, HttpAssumption DEF Inv, TypeOK, Stage, Request

-----------------------------------------------------------------------------
\* The calls of the client, which send nothing themselves.
LEMMA CallsKeep == Inv /\ (AsyncConnect \/ Refuse \/ AsyncRequest) => Inv'
<1> SUFFICES ASSUME Inv, AsyncConnect \/ Refuse \/ AsyncRequest PROVE Inv'
  OBVIOUS
<1> USE DEF Inv
<1>1. /\ UNCHANGED <<inbox, answers, executed, link, connected>>
      /\ \A r \in Request : Copies(r)' = Copies(r)
  BY NothingSent DEF AsyncConnect, Refuse, AsyncRequest, clientVars, serverVars
<1>2. CASE AsyncConnect
  <2>1. op = "none" /\ ~connected /\ op' = "connect" /\ attempt' = 0
        /\ UNCHANGED <<request, result>>
    BY <1>2 DEF AsyncConnect, callVars
  <2>2. TypeOK' /\ Stage' /\ LinksPast' /\ OnlyOwn' /\ AnswersOwnRequest'
    BY <1>1, <2>1 DEF TypeOK, Stage, LinksPast, OnlyOwn, AnswersOwnRequest
  <2>3. CopiesAllowed'
    BY <1>1, <2>1 DEF CopiesAllowed, Allowed
  <2> QED BY <2>2, <2>3
<1>3. CASE Refuse
  <2>1. /\ op = "none" /\ ~connected /\ UNCHANGED <<op, attempt>>
        /\ request' = request + 1 /\ request' \in Request
        /\ result' = [result EXCEPT ![request'] = NotConnected]
    BY <1>3, HttpAssumption DEF Refuse, clientVars, TypeOK, Request
  <2>2. TypeOK'
    BY <1>1, <2>1, HttpAssumption DEF TypeOK, NotConnected, Request
  <2>3. Stage' /\ LinksPast' /\ OnlyOwn'
    BY <1>1, <2>1 DEF TypeOK, Stage, LinksPast, OnlyOwn
  <2>4. AnswersOwnRequest'
    BY <1>1, <2>1 DEF TypeOK, AnswersOwnRequest, NotConnected
  <2>5. CopiesAllowed'
    <3> SUFFICES ASSUME NEW r \in Request
                 PROVE  Copies(r) <= Allowed(r)' /\ (r > request' => result'[r].status = "none")
      BY <1>1 DEF CopiesAllowed
    <3>1. CASE r = request'
      <4>1. Allowed(r) = 0 /\ Allowed(r)' = 0
        BY <3>1, <2>1 DEF Allowed, NotConnected, TypeOK
      <4> QED BY <4>1, <3>1, InWork DEF CopiesAllowed
    <3>2. CASE r # request'
      <4>1. Allowed(r)' = Allowed(r) /\ result'[r] = result[r]
        BY <3>2, <2>1, InWork DEF Allowed, TypeOK
      <4> QED BY <4>1, <2>1, InWork DEF CopiesAllowed
    <3> QED BY <3>1, <3>2
  <2> QED BY <2>2, <2>3, <2>4, <2>5
<1>4. CASE AsyncRequest
  <2>1. /\ op = "none" /\ connected /\ op' = "write" /\ attempt' = 1
        /\ request' = request + 1 /\ request' \in Request
        /\ UNCHANGED result /\ result[request'].status = "none"
    BY <1>4, HttpAssumption DEF AsyncRequest, TypeOK, Request, CopiesAllowed
  <2>2. TypeOK' /\ Stage'
    BY <1>1, <2>1, HttpAssumption DEF TypeOK, Stage, Request
  <2>3. LinksPast' /\ OnlyOwn' /\ AnswersOwnRequest'
    BY <1>1, <2>1 DEF LinksPast, OnlyOwn, AnswersOwnRequest
  <2>4. CopiesAllowed'
    <3> SUFFICES ASSUME NEW r \in Request
                 PROVE  Copies(r) <= Allowed(r)' /\ (r > request' => result'[r].status = "none")
      BY <1>1 DEF CopiesAllowed
    <3>1. CASE r = request'
      <4>1. Allowed(r) = 0 /\ Allowed(r)' = 0
        BY <3>1, <2>1, InWork DEF Allowed
      <4> QED BY <4>1, <3>1, InWork DEF CopiesAllowed
    <3>2. CASE r # request'
      <4>1. Allowed(r)' = Allowed(r)
        BY <3>2, <2>1, InWork DEF Allowed
      <4> QED BY <4>1, <2>1, InWork DEF CopiesAllowed
    <3> QED BY <3>1, <3>2
  <2> QED BY <2>2, <2>3, <2>4
<1> QED BY <1>2, <1>3, <1>4

-----------------------------------------------------------------------------
\* A write that has ended: the request is under way on the current connection,
\* and nothing else is.
LEMMA WriteDoneKeeps == Inv /\ WriteDone => Inv'
<1> SUFFICES ASSUME Inv, WriteDone PROVE Inv'
  OBVIOUS
<1> USE DEF Inv
<1>1. /\ op = "write" /\ op' = "read" /\ connected /\ attempt \in {1, 2}
      /\ UNCHANGED <<attempt, connected, link, request, result, answers, executed>>
  BY DEF WriteDone, callVars, TypeOK, Stage
<1>2. /\ inbox' \in Seq(Message)
      /\ DOMAIN inbox = 1..Len(inbox) /\ Len(inbox) \in Nat
      /\ DOMAIN inbox' = 1..(Len(inbox) + 1)
      /\ \A i \in DOMAIN inbox : inbox'[i] = inbox[i]
      /\ inbox'[Len(inbox) + 1] = [request |-> request, link |-> link]
      /\ \A r \in Request : Copies(r)' = Copies(r) + (IF r = request THEN 1 ELSE 0)
  BY <1>1, InWork, OneSent DEF WriteDone
<1>3. TypeOK' /\ Stage' /\ AnswersOwnRequest'
  BY <1>1, <1>2 DEF TypeOK, Stage, AnswersOwnRequest, Message
<1>4. LinksPast'
  <2> SUFFICES ASSUME NEW i \in DOMAIN inbox' PROVE inbox'[i].link <= link
    BY <1>1 DEF LinksPast
  <2>1. i \in DOMAIN inbox \/ i = Len(inbox) + 1
    BY <1>2
  <2>2. link \in Int
    BY <1>1, InWork
  <2> QED BY <2>1, <2>2, <1>2 DEF LinksPast
<1>5. OnlyOwn'
  <2>1. answers' = <<>> /\ \A i \in DOMAIN inbox : inbox'[i].link # link
    BY <1>1, <1>2 DEF OnlyOwn
  <2>2. \A i \in DOMAIN inbox' : inbox'[i].link = link => i = Len(inbox) + 1
    BY <1>2, <2>1
  <2> QED BY <1>1, <1>2, <2>1, <2>2 DEF OnlyOwn
<1>6. CopiesAllowed'
  <2> SUFFICES ASSUME NEW r \in Request PROVE Copies(r)' <= Allowed(r)'
    BY <1>1 DEF CopiesAllowed
  <2>1. Copies(r) <= Allowed(r) /\ Copies(r) \in Nat
    BY InWork DEF CopiesAllowed
  <2>2. CASE r = request
    <3>1. Allowed(r) = attempt - 1 /\ Allowed(r)' = attempt
      BY <2>2, <1>1, InWork DEF Allowed, Stage
    <3> QED BY <2>1, <2>2, <3>1, <1>1, <1>2
  <2>3. CASE r # request
    BY <2>1, <2>3, <1>1, <1>2 DEF Allowed
  <2> QED BY <2>2, <2>3
<1> QED BY <1>3, <1>4, <1>5, <1>6

\* A read that has ended: the only answer there can be is the current request's.
LEMMA ReadDoneKeeps == Inv /\ ReadDone => Inv'
<1> SUFFICES ASSUME Inv, ReadDone PROVE Inv'
  OBVIOUS
<1> USE DEF Inv
<1>1. /\ op = "read" /\ op' = "none" /\ answers = <<request>> /\ answers' = <<>>
      /\ result' = [result EXCEPT ![request] = Answer(request)]
      /\ request \in Request /\ executed[request] > 0
      /\ UNCHANGED <<attempt, connected, link, request, inbox, executed>>
      /\ \A i \in DOMAIN inbox : inbox[i].link # link
  <2>1. answers # <<>> /\ answers = <<request>>
    BY DEF ReadDone, OnlyOwn
  <2>2. Head(answers) = request /\ Tail(answers) = <<>>
    BY <2>1
  <2> QED BY <2>1, <2>2, InWork DEF ReadDone, Return, OnlyOwn
<1>2. TypeOK' /\ Stage'
  BY <1>1, HttpAssumption DEF TypeOK, Stage, Answer, Request
<1>3. LinksPast' /\ OnlyOwn'
  BY <1>1 DEF LinksPast, OnlyOwn
<1>4. AnswersOwnRequest'
  BY <1>1 DEF AnswersOwnRequest, Answer, TypeOK
<1>5. CopiesAllowed'
  <2> SUFFICES ASSUME NEW r \in Request
               PROVE  Copies(r) <= Allowed(r)' /\ (r > request => result'[r].status = "none")
    BY <1>1, NothingSent DEF CopiesAllowed
  <2>1. Copies(r) <= Allowed(r) /\ Copies(r) \in Nat
    BY InWork DEF CopiesAllowed
  <2>2. CASE r = request
    <3>1. Allowed(r) = attempt /\ attempt \in {1, 2} /\ Allowed(r)' = 2
      BY <2>2, <1>1, InWork DEF Allowed, Stage, TypeOK, Answer
    <3> QED BY <2>1, <2>2, <3>1, InWork
  <2>3. CASE r # request
    BY <2>1, <2>3, <1>1 DEF Allowed, TypeOK, CopiesAllowed
  <2> QED BY <2>2, <2>3
<1> QED BY <1>2, <1>3, <1>4, <1>5

\* A write or a read that has failed: what is under way on the connection that
\* is given up may still be executed, but cannot be answered any more.
LEMMA SendFailsKeeps == Inv /\ SendFails => Inv'
<1> SUFFICES ASSUME Inv, SendFails PROVE Inv'
  OBVIOUS
<1> USE DEF Inv
<1>1. /\ op \in {"write", "read"} /\ connected' = FALSE /\ answers' = <<>>
      /\ request \in Request /\ link \in 1..MaxLinks /\ attempt \in {1, 2}
      /\ result[request].status = "none"
      /\ UNCHANGED <<attempt, link, request, executed>>
      /\ \/ attempt = 1 /\ op' = "connect" /\ result' = result
         \/ /\ attempt = 2 /\ op' = "none"
            /\ result' = [result EXCEPT ![request] = TransportError]
  BY InWork DEF SendFails, Disconnect, Return, Stage
<1>2. /\ inbox' \in Seq(Message)
      /\ \A i \in DOMAIN inbox' : inbox'[i].link <= link
      /\ \A r \in Request :
           Copies(r)' <= Copies(r) + (IF r = request /\ op = "write" THEN 1 ELSE 0)
  <2>1. CASE op = "write" /\ Reaches
    <3>1. /\ inbox' \in Seq(Message)
          /\ DOMAIN inbox = 1..Len(inbox) /\ Len(inbox) \in Nat
          /\ DOMAIN inbox' = 1..(Len(inbox) + 1)
          /\ \A i \in DOMAIN inbox : inbox'[i] = inbox[i]
          /\ inbox'[Len(inbox) + 1] = [request |-> request, link |-> link]
          /\ \A r \in Request : Copies(r)' = Copies(r) + (IF r = request THEN 1 ELSE 0)
      BY <1>1, <2>1, OneSent
    <3>2. \A i \in DOMAIN inbox' : inbox'[i].link <= link
      BY <3>1, <1>1 DEF LinksPast
    <3> QED BY <2>1, <3>1, <3>2, InWork
  <2>2. CASE UNCHANGED inbox
    BY <2>2, <1>1, NothingSent, InWork DEF LinksPast, TypeOK, Message
  <2> QED BY <2>1, <2>2 DEF SendFails
<1>3. TypeOK'
  <2>1. result' \in [Request -> [status : {"none", "ok", "error", "refused"},
                                 answer : 0..MaxRequests]]
    BY <1>1, HttpAssumption DEF TypeOK, TransportError
  <2>2. answers' \in Seq(Request) /\ connected' \in BOOLEAN /\ op' \in {"connect", "none"}
    BY <1>1, EmptySeq
  <2> QED BY <1>1, <1>2, <2>1, <2>2 DEF TypeOK, Message
<1>4. Stage' /\ LinksPast' /\ OnlyOwn'
  <2>1. ~connected' /\ op' \in {"connect", "none"} /\ (op' = "connect" => attempt = 1)
    BY <1>1
  <2>2. op' = "connect" => request' > 0 /\ result'[request'].status = "none"
    BY <1>1 DEF Request
  <2>3. Stage'
    BY <1>1, <2>1, <2>2 DEF Stage
  <2>4. LinksPast' /\ OnlyOwn'
    BY <1>1, <1>2, <2>1 DEF LinksPast, OnlyOwn
  <2> QED BY <2>3, <2>4
<1>5. AnswersOwnRequest'
  BY <1>1 DEF AnswersOwnRequest, TransportError, TypeOK
<1>6. CopiesAllowed'
  <2> SUFFICES ASSUME NEW r \in Request
               PROVE  Copies(r)' <= Allowed(r)' /\ (r > request => result'[r].status = "none")
    BY <1>1 DEF CopiesAllowed
  <2>1. Copies(r) <= Allowed(r) /\ Copies(r) \in Nat /\ Copies(r)' \in Nat
    <3>1. Cardinality(Places(inbox', r)) \in Nat /\ executed'[r] \in Nat
      BY <1>2, <1>3, PlacesFinite DEF TypeOK
    <3> QED BY <3>1, InWork DEF CopiesAllowed, Copies
  <2>2. CASE r = request
    <3>1. Allowed(r) = (IF op = "write" THEN attempt - 1 ELSE attempt)
      BY <2>2, <1>1, InWork DEF Allowed
    <3>2. Allowed(r)' = attempt
      BY <2>2, <1>1, InWork DEF Allowed, TransportError, TypeOK
    <3> QED BY <2>1, <2>2, <3>1, <3>2, <1>1, <1>2, InWork
  <2>3. CASE r # request
    <3>1. Allowed(r)' = Allowed(r) /\ result'[r] = result[r] /\ Copies(r)' <= Copies(r)
      BY <2>3, <2>1, <1>1, <1>2 DEF Allowed, TypeOK
    <3> QED BY <3>1, <2>1, <1>1 DEF CopiesAllowed, Allowed
  <2> QED BY <2>2, <2>3
<1> QED BY <1>3, <1>4, <1>5, <1>6

\* A new connection: nothing is under way on it.
LEMMA ConnectDoneKeeps == Inv /\ ConnectDone => Inv'
<1> SUFFICES ASSUME Inv, ConnectDone PROVE Inv'
  OBVIOUS
<1> USE DEF Inv
<1>1. /\ op = "connect" /\ ~connected /\ connected' = TRUE
      /\ link' = link + 1 /\ link' \in 1..MaxLinks
      /\ UNCHANGED <<request, result, inbox, answers, executed>>
      /\ \/ attempt = 0 /\ op' = "none" /\ attempt' = 0
         \/ attempt = 1 /\ op' = "write" /\ attempt' = 2
  BY HttpAssumption DEF ConnectDone, callVars, serverVars, Stage, TypeOK
<1>2. \A r \in Request : Copies(r)' = Copies(r)
  BY <1>1, NothingSent
<1>3. TypeOK' /\ Stage' /\ AnswersOwnRequest'
  BY <1>1 DEF TypeOK, Stage, AnswersOwnRequest
<1>4. LinksPast' /\ OnlyOwn'
  <2>1. \A i \in DOMAIN inbox : inbox[i].link <= link /\ inbox[i].link \in Int
    <3>1. inbox \in [1..Len(inbox) -> [request : Request, link : 1..MaxLinks]]
      BY LenProperties DEF TypeOK
    <3> QED BY <3>1 DEF LinksPast
  <2>2. \A i \in DOMAIN inbox : inbox[i].link <= link' /\ inbox[i].link # link'
    BY <1>1, <2>1 DEF TypeOK
  <2> QED BY <1>1, <2>2 DEF LinksPast, OnlyOwn
<1>5. CopiesAllowed'
  BY <1>1, <1>2, InWork DEF CopiesAllowed, Allowed
<1> QED BY <1>3, <1>4, <1>5

\* No connection: async_connect() ends with an error, or the request does.
LEMMA ConnectFailsKeeps == Inv /\ ConnectFails => Inv'
<1> SUFFICES ASSUME Inv, ConnectFails PROVE Inv'
  OBVIOUS
<1> USE DEF Inv
<1>1. /\ op = "connect" /\ op' = "none"
      /\ UNCHANGED <<attempt, link, request, inbox, answers, executed>>
      /\ \/ attempt = 0 /\ result' = result
         \/ /\ attempt = 1 /\ request \in Request /\ result[request].status = "none"
            /\ result' = [result EXCEPT ![request] = TransportError]
  BY InWork DEF ConnectFails, Return, serverVars, Stage, TypeOK
<1>1a. ~connected' /\ connected' \in BOOLEAN
  BY DEF ConnectFails
<1>1b. result' \in [Request -> [status : {"none", "ok", "error", "refused"},
                                answer : 0..MaxRequests]]
  <2>1. TransportError \in [status : {"none", "ok", "error", "refused"},
                            answer : 0..MaxRequests]
    BY HttpAssumption DEF TransportError
  <2> QED BY <1>1, <2>1 DEF TypeOK
<1>1c. \A r \in Request : result'[r] = result[r] \/ result'[r] = TransportError
  BY <1>1 DEF TypeOK
<1>2. \A r \in Request : Copies(r)' = Copies(r)
  BY <1>1, NothingSent
<1>3. TypeOK'
  BY <1>1, <1>1a, <1>1b DEF TypeOK
<1>4. Stage' /\ LinksPast' /\ OnlyOwn'
  BY <1>1, <1>1a DEF Stage, LinksPast, OnlyOwn
<1>5. AnswersOwnRequest'
  BY <1>1, <1>1c DEF AnswersOwnRequest, TransportError
<1>6. CopiesAllowed'
  <2> SUFFICES ASSUME NEW r \in Request
               PROVE  Copies(r) <= Allowed(r)' /\ (r > request => result'[r].status = "none")
    BY <1>1, <1>2 DEF CopiesAllowed
  <2>1. Copies(r) <= Allowed(r) /\ Copies(r) \in Nat /\ request \in Nat /\ r \in Nat
    BY InWork DEF CopiesAllowed
  <2>2. CASE attempt = 1 /\ r = request
    <3>1. Allowed(r) = 1 /\ Allowed(r)' = 2
      BY <2>1, <2>2, <1>1 DEF Allowed, TransportError, TypeOK
    <3> QED BY <2>1, <2>2, <3>1
  <2>3. CASE ~(attempt = 1 /\ r = request)
    <3>1. result'[r] = result[r]
      BY <2>3, <1>1 DEF TypeOK
    <3>2. Allowed(r)' = Allowed(r)
      BY <2>3, <3>1, <1>1 DEF Allowed
    <3> QED BY <3>1, <3>2, <2>1 DEF CopiesAllowed
  <2> QED BY <2>2, <2>3
<1> QED BY <1>3, <1>4, <1>5, <1>6

\* A step that changes nothing.
LEMMA StutterKeeps == Inv /\ UNCHANGED vars => Inv'
<1> SUFFICES ASSUME Inv, UNCHANGED vars PROVE Inv'
  OBVIOUS
<1>1. UNCHANGED <<op, attempt, connected, link, request, result, inbox, answers, executed>>
  BY DEF vars, clientVars, callVars, serverVars
<1>2. \A r \in Request : Copies(r)' = Copies(r) /\ Allowed(r)' = Allowed(r)
  BY <1>1, NothingSent DEF Allowed
<1>3. CopiesAllowed'
  BY <1>1, <1>2 DEF Inv, CopiesAllowed
<1> QED BY <1>1, <1>3 DEF Inv, TypeOK, Stage, LinksPast, OnlyOwn, AnswersOwnRequest

\* The invariant is inductive.
LEMMA NextInv == Inv /\ [Next]_vars => Inv'
BY ExecuteKeeps, CallsKeep, WriteDoneKeeps, ReadDoneKeeps, SendFailsKeeps,
   ConnectDoneKeeps, ConnectFailsKeeps, StutterKeeps DEF Next, Resume

\* The invariant says what RetrySafe does.
LEMMA InvImplies == Inv => RetrySafe
<1> SUFFICES ASSUME Inv PROVE RetrySafe
  OBVIOUS
<1>1. ASSUME NEW r \in Request
      PROVE  Copies(r) <= (IF result[r].status = "refused" THEN 0 ELSE 2)
  <2>1. Copies(r) <= Allowed(r) /\ Copies(r) \in Nat
    BY InWork DEF Inv, CopiesAllowed
  <2>2. attempt \in 0..2
    BY DEF Inv, TypeOK
  <2> QED BY <2>1, <2>2 DEF Allowed
<1>2. AtMostTwice
  BY <1>1 DEF AtMostTwice, Copies, Places
<1> QED BY <1>2 DEF Inv, RetrySafe

\* The client's retry is safe: whatever fails and whenever, async_request returns
\* the answer to its own request, which the server has executed, and no request
\* is executed more than twice, nor one at all that was refused.
THEOREM RetryIsSafe == Spec => []RetrySafe
<1>1. Spec => []Inv
  BY InitInv, NextInv, PTL DEF Spec
<1> QED BY <1>1, InvImplies, PTL
=============================================================================
