------------------------- MODULE MarketStreamProofs -------------------------
(***************************************************************************)
(* Theorems of MarketStream, for every number of reconnects, connections   *)
(* and frames, with or without a connect timeout.                          *)
(*                                                                         *)
(* LossOnlyByReconnect speaks of what was yielded.  The invariant that     *)
(* carries it follows a frame from the server to the consumer: what was    *)
(* yielded last, what the last read has brought and what is on its way are *)
(* one run of frames of one connection, whatever the executor has queued.  *)
(***************************************************************************)
EXTENDS MarketStream, SequenceTheorems, TLAPS

\* What a queue of the executor holds: nothing but deadlines, one completion
\* at most, a success.
Quiet(q) == \A i \in DOMAIN q : q[i] = "deadline"

One(q) == \A i, j \in DOMAIN q : q[i] # "deadline" /\ q[j] # "deadline" => i = j

HasOk(q) == \E i \in DOMAIN q : q[i] = "ok"

\* The awaited operation has succeeded, and the executor has not run it yet.
Answered == HasOk(ready)

\* The executor holds one completion of the awaited operation at most, among
\* deadlines of this and of earlier attempts.
OneCompletion == One(ready) /\ (op = "none" => Quiet(ready))

\* The count of failures, from one attempt to the next.
Counted ==
    /\ gen \in {"busy", "event"} => failures <= MaxReconnects
    /\ op = "close" => last_err

\* The server has accepted the connection, and the reads can begin.
Accepted == op = "read" \/ gen = "event" \/ (op = "upgrade" /\ Answered)

\* Nothing comes before the server has accepted; the buffer is filled by the
\* read that is awaited.
Attempt ==
    /\ Accepted \/ op = "close" => conn >= 1
    /\ op \in Connecting /\ ~Accepted => ~live /\ wire = <<>>
    /\ op = "read" => (buffer # <<>> <=> Answered)

\* x may be the next frame that is yielded on this connection.
Follows(x) ==
    got # <<>> =>
        /\ got[Len(got)].id < x
        /\ got[Len(got)].conn = conn => x = got[Len(got)].id + 1

\* The next frame to arrive on a connection, already sent or not.
NextFrame == IF wire = <<>> THEN sent + 1 ELSE wire[1]

InOrder ==
    Accepted =>
        /\ \A i \in 1..(Len(wire) - 1) : wire[i + 1] = wire[i] + 1
        /\ live /\ wire # <<>> => wire[Len(wire)] = sent
        /\ op = "read" /\ buffer # <<>> => Follows(buffer[1])
        /\ live \/ wire # <<>> =>
               IF op = "read" /\ buffer # <<>> THEN NextFrame = buffer[1] + 1
                                               ELSE Follows(NextFrame)

StreamInv ==
    /\ TypeOK /\ LossOnlyByReconnect
    /\ OneCompletion /\ Counted /\ Attempt /\ InOrder

-----------------------------------------------------------------------------
Completion == {"ok", "error", "deadline"}

LEMMA QueueAppend ==
    ASSUME NEW q \in Seq(Completion), NEW x \in Completion, Quiet(q)
    PROVE  /\ Append(q, x) \in Seq(Completion) /\ One(Append(q, x))
           /\ HasOk(Append(q, x)) <=> x = "ok"
           /\ x = "deadline" => Quiet(Append(q, x))
  BY DEF Quiet, One, HasOk, Completion

LEMMA QueueDeadline ==
    ASSUME NEW q \in Seq(Completion), One(q)
    PROVE  /\ Append(q, "deadline") \in Seq(Completion)
           /\ One(Append(q, "deadline"))
           /\ HasOk(Append(q, "deadline")) <=> HasOk(q)
           /\ Quiet(q) => Quiet(Append(q, "deadline"))
<1> DEFINE r == Append(q, "deadline")
<1>1. /\ r \in Seq(Completion) /\ Len(r) = Len(q) + 1 /\ r[Len(q) + 1] = "deadline"
      /\ \A i \in 1..Len(q) : r[i] = q[i]
  BY DEF Completion
<1>2. DOMAIN r = 1..(Len(q) + 1) /\ DOMAIN q = 1..Len(q) /\ Len(q) \in Nat
  BY <1>1
<1> HIDE DEF r
<1>3. One(r)
  BY <1>1, <1>2 DEF One
<1>4. HasOk(r) <=> HasOk(q)
  BY <1>1, <1>2 DEF HasOk
<1>5. Quiet(q) => Quiet(r)
  BY <1>1, <1>2 DEF Quiet
<1> QED
  BY <1>1, <1>3, <1>4, <1>5 DEF r

\* Running the completion leaves deadlines; running a deadline changes nothing
\* else.
LEMMA QueueTail ==
    ASSUME NEW q \in Seq(Completion), q # <<>>, One(q)
    PROVE  /\ Tail(q) \in Seq(Completion) /\ One(Tail(q))
           /\ Head(q) # "deadline" => Quiet(Tail(q))
           /\ Head(q) = "deadline" => (HasOk(Tail(q)) <=> HasOk(q))
           /\ Head(q) = "deadline" => (Quiet(Tail(q)) <=> Quiet(q))
<1> DEFINE r == Tail(q)
<1>1. /\ r \in Seq(Completion) /\ Len(r) = Len(q) - 1 /\ Len(q) >= 1
      /\ \A i \in 1..Len(r) : r[i] = q[i + 1]
      /\ Head(q) = q[1]
  BY DEF Completion
<1>2. DOMAIN r = 1..Len(r) /\ DOMAIN q = 1..Len(q) /\ Len(q) \in Nat /\ Len(r) \in Nat
  BY <1>1
<1>3. \A i \in DOMAIN r : i + 1 \in DOMAIN q /\ r[i] = q[i + 1] /\ i + 1 # 1
  BY <1>1, <1>2
<1>4. \A i \in DOMAIN q : i # 1 => i - 1 \in DOMAIN r /\ r[i - 1] = q[i]
  BY <1>1, <1>2
<1>5. 1 \in DOMAIN q
  BY <1>1, <1>2
<1> HIDE DEF r
<1>6. One(r)
  <2> SUFFICES ASSUME NEW i \in DOMAIN r, NEW j \in DOMAIN r,
                      r[i] # "deadline", r[j] # "deadline"
               PROVE  i = j
    BY DEF One
  <2>1. i + 1 = j + 1
    BY <1>3 DEF One
  <2> QED
    BY <2>1, <1>2
<1>7. Head(q) # "deadline" => Quiet(r)
  BY <1>1, <1>3, <1>5 DEF One, Quiet
<1>8. Head(q) = "deadline" => (HasOk(r) <=> HasOk(q))
  BY <1>1, <1>3, <1>4 DEF HasOk
<1>9. Head(q) = "deadline" => (Quiet(r) <=> Quiet(q))
  BY <1>1, <1>3, <1>4 DEF Quiet
<1> QED
  BY <1>1, <1>6, <1>7, <1>8, <1>9 DEF r

LEMMA QuietQueue ==
    ASSUME NEW q, Quiet(q)
    PROVE  One(q) /\ ~HasOk(q)
  BY DEF Quiet, One, HasOk

\* A longer run of frames, or one more connection, keeps what was typed.
LEMMA SeqGrows ==
    ASSUME NEW S, NEW T, S \subseteq T, NEW s \in Seq(S)
    PROVE  s \in Seq(T)
  OBVIOUS

LEMMA GotFields ==
    ASSUME NEW c, NEW m, NEW s \in Seq([conn : 1..c, id : 1..m])
    PROVE  \A i \in DOMAIN s : s[i].conn \in 1..c /\ s[i].id \in 1..m
<1> DEFINE R == [conn : 1..c, id : 1..m]
<1>1. \A i \in DOMAIN s : s[i] \in R
  <2> HIDE DEF R
  <2>1. s \in Seq(R)
    BY DEF R
  <2> QED
    BY <2>1
<1> QED
  BY <1>1

\* A sequence is empty exactly when its length is 0.
LEMMA NoLength ==
    ASSUME NEW S, NEW s \in Seq(S)
    PROVE  Len(s) = 0 <=> s = <<>>
  OBVIOUS

LEMMA FramesGrow ==
    ASSUME NEW m \in Nat, NEW n \in Nat, m <= n, NEW s \in Seq(1..m)
    PROVE  s \in Seq(1..n)
  OBVIOUS

LEMMA GotGrows ==
    ASSUME NEW c \in Nat, NEW d \in Nat, c <= d, NEW m \in Nat, NEW n \in Nat, m <= n,
           NEW s \in Seq([conn : 1..c, id : 1..m])
    PROVE  s \in Seq([conn : 1..d, id : 1..n])
<1>1. [conn : 1..c, id : 1..m] \subseteq [conn : 1..d, id : 1..n]
  OBVIOUS
<1> QED
  BY <1>1, SeqGrows

-----------------------------------------------------------------------------
LEMMA StreamTypes ==
    ASSUME TypeOK
    PROVE  /\ ready \in Seq(Completion) /\ conn \in Nat /\ sent \in Nat
           /\ wire \in Seq(1..sent) /\ buffer \in Seq(1..sent) /\ Len(buffer) \in {0, 1}
           /\ live \in BOOLEAN /\ connected \in BOOLEAN /\ last_err \in BOOLEAN
           /\ failures \in Nat /\ MaxReconnects \in Nat
           /\ MaxConns \in Nat /\ MaxFrames \in Nat
           /\ got \in Seq([conn : 1..conn, id : 1..sent])
<1>1. live \in BOOLEAN /\ connected \in BOOLEAN
  BY Zenon DEF TypeOK, ClientTypeOK
<1>2. last_err \in BOOLEAN
  BY Zenon DEF TypeOK
<1>3. wire \in Seq(1..sent) /\ buffer \in Seq(1..sent)
  BY Zenon DEF TypeOK, ClientTypeOK
<1>4. conn \in Nat /\ sent \in Nat /\ failures \in Nat
  BY ClientAssumption, ReconnectAssumption DEF TypeOK, ClientTypeOK
<1>5. Len(buffer) \in {0, 1}
  <2>1. Len(buffer) <= 1
    BY DEF TypeOK, ClientTypeOK
  <2>2. Len(buffer) \in Nat
    BY <1>3, LenProperties
  <2>3. \A n \in Nat : n <= 1 => n \in {0, 1}
    OBVIOUS
  <2> QED
    BY <2>1, <2>2, <2>3
<1> QED
  BY <1>1, <1>2, <1>3, <1>4, <1>5, ClientAssumption, ReconnectAssumption
  DEF TypeOK, ClientTypeOK, Completion

LEMMA StreamInit == Init => StreamInv
<1> SUFFICES ASSUME Init PROVE StreamInv
  OBVIOUS
<1> USE DEF Init, ClientInit
<1>1. ~live /\ {connected, live} \subseteq BOOLEAN /\ last_err \in BOOLEAN
  BY Zenon
<1>2. /\ {wire, buffer} \subseteq Seq(1..sent) /\ Len(buffer) <= 1
      /\ ready \in Seq({"ok", "error", "deadline"})
      /\ got \in Seq([conn : 1..conn, id : 1..sent])
  BY EmptySeq
<1>3. TypeOK
  BY <1>1, <1>2, ClientAssumption, ReconnectAssumption DEF TypeOK, ClientTypeOK, Connecting
<1>4. LossOnlyByReconnect
  BY DEF LossOnlyByReconnect
<1>5. OneCompletion /\ ~Answered
  BY DEF OneCompletion, One, Quiet, Answered, HasOk
<1>6. Counted /\ ~Accepted /\ op \notin Connecting
  BY <1>5 DEF Counted, Accepted, Connecting
<1>7. Attempt /\ InOrder
  BY <1>6 DEF Attempt, InOrder
<1> QED
  BY <1>3, <1>4, <1>5, <1>6, <1>7 DEF StreamInv

\* The network completes the awaited operation: an upgrade opens a connection
\* with nothing on its way, a read takes the first frame.
LEMMA NetworkOkKeeps ==
    ASSUME StreamInv, NetworkOk, UNCHANGED <<genVars, got>>
    PROVE  StreamInv'
<1>1. TypeOK /\ OneCompletion /\ Counted /\ Attempt /\ InOrder /\ LossOnlyByReconnect
  BY DEF StreamInv
<1>2. /\ ready \in Seq(Completion) /\ conn \in Nat /\ sent \in Nat
      /\ wire \in Seq(1..sent) /\ buffer \in Seq(1..sent) /\ Len(buffer) \in {0, 1}
      /\ live \in BOOLEAN /\ connected \in BOOLEAN /\ MaxConns \in Nat
      /\ got \in Seq([conn : 1..conn, id : 1..sent])
  BY <1>1, StreamTypes
<1>3. /\ UNCHANGED <<sent, op, timer, sock, connected, gen, failures, last_err, got>>
      /\ op # "none" /\ gen = "busy"
  BY <1>1 DEF NetworkOk, Pending, genVars, TypeOK
<1>4. Quiet(ready) /\ ~Answered
  BY QuietQueue DEF NetworkOk, Pending, Quiet, Answered
<1>5. ready' \in Seq(Completion) /\ One(ready') /\ HasOk(ready')
  <2>1. Append(ready, "ok") \in Seq(Completion) /\ One(Append(ready, "ok"))
        /\ HasOk(Append(ready, "ok"))
    BY <1>2, <1>4, QueueAppend DEF Completion
  <2> QED
    BY <2>1 DEF NetworkOk
<1>6. OneCompletion' /\ Counted' /\ LossOnlyByReconnect' /\ Answered'
  BY <1>1, <1>3, <1>5 DEF OneCompletion, Counted, LossOnlyByReconnect, Answered
<1>7. CASE op = "upgrade"
  <2>1. /\ conn' = conn + 1 /\ live' = TRUE /\ conn < MaxConns
        /\ UNCHANGED <<buffer, wire>>
    BY <1>7 DEF NetworkOk
  <2>2. ~live /\ wire = <<>>
    BY <1>1, <1>3, <1>4, <1>7 DEF Attempt, Accepted, Connecting
  <2>3. got' \in Seq([conn : 1..conn', id : 1..sent']) /\ conn' \in Nat
    <3>1. conn + 1 \in Nat /\ conn <= conn + 1 /\ sent <= sent
      BY <1>2
    <3>2. got \in Seq([conn : 1..(conn + 1), id : 1..sent])
      BY <1>2, <3>1, GotGrows
    <3> QED
      BY <1>3, <2>1, <3>1, <3>2
  <2>4. {connected', live'} \subseteq BOOLEAN
    BY <1>2, <1>3, <2>1
  <2>5. TypeOK'
    BY <1>1, <1>2, <1>3, <1>5, <1>7, <2>1, <2>3, <2>4
    DEF TypeOK, ClientTypeOK, Completion
  <2>6. Attempt'
    BY <1>2, <1>3, <1>6, <1>7, <2>1, <2>3 DEF Attempt, Accepted, Connecting
  <2>7. \A i \in DOMAIN got : got[i].conn \in 1..conn /\ got[i].id \in 1..sent
    BY <1>2, GotFields
  <2>8. got # <<>> => Len(got) \in DOMAIN got
    BY <1>2
  <2>9. InOrder'
    BY <1>2, <1>3, <1>7, <2>1, <2>2, <2>7, <2>8 DEF InOrder, Follows, NextFrame
  <2> QED
    BY <1>6, <2>5, <2>6, <2>9 DEF StreamInv
<1>8. CASE op = "read"
  <2>1. /\ wire # <<>> /\ buffer' = <<Head(wire)>> /\ wire' = Tail(wire)
        /\ UNCHANGED <<conn, live>>
    BY <1>8 DEF NetworkOk
  <2>2. /\ Head(wire) = wire[1] /\ wire[1] \in 1..sent /\ Tail(wire) \in Seq(1..sent)
        /\ Len(Tail(wire)) = Len(wire) - 1 /\ Len(wire) >= 1
        /\ \A i \in 1..Len(Tail(wire)) : Tail(wire)[i] = wire[i + 1]
    BY <1>2, <2>1
  <2>3. /\ buffer' \in Seq(1..sent) /\ Len(buffer') = 1 /\ buffer' # <<>>
        /\ buffer'[1] = wire[1]
    BY <2>1, <2>2
  <2>4. {connected', live'} \subseteq BOOLEAN /\ {wire', buffer'} \subseteq Seq(1..sent')
    BY <1>2, <1>3, <2>1, <2>2, <2>3
  <2>5. TypeOK'
    BY <1>1, <1>2, <1>3, <1>5, <1>8, <2>1, <2>3, <2>4
    DEF TypeOK, ClientTypeOK, Completion
  <2>6. Attempt'
    BY <1>1, <1>3, <1>6, <1>8, <2>1, <2>3 DEF Attempt, Accepted, Connecting
  <2>7. buffer = <<>> /\ Accepted
    BY <1>1, <1>4, <1>8 DEF Attempt, Accepted
  <2>8. /\ \A i \in 1..(Len(wire) - 1) : wire[i + 1] = wire[i] + 1
        /\ live => wire[Len(wire)] = sent
        /\ Follows(wire[1])
    BY <1>1, <2>1, <2>7 DEF InOrder, NextFrame
  <2>9. InOrder'
    <3>2. Follows(buffer[1])'
      BY <1>3, <2>1, <2>3, <2>8 DEF Follows
    <3>3. \A i \in 1..(Len(wire') - 1) : wire'[i + 1] = wire'[i] + 1
      BY <1>2, <2>1, <2>2, <2>8
    <3>4. CASE Len(wire) = 1
      <4>1. wire' = <<>>
        BY <2>1, <2>2, <3>4, NoLength
      <4>2. live => wire[1] = sent
        BY <2>8, <3>4
      <4>3. live' => NextFrame' = buffer'[1] + 1
        BY <1>3, <2>1, <2>3, <4>1, <4>2 DEF NextFrame
      <4> QED
        BY <1>3, <1>8, <2>3, <3>2, <3>3, <4>1, <4>3 DEF InOrder
    <3>5. CASE Len(wire) > 1
      <4>1. wire' # <<>> /\ wire'[1] = wire[1] + 1
        <5>0. Len(wire) \in Nat
          BY <1>2, LenProperties
        <5>1. Len(Tail(wire)) # 0
          BY <2>2, <3>5, <5>0
        <5>2. wire'[1] = wire[1 + 1] /\ wire[1 + 1] = wire[1] + 1
          BY <1>2, <2>1, <2>2, <2>8, <3>5
        <5> QED
          BY <2>1, <2>2, <5>1, <5>2, NoLength
      <4>2. live => wire'[Len(wire')] = sent
        BY <1>2, <2>1, <2>2, <2>8, <3>5
      <4> QED
        BY <1>2, <1>3, <1>8, <2>1, <2>2, <2>3, <3>2, <3>3, <4>1, <4>2 DEF InOrder, NextFrame
    <3> QED
      BY <2>2, <3>4, <3>5, <1>2
  <2> QED
    BY <1>6, <2>5, <2>6, <2>9 DEF StreamInv
<1>9. CASE op # "upgrade" /\ op # "read"
  <2>1. UNCHANGED <<conn, live, buffer, wire>>
    BY <1>9 DEF NetworkOk
  <2>2. TypeOK'
    BY <1>1, <1>2, <1>3, <1>5, <2>1 DEF TypeOK, ClientTypeOK, Completion
  <2>3. ~Accepted /\ ~Accepted'
    BY <1>3, <1>9 DEF Accepted
  <2>4. Attempt' /\ InOrder'
    BY <1>1, <1>3, <1>9, <2>1, <2>3 DEF Attempt, InOrder
  <2> QED
    BY <1>6, <2>2, <2>4 DEF StreamInv
<1> QED
  BY <1>7, <1>8, <1>9

\* What an action that leaves the frames alone has to say of the others.
LEMMA SameFrames ==
    ASSUME StreamInv, UNCHANGED <<conn, live, sent, wire, buffer, got>>,
           Accepted' => Accepted, op' = "read" <=> op = "read"
    PROVE  InOrder' /\ LossOnlyByReconnect'
<1>1. InOrder /\ LossOnlyByReconnect
  BY DEF StreamInv
<1>2. LossOnlyByReconnect'
  BY <1>1 DEF LossOnlyByReconnect
<1>3. CASE ~Accepted'
  BY <1>2, <1>3 DEF InOrder
<1>4. CASE Accepted'
  <2>1. Accepted
    BY <1>4
  <2>2. /\ \A i \in 1..(Len(wire) - 1) : wire[i + 1] = wire[i] + 1
        /\ live /\ wire # <<>> => wire[Len(wire)] = sent
        /\ op = "read" /\ buffer # <<>> => Follows(buffer[1])
        /\ live \/ wire # <<>> =>
               IF op = "read" /\ buffer # <<>> THEN NextFrame = buffer[1] + 1
                                               ELSE Follows(NextFrame)
    BY <1>1, <2>1 DEF InOrder
  <2>3. InOrder'
    BY <2>2 DEF InOrder, Follows, NextFrame
  <2> QED
    BY <1>2, <2>3
<1> QED
  BY <1>3, <1>4

\* The connection is lost, with what was on its way; ready' is the queue of the
\* executor afterwards.
LEMMA LosesFrames ==
    ASSUME StreamInv, UNCHANGED <<conn, sent, buffer, op, got, gen>>,
           ~live', wire' \in {wire, <<>>}, Accepted' => Accepted
    PROVE  InOrder' /\ LossOnlyByReconnect'
<1>1. InOrder /\ LossOnlyByReconnect
  BY DEF StreamInv
<1>2. LossOnlyByReconnect'
  BY <1>1 DEF LossOnlyByReconnect
<1>3. CASE ~Accepted'
  BY <1>2, <1>3 DEF InOrder
<1>4. CASE Accepted'
  <2>1. Accepted
    BY <1>4
  <2>2. /\ \A i \in 1..(Len(wire) - 1) : wire[i + 1] = wire[i] + 1
        /\ op = "read" /\ buffer # <<>> => Follows(buffer[1])
        /\ wire # <<>> =>
               IF op = "read" /\ buffer # <<>> THEN NextFrame = buffer[1] + 1
                                               ELSE Follows(NextFrame)
    BY <1>1, <2>1 DEF InOrder
  <2>3. CASE wire' = <<>>
    <3>1. op' = "read" /\ buffer' # <<>> => Follows(buffer[1])'
      BY <2>2 DEF Follows
    <3>2. Len(wire') = 0
      BY <2>3, EmptySeq
    <3> QED
      BY <1>2, <2>3, <3>1, <3>2 DEF InOrder
  <2>4. CASE wire' = wire
    <3>1. InOrder'
      BY <2>2, <2>4 DEF InOrder, Follows, NextFrame
    <3> QED
      BY <1>2, <3>1
  <2> QED
    BY <2>3, <2>4
<1> QED
  BY <1>3, <1>4

\* The network fails the operation, or the server goes away.
LEMMA LossKeeps ==
    ASSUME StreamInv, NetworkError \/ Drop, UNCHANGED <<genVars, got>>
    PROVE  StreamInv'
<1>1. TypeOK /\ OneCompletion /\ Counted /\ Attempt
  BY DEF StreamInv
<1>2. /\ ready \in Seq(Completion) /\ live \in BOOLEAN /\ connected \in BOOLEAN
      /\ wire \in Seq(1..sent) /\ buffer \in Seq(1..sent)
  BY <1>1, StreamTypes
<1>3. /\ UNCHANGED <<conn, sent, op, timer, sock, connected, buffer>>
      /\ UNCHANGED <<gen, failures, last_err, got>>
      /\ ~live' /\ live' \in BOOLEAN /\ wire' \in {wire, <<>>}
  BY DEF NetworkError, Drop, clientVars, genVars
<1>4. /\ ready' \in Seq(Completion) /\ One(ready') /\ (Quiet(ready) /\ op = "none" => Quiet(ready'))
      /\ HasOk(ready') <=> HasOk(ready)
  <2>1. CASE Drop
    BY <1>1, <1>2, <2>1 DEF Drop, clientVars, OneCompletion
  <2>2. CASE NetworkError
    <3>1. Quiet(ready) /\ op # "none"
      BY <2>2 DEF NetworkError, Pending, Quiet
    <3>2. Append(ready, "error") \in Seq(Completion) /\ One(Append(ready, "error"))
          /\ ~HasOk(Append(ready, "error"))
      BY <1>2, <3>1, QueueAppend DEF Completion
    <3>3. ~HasOk(ready)
      BY <3>1, QuietQueue
    <3> QED
      BY <2>2, <3>1, <3>2, <3>3 DEF NetworkError
  <2> QED
    BY <2>1, <2>2
<1>5. {connected', live'} \subseteq BOOLEAN /\ {wire', buffer'} \subseteq Seq(1..sent')
  BY <1>2, <1>3, EmptySeq
<1>6. TypeOK'
  BY <1>1, <1>3, <1>4, <1>5 DEF TypeOK, ClientTypeOK, Completion
<1>7. OneCompletion' /\ Counted' /\ (Accepted' <=> Accepted) /\ (Answered' <=> Answered)
  BY <1>1, <1>3, <1>4 DEF OneCompletion, Counted, Accepted, Answered
<1>8. Attempt'
  BY <1>1, <1>3, <1>7 DEF Attempt
<1>9. InOrder' /\ LossOnlyByReconnect'
  BY <1>3, <1>7, LosesFrames
<1> QED
  BY <1>6, <1>7, <1>8, <1>9 DEF StreamInv

\* The handler of a deadline, of whichever attempt it was.
LEMMA RunDeadlineKeeps ==
    ASSUME StreamInv, RunDeadline, UNCHANGED <<genVars, got>>
    PROVE  StreamInv'
<1>1. TypeOK /\ OneCompletion /\ Counted /\ Attempt
  BY DEF StreamInv
<1>2. /\ ready \in Seq(Completion) /\ live \in BOOLEAN /\ connected \in BOOLEAN
      /\ wire \in Seq(1..sent) /\ buffer \in Seq(1..sent)
  BY <1>1, StreamTypes
<1>3. /\ UNCHANGED <<conn, sent, op, timer, connected, buffer>>
      /\ UNCHANGED <<gen, failures, last_err, got>>
      /\ ready # <<>> /\ Head(ready) = "deadline"
      /\ sock' \in {"shut", sock}
  BY DEF RunDeadline, genVars
<1>4. /\ Tail(ready) \in Seq(Completion) /\ One(Tail(ready))
      /\ HasOk(Tail(ready)) <=> HasOk(ready)
      /\ Quiet(Tail(ready)) <=> Quiet(ready)
  BY <1>1, <1>2, <1>3, QueueTail DEF OneCompletion
<1>5. /\ ready' \in Seq(Completion) /\ One(ready') /\ (Quiet(ready) /\ op = "none" => Quiet(ready'))
      /\ HasOk(ready') <=> HasOk(ready)
  <2>1. CASE Pending /\ (op = "resolve" \/ sock = "open")
    <3>1. ready' = Append(Tail(ready), "error")
      BY <1>4, <2>1 DEF RunDeadline, Completion
    <3>2. Quiet(ready) /\ op # "none"
      BY <2>1 DEF Pending, Quiet
    <3>3. Append(Tail(ready), "error") \in Seq(Completion) /\ One(Append(Tail(ready), "error"))
          /\ ~HasOk(Append(Tail(ready), "error"))
      BY <1>4, <3>2, QueueAppend DEF Completion
    <3>4. ~HasOk(ready)
      BY <3>2, QuietQueue
    <3> QED
      BY <3>1, <3>2, <3>3, <3>4
  <2>2. CASE ~(Pending /\ (op = "resolve" \/ sock = "open"))
    <3>1. ready' = Tail(ready)
      BY <1>4, <2>2 DEF RunDeadline, Completion
    <3> QED
      BY <1>4, <3>1
  <2> QED
    BY <2>1, <2>2
<1>6. OneCompletion' /\ Counted' /\ (Accepted' <=> Accepted) /\ (Answered' <=> Answered)
  BY <1>1, <1>3, <1>5 DEF OneCompletion, Counted, Accepted, Answered
<1>7. CASE sock = "open"
  <2>1. ~live' /\ live' \in BOOLEAN /\ wire' \in {wire, <<>>} /\ sock' = "shut"
    BY <1>7 DEF RunDeadline
  <2>2. {connected', live'} \subseteq BOOLEAN /\ {wire', buffer'} \subseteq Seq(1..sent')
    BY <1>2, <1>3, <2>1, EmptySeq
  <2>3. TypeOK'
    BY <1>1, <1>3, <1>5, <2>1, <2>2 DEF TypeOK, ClientTypeOK, Completion
  <2>4. Attempt'
    BY <1>1, <1>3, <1>6, <2>1 DEF Attempt
  <2>5. InOrder' /\ LossOnlyByReconnect'
    BY <1>3, <1>6, <2>1, LosesFrames
  <2> QED
    BY <1>6, <2>3, <2>4, <2>5 DEF StreamInv
<1>8. CASE sock # "open"
  <2>1. UNCHANGED <<sock, live, wire>>
    BY <1>8 DEF RunDeadline
  <2>2. TypeOK'
    BY <1>1, <1>3, <1>5, <2>1 DEF TypeOK, ClientTypeOK, Completion
  <2>3. Attempt'
    BY <1>1, <1>3, <1>6, <2>1 DEF Attempt
  <2>4. InOrder' /\ LossOnlyByReconnect'
    BY <1>3, <1>6, <2>1, SameFrames
  <2> QED
    BY <1>6, <2>2, <2>3, <2>4 DEF StreamInv
<1> QED
  BY <1>7, <1>8

LEMMA TimerKeeps ==
    ASSUME StreamInv, TimerExpires, UNCHANGED <<genVars, got>>
    PROVE  StreamInv'
<1>1. TypeOK /\ OneCompletion /\ Counted /\ Attempt
  BY DEF StreamInv
<1>2. ready \in Seq(Completion)
  BY <1>1, StreamTypes
<1>3. /\ UNCHANGED <<conn, live, sent, wire, op, sock, connected, buffer>>
      /\ UNCHANGED <<gen, failures, last_err, got>>
      /\ ready' = Append(ready, "deadline") /\ timer' = "off"
  BY DEF TimerExpires, netVars, genVars
<1>4. /\ ready' \in Seq(Completion) /\ One(ready') /\ (Quiet(ready) => Quiet(ready'))
      /\ HasOk(ready') <=> HasOk(ready)
  BY <1>1, <1>2, <1>3, QueueDeadline DEF OneCompletion
<1>5. TypeOK'
  BY <1>1, <1>3, <1>4 DEF TypeOK, ClientTypeOK, Completion
<1>6. OneCompletion' /\ Counted' /\ (Accepted' <=> Accepted) /\ (Answered' <=> Answered)
  BY <1>1, <1>3, <1>4 DEF OneCompletion, Counted, Accepted, Answered
<1>7. Attempt'
  BY <1>1, <1>3, <1>6 DEF Attempt
<1>8. InOrder' /\ LossOnlyByReconnect'
  BY <1>3, <1>6, SameFrames
<1> QED
  BY <1>5, <1>6, <1>7, <1>8 DEF StreamInv

\* A frame that is sent joins the run of its connection, if there is one.
LEMMA ServerKeeps ==
    ASSUME StreamInv, ServerSends, UNCHANGED <<genVars, got>>
    PROVE  StreamInv'
<1>1. TypeOK /\ OneCompletion /\ Counted /\ Attempt /\ InOrder /\ LossOnlyByReconnect
  BY DEF StreamInv
<1>2. /\ conn \in Nat /\ sent \in Nat /\ MaxFrames \in Nat
      /\ wire \in Seq(1..sent) /\ buffer \in Seq(1..sent)
      /\ live \in BOOLEAN /\ connected \in BOOLEAN
      /\ got \in Seq([conn : 1..conn, id : 1..sent])
  BY <1>1, StreamTypes
<1>3. /\ UNCHANGED <<conn, live, op, ready, timer, sock, connected, buffer>>
      /\ UNCHANGED <<gen, failures, last_err, got>>
      /\ sent' = sent + 1 /\ sent < MaxFrames
      /\ wire' = IF live THEN Append(wire, sent + 1) ELSE wire
  BY DEF ServerSends, clientVars, genVars
<1>4. /\ wire \in Seq(1..(sent + 1)) /\ buffer \in Seq(1..(sent + 1))
      /\ sent + 1 \in 1..(sent + 1)
  <2>1. sent + 1 \in Nat /\ sent <= sent + 1
    BY <1>2
  <2>2. wire \in Seq(1..(sent + 1)) /\ buffer \in Seq(1..(sent + 1))
    BY <1>2, <2>1, FramesGrow
  <2> QED
    BY <1>2, <2>2
<1>5. wire' \in Seq(1..(sent + 1))
  <2>1. Append(wire, sent + 1) \in Seq(1..(sent + 1))
    BY <1>4, AppendProperties
  <2> QED
    BY <1>3, <1>4, <2>1
<1>6. got \in Seq([conn : 1..conn, id : 1..(sent + 1)])
  <2>1. sent + 1 \in Nat /\ sent <= sent + 1 /\ conn <= conn
    BY <1>2
  <2> QED
    BY <1>2, <2>1, GotGrows
<1>7. TypeOK'
  <2>1. {wire', buffer'} \subseteq Seq(1..sent')
    BY <1>3, <1>4, <1>5
  <2>2. sent' \in 0..MaxFrames
    BY <1>2, <1>3
  <2>3. got' \in Seq([conn : 1..conn', id : 1..sent'])
    BY <1>3, <1>6
  <2> QED
    BY <1>1, <1>3, <2>1, <2>2, <2>3 DEF TypeOK, ClientTypeOK
<1>8. OneCompletion' /\ Counted' /\ (Accepted' <=> Accepted) /\ (Answered' <=> Answered)
  BY <1>1, <1>3 DEF OneCompletion, Counted, Accepted, Answered
<1>9. Attempt' /\ LossOnlyByReconnect'
  BY <1>1, <1>3, <1>8 DEF Attempt, LossOnlyByReconnect
<1>10. InOrder'
  <2> SUFFICES ASSUME Accepted' PROVE InOrder'
    BY DEF InOrder
  <2>1. /\ \A i \in 1..(Len(wire) - 1) : wire[i + 1] = wire[i] + 1
        /\ live /\ wire # <<>> => wire[Len(wire)] = sent
        /\ op = "read" /\ buffer # <<>> => Follows(buffer[1])
        /\ live \/ wire # <<>> =>
               IF op = "read" /\ buffer # <<>> THEN NextFrame = buffer[1] + 1
                                               ELSE Follows(NextFrame)
    BY <1>1, <1>8 DEF InOrder
  <2>2. op' = "read" /\ buffer' # <<>> => Follows(buffer[1])'
    BY <1>3, <2>1 DEF Follows
  <2>3. CASE ~live
    BY <1>3, <2>1, <2>2, <2>3 DEF InOrder, Follows, NextFrame
  <2>4. CASE live
    <3>1. /\ Len(wire') = Len(wire) + 1 /\ wire'[Len(wire) + 1] = sent + 1
          /\ \A i \in 1..Len(wire) : wire'[i] = wire[i]
          /\ Len(wire) \in Nat /\ wire' # <<>>
      BY <1>3, <1>4, <2>4
    <3>2. NextFrame' = NextFrame
      <4>1. CASE wire = <<>>
        BY <3>1, <4>1, EmptySeq DEF NextFrame
      <4>2. CASE wire # <<>>
        <5>1. Len(wire) # 0
          BY <1>2, <4>2, NoLength
        <5> QED
          BY <3>1, <4>2, <5>1 DEF NextFrame
      <4> QED
        BY <4>1, <4>2
    <3>3. \A i \in 1..(Len(wire') - 1) : wire'[i + 1] = wire'[i] + 1
      <4> SUFFICES ASSUME NEW i \in 1..Len(wire) PROVE wire'[i + 1] = wire'[i] + 1
        BY <3>1
      <4>1. CASE i = Len(wire)
        <5>1. wire # <<>>
          BY <1>2, <4>1, NoLength
        <5> QED
          BY <2>1, <2>4, <3>1, <4>1, <5>1
      <4>2. CASE i # Len(wire)
        BY <2>1, <3>1, <4>2
      <4> QED
        BY <4>1, <4>2
    <3>4. wire'[Len(wire')] = sent'
      BY <1>3, <3>1
    <3>5. IF op' = "read" /\ buffer' # <<>> THEN NextFrame' = buffer'[1] + 1
                                            ELSE Follows(NextFrame)'
      BY <1>3, <2>1, <2>4, <3>2 DEF Follows
    <3> QED
      BY <2>2, <3>3, <3>4, <3>5 DEF InOrder
  <2> QED
    BY <2>3, <2>4
<1> QED
  BY <1>7, <1>8, <1>9, <1>10 DEF StreamInv

\* A new attempt begins, with a queue that holds deadlines only: the old stream
\* is replaced, and with it go the frames that were not read.
LEMMA ConnectKeeps ==
    ASSUME StreamInv, Connect, Quiet(ready'), ready' \in Seq(Completion),
           gen' = "busy", failures' \in 0..MaxReconnects, last_err' \in BOOLEAN,
           failures' = 0 \/ last_err', connected' \in BOOLEAN, UNCHANGED got
    PROVE  StreamInv'
<1>1. TypeOK /\ LossOnlyByReconnect
  BY DEF StreamInv
<1>2. /\ conn \in Nat /\ sent \in Nat /\ MaxReconnects \in Nat /\ buffer \in Seq(1..sent)
  BY <1>1, StreamTypes
<1>3. /\ op' = "resolve" /\ timer' \in {"off", "armed"} /\ sock' = "none" /\ wire' = <<>>
      /\ ~live' /\ live' \in BOOLEAN /\ UNCHANGED <<conn, sent, buffer>>
  BY DEF Connect
<1>4. {connected', live'} \subseteq BOOLEAN /\ {wire', buffer'} \subseteq Seq(1..sent')
  BY <1>2, <1>3, EmptySeq
<1>5. TypeOK'
  BY <1>1, <1>2, <1>3, <1>4 DEF TypeOK, ClientTypeOK, Completion, Connecting
<1>6. ~Accepted'
  BY <1>3 DEF Accepted
<1>7. OneCompletion' /\ Counted'
  BY <1>2, <1>3, QuietQueue DEF OneCompletion, Counted
<1>8. Attempt' /\ InOrder' /\ LossOnlyByReconnect'
  BY <1>1, <1>3, <1>6 DEF Attempt, InOrder, LossOnlyByReconnect
<1> QED
  BY <1>5, <1>7, <1>8 DEF StreamInv

\* The generator yields and awaits nothing; it will not read again on this
\* connection.
LEMMA RestKeeps ==
    ASSUME StreamInv, op' = "none", Quiet(ready'), ready' \in Seq(Completion),
           gen' \in {"json", "last", "ended"}, failures' \in 0..(MaxReconnects + 1),
           last_err' \in BOOLEAN, failures' \in 1..MaxReconnects => last_err',
           timer' \in {"off", "armed"}, connected' \in BOOLEAN,
           UNCHANGED <<netVars, sock, buffer, got>>
    PROVE  StreamInv'
<1>1. TypeOK /\ LossOnlyByReconnect
  BY DEF StreamInv
<1>2. live \in BOOLEAN
  BY <1>1, StreamTypes
<1>3. {connected', live'} \subseteq BOOLEAN
  BY <1>2 DEF netVars
<1>4. TypeOK'
  BY <1>1, <1>3 DEF TypeOK, ClientTypeOK, Completion, netVars
<1>5. ~Accepted'
  BY DEF Accepted
<1>6. OneCompletion' /\ Counted'
  BY QuietQueue DEF OneCompletion, Counted
<1>7. Attempt' /\ InOrder' /\ LossOnlyByReconnect'
  BY <1>1, <1>5 DEF Attempt, InOrder, LossOnlyByReconnect, Connecting
<1> QED
  BY <1>4, <1>6, <1>7 DEF StreamInv

\* Running the completion of the awaited operation.
LEMMA Completes ==
    ASSUME StreamInv, Completed("ok") \/ Completed("error"), ready' = Tail(ready)
    PROVE  ready' \in Seq(Completion) /\ Quiet(ready') /\ gen = "busy"
<1>1. TypeOK /\ OneCompletion
  BY DEF StreamInv
<1>2. ready \in Seq(Completion)
  BY <1>1, StreamTypes
<1>3. ready # <<>> /\ Head(ready) # "deadline" /\ op # "none"
  BY DEF Completed
<1>4. Tail(ready) \in Seq(Completion) /\ Quiet(Tail(ready))
  BY <1>1, <1>2, <1>3, QueueTail DEF OneCompletion
<1> QED
  BY <1>1, <1>3, <1>4 DEF TypeOK

\* The loop's condition after a failure.
LEMMA TryAgainKeeps ==
    ASSUME StreamInv, TryAgain, gen = "busy", Quiet(ready'), ready' \in Seq(Completion),
           last_err' \in BOOLEAN, last_err', connected' \in BOOLEAN, UNCHANGED got
    PROVE  StreamInv'
<1>1. failures \in Nat /\ failures <= MaxReconnects /\ MaxReconnects \in Nat
  BY StreamTypes DEF StreamInv, Counted
<1>2. failures' = failures + 1
  BY DEF TryAgain
<1>3. CASE failures' <= MaxReconnects /\ Connect /\ UNCHANGED gen
  <2>1. failures' \in 0..MaxReconnects /\ gen' = "busy"
    BY <1>1, <1>2, <1>3
  <2> QED
    BY <1>3, <2>1, ConnectKeeps
<1>4. CASE /\ gen' = "last" /\ op' = "none" /\ timer' = "off"
           /\ UNCHANGED <<netVars, sock, buffer>>
  <2>1. failures' \in 0..(MaxReconnects + 1)
    BY <1>1, <1>2
  <2> QED
    BY <1>4, <2>1, RestKeeps
<1> QED
  BY <1>3, <1>4 DEF TryAgain

LEMMA FailureKeeps == ASSUME StreamInv, ConnectFails \/ Closes PROVE StreamInv'
<1>1. ready' = Tail(ready) /\ TryAgain /\ UNCHANGED got /\ (Completed("ok") \/ Completed("error"))
  BY DEF ConnectFails, Closes, ConnectFailed, CloseDone
<1>2. ready' \in Seq(Completion) /\ Quiet(ready') /\ gen = "busy"
  BY <1>1, Completes
<1>3. connected' \in BOOLEAN
  BY StreamTypes DEF ConnectFails, Closes, StreamInv
<1>4. last_err' /\ last_err' \in BOOLEAN
  <2>1. CASE ConnectFails
    BY <2>1 DEF ConnectFails
  <2>2. CASE Closes
    <3>1. op = "close" /\ last_err' = last_err
      BY <2>2 DEF Closes, CloseDone
    <3>2. last_err /\ last_err \in BOOLEAN
      BY <3>1, StreamTypes DEF StreamInv, Counted
    <3> QED
      BY <3>1, <3>2
  <2> QED
    BY <2>1, <2>2
<1> QED
  BY <1>1, <1>2, <1>3, <1>4, TryAgainKeeps

LEMMA SubscribeKeeps == ASSUME StreamInv, Subscribe PROVE StreamInv'
<1>1. Connect /\ gen' = "busy" /\ failures' = 0 /\ UNCHANGED <<ready, connected, got>>
  BY DEF Subscribe
<1>2. last_err' \in BOOLEAN
  BY DEF Subscribe
<1>3. op = "none"
  BY DEF Subscribe, StreamInv, TypeOK
<1>4. Quiet(ready') /\ ready' \in Seq(Completion) /\ connected' \in BOOLEAN
  BY <1>1, <1>3, StreamTypes DEF StreamInv, OneCompletion
<1>5. failures' \in 0..MaxReconnects
  BY <1>1, ReconnectAssumption
<1> QED
  BY <1>1, <1>2, <1>4, <1>5, ConnectKeeps

\* The connection is made, step by step, up to the first read.
LEMMA ConnectsKeeps == ASSUME StreamInv, Connects PROVE StreamInv'
<1>1. TypeOK /\ OneCompletion /\ Counted /\ Attempt /\ InOrder /\ LossOnlyByReconnect
  BY DEF StreamInv
<1>2. /\ conn \in Nat /\ sent \in Nat /\ live \in BOOLEAN /\ connected \in BOOLEAN
      /\ wire \in Seq(1..sent) /\ buffer \in Seq(1..sent)
      /\ failures \in Nat /\ MaxReconnects \in Nat
  BY <1>1, StreamTypes
<1>3. Completed("ok") /\ ready' = Tail(ready)
  BY DEF Connects, ConnectStep, ConnectDone
<1>4. ready' \in Seq(Completion) /\ Quiet(ready') /\ gen = "busy"
  BY <1>3, Completes
<1>5. One(ready') /\ ~HasOk(ready')
  BY <1>4, QuietQueue
<1>6. UNCHANGED <<conn, live, sent, wire, gen, last_err, got>>
  BY DEF Connects, ConnectStep, ConnectDone, netVars
<1>7. CASE ConnectStep /\ UNCHANGED failures
  <2>1. /\ op \in {"resolve", "tcp", "tls"} /\ op' \in {"tcp", "tls", "upgrade"}
        /\ sock' \in {sock, "open"} /\ UNCHANGED <<timer, connected, buffer>>
    BY <1>7 DEF ConnectStep
  <2>2. TypeOK'
    BY <1>1, <1>4, <1>6, <1>7, <2>1 DEF TypeOK, ClientTypeOK, Completion, Connecting
  <2>3. ~Accepted /\ ~Accepted'
    BY <1>4, <1>5, <1>6, <2>1 DEF Accepted, Answered
  <2>4. OneCompletion' /\ Counted'
    BY <1>1, <1>4, <1>5, <1>6, <1>7, <2>1 DEF OneCompletion, Counted
  <2>5. Attempt' /\ InOrder' /\ LossOnlyByReconnect'
    BY <1>1, <1>6, <2>1, <2>3 DEF Attempt, InOrder, LossOnlyByReconnect, Connecting
  <2> QED
    BY <2>2, <2>4, <2>5 DEF StreamInv
<1>8. CASE ConnectDone /\ failures' = 0
  <2>1. /\ op = "upgrade" /\ op' = "read" /\ buffer' = <<>> /\ timer' = "off"
        /\ UNCHANGED sock
    BY <1>8 DEF ConnectDone
  <2>2. connected' \in BOOLEAN
    BY <1>8 DEF ConnectDone
  <2>3. {connected', live'} \subseteq BOOLEAN /\ {wire', buffer'} \subseteq Seq(1..sent')
    BY <1>2, <1>6, <2>1, <2>2, EmptySeq
  <2>4. Len(buffer') <= 1
    BY <2>1
  <2>5. TypeOK'
    BY <1>1, <1>2, <1>4, <1>6, <1>8, <2>1, <2>3, <2>4
    DEF TypeOK, ClientTypeOK, Completion, Connecting
  <2>6. Accepted
    <3>1. ready \in Seq(Completion) /\ ready # <<>> /\ Head(ready) = "ok"
      BY <1>1, <1>3, StreamTypes DEF Completed
    <3>2. 1 \in DOMAIN ready /\ ready[1] = "ok"
      BY <3>1
    <3> QED
      BY <2>1, <3>2 DEF Accepted, Answered, HasOk
  <2>7. OneCompletion' /\ Counted'
    BY <1>2, <1>5, <1>8, <2>1 DEF OneCompletion, Counted
  <2>8. Attempt'
    BY <1>1, <1>5, <1>6, <2>1, <2>6 DEF Attempt, Answered, Connecting
  <2>9. /\ \A i \in 1..(Len(wire) - 1) : wire[i + 1] = wire[i] + 1
        /\ live /\ wire # <<>> => wire[Len(wire)] = sent
        /\ live \/ wire # <<>> => Follows(NextFrame)
    BY <1>1, <2>1, <2>6 DEF InOrder
  <2>10. InOrder' /\ LossOnlyByReconnect'
    <3>1. live' \/ wire' # <<>> => Follows(NextFrame)'
      BY <1>6, <2>9 DEF Follows, NextFrame
    <3>2. InOrder'
      BY <1>6, <2>1, <2>9, <3>1 DEF InOrder
    <3> QED
      BY <1>1, <1>6, <3>2 DEF LossOnlyByReconnect
  <2> QED
    BY <2>5, <2>7, <2>8, <2>10 DEF StreamInv
<1> QED
  BY <1>7, <1>8 DEF Connects

\* The read that has brought a frame: it is yielded, and follows what was.
LEMMA YieldEventKeeps == ASSUME StreamInv, YieldEvent PROVE StreamInv'
<1>1. TypeOK /\ OneCompletion /\ Counted /\ Attempt /\ InOrder /\ LossOnlyByReconnect
  BY DEF StreamInv
<1>2. /\ conn \in Nat /\ sent \in Nat /\ ready \in Seq(Completion)
      /\ wire \in Seq(1..sent) /\ buffer \in Seq(1..sent)
      /\ got \in Seq([conn : 1..conn, id : 1..sent])
  BY <1>1, StreamTypes
<1>3. /\ op = "read" /\ op' = "none" /\ Completed("ok") /\ ready' = Tail(ready)
      /\ gen' = "event" /\ got' = Append(got, [conn |-> conn, id |-> Head(buffer)])
      /\ UNCHANGED <<conn, live, sent, wire, timer, sock, connected, buffer, failures, last_err>>
  BY DEF YieldEvent, ReadDone, netVars
<1>4. ready' \in Seq(Completion) /\ Quiet(ready') /\ gen = "busy"
  BY <1>3, Completes
<1>5. One(ready') /\ ~HasOk(ready')
  BY <1>4, QuietQueue
<1>6. Answered
  <2>1. 1 \in DOMAIN ready /\ ready[1] = "ok"
    BY <1>2, <1>3 DEF Completed
  <2> QED
    BY <2>1 DEF Answered, HasOk
<1>7. Accepted /\ buffer # <<>> /\ conn >= 1
  BY <1>1, <1>3, <1>6 DEF Attempt, Accepted
<1> DEFINE e == [conn |-> conn, id |-> buffer[1]]
<1>8. Head(buffer) = buffer[1] /\ buffer[1] \in 1..sent /\ conn \in 1..conn
  BY <1>2, <1>7
<1>9. e \in [conn : 1..conn, id : 1..sent] /\ e.conn = conn /\ e.id = buffer[1]
      /\ got' = Append(got, e)
  BY <1>3, <1>8
<1> HIDE DEF e
<1>10. /\ got' \in Seq([conn : 1..conn, id : 1..sent]) /\ got' # <<>>
       /\ Len(got') = Len(got) + 1 /\ got'[Len(got) + 1] = e
       /\ \A i \in 1..Len(got) : got'[i] = got[i]
       /\ Len(got) \in Nat
  <2> DEFINE R == [conn : 1..conn, id : 1..sent]
  <2>1. got \in Seq(R) /\ e \in R
    BY <1>2, <1>9
  <2> HIDE DEF R
  <2>2. /\ got' \in Seq(R) /\ got' # <<>>
        /\ Len(got') = Len(got) + 1 /\ got'[Len(got) + 1] = e
        /\ \A i \in 1..Len(got) : got'[i] = got[i]
        /\ Len(got) \in Nat
    BY <1>9, <2>1
  <2> QED
    BY <2>2 DEF R
<1>11. TypeOK'
  BY <1>1, <1>3, <1>4, <1>10 DEF TypeOK, ClientTypeOK, Completion
<1>12. OneCompletion' /\ Counted'
  BY <1>1, <1>3, <1>4, <1>5 DEF OneCompletion, Counted
<1>13. Attempt'
  BY <1>3, <1>7 DEF Attempt, Connecting
<1>14. Follows(buffer[1]) /\ (live \/ wire # <<>> => NextFrame = buffer[1] + 1)
       /\ (\A i \in 1..(Len(wire) - 1) : wire[i + 1] = wire[i] + 1)
       /\ (live /\ wire # <<>> => wire[Len(wire)] = sent)
  BY <1>1, <1>3, <1>7 DEF InOrder
<1>15. LossOnlyByReconnect'
  <2> SUFFICES ASSUME NEW i \in 1..Len(got)
               PROVE  /\ got'[i].id < got'[i + 1].id
                      /\ got'[i].conn = got'[i + 1].conn => got'[i + 1].id = got'[i].id + 1
    BY <1>10 DEF LossOnlyByReconnect
  <2>1. CASE i = Len(got)
    <3>1. got # <<>>
      BY <2>1, EmptySeq
    <3>2. got'[i] = got[Len(got)] /\ got'[i + 1] = e
      BY <1>10, <2>1
    <3> QED
      BY <1>9, <1>14, <3>1, <3>2 DEF Follows
  <2>2. CASE i # Len(got)
    <3>1. i \in 1..(Len(got) - 1) /\ got'[i] = got[i] /\ got'[i + 1] = got[i + 1]
      BY <1>10, <2>2
    <3> QED
      BY <1>1, <3>1 DEF LossOnlyByReconnect
  <2> QED
    BY <2>1, <2>2
<1>16. InOrder'
  <2>1. live' \/ wire' # <<>> => Follows(NextFrame)'
    <3>1. NextFrame' = NextFrame
      BY <1>3 DEF NextFrame
    <3>2. got'[Len(got')].id = buffer[1] /\ got'[Len(got')].conn = conn
      BY <1>9, <1>10
    <3>3. buffer[1] \in Nat /\ buffer[1] < buffer[1] + 1
      BY <1>2, <1>8
    <3> QED
      BY <1>3, <1>14, <3>1, <3>2, <3>3 DEF Follows
  <2> QED
    BY <1>3, <1>14, <2>1 DEF InOrder
<1> QED
  BY <1>11, <1>12, <1>13, <1>15, <1>16 DEF StreamInv

\* The generator's other steps: an error is yielded, a read fails, and the
\* consumer goes on.
LEMMA OthersKeep ==
    ASSUME StreamInv, YieldJsonError \/ ReadFails \/ ResumeRead
                          \/ ResumeAfterJson \/ ResumeAfterLast
    PROVE  StreamInv'
<1>1. TypeOK /\ OneCompletion /\ Counted /\ Attempt /\ InOrder /\ LossOnlyByReconnect
  BY DEF StreamInv
<1>2. /\ conn \in Nat /\ sent \in Nat /\ live \in BOOLEAN /\ connected \in BOOLEAN
      /\ last_err \in BOOLEAN /\ failures \in Nat /\ MaxReconnects \in Nat
      /\ wire \in Seq(1..sent) /\ buffer \in Seq(1..sent) /\ ready \in Seq(Completion)
  BY <1>1, StreamTypes
<1>3. CASE YieldJsonError
  <2>1. /\ op' = "none" /\ Completed("ok") /\ ready' = Tail(ready) /\ gen' = "json"
        /\ UNCHANGED <<netVars, timer, sock, connected, buffer, failures, last_err, got>>
    BY <1>3 DEF YieldJsonError, ReadDone
  <2>2. ready' \in Seq(Completion) /\ Quiet(ready')
    BY <2>1, Completes
  <2>3. /\ failures' \in 0..(MaxReconnects + 1) /\ timer' \in {"off", "armed"}
        /\ failures' \in 1..MaxReconnects => last_err'
    BY <1>1, <2>1 DEF TypeOK, ClientTypeOK
  <2> QED
    BY <1>2, <2>1, <2>2, <2>3, RestKeeps
<1>4. CASE ReadFails
  <2>1. /\ op = "read" /\ op' = "close" /\ Completed("error") /\ ready' = Tail(ready)
        /\ UNCHANGED <<conn, live, sent, wire, timer, sock, connected, buffer, gen, failures, got>>
    BY <1>4 DEF ReadFails, ReadFailed, netVars
  <2>2. last_err' /\ last_err' \in BOOLEAN
    BY <1>4 DEF ReadFails
  <2>3. ready' \in Seq(Completion) /\ Quiet(ready') /\ gen = "busy"
    BY <2>1, Completes
  <2>4. TypeOK'
    BY <1>1, <2>1, <2>2, <2>3 DEF TypeOK, ClientTypeOK, Completion
  <2>5. Accepted /\ ~Accepted'
    BY <2>1, <2>3 DEF Accepted
  <2>6. OneCompletion' /\ Counted'
    BY <1>1, <2>1, <2>2, <2>3, QuietQueue DEF OneCompletion, Counted
  <2>7. Attempt' /\ InOrder' /\ LossOnlyByReconnect'
    BY <1>1, <2>1, <2>5 DEF Attempt, InOrder, LossOnlyByReconnect, Connecting
  <2> QED
    BY <2>4, <2>6, <2>7 DEF StreamInv
<1>5. CASE ResumeRead
  <2>1. /\ gen = "event" /\ gen' = "busy" /\ op' = "read" /\ buffer' = <<>>
        /\ UNCHANGED <<conn, live, sent, wire, ready, timer, sock, connected, failures, last_err, got>>
    BY <1>5 DEF ResumeRead, Read, netVars
  <2>2. op = "none" /\ Accepted /\ ~Answered
    <3>1. op = "none" /\ Accepted
      BY <1>1, <2>1 DEF TypeOK, Accepted
    <3>2. Quiet(ready)
      BY <1>1, <3>1 DEF OneCompletion
    <3> QED
      BY <3>1, <3>2, QuietQueue DEF Answered
  <2>3. {connected', live'} \subseteq BOOLEAN /\ {wire', buffer'} \subseteq Seq(1..sent')
        /\ Len(buffer') <= 1
    BY <1>2, <2>1, EmptySeq
  <2>4. TypeOK'
    BY <1>1, <2>1, <2>3 DEF TypeOK, ClientTypeOK
  <2>5. OneCompletion' /\ Counted' /\ LossOnlyByReconnect'
    BY <1>1, <2>1 DEF OneCompletion, Counted, LossOnlyByReconnect
  <2>6. Attempt'
    BY <1>1, <2>1, <2>2 DEF Attempt, Answered, Connecting
  <2>7. /\ \A i \in 1..(Len(wire) - 1) : wire[i + 1] = wire[i] + 1
        /\ live /\ wire # <<>> => wire[Len(wire)] = sent
        /\ live \/ wire # <<>> => Follows(NextFrame)
    BY <1>1, <2>2 DEF InOrder
  <2>8. InOrder'
    <3>1. live' \/ wire' # <<>> => Follows(NextFrame)'
      BY <2>1, <2>7 DEF Follows, NextFrame
    <3> QED
      BY <2>1, <2>7, <3>1 DEF InOrder
  <2> QED
    BY <2>4, <2>5, <2>6, <2>8 DEF StreamInv
<1>6. CASE ResumeAfterJson \/ ResumeAfterLast
  <2>1. /\ gen \in {"json", "last"} /\ gen' \in {"last", "ended"}
        /\ failures' \in {failures, MaxReconnects + 1}
        /\ UNCHANGED <<netVars, op, ready, timer, sock, connected, buffer, last_err, got>>
    BY <1>6 DEF ResumeAfterJson, ResumeAfterLast, wsVars, clientVars
  <2>2. op' = "none" /\ Quiet(ready') /\ timer' \in {"off", "armed"}
    BY <1>1, <2>1 DEF TypeOK, ClientTypeOK, OneCompletion
  <2>3. /\ failures' \in 0..(MaxReconnects + 1)
        /\ failures' \in 1..MaxReconnects => last_err'
    BY <1>1, <1>2, <2>1 DEF TypeOK
  <2> QED
    BY <1>2, <2>1, <2>2, <2>3, RestKeeps
<1> QED
  BY <1>3, <1>4, <1>5, <1>6

LEMMA StreamStep == StreamInv /\ [Next]_vars => StreamInv'
<1> SUFFICES ASSUME StreamInv, [Next]_vars PROVE StreamInv'
  OBVIOUS
<1>1. CASE Outside
  <2>1. UNCHANGED <<genVars, got>>
    BY <1>1 DEF Outside
  <2>2. NetworkOk \/ NetworkError \/ Drop \/ ServerSends \/ TimerExpires \/ RunDeadline
    BY <1>1 DEF Outside, Network
  <2> QED
    BY <2>1, <2>2, NetworkOkKeeps, LossKeeps, ServerKeeps, TimerKeeps, RunDeadlineKeeps
<1>2. CASE Subscribe
  BY <1>2, SubscribeKeeps
<1>3. CASE Generator
  BY <1>3, FailureKeeps, ConnectsKeeps, YieldEventKeeps, OthersKeep DEF Generator
<1>4. CASE ResumeRead \/ ResumeAfterJson \/ ResumeAfterLast
  BY <1>4, OthersKeep
<1>5. CASE UNCHANGED vars
  BY <1>5 DEF vars, wsVars, netVars, clientVars, genVars, StreamInv, TypeOK, ClientTypeOK,
     LossOnlyByReconnect, OneCompletion, Counted, Attempt, Accepted, Answered, InOrder,
     Follows, NextFrame
<1> QED
  BY <1>1, <1>2, <1>3, <1>4, <1>5 DEF Next

\* The generator is always at one of its places, its count of failures never
\* passes max_reconnects_ + 1, and what it has yielded are frames that were sent
\* on connections that were accepted.
THEOREM StreamTypeOK == Spec => []TypeOK
<1>1. Spec => []StreamInv
  BY StreamInit, StreamStep, PTL DEF Spec
<1>2. StreamInv => TypeOK
  BY DEF StreamInv
<1> QED
  BY <1>1, <1>2, PTL

\* "Yields events seamlessly across reconnects": whatever the network does, and
\* whenever the deadline of an earlier attempt runs, no frame is yielded twice
\* or out of order, and none is left out within a connection.
THEOREM LostOnlyByReconnect == Spec => []LossOnlyByReconnect
<1>1. Spec => []StreamInv
  BY StreamInit, StreamStep, PTL DEF Spec
<1>2. StreamInv => LossOnlyByReconnect
  BY DEF StreamInv
<1> QED
  BY <1>1, <1>2, PTL
=============================================================================
