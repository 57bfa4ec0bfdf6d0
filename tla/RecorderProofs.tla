-------------------------- MODULE RecorderProofs --------------------------
(***************************************************************************)
(* Proofs about the recorder program.  The selector and the detail monitor *)
(* are proved for any set of symbols, any scores and thresholds, and       *)
(* buffers of any size; the files for any set of feeds, any sizes of       *)
(* frames, segments and buffers, and any number of frames; the screener's  *)
(* aggregates for any inputs and rings of any size.                        *)
(***************************************************************************)
EXTENDS Recorder, StreamRecorder, SequenceTheorems, WellFoundedInduction, TLAPS

(***************************************************************************)
(* The selector.                                                           *)
(***************************************************************************)
\* below_since is set only for symbols the eviction rules look at, and then the
\* symbol has been quiet for the ticks since, the one that has set it included.
BelowIsQuiet ==
    \A s \in active :
        /\ s \in Mandatory \/ held[s] < MinHold => below[s] = NotBelow
        /\ below[s] # NotBelow => quiet[s] >= Older(below[s], Cooloff)

SelectorInv == SelectorTypeOK /\ Mandatory \subseteq active /\ BelowIsQuiet

(***************************************************************************)
(* The detail monitor.                                                     *)
(***************************************************************************)
\* The lists of a round and the symbol the manager is busy with.
Lists ==
    /\ to_add \cap subscribed = {} /\ to_remove \subseteq subscribed
    /\ to_remove \cap Mandatory = {}
    /\ manage \in {"snapshot", "pub", "mkt"} => cur \in to_add
    /\ manage \in {"unpub", "unmkt"} => cur \in to_remove /\ to_add = {}

\* Files are open exactly for the symbols that are subscribed, and for the one for
\* which requests are being written.
Files ==
    /\ manage \in {"pub", "mkt"} => sinks = subscribed \cup {cur}
    /\ manage \notin {"pub", "mkt", "threw"} => sinks = subscribed

\* What the two halves of a request have left behind.
Halves ==
    /\ manage = "mkt" /\ r_pub => cur \in asked["pub"]
    /\ manage = "mkt" /\ ~r_pub => ~up["pub"]
    /\ (\A c \in Conn : up[c]) =>
         /\ manage \notin {"mkt", "threw"} => \A c \in Conn : asked[c] \subseteq subscribed
         /\ manage = "unmkt" => cur \notin asked["pub"]

\* The inductive invariant.
DetailInv == SubscriptionsAgree /\ SelectorInv /\ Lists /\ Files /\ Halves
-----------------------------------------------------------------------------
\* An age grows up to its limit, and order is kept.
LEMMA OlderGrows ==
  ASSUME NEW limit \in Nat, NEW age \in 0..limit
  PROVE  /\ Older(age, limit) \in 0..limit /\ age <= Older(age, limit)
         /\ \A young \in 0..limit : young <= age => Older(young, limit) <= Older(age, limit)
         /\ Older(age, limit) >= Older(0, limit)
BY DEF Older

\* The types of the selector's variables and constants.
LEMMA SelectorTypes ==
  ASSUME SelectorTypeOK
  PROVE  /\ MinHold \in Nat /\ Cooloff \in Nat /\ RemoveScore \in Int /\ Score \subseteq Int
         /\ Mandatory \subseteq Symbol /\ active \subseteq Symbol
         /\ held \in [Symbol -> 0..MinHold] /\ quiet \in [Symbol -> 0..Cooloff]
         /\ below \in [Symbol -> {NotBelow} \cup 0..Cooloff]
BY SelectorAssumption DEF SelectorTypeOK

\* How long a symbol has been below the threshold is an age or nothing.
LEMMA BelowForType ==
  ASSUME SelectorTypeOK, NEW score \in [Symbol -> Score], NEW s \in Symbol
  PROVE  BelowFor(s, score) \in {NotBelow} \cup 0..Cooloff
<1>1. below[s] \in {NotBelow} \cup 0..Cooloff /\ Cooloff \in Nat
  BY SelectorTypes
<1>2. below[s] # NotBelow => Older(below[s], Cooloff) \in 0..Cooloff
  BY <1>1, OlderGrows
<1> QED BY <1>1, <1>2 DEF BelowFor

\* What a tick does to the set and, symbol by symbol, to the ages: who is evicted
\* was looked at and low, and who stays was not admitted again.
LEMMA TickOutcome ==
  ASSUME SelectorTypeOK, NEW known \in SUBSET Symbol, NEW score \in [Symbol -> Score],
         tick(known, score)
  PROVE  \E new \in SUBSET Symbol :
           /\ active' = (active \ Evicted(score)) \cup new
           /\ new \cap (active \ Evicted(score)) = {}
           /\ held' = [s \in Symbol |-> IF s \in new THEN 0 ELSE Older(held[s], MinHold)]
           /\ below' = [s \in Symbol |-> IF s \in Evicted(score) \cup new THEN NotBelow
                                         ELSE BelowFor(s, score)]
           /\ quiet' = [s \in Symbol |-> IF s \in active \cap active' /\ score[s] < RemoveScore
                                         THEN Older(quiet[s], Cooloff) ELSE 0]
<1> DEFINE kept == active \ Evicted(score)
<1>1. PICK X \in Admits(kept, known, score) : \E Y \in Floor(kept \cup X, known, score) :
        /\ active' = kept \cup X \cup Y
        /\ held' = [s \in Symbol |-> IF s \in X \cup Y THEN 0 ELSE Older(held[s], MinHold)]
        /\ below' = [s \in Symbol |-> IF s \in Evicted(score) \cup X \cup Y THEN NotBelow
                                      ELSE BelowFor(s, score)]
        /\ quiet' = [s \in Symbol |-> IF s \in active \cap active' /\ score[s] < RemoveScore
                                      THEN Older(quiet[s], Cooloff) ELSE 0]
  BY DEF tick
<1>2. PICK Y \in Floor(kept \cup X, known, score) :
        /\ active' = kept \cup X \cup Y
        /\ held' = [s \in Symbol |-> IF s \in X \cup Y THEN 0 ELSE Older(held[s], MinHold)]
        /\ below' = [s \in Symbol |-> IF s \in Evicted(score) \cup X \cup Y THEN NotBelow
                                      ELSE BelowFor(s, score)]
        /\ quiet' = [s \in Symbol |-> IF s \in active \cap active' /\ score[s] < RemoveScore
                                      THEN Older(quiet[s], Cooloff) ELSE 0]
  BY <1>1
<1>3. X \subseteq known \ kept
  BY DEF Admits, Best
<1>4. Y \subseteq known \ kept
  BY DEF Floor, Best
<1> DEFINE new == X \cup Y
<1>5. new \in SUBSET Symbol /\ new \cap kept = {} /\ active' = kept \cup new
  BY <1>2, <1>3, <1>4
<1>6. /\ held' = [s \in Symbol |-> IF s \in new THEN 0 ELSE Older(held[s], MinHold)]
      /\ below' = [s \in Symbol |-> IF s \in Evicted(score) \cup new THEN NotBelow
                                    ELSE BelowFor(s, score)]
      /\ quiet' = [s \in Symbol |-> IF s \in active \cap active' /\ score[s] < RemoveScore
                                    THEN Older(quiet[s], Cooloff) ELSE 0]
  <2>1. Evicted(score) \cup X \cup Y = Evicted(score) \cup new
    OBVIOUS
  <2> QED BY <1>2, <2>1
<1> HIDE DEF new
<1> QED BY <1>5, <1>6

\* A tick keeps the invariant, and an eviction is earned.
LEMMA TickKeeps ==
  ASSUME SelectorInv, SelectorTick
  PROVE  /\ SelectorInv'
         /\ \A s \in active \ active' : held'[s] = MinHold /\ quiet[s] >= Cooloff
<1>1. SelectorTypeOK /\ Mandatory \subseteq active /\ BelowIsQuiet
  BY DEF SelectorInv
<1>2. PICK known \in SUBSET Symbol, score \in [Symbol -> Score] : tick(known, score)
  BY DEF SelectorTick
<1>3. PICK new \in SUBSET Symbol :
        /\ active' = (active \ Evicted(score)) \cup new
        /\ new \cap (active \ Evicted(score)) = {}
        /\ held' = [s \in Symbol |-> IF s \in new THEN 0 ELSE Older(held[s], MinHold)]
        /\ below' = [s \in Symbol |-> IF s \in Evicted(score) \cup new THEN NotBelow
                                      ELSE BelowFor(s, score)]
        /\ quiet' = [s \in Symbol |-> IF s \in active \cap active' /\ score[s] < RemoveScore
                                      THEN Older(quiet[s], Cooloff) ELSE 0]
  BY <1>1, <1>2, TickOutcome
<1>4. ASSUME NEW s \in Symbol
      PROVE  /\ MinHold \in Nat /\ held[s] \in 0..MinHold /\ Older(held[s], MinHold) \in 0..MinHold
             /\ held[s] <= Older(held[s], MinHold)
             /\ Cooloff \in Nat /\ quiet[s] \in 0..Cooloff /\ Older(quiet[s], Cooloff) \in 0..Cooloff
             /\ BelowFor(s, score) \in {NotBelow} \cup 0..Cooloff
             /\ score[s] \in Int /\ RemoveScore \in Int
  <2>1. /\ MinHold \in Nat /\ held[s] \in 0..MinHold /\ Cooloff \in Nat /\ quiet[s] \in 0..Cooloff
        /\ score[s] \in Int /\ RemoveScore \in Int
    BY <1>1, SelectorTypes
  <2> QED BY <1>1, <2>1, OlderGrows, BelowForType
<1>5. SelectorTypeOK'
  <2>1. active' \subseteq Symbol
    BY <1>1, <1>3, SelectorTypes
  <2>2. held' \in [Symbol -> 0..MinHold]
    BY <1>3, <1>4
  <2>3. below' \in [Symbol -> {NotBelow} \cup 0..Cooloff]
    BY <1>3, <1>4
  <2>4. quiet' \in [Symbol -> 0..Cooloff]
    BY <1>3, <1>4
  <2> QED BY <2>1, <2>2, <2>3, <2>4 DEF SelectorTypeOK
<1>6. Mandatory \subseteq active'
  BY <1>1, <1>3 DEF Evicted, Low, Eligible
<1>7. ASSUME NEW s \in active, s \in Evicted(score)
      PROVE  Older(held[s], MinHold) >= MinHold /\ quiet[s] >= Cooloff
  <2>0. s \in Symbol
    BY <1>1, SelectorTypes
  <2>1. s \in Eligible /\ s \in Low(score) /\ BelowFor(s, score) >= Cooloff
    BY <1>7 DEF Evicted, Low
  <2>2. Older(held[s], MinHold) >= MinHold
    BY <2>1 DEF Eligible
  <2>3. below[s] \in {NotBelow} \cup 0..Cooloff
    BY <1>1, <2>0, SelectorTypes
  <2>4. CASE below[s] = NotBelow
    <3>1. 0 >= Cooloff
      BY <2>1, <2>4 DEF BelowFor
    <3> QED BY <1>4, <2>0, <2>2, <3>1
  <2>5. CASE below[s] # NotBelow
    <3>1. Older(below[s], Cooloff) >= Cooloff
      BY <2>1, <2>5 DEF BelowFor
    <3>2. quiet[s] >= Older(below[s], Cooloff)
      BY <1>1, <2>5 DEF BelowIsQuiet
    <3>3. Older(below[s], Cooloff) \in 0..Cooloff
      BY <1>4, <2>0, <2>3, <2>5, OlderGrows
    <3> QED BY <1>4, <2>0, <2>2, <3>1, <3>2, <3>3
  <2> QED BY <2>4, <2>5
<1>8. ASSUME NEW s \in active \ active'
      PROVE  held'[s] = MinHold /\ quiet[s] >= Cooloff
  <2>1. s \in Symbol /\ s \in Evicted(score) /\ s \notin new
    BY <1>1, <1>3, SelectorTypes
  <2>2. held'[s] = Older(held[s], MinHold)
    BY <1>3, <2>1
  <2> QED BY <1>4, <1>7, <2>1, <2>2
<1>9. BelowIsQuiet'
  <2> SUFFICES ASSUME NEW s \in active'
               PROVE  /\ s \in Mandatory \/ held'[s] < MinHold => below'[s] = NotBelow
                      /\ below'[s] # NotBelow => quiet'[s] >= Older(below'[s], Cooloff)
    BY DEF BelowIsQuiet
  <2>0. s \in Symbol
    BY <1>5 DEF SelectorTypeOK
  <2>1. CASE s \in new
    BY <1>3, <2>0, <2>1
  <2>2. CASE s \notin new
    <3>1. s \in active /\ s \notin Evicted(score)
      BY <1>3, <2>2
    <3>2. /\ held'[s] = Older(held[s], MinHold) /\ below'[s] = BelowFor(s, score)
          /\ quiet'[s] = IF score[s] < RemoveScore THEN Older(quiet[s], Cooloff) ELSE 0
      BY <1>3, <2>0, <2>2, <3>1
    <3>3. CASE s \notin Eligible
      <4>1. s \in Mandatory \/ ~(Older(held[s], MinHold) >= MinHold)
        BY <3>1, <3>3 DEF Eligible
      <4>2. s \in Mandatory \/ held[s] < MinHold
        BY <1>4, <2>0, <4>1
      <4>3. below[s] = NotBelow
        BY <1>1, <3>1, <4>2 DEF BelowIsQuiet
      <4> QED BY <3>2, <3>3, <4>3 DEF BelowFor
    <3>4. CASE s \in Eligible /\ s \notin Low(score)
      BY <3>2, <3>4 DEF BelowFor
    <3>5. CASE s \in Eligible /\ s \in Low(score)
      <4>1. /\ s \notin Mandatory /\ Older(held[s], MinHold) >= MinHold /\ score[s] < RemoveScore
        BY <3>5 DEF Eligible, Low
      <4>2. ~(s \in Mandatory \/ held'[s] < MinHold)
        BY <1>4, <2>0, <3>2, <4>1
      <4>3. quiet'[s] = Older(quiet[s], Cooloff)
        BY <3>2, <4>1
      <4>4. below[s] \in {NotBelow} \cup 0..Cooloff /\ Cooloff \in Nat /\ quiet[s] \in 0..Cooloff
        BY <1>1, <2>0, SelectorTypes
      <4>5. CASE below[s] = NotBelow
        <5>1. below'[s] = 0
          BY <3>2, <3>5, <4>5 DEF BelowFor
        <5> QED BY <4>2, <4>3, <4>4, <5>1, OlderGrows
      <4>6. CASE below[s] # NotBelow
        <5>1. below'[s] = Older(below[s], Cooloff)
          BY <3>2, <3>5, <4>6 DEF BelowFor
        <5>2. below[s] \in 0..Cooloff /\ Older(below[s], Cooloff) \in 0..Cooloff
          BY <4>4, <4>6, OlderGrows
        <5>3. Older(below[s], Cooloff) <= quiet[s]
          BY <1>1, <3>1, <4>4, <4>6, <5>2 DEF BelowIsQuiet
        <5>4. Older(Older(below[s], Cooloff), Cooloff) <= Older(quiet[s], Cooloff)
          BY <4>4, <5>2, <5>3, OlderGrows
        <5>5. /\ Older(quiet[s], Cooloff) \in 0..Cooloff
              /\ Older(Older(below[s], Cooloff), Cooloff) \in 0..Cooloff
          BY <4>4, <5>2, OlderGrows
        <5> QED BY <4>2, <4>3, <5>1, <5>4, <5>5
      <4> QED BY <4>5, <4>6
    <3> QED BY <3>3, <3>4, <3>5
  <2> QED BY <2>1, <2>2
<1> QED BY <1>5, <1>6, <1>8, <1>9 DEF SelectorInv
-----------------------------------------------------------------------------
Awaits == {"timer", "snapshot", "pub", "mkt", "unpub", "unmkt", "resnap", "threw"}

\* The types of the detail monitor's variables, one by one.
LEMMA DetailTypes ==
  ASSUME DetailInv
  PROVE  /\ manage \in Awaits /\ cur \in Symbol \cup {NoOne}
         /\ to_add \subseteq Symbol /\ to_remove \subseteq Symbol
         /\ r_pub \in BOOLEAN /\ torn \in BOOLEAN
         /\ sinks \subseteq Symbol /\ subscribed \subseteq Symbol
         /\ asked \in [Conn -> SUBSET Symbol] /\ up \in [Conn -> BOOLEAN]
         /\ record_buf \in Seq(Symbol) /\ Len(record_buf) <= Capacity
         /\ writing \in Symbol \cup {NoOne}
<1>1. TypeOK
  BY DEF DetailInv, SubscriptionsAgree
<1>2. r_pub \in BOOLEAN /\ torn \in BOOLEAN
  BY <1>1, Zenon DEF TypeOK
<1> QED BY <1>1, <1>2 DEF TypeOK, Awaits

\* The conjuncts that a step of the manager has to establish.
Agrees ==
    /\ FilesFollowSubscriptions /\ AskedOnBoth /\ NoOrphans
    /\ Lists /\ Files /\ Halves

ManageTypes ==
    /\ manage \in Awaits /\ cur \in Symbol \cup {NoOne}
    /\ to_add \subseteq Symbol /\ to_remove \subseteq Symbol /\ r_pub \in BOOLEAN
    /\ sinks \subseteq Symbol /\ subscribed \subseteq Symbol
    /\ asked \in [Conn -> SUBSET Symbol]

\* The invariant from the parts that different steps change.
LEMMA InParts ==
  ASSUME SelectorInv', Agrees', ManageTypes', up' \in [Conn -> BOOLEAN], torn' \in BOOLEAN,
         record_buf' \in Seq(Symbol), Len(record_buf') <= Capacity,
         writing' \in Symbol \cup {NoOne}
  PROVE  DetailInv'
<1>1. TypeOK'
  <2>1. {r_pub', torn'} \subseteq BOOLEAN
    BY Zenon DEF ManageTypes
  <2> QED BY <2>1 DEF TypeOK, ManageTypes, Awaits, SelectorInv
<1> QED BY <1>1 DEF DetailInv, SubscriptionsAgree, Agrees

\* Steps of the others: they change nothing the manager has, only that a connection
\* may be lost or the monitor may end.
LEMMA OthersKeep ==
  ASSUME DetailInv, UNCHANGED <<cur, to_add, to_remove, r_pub, sinks, subscribed, asked>>,
         manage' \in {manage, "threw"}, up' \in [Conn -> BOOLEAN],
         \A c \in Conn : up'[c] => up[c]
  PROVE  Agrees' /\ ManageTypes'
<1>1. Agrees /\ ManageTypes
  BY DetailTypes DEF DetailInv, SubscriptionsAgree, Agrees, ManageTypes
<1>2. (\A c \in Conn : up'[c]) => \A c \in Conn : up[c]
  OBVIOUS
<1>3. "pub" \in Conn
  BY DEF Conn
<1>4. ManageTypes'
  BY <1>1 DEF ManageTypes, Awaits
<1>5. FilesFollowSubscriptions' /\ Lists' /\ Files'
  BY <1>1 DEF Agrees, FilesFollowSubscriptions, Lists, Files
<1>6. AskedOnBoth' /\ NoOrphans'
  BY <1>1, <1>2 DEF Agrees, AskedOnBoth, NoOrphans
<1>7. Halves'
  BY <1>1, <1>2, <1>3 DEF Agrees, Halves
<1> QED BY <1>4, <1>5, <1>6, <1>7 DEF Agrees

\* The exchange, the read loops, drain_loop and the selector.
LEMMA OtherSteps ==
  ASSUME DetailInv,
         connection_read_loop \/ Drop \/ Drain \/ Written \/ WrittenTorn \/ DrainThrows \/ Select
  PROVE  DetailInv'
<1> USE DEF manageVars, drainVars
<1>1. /\ up \in [Conn -> BOOLEAN] /\ torn \in BOOLEAN /\ asked \in [Conn -> SUBSET Symbol]
      /\ record_buf \in Seq(Symbol) /\ Len(record_buf) <= Capacity
      /\ writing \in Symbol \cup {NoOne} /\ SelectorInv
  BY DetailTypes DEF DetailInv
<1>2. UNCHANGED selectorVars => SelectorInv'
  BY <1>1 DEF SelectorInv, SelectorTypeOK, BelowIsQuiet, selectorVars
<1>3. CASE connection_read_loop
  <2>1. /\ UNCHANGED <<manage, cur, to_add, to_remove, r_pub, sinks, subscribed, asked, up,
                       writing, torn, selectorVars>>
    BY <1>3 DEF connection_read_loop
  <2>2. record_buf' \in Seq(Symbol) /\ Len(record_buf') <= Capacity
    <3>1. PICK c \in Conn : \E x \in asked[c] :
             Len(record_buf) < Capacity /\ record_buf' = Append(record_buf, x)
      BY <1>3 DEF connection_read_loop
    <3>2. PICK x \in asked[c] : Len(record_buf) < Capacity /\ record_buf' = Append(record_buf, x)
      BY <3>1
    <3>3. x \in Symbol /\ Len(record_buf) \in Nat
      BY <1>1, LenProperties
    <3> QED BY <1>1, <3>2, <3>3, AppendProperties, DetailAssumption
  <2>3. Agrees' /\ ManageTypes'
    BY <1>1, <2>1, OthersKeep
  <2> QED BY <1>1, <1>2, <2>1, <2>2, <2>3, InParts
<1>4. CASE Drop
  <2>1. UNCHANGED <<manage, cur, to_add, to_remove, r_pub, sinks, subscribed, asked,
                    record_buf, writing, torn, selectorVars>>
    BY <1>4 DEF Drop
  <2>2. up' \in [Conn -> BOOLEAN]
    BY <1>1, <1>4 DEF Drop
  <2>3. \A c \in Conn : up'[c] => up[c]
    BY <1>1, <1>4 DEF Drop
  <2>4. Agrees' /\ ManageTypes'
    BY <2>1, <2>2, <2>3, OthersKeep
  <2> QED BY <1>1, <1>2, <2>1, <2>2, <2>4, InParts
<1>5. CASE Drain
  <2>1. UNCHANGED <<manage, cur, to_add, to_remove, r_pub, sinks, subscribed, asked, up,
                    torn, selectorVars>>
    BY <1>5 DEF Drain
  <2>2. /\ record_buf' \in Seq(Symbol) /\ Len(record_buf') <= Capacity
        /\ writing' \in Symbol \cup {NoOne}
    <3>1. Len(record_buf) \in Nat /\ record_buf # <<>>
      BY <1>1, <1>5, LenProperties DEF Drain
    <3>2. Head(record_buf) \in Symbol /\ Tail(record_buf) \in Seq(Symbol)
          /\ Len(Tail(record_buf)) = Len(record_buf) - 1
      BY <1>1, <3>1, HeadTailProperties
    <3> QED BY <1>1, <1>5, <3>1, <3>2, DetailAssumption DEF Drain
  <2>3. Agrees' /\ ManageTypes'
    BY <1>1, <2>1, OthersKeep
  <2> QED BY <1>1, <1>2, <2>1, <2>2, <2>3, InParts
<1>6. CASE Written \/ WrittenTorn \/ DrainThrows
  <2>1. /\ UNCHANGED <<cur, to_add, to_remove, r_pub, sinks, subscribed, asked, up,
                       record_buf, selectorVars>>
        /\ manage' \in {manage, "threw"} /\ writing' = NoOne
    BY <1>6 DEF Written, WrittenTorn, DrainThrows
  <2>2. torn' \in BOOLEAN
    BY <1>1, <1>6 DEF Written, WrittenTorn, DrainThrows
  <2>3. Agrees' /\ ManageTypes'
    BY <1>1, <2>1, OthersKeep
  <2> QED BY <1>1, <1>2, <2>1, <2>2, <2>3, InParts
<1>7. CASE Select
  <2>1. /\ UNCHANGED <<manage, cur, to_add, to_remove, r_pub, sinks, subscribed, asked, up,
                       record_buf, writing, torn>>
    BY <1>7 DEF Select
  <2>2. SelectorInv'
    BY <1>1, <1>7, TickKeeps DEF Select
  <2>3. Agrees' /\ ManageTypes'
    BY <1>1, <2>1, OthersKeep
  <2> QED BY <1>1, <2>1, <2>2, <2>3, InParts
<1> QED BY <1>3, <1>4, <1>5, <1>6, <1>7

-----------------------------------------------------------------------------
\* Where the manager goes on: if files and subscriptions agree, everything is asked
\* for on both connections, and the lists are what is left of the difference.
LEMMA OnwardAgrees ==
  ASSUME NEW adds, NEW removes, Onward(adds, removes),
         adds \subseteq Symbol, removes \subseteq Symbol, subscribed' \subseteq Symbol,
         asked' \in [Conn -> SUBSET Symbol],
         adds \cap subscribed' = {}, removes \subseteq subscribed', removes \cap Mandatory = {},
         sinks' = subscribed', \A c \in Conn : subscribed' \subseteq asked'[c],
         (\A c \in Conn : up'[c]) => \A c \in Conn : asked'[c] \subseteq subscribed'
  PROVE  Agrees' /\ ManageTypes'
<1>1. /\ to_add' = adds /\ to_remove' = removes
      /\ \/ adds # {} /\ manage' = "snapshot" /\ cur' \in adds
         \/ adds = {} /\ removes # {} /\ manage' = "unpub" /\ cur' \in removes
         \/ /\ adds = {} /\ removes = {} /\ cur' = NoOne
            /\ manage' \in {"resnap", "timer"}
  BY DEF Onward
<1>2. r_pub' \in BOOLEAN
  BY DEF Onward
<1>3. ManageTypes'
  BY <1>1, <1>2 DEF ManageTypes, Awaits
<1>4. FilesFollowSubscriptions' /\ Files'
  BY <1>1 DEF FilesFollowSubscriptions, Files
<1>5. AskedOnBoth' /\ NoOrphans'
  BY <1>1 DEF AskedOnBoth, NoOrphans
<1>6. Lists' /\ Halves'
  BY <1>1 DEF Lists, Halves
<1> QED BY <1>3, <1>4, <1>5, <1>6 DEF Agrees

\* A request on a connection: written, or the connection is down and it may be not.
LEMMA Requested ==
  ASSUME DetailInv, NEW c \in Conn, NEW ok \in BOOLEAN, NEW symbols \in SUBSET Symbol,
         Write(c, ok, symbols)
  PROVE  /\ asked' \in [Conn -> SUBSET Symbol] /\ (ok \/ ~up[c])
         /\ ok => asked'[c] = symbols
         /\ ~ok => asked' = asked
         /\ \A d \in Conn : d # c => asked'[d] = asked[d]
<1>1. asked \in [Conn -> SUBSET Symbol]
  BY DetailTypes
<1>2. (ok \/ ~up[c]) /\ asked' = IF ok THEN [asked EXCEPT ![c] = symbols] ELSE asked
  BY DEF Write
<1> QED BY <1>1, <1>2
\* The manager's steps that end in a new round or in the next symbol.
LEMMA TimerKeeps ==
  ASSUME DetailInv, Timer
  PROVE  Agrees' /\ ManageTypes'
<1>1. /\ manage = "timer" /\ UNCHANGED <<sinks, subscribed, asked, up>>
      /\ Onward(active \ subscribed, subscribed \ active)
  BY DEF Timer
<1>2. /\ subscribed \subseteq Symbol /\ asked \in [Conn -> SUBSET Symbol] /\ active \subseteq Symbol
      /\ Mandatory \subseteq active
  BY DetailTypes DEF DetailInv, SelectorInv, SelectorTypeOK
<1>3. sinks = subscribed /\ \A c \in Conn : subscribed \subseteq asked[c]
  BY <1>1 DEF DetailInv, Files, SubscriptionsAgree, AskedOnBoth
<1>4. (\A c \in Conn : up[c]) => \A c \in Conn : asked[c] \subseteq subscribed
  BY <1>1 DEF DetailInv, Halves
<1> DEFINE adds == active \ subscribed
           removes == subscribed \ active
<1>5. /\ adds \subseteq Symbol /\ removes \subseteq Symbol /\ Onward(adds, removes)
      /\ adds \cap subscribed' = {} /\ removes \subseteq subscribed' /\ removes \cap Mandatory = {}
  BY <1>1, <1>2
<1> HIDE DEF adds, removes
<1> QED BY <1>1, <1>2, <1>3, <1>4, <1>5, OnwardAgrees

\* The second half of a subscription keeps the invariant.
LEMMA SubscribeMktKeeps ==
  ASSUME DetailInv, SubscribeMkt
  PROVE  Agrees' /\ ManageTypes' /\ Mandatory \cap subscribed \subseteq subscribed'
<1>1. PICK ok \in BOOLEAN :
        /\ async_subscribe("mkt", ok)
        /\ \/ /\ r_pub /\ ok
              /\ subscribed' = subscribed \cup {cur}
              /\ UNCHANGED <<sinks, torn>>
           \/ ~(r_pub /\ ok) /\ EraseSinks /\ UNCHANGED subscribed
  BY DEF SubscribeMkt
<1>2. manage = "mkt" /\ Onward(to_add \ {cur}, to_remove) /\ up' = up
  BY DEF SubscribeMkt
<1>3. /\ to_add \subseteq Symbol /\ to_remove \subseteq Symbol /\ r_pub \in BOOLEAN
      /\ subscribed \subseteq Symbol /\ asked \in [Conn -> SUBSET Symbol]
  BY DetailTypes
<1>4. /\ to_add \cap subscribed = {} /\ to_remove \subseteq subscribed
      /\ to_remove \cap Mandatory = {} /\ cur \in to_add
      /\ sinks = subscribed \cup {cur}
      /\ r_pub => cur \in asked["pub"]
      /\ ~r_pub => ~up["pub"]
      /\ \A c \in Conn : subscribed \subseteq asked[c]
      /\ (\A c \in Conn : up[c]) => \A c \in Conn : asked[c] \subseteq subscribed \cup {cur}
  BY <1>2 DEF DetailInv, Lists, Files, Halves, SubscriptionsAgree, AskedOnBoth, NoOrphans
<1>5. cur \in Symbol /\ {"pub", "mkt"} \subseteq Conn /\ asked["mkt"] \cup {cur} \in SUBSET Symbol
  BY <1>3, <1>4 DEF Conn
<1>6. /\ asked' \in [Conn -> SUBSET Symbol] /\ (ok \/ ~up["mkt"])
      /\ ok => asked'["mkt"] = asked["mkt"] \cup {cur}
      /\ ~ok => asked' = asked
      /\ \A d \in Conn : d # "mkt" => asked'[d] = asked[d]
  BY <1>1, <1>5, Requested DEF async_subscribe
<1>7. /\ subscribed' \subseteq Symbol /\ sinks' = subscribed'
      /\ (to_add \ {cur}) \cap subscribed' = {} /\ to_remove \subseteq subscribed'
  BY <1>1, <1>3, <1>4, <1>5 DEF EraseSinks
<1>8. \A c \in Conn : subscribed' \subseteq asked'[c]
  BY <1>1, <1>4, <1>5, <1>6 DEF Conn
<1>9. (\A c \in Conn : up'[c]) => \A c \in Conn : asked'[c] \subseteq subscribed'
  <2> SUFFICES ASSUME \A c \in Conn : up[c] PROVE \A c \in Conn : asked'[c] \subseteq subscribed'
    BY <1>2
  <2>1. ok /\ r_pub
    BY <1>4, <1>5, <1>6
  <2>2. subscribed' = subscribed \cup {cur}
    BY <1>1, <2>1
  <2> QED BY <1>4, <1>6, <2>1, <2>2
<1> DEFINE adds == to_add \ {cur}
<1>10. /\ adds \subseteq Symbol /\ Onward(adds, to_remove) /\ adds \cap subscribed' = {}
  BY <1>2, <1>3, <1>7
<1> HIDE DEF adds
<1>11. Agrees' /\ ManageTypes'
  BY <1>3, <1>4, <1>6, <1>7, <1>8, <1>9, <1>10, OnwardAgrees
<1> QED BY <1>1, <1>11

\* So does the second half of a removal.
LEMMA UnsubscribeMktKeeps ==
  ASSUME DetailInv, UnsubscribeMkt
  PROVE  Agrees' /\ ManageTypes' /\ Mandatory \cap subscribed \subseteq subscribed'
<1>1. PICK ok \in BOOLEAN : async_unsubscribe("mkt", ok)
  BY DEF UnsubscribeMkt
<1>2. /\ manage = "unmkt" /\ Onward(to_add, to_remove \ {cur}) /\ up' = up
      /\ sinks' = sinks \ {cur} /\ subscribed' = subscribed \ {cur}
  BY DEF UnsubscribeMkt, EraseSinks
<1>3. /\ to_add \subseteq Symbol /\ to_remove \subseteq Symbol
      /\ subscribed \subseteq Symbol /\ asked \in [Conn -> SUBSET Symbol]
  BY DetailTypes
<1>4. /\ to_add \cap subscribed = {} /\ to_remove \subseteq subscribed
      /\ to_remove \cap Mandatory = {} /\ cur \in to_remove
      /\ sinks = subscribed
      /\ \A c \in Conn : subscribed \ {cur} \subseteq asked[c]
      /\ (\A c \in Conn : up[c]) => /\ \A c \in Conn : asked[c] \subseteq subscribed
                                    /\ cur \notin asked["pub"]
  BY <1>2 DEF DetailInv, Lists, Files, Halves, SubscriptionsAgree, AskedOnBoth
<1>5. {"pub", "mkt"} \subseteq Conn /\ asked["mkt"] \ {cur} \in SUBSET Symbol
  BY <1>3 DEF Conn
<1>6. /\ asked' \in [Conn -> SUBSET Symbol] /\ (ok \/ ~up["mkt"])
      /\ ok => asked'["mkt"] = asked["mkt"] \ {cur}
      /\ ~ok => asked' = asked
      /\ \A d \in Conn : d # "mkt" => asked'[d] = asked[d]
  BY <1>1, <1>5, Requested DEF async_unsubscribe
<1>7. \A c \in Conn : subscribed' \subseteq asked'[c]
  BY <1>2, <1>4, <1>6
<1>8. (\A c \in Conn : up'[c]) => \A c \in Conn : asked'[c] \subseteq subscribed'
  <2> SUFFICES ASSUME \A c \in Conn : up[c] PROVE \A c \in Conn : asked'[c] \subseteq subscribed'
    BY <1>2
  <2>1. ok /\ asked'["mkt"] = asked["mkt"] \ {cur}
    BY <1>5, <1>6
  <2>2. asked'["pub"] = asked["pub"] /\ cur \notin asked["pub"]
    BY <1>4, <1>5, <1>6
  <2> QED BY <1>2, <1>4, <1>5, <2>1, <2>2 DEF Conn
<1> DEFINE removes == to_remove \ {cur}
<1>9. /\ removes \subseteq Symbol /\ Onward(to_add, removes) /\ removes \subseteq subscribed'
      /\ removes \cap Mandatory = {} /\ to_add \cap subscribed' = {}
      /\ subscribed' \subseteq Symbol /\ sinks' = subscribed'
  BY <1>2, <1>3, <1>4
<1> HIDE DEF removes
<1>10. Agrees' /\ ManageTypes'
  BY <1>3, <1>6, <1>7, <1>8, <1>9, OnwardAgrees
<1>11. cur \notin Mandatory
  BY <1>4
<1> QED BY <1>2, <1>10, <1>11

\* The steps in between: the files are opened or an exception ends the monitor, the
\* public request is written, the repeated snapshots go on.
LEMMA BetweenKeeps ==
  ASSUME DetailInv, Snapshot \/ OpenThrows \/ SubscribePub \/ UnsubscribePub \/ Resnap
  PROVE  Agrees' /\ ManageTypes'
<1>1. /\ manage \in Awaits /\ cur \in Symbol \cup {NoOne}
      /\ to_add \subseteq Symbol /\ to_remove \subseteq Symbol /\ r_pub \in BOOLEAN
      /\ sinks \subseteq Symbol /\ subscribed \subseteq Symbol
      /\ asked \in [Conn -> SUBSET Symbol] /\ up \in [Conn -> BOOLEAN]
  BY DetailTypes
<1>2. {"pub", "mkt"} \subseteq Conn
  BY DEF Conn
<1>3. Agrees /\ ManageTypes
  BY DetailTypes DEF DetailInv, SubscriptionsAgree, Agrees, ManageTypes
<1>4. CASE Snapshot
  <2>1. /\ manage = "snapshot" /\ manage' = "pub" /\ sinks' = sinks \cup {cur}
        /\ UNCHANGED <<cur, to_add, to_remove, r_pub, subscribed, asked, up>>
    BY <1>4 DEF Snapshot
  <2>2. cur \in to_add /\ sinks = subscribed
    BY <1>3, <2>1 DEF Agrees, Lists, Files
  <2>3. ManageTypes' /\ Lists' /\ Files'
    BY <1>1, <1>3, <2>1, <2>2 DEF ManageTypes, Awaits, Agrees, Lists, Files
  <2>4. FilesFollowSubscriptions' /\ AskedOnBoth' /\ NoOrphans' /\ Halves'
    BY <1>3, <2>1, <2>2 DEF Agrees, FilesFollowSubscriptions, AskedOnBoth, NoOrphans, Halves
  <2> QED BY <2>3, <2>4 DEF Agrees
<1>5. CASE OpenThrows
  <2>1. /\ manage' = "threw"
        /\ UNCHANGED <<cur, to_add, to_remove, r_pub, sinks, subscribed, asked, up>>
    BY <1>5 DEF OpenThrows
  <2> QED BY <1>1, <2>1, OthersKeep
<1>6. CASE SubscribePub
  <2>1. PICK ok \in BOOLEAN : async_subscribe("pub", ok) /\ r_pub' = ok
    BY <1>6 DEF SubscribePub
  <2>2. /\ manage = "pub" /\ manage' = "mkt"
        /\ UNCHANGED <<cur, to_add, to_remove, sinks, subscribed, up>>
    BY <1>6 DEF SubscribePub
  <2>3. /\ cur \in to_add /\ cur \in Symbol /\ sinks = subscribed \cup {cur}
        /\ \A c \in Conn : subscribed \subseteq asked[c]
        /\ (\A c \in Conn : up[c]) => \A c \in Conn : asked[c] \subseteq subscribed
    BY <1>1, <1>3, <2>2 DEF Agrees, Lists, Files, AskedOnBoth, Halves
  <2>4. asked["pub"] \cup {cur} \in SUBSET Symbol /\ "pub" \in Conn
    BY <1>1, <1>2, <2>3
  <2>5. /\ asked' \in [Conn -> SUBSET Symbol] /\ (ok \/ ~up["pub"])
        /\ ok => asked'["pub"] = asked["pub"] \cup {cur}
        /\ ~ok => asked' = asked
        /\ \A d \in Conn : d # "pub" => asked'[d] = asked[d]
    BY <2>1, <2>4, Requested DEF async_subscribe
  <2>6. /\ \A c \in Conn : subscribed \subseteq asked'[c]
        /\ (\A c \in Conn : up[c]) => \A c \in Conn : asked'[c] \subseteq subscribed \cup {cur}
    BY <2>3, <2>5
  <2>7. ManageTypes' /\ Lists' /\ Files'
    BY <1>1, <1>3, <2>1, <2>2, <2>3, <2>5 DEF ManageTypes, Awaits, Agrees, Lists, Files
  <2>8. FilesFollowSubscriptions' /\ AskedOnBoth' /\ NoOrphans'
    BY <1>3, <2>2, <2>3, <2>6 DEF Agrees, FilesFollowSubscriptions, AskedOnBoth, NoOrphans
  <2>9. Halves'
    <3>1. /\ ok => cur \in asked'["pub"]
          /\ ~ok => ~up["pub"]
      BY <2>5
    <3> QED BY <2>1, <2>2, <3>1 DEF Halves
  <2> QED BY <2>7, <2>8, <2>9 DEF Agrees
<1>7. CASE UnsubscribePub
  <2>1. PICK ok \in BOOLEAN : async_unsubscribe("pub", ok)
    BY <1>7 DEF UnsubscribePub
  <2>2. /\ manage = "unpub" /\ manage' = "unmkt"
        /\ UNCHANGED <<cur, to_add, to_remove, r_pub, sinks, subscribed, up>>
    BY <1>7 DEF UnsubscribePub
  <2>3. /\ cur \in to_remove /\ cur \in Symbol /\ sinks = subscribed
        /\ \A c \in Conn : subscribed \ {cur} \subseteq asked[c]
        /\ (\A c \in Conn : up[c]) => \A c \in Conn : asked[c] \subseteq subscribed
    BY <1>1, <1>3, <2>2 DEF Agrees, Lists, Files, AskedOnBoth, Halves
  <2>4. asked["pub"] \ {cur} \in SUBSET Symbol /\ "pub" \in Conn
    BY <1>1, <1>2
  <2>5. /\ asked' \in [Conn -> SUBSET Symbol] /\ (ok \/ ~up["pub"])
        /\ ok => asked'["pub"] = asked["pub"] \ {cur}
        /\ ~ok => asked' = asked
        /\ \A d \in Conn : d # "pub" => asked'[d] = asked[d]
    BY <2>1, <2>4, Requested DEF async_unsubscribe
  <2>6. /\ \A c \in Conn : subscribed \ {cur} \subseteq asked'[c]
        /\ (\A c \in Conn : up[c]) => \A c \in Conn : asked'[c] \subseteq subscribed
    BY <2>3, <2>5
  <2>7. ManageTypes' /\ Lists' /\ Files'
    BY <1>1, <1>3, <2>2, <2>3, <2>5 DEF ManageTypes, Awaits, Agrees, Lists, Files
  <2>8. FilesFollowSubscriptions' /\ AskedOnBoth' /\ NoOrphans'
    BY <1>3, <2>2, <2>3, <2>6 DEF Agrees, FilesFollowSubscriptions, AskedOnBoth, NoOrphans
  <2>9. Halves'
    <3>1. (\A c \in Conn : up[c]) => cur \notin asked'["pub"]
      BY <1>2, <2>5
    <3> QED BY <2>2, <2>6, <3>1 DEF Halves
  <2> QED BY <2>7, <2>8, <2>9 DEF Agrees
<1>8. CASE Resnap
  <2>1. /\ manage = "resnap" /\ manage' \in {"resnap", "timer"}
        /\ UNCHANGED <<cur, to_add, to_remove, r_pub, sinks, subscribed, asked, up>>
    BY <1>8 DEF Resnap
  <2>2. ManageTypes' /\ Lists' /\ Files'
    BY <1>3, <2>1 DEF ManageTypes, Awaits, Agrees, Lists, Files
  <2>3. FilesFollowSubscriptions' /\ AskedOnBoth' /\ NoOrphans' /\ Halves'
    BY <1>3, <2>1 DEF Agrees, FilesFollowSubscriptions, AskedOnBoth, NoOrphans, Halves
  <2> QED BY <2>2, <2>3 DEF Agrees
<1> QED BY <1>4, <1>5, <1>6, <1>7, <1>8

\* Every step of the manager keeps the invariant.
LEMMA ManageKeeps ==
  ASSUME DetailInv, ManageStep
  PROVE  DetailInv'
<1>1. Agrees' /\ ManageTypes'
  BY TimerKeeps, SubscribeMktKeeps, UnsubscribeMktKeeps, BetweenKeeps DEF ManageStep
<1>2. UNCHANGED <<up, record_buf, writing, selectorVars>> /\ (torn' = torn \/ torn' = (torn \/ writing = cur))
  BY DEF ManageStep, Timer, Snapshot, OpenThrows, SubscribePub, SubscribeMkt, UnsubscribePub,
         UnsubscribeMkt, Resnap, EraseSinks, drainVars
<1>3. torn' \in BOOLEAN
  BY <1>2, DetailTypes
<1>4. SelectorInv'
  BY <1>2 DEF DetailInv, SelectorInv, SelectorTypeOK, BelowIsQuiet, selectorVars
<1> QED BY <1>1, <1>2, <1>3, <1>4, DetailTypes, InParts

\* The invariant holds at the start and is kept by every step.
LEMMA DetailInvariant ==
  /\ Init => DetailInv
  /\ DetailInv /\ [Next]_vars => DetailInv'
<1>1. Init => DetailInv
  <2> SUFFICES ASSUME Init PROVE DetailInv
    OBVIOUS
  <2>1. SelectorInv
    BY SelectorAssumption DEF Init, SelectorInit, SelectorInv, SelectorTypeOK, BelowIsQuiet, NotBelow
  <2>2. {r_pub, torn} \subseteq BOOLEAN /\ up \in [Conn -> BOOLEAN]
    BY DEF Init
  <2>3. record_buf \in Seq(Symbol) /\ Len(record_buf) <= Capacity
    BY EmptySeq, DetailAssumption DEF Init
  <2>4. TypeOK
    BY <2>1, <2>2, <2>3 DEF Init, TypeOK, SelectorInv
  <2>5. FilesFollowSubscriptions /\ AskedOnBoth /\ NoOrphans /\ Lists /\ Files /\ Halves
    BY DEF Init, FilesFollowSubscriptions, AskedOnBoth, NoOrphans, Lists, Files, Halves
  <2> QED BY <2>1, <2>4, <2>5 DEF DetailInv, SubscriptionsAgree
<1>2. DetailInv /\ [Next]_vars => DetailInv'
  <2> SUFFICES ASSUME DetailInv, [Next]_vars PROVE DetailInv'
    OBVIOUS
  <2>1. CASE ManageStep
    BY <2>1, ManageKeeps
  <2>2. CASE connection_read_loop \/ Drop \/ Drain \/ Written \/ WrittenTorn \/ DrainThrows \/ Select
    BY <2>2, OtherSteps
  <2>3. CASE UNCHANGED vars
    BY <2>3 DEF vars, manageVars, drainVars, selectorVars, DetailInv, SubscriptionsAgree, TypeOK,
                SelectorInv, SelectorTypeOK, BelowIsQuiet, FilesFollowSubscriptions, AskedOnBoth,
                NoOrphans, Lists, Files, Halves
  <2> QED BY <2>1, <2>2, <2>3 DEF Next
<1> QED BY <1>1, <1>2

-----------------------------------------------------------------------------
\* Files, st.subscribed and what each connection was asked for agree (subs.cpp),
\* whichever requests fail and whatever the selector does in between.
THEOREM SubscriptionsStayTogether == Spec => []SubscriptionsAgree
<1>1. Spec => []DetailInv
  BY DetailInvariant, PTL DEF Spec
<1>2. DetailInv => SubscriptionsAgree
  BY DEF DetailInv
<1> QED BY <1>1, <1>2, PTL

\* A mandatory symbol, once subscribed, is never unsubscribed: the selector never
\* evicts it, so that no round's list holds it, however old the list.
THEOREM MandatoryStays == Spec => MandatoryKept
<1>1. DetailInv /\ [Next]_vars => [Mandatory \cap subscribed \subseteq subscribed']_vars
  <2> SUFFICES ASSUME DetailInv, Next PROVE Mandatory \cap subscribed \subseteq subscribed'
    OBVIOUS
  <2>1. CASE SubscribeMkt
    BY <2>1, SubscribeMktKeeps
  <2>2. CASE UnsubscribeMkt
    BY <2>2, UnsubscribeMktKeeps
  <2>3. CASE Timer \/ Snapshot \/ OpenThrows \/ SubscribePub \/ UnsubscribePub \/ Resnap
    BY <2>3 DEF Timer, Snapshot, OpenThrows, SubscribePub, UnsubscribePub, Resnap
  <2>4. CASE connection_read_loop \/ Drop \/ Drain \/ Written \/ WrittenTorn \/ DrainThrows \/ Select
    BY <2>4 DEF connection_read_loop, Drop, Drain, Written, WrittenTorn, DrainThrows, Select
  <2> QED BY <2>1, <2>2, <2>3, <2>4 DEF Next, ManageStep
<1> QED BY <1>1, DetailInvariant, PTL DEF Spec, MandatoryKept

\* The selector lets go of a symbol only after its minimum hold and a whole cool-off
\* in which no tick saw it at remove_score or above (selector.cpp, rule 2).
THEOREM EvictionIsEarned == Spec => EvictionEarned
<1> DEFINE Earned == \A s \in active \ active' : held'[s] = MinHold /\ quiet[s] >= Cooloff
<1>1. DetailInv /\ [Next]_vars => [Earned]_selectorVars
  <2> SUFFICES ASSUME DetailInv, Next PROVE Earned \/ UNCHANGED selectorVars
    BY DEF vars, selectorVars
  <2>1. CASE Select
    BY <2>1, TickKeeps DEF Select, DetailInv
  <2>2. CASE ManageStep
    BY <2>2 DEF ManageStep, Timer, Snapshot, OpenThrows, SubscribePub, SubscribeMkt,
                UnsubscribePub, UnsubscribeMkt, Resnap
  <2>3. CASE connection_read_loop \/ Drop \/ Drain \/ Written \/ WrittenTorn \/ DrainThrows
    BY <2>3 DEF connection_read_loop, Drop, Drain, Written, WrittenTorn, DrainThrows
  <2> QED BY <2>1, <2>2, <2>3 DEF Next
<1> QED BY <1>1, DetailInvariant, PTL DEF Spec, EvictionEarned

(***************************************************************************)
(* The files of the recorder.  What FlattenSeq and Total compute is given   *)
(* by witnesses of their recursion, which the steps extend.                *)
(***************************************************************************)
\* The frames in the segments are 1..n, in order: ends[i] is the number of the
\* last frame up to segment i.
Numbered(segments, n) ==
    \E ends \in [0..Len(segments) -> 0..n] :
        /\ ends[0] = 0 /\ ends[Len(segments)] = n
        /\ \A i \in 1..Len(segments) :
             /\ ends[i] = ends[i - 1] + Len(segments[i])
             /\ \A j \in 1..Len(segments[i]) : segments[i][j] = ends[i - 1] + j

\* The sizes of the frames add up to n.
AddsUp(sizes, frames, n) ==
    \E sum \in [0..Len(frames) -> Nat] :
        /\ sum[0] = 0 /\ sum[Len(frames)] = n
        /\ \A i \in 1..Len(frames) : sum[i] = sum[i - 1] + sizes[frames[i]]

FilesTypes ==
    /\ feed \in [Feed -> {"read", "push", "done"}]
    /\ drain \in [Feed -> {"read", "write", "done", "threw"}]
    /\ sink \in [Feed -> {"open", "shut"}] /\ open \in BOOLEAN
    /\ received \in [Feed -> Seq(Size)] /\ chan \in [Feed -> Seq(Nat)]
    /\ inHand \in [Feed -> [push : Nat, write : Nat]]
    /\ file \in [Feed -> Seq(Seq(Nat))] /\ current_bytes \in [Feed -> Nat]
    /\ synced \in [Feed -> SUBSET Nat] /\ children \in [Feed -> SUBSET Nat]
    /\ exited \in [Feed -> SUBSET Nat]

\* The frames that were received are in the segments, in the drain's hands, in
\* the channel and in the hands of the suspended push, in this order.  A drain
\* that has thrown has lost one.
PlacedAt(n, segments, writes, queue, pushes, hand, count) ==
    /\ segments # <<>> /\ Numbered(segments, n)
    /\ LET taken == IF writes = "write" THEN n + 1 ELSE n
           sent == taken + Len(queue)
       IN  writes # "threw" =>
            /\ hand.write = IF writes = "write" THEN taken ELSE None
            /\ \A i \in 1..Len(queue) : queue[i] = taken + i
            /\ count = IF pushes = "push" THEN sent + 1 ELSE sent
            /\ hand.push = IF pushes = "push" THEN sent + 1 ELSE None
    /\ \A i \in 1..Len(queue) : queue[i] \in 1..count
    /\ hand.push \in 0..count /\ hand.write \in 0..count

PlacedIn(segments, writes, queue, pushes, hand, count) ==
    \E n \in 0..count : PlacedAt(n, segments, writes, queue, pushes, hand, count)

Placed(f) ==
    /\ Len(chan[f]) <= BufferCapacity
    /\ PlacedIn(file[f], drain[f], chan[f], feed[f], inHand[f], Len(received[f]))

\* The bytes counted are the bytes of the segment that is open, and every segment
\* is within its limit or holds one frame; so will the one that is open when the
\* write that is under way has ended.
SizedIn(sizes, segments, writes, hand, bytes) ==
    /\ \A i \in 1..Len(segments) : \E n \in Nat :
        /\ AddsUp(sizes, segments[i], n)
        /\ n <= MaxSize \/ Len(segments[i]) = 1
    /\ AddsUp(sizes, segments[Len(segments)], bytes)
    /\ writes = "write" =>
         \/ segments[Len(segments)] = <<>>
         \/ bytes + sizes[hand.write] <= MaxSize

Sized(f) == SizedIn(received[f], file[f], drain[f], inHand[f], current_bytes[f])

\* The segments given to zstd are synced, and none of them is the one that is
\* being written.
Given(f) ==
    /\ exited[f] \subseteq children[f] /\ children[f] \subseteq synced[f]
    /\ synced[f] \subseteq 1..Len(file[f])
    /\ sink[f] = "open" /\ Recording => \A i \in children[f] : i < Len(file[f])

FeedInv(f) == Placed(f) /\ Sized(f) /\ Given(f)

\* The inductive invariant: the buffers are not closed before the last feed has
\* ended, and every feed has its frames and segments in order.
FilesInv ==
    /\ FilesTypes /\ (open \/ \A f \in Feed : feed[f] = "done")
    /\ \A f \in Feed : FeedInv(f)
-----------------------------------------------------------------------------
\* Every non-empty set of naturals has a least element.
LEMMA LeastExists ==
  ASSUME NEW T \in SUBSET Nat, T # {}
  PROVE  \E x \in T : \A y \in T : x <= y
<1> DEFINE R == OpToRel(<, Nat)
<1>1. IsWellFoundedOn(R, Nat)
  BY NatLessThanWellFounded
<1>2. \A x, y \in Nat : y < x => <<y, x>> \in R
  BY DEF OpToRel
<1> HIDE DEF R
<1>3. PICK x \in T : \A y \in T : ~ (<<y, x>> \in R)
  BY <1>1, WFMin
<1>4. \A y \in T : x <= y
  <2> TAKE y \in T
  <2>1. x \in Nat /\ y \in Nat /\ ~ (y < x)
    BY <1>2, <1>3
  <2> QED BY <2>1
<1> QED BY <1>4

\* The numbers of the first n frames, in order.
UpTo(n) == [i \in 1..n |-> i]

\* They are a sequence of n numbers.
LEMMA UpToSeq ==
  ASSUME NEW n \in Nat
  PROVE  UpTo(n) \in Seq(Nat) /\ Len(UpTo(n)) = n /\ \A i \in 1..n : UpTo(n)[i] = i
BY DEF UpTo

\* A sequence that holds the first numbers in order is that one.
LEMMA UpToUnique ==
  ASSUME NEW t \in Seq(Nat), \A i \in 1..Len(t) : t[i] = i
  PROVE  t = UpTo(Len(t))
<1>1. Len(t) \in Nat
  OBVIOUS
<1>2. UpTo(Len(t)) \in Seq(Nat) /\ Len(UpTo(Len(t))) = Len(t)
      /\ \A i \in 1..Len(t) : UpTo(Len(t))[i] = i
  BY <1>1, UpToSeq
<1> QED BY <1>2, SeqEqual

\* A run of consecutive numbers goes on.
LEMMA RunGoesOn ==
  ASSUME NEW a \in Nat, NEW t \in Seq(Nat), \A i \in 1..Len(t) : t[i] = a + i
  PROVE  UpTo(a) \o t = UpTo(a + Len(t))
<1> DEFINE s == UpTo(a)
<1>1. s \in Seq(Nat) /\ Len(s) = a /\ (\A i \in 1..a : s[i] = i) /\ Len(t) \in Nat
  BY UpToSeq
<1> HIDE DEF s
<1>2. /\ s \o t \in Seq(Nat) /\ Len(s \o t) = a + Len(t)
      /\ \A i \in 1..(a + Len(t)) :
           (s \o t)[i] = IF i <= a THEN s[i] ELSE t[i - a]
  BY <1>1, ConcatProperties
<1>3. \A i \in 1..(a + Len(t)) : (s \o t)[i] = i
  <2> TAKE i \in 1..(a + Len(t))
  <2>1. CASE i <= a
    BY <1>1, <1>2, <2>1
  <2>2. CASE i > a
    <3>1. i - a \in 1..Len(t)
      BY <1>1, <2>2
    <3> QED BY <1>1, <1>2, <2>2, <3>1
  <2> QED BY <1>1, <2>1, <2>2
<1>4. s \o t = UpTo(a + Len(t))
  BY <1>2, <1>3, UpToUnique
<1> QED BY <1>4 DEF s

\* What FlattenSeq returns for such segments.
LEMMA NumberedFlat ==
  ASSUME NEW segments \in Seq(Seq(Nat)), segments # <<>>, NEW n \in Nat, Numbered(segments, n)
  PROVE  FlattenSeq(segments) = UpTo(n)
<1> DEFINE N == Len(segments)
<1>1. PICK ends \in [0..N -> 0..n] :
        /\ ends[0] = 0 /\ ends[N] = n
        /\ \A i \in 1..N :
             /\ ends[i] = ends[i - 1] + Len(segments[i])
             /\ \A j \in 1..Len(segments[i]) : segments[i][j] = ends[i - 1] + j
  BY DEF Numbered
<1>2. N \in Nat /\ N # 0 /\ \A i \in 1..N : segments[i] \in Seq(Nat)
  BY EmptySeq
<1> DEFINE G == [i \in 1..N |-> UpTo(ends[i])]
           Body(g) == [i \in 1..N |-> IF i = 1 THEN segments[i] ELSE g[i - 1] \o segments[i]]
<1>3. \A i \in 1..N : G[i] = IF i = 1 THEN segments[i] ELSE G[i - 1] \o segments[i]
  <2> TAKE i \in 1..N
  <2>1. i - 1 \in 0..N /\ i \in 0..N /\ (i # 1 => i - 1 \in 1..N)
    BY <1>2
  <2>2. ends[i - 1] \in Nat /\ ends[i] \in Nat
    <3>1. ends[i - 1] \in 0..n /\ ends[i] \in 0..n
      BY <1>1, <2>1
    <3> QED BY <3>1
  <2>3. G[i] = UpTo(ends[i]) /\ (i # 1 => G[i - 1] = UpTo(ends[i - 1]))
    BY <2>1
  <2>4. UpTo(ends[i - 1]) \o segments[i] = UpTo(ends[i])
    BY <1>1, <1>2, <2>2, RunGoesOn
  <2>5. CASE i = 1
    <3>1. ends[1] = Len(segments[1]) /\ \A j \in 1..Len(segments[1]) : segments[1][j] = j
      <4>1. ends[1] = 0 + Len(segments[1]) /\ \A j \in 1..Len(segments[1]) : segments[1][j] = 0 + j
        BY <1>1, <2>5
      <4>2. Len(segments[1]) \in Nat
        BY <1>2, <2>5
      <4> QED BY <4>1, <4>2
    <3>2. segments[1] \in Seq(Nat)
      BY <1>2, <2>5
    <3>3. segments[1] = UpTo(Len(segments[1]))
      BY <3>1, <3>2, UpToUnique
    <3> QED BY <2>3, <2>5, <3>1, <3>3
  <2>6. CASE i # 1
    BY <2>3, <2>4, <2>6
  <2> QED BY <2>5, <2>6
<1>4. G = Body(G)
  BY <1>3
<1>5. ASSUME NEW g, g = Body(g) PROVE g[N] = G[N]
  <2> DEFINE D == {i \in 1..N : g[i] # G[i]}
  <2>1. D = {}
    <3> SUFFICES ASSUME D # {} PROVE FALSE
      OBVIOUS
    <3>1. D \in SUBSET Nat
      BY <1>2
    <3>2. PICK i \in D : \A k \in D : i <= k
      BY <3>1, LeastExists
    <3>3. i \in 1..N /\ g[i] # G[i]
      OBVIOUS
    <3>4. g[i] = IF i = 1 THEN segments[i] ELSE g[i - 1] \o segments[i]
      BY <1>5, <3>3
    <3>5. i # 1 => i - 1 \in 1..N /\ i - 1 \notin D
      <4>1. i # 1 => i - 1 \in 1..N /\ ~ (i <= i - 1)
        BY <1>2, <3>3
      <4> HIDE DEF D
      <4> QED BY <3>2, <4>1
    <3>6. i # 1 => g[i - 1] = G[i - 1]
      BY <3>5
    <3> HIDE DEF D, G, Body
    <3> QED BY <1>3, <3>3, <3>4, <3>6
  <2>2. N \in 1..N
    BY <1>2
  <2> HIDE DEF G, Body
  <2> QED BY <2>1, <2>2
<1>6. FlattenSeq(segments) = (CHOOSE g : g = Body(g))[N]
  BY <1>2 DEF FlattenSeq
<1>7. G[N] = UpTo(n)
  BY <1>1, <1>2
<1> HIDE DEF G, Body
<1>8. (CHOOSE g : g = Body(g)) = Body(CHOOSE g : g = Body(g))
  BY <1>4
<1> QED BY <1>5, <1>6, <1>7, <1>8

\* What Total returns.
LEMMA AddsUpTotal ==
  ASSUME NEW sizes \in Seq(Nat), NEW frames \in Seq(1..Len(sizes)), NEW n \in Nat,
         AddsUp(sizes, frames, n)
  PROVE  Total(sizes, frames) = n
<1> DEFINE N == Len(frames)
<1>1. PICK sum \in [0..N -> Nat] :
        /\ sum[0] = 0 /\ sum[N] = n
        /\ \A i \in 1..N : sum[i] = sum[i - 1] + sizes[frames[i]]
  BY DEF AddsUp
<1>2. N \in Nat
  OBVIOUS
<1> DEFINE Body(g) == [i \in 0..N |-> IF i = 0 THEN 0 ELSE g[i - 1] + sizes[frames[i]]]
<1>3. \A i \in 0..N : sum[i] = IF i = 0 THEN 0 ELSE sum[i - 1] + sizes[frames[i]]
  BY <1>1, <1>2
<1>4. sum = Body(sum)
  BY <1>3
<1>5. ASSUME NEW g, g = Body(g) PROVE g[N] = n
  <2> DEFINE D == {i \in 0..N : g[i] # sum[i]}
  <2>1. D = {}
    <3> SUFFICES ASSUME D # {} PROVE FALSE
      OBVIOUS
    <3>1. D \in SUBSET Nat
      BY <1>2
    <3>2. PICK i \in D : \A k \in D : i <= k
      BY <3>1, LeastExists
    <3>3. i \in 0..N /\ g[i] # sum[i]
      OBVIOUS
    <3>4. g[i] = IF i = 0 THEN 0 ELSE g[i - 1] + sizes[frames[i]]
      BY <1>5, <3>3
    <3>5. i # 0 => i - 1 \in 0..N /\ i - 1 \notin D
      BY <1>2, <3>2, <3>3
    <3>6. i # 0 => g[i - 1] = sum[i - 1]
      BY <3>5
    <3> HIDE DEF D, Body
    <3> QED BY <1>3, <3>3, <3>4, <3>6
  <2> HIDE DEF Body
  <2> QED BY <1>1, <1>2, <2>1
<1>6. Total(sizes, frames) = (CHOOSE g : g = Body(g))[N]
  BY DEF Total
<1> HIDE DEF Body
<1>8. (CHOOSE g : g = Body(g)) = Body(CHOOSE g : g = Body(g))
  BY <1>4
<1> QED BY <1>5, <1>6, <1>8

\* A new segment, and a frame written to the last one.
LEMMA NumberedOpens ==
  ASSUME NEW segments \in Seq(Seq(Nat)), NEW n \in Nat, Numbered(segments, n)
  PROVE  Numbered(Append(segments, <<>>), n)
<1> DEFINE N == Len(segments)
           more == Append(segments, <<>>)
<1>1. PICK ends \in [0..N -> 0..n] :
        /\ ends[0] = 0 /\ ends[N] = n
        /\ \A i \in 1..N :
             /\ ends[i] = ends[i - 1] + Len(segments[i])
             /\ \A j \in 1..Len(segments[i]) : segments[i][j] = ends[i - 1] + j
  BY DEF Numbered
<1>2. /\ N \in Nat /\ Len(more) = N + 1 /\ more[N + 1] = <<>>
      /\ \A i \in 1..N : more[i] = segments[i]
  BY EmptySeq, AppendProperties
<1> DEFINE ends1 == [i \in 0..(N + 1) |-> IF i = N + 1 THEN n ELSE ends[i]]
<1>3. /\ ends1 \in [0..(N + 1) -> 0..n] /\ ends1[0] = 0 /\ ends1[N + 1] = n
      /\ \A i \in 0..N : ends1[i] = ends[i]
  BY <1>1, <1>2
<1> HIDE DEF ends1, more
<1>4. ASSUME NEW i \in 1..(N + 1)
      PROVE  /\ ends1[i] = ends1[i - 1] + Len(more[i])
             /\ \A j \in 1..Len(more[i]) : more[i][j] = ends1[i - 1] + j
  <2>1. CASE i = N + 1
    <3>1. Len(more[i]) = 0 /\ ends1[i] = n /\ ends1[i - 1] = ends[N]
      BY <1>2, <1>3, <2>1
    <3> QED BY <1>1, <3>1
  <2>2. CASE i \in 1..N
    <3>1. i \in 0..N /\ i - 1 \in 0..N
      BY <1>2, <2>2
    <3>2. more[i] = segments[i] /\ ends1[i] = ends[i] /\ ends1[i - 1] = ends[i - 1]
      BY <1>2, <1>3, <2>2, <3>1
    <3> QED BY <1>1, <2>2, <3>2
  <2>3. i = N + 1 \/ i \in 1..N
    BY <1>2
  <2> QED BY <2>1, <2>2, <2>3
<1>5. Numbered(more, n)
  BY <1>2, <1>3, <1>4 DEF Numbered
<1> QED BY <1>5 DEF more

\* The next frame goes to the end of the last segment.
LEMMA NumberedWrites ==
  ASSUME NEW segments \in Seq(Seq(Nat)), segments # <<>>, NEW n \in Nat, Numbered(segments, n)
  PROVE  Numbered([segments EXCEPT ![Len(segments)] = Append(@, n + 1)], n + 1)
<1> DEFINE N == Len(segments)
           more == [segments EXCEPT ![N] = Append(@, n + 1)]
<1>1. PICK ends \in [0..N -> 0..n] :
        /\ ends[0] = 0 /\ ends[N] = n
        /\ \A i \in 1..N :
             /\ ends[i] = ends[i - 1] + Len(segments[i])
             /\ \A j \in 1..Len(segments[i]) : segments[i][j] = ends[i - 1] + j
  BY DEF Numbered
<1>2. N \in Nat /\ N # 0 /\ \A i \in 1..N : segments[i] \in Seq(Nat)
  BY EmptySeq
<1>3. /\ Len(more) = N /\ more[N] = Append(segments[N], n + 1)
      /\ \A i \in 1..N : i # N => more[i] = segments[i]
  BY <1>2
<1> DEFINE ends1 == [ends EXCEPT ![N] = n + 1]
<1>4. /\ ends1 \in [0..N -> 0..(n + 1)] /\ ends1[0] = 0 /\ ends1[N] = n + 1
      /\ \A i \in 0..N : i # N => ends1[i] = ends[i]
  BY <1>1, <1>2
<1> HIDE DEF ends1, more
<1>5. ASSUME NEW i \in 1..N
      PROVE  /\ ends1[i] = ends1[i - 1] + Len(more[i])
             /\ \A j \in 1..Len(more[i]) : more[i][j] = ends1[i - 1] + j
  <2>1. i \in 0..N /\ i - 1 \in 0..N /\ i - 1 # N
    BY <1>2
  <2>2. ends1[i - 1] = ends[i - 1] /\ ends[i - 1] \in 0..n
    BY <1>1, <1>4, <2>1
  <2>3. CASE i = N
    <3> DEFINE last == segments[N]
    <3>1. last \in Seq(Nat) /\ n = ends[N - 1] + Len(last)
          /\ \A j \in 1..Len(last) : last[j] = ends[N - 1] + j
      BY <1>1, <1>2, <2>3
    <3> HIDE DEF last
    <3>2. /\ Len(Append(last, n + 1)) = Len(last) + 1 /\ Len(last) \in Nat
          /\ Append(last, n + 1)[Len(last) + 1] = n + 1
          /\ \A j \in 1..Len(last) : Append(last, n + 1)[j] = last[j]
      BY <3>1, AppendProperties
    <3>3. more[i] = Append(last, n + 1)
      BY <1>3, <2>3 DEF last
    <3>4. ends[i - 1] + (Len(last) + 1) = n + 1
      BY <2>2, <2>3, <3>1, <3>2
    <3>5. \A j \in 1..(Len(last) + 1) : more[i][j] = ends[i - 1] + j
      <4> TAKE j \in 1..(Len(last) + 1)
      <4>1. CASE j = Len(last) + 1
        BY <3>2, <3>3, <3>4, <4>1
      <4>2. CASE j \in 1..Len(last)
        BY <2>3, <3>1, <3>2, <3>3, <4>2
      <4>3. j = Len(last) + 1 \/ j \in 1..Len(last)
        BY <3>2
      <4> QED BY <4>1, <4>2, <4>3
    <3> QED BY <1>4, <2>2, <2>3, <3>2, <3>3, <3>4, <3>5
  <2>4. CASE i # N
    BY <1>1, <1>3, <1>4, <2>1, <2>2, <2>4
  <2> QED BY <2>3, <2>4
<1>6. Numbered(more, n + 1)
  <2> HIDE DEF N
  <2>1. \E e \in [0..N -> 0..(n + 1)] :
          /\ e[0] = 0 /\ e[N] = n + 1
          /\ \A i \in 1..N : /\ e[i] = e[i - 1] + Len(more[i])
                            /\ \A j \in 1..Len(more[i]) : more[i][j] = e[i - 1] + j
    BY <1>4, <1>5
  <2> QED BY <1>3, <2>1 DEF Numbered
<1> QED BY <1>6 DEF more

\* Every frame in the segments is one of the n.
LEMMA NumberedWithin ==
  ASSUME NEW segments \in Seq(Seq(Nat)), NEW n \in Nat, Numbered(segments, n),
         NEW i \in 1..Len(segments)
  PROVE  segments[i] \in Seq(1..n)
<1> DEFINE N == Len(segments)
<1>1. PICK ends \in [0..N -> 0..n] :
             /\ ends[i] = ends[i - 1] + Len(segments[i])
             /\ \A j \in 1..Len(segments[i]) : segments[i][j] = ends[i - 1] + j
  BY DEF Numbered
<1>2. segments[i] \in Seq(Nat) /\ i \in 0..N /\ i - 1 \in 0..N
  OBVIOUS
<1>3. ends[i] \in 0..n /\ ends[i - 1] \in 0..n
  BY <1>2
<1> DEFINE t == segments[i]
           l == Len(t)
<1>4. /\ t \in Seq(Nat) /\ l \in Nat /\ ends[i] = ends[i - 1] + l
      /\ \A j \in 1..l : t[j] = ends[i - 1] + j
  BY <1>1, <1>2
<1> HIDE DEF t, l
<1>5. \A j \in 1..l : t[j] \in 1..n
  <2> TAKE j \in 1..l
  <2> DEFINE e0 == ends[i - 1]
             e1 == ends[i]
  <2>1. e0 \in 0..n /\ e1 \in 0..n /\ e1 = e0 + l /\ t[j] = e0 + j
    BY <1>3, <1>4
  <2> HIDE DEF e0, e1
  <2> QED BY <1>4, <2>1
<1>6. t \in [1..l -> Nat]
  BY <1>4, LenProperties DEF l
<1>7. t \in [1..l -> 1..n]
  BY <1>5, <1>6
<1>8. t \in Seq(1..n)
  BY <1>4, <1>7, SeqDef
<1> QED BY <1>8 DEF t

\* Frames received later do not change a sum, and one more frame adds its size.
LEMMA AddsUpGrows ==
  ASSUME NEW sizes \in Seq(Nat), NEW size \in Nat, NEW frames \in Seq(1..Len(sizes)), NEW n \in Nat,
         AddsUp(sizes, frames, n)
  PROVE  AddsUp(Append(sizes, size), frames, n)
<1>1. \A i \in 1..Len(frames) : frames[i] \in 1..Len(sizes)
  OBVIOUS
<1>2. \A k \in 1..Len(sizes) : Append(sizes, size)[k] = sizes[k]
  BY AppendProperties
<1>3. \A i \in 1..Len(frames) : Append(sizes, size)[frames[i]] = sizes[frames[i]]
  BY <1>1, <1>2
<1> QED BY <1>3 DEF AddsUp

\* A frame that is written adds its size.
LEMMA AddsUpWrites ==
  ASSUME NEW sizes \in Seq(Nat), NEW frames \in Seq(Nat), NEW n \in Nat, NEW k \in 1..Len(sizes),
         AddsUp(sizes, frames, n)
  PROVE  AddsUp(sizes, Append(frames, k), n + sizes[k])
<1> DEFINE N == Len(frames)
           more == Append(frames, k)
<1>1. PICK sum \in [0..N -> Nat] :
        /\ sum[0] = 0 /\ sum[N] = n
        /\ \A i \in 1..N : sum[i] = sum[i - 1] + sizes[frames[i]]
  BY DEF AddsUp
<1>2. /\ N \in Nat /\ sizes[k] \in Nat /\ k \in Nat
  OBVIOUS
<1>3. /\ Len(more) = N + 1 /\ more[N + 1] = k
      /\ \A i \in 1..N : more[i] = frames[i]
  BY <1>2, AppendProperties
<1> DEFINE sum1 == [i \in 0..(N + 1) |-> IF i = N + 1 THEN n + sizes[k] ELSE sum[i]]
<1>4. /\ sum1 \in [0..(N + 1) -> Nat] /\ sum1[0] = 0 /\ sum1[N + 1] = n + sizes[k]
      /\ \A i \in 0..N : sum1[i] = sum[i]
  BY <1>1, <1>2
<1> HIDE DEF sum1, more
<1>5. ASSUME NEW i \in 1..(N + 1) PROVE sum1[i] = sum1[i - 1] + sizes[more[i]]
  <2>1. CASE i = N + 1
    <3>1. more[i] = k /\ sum1[i] = n + sizes[k] /\ sum1[i - 1] = sum[N]
      BY <1>2, <1>3, <1>4, <2>1
    <3> QED BY <1>1, <3>1
  <2>2. CASE i \in 1..N
    <3>1. i \in 0..N /\ i - 1 \in 0..N
      BY <1>2, <2>2
    <3> QED BY <1>1, <1>3, <1>4, <2>2, <3>1
  <2>3. i = N + 1 \/ i \in 1..N
    BY <1>2
  <2> QED BY <2>1, <2>2, <2>3
<1>6. AddsUp(sizes, more, n + sizes[k])
  BY <1>3, <1>4, <1>5 DEF AddsUp
<1> QED BY <1>6 DEF more

\* A segment without frames has size 0.
LEMMA AddsUpEmpty ==
  ASSUME NEW sizes PROVE AddsUp(sizes, <<>>, 0)
<1> DEFINE sum == [i \in 0..0 |-> 0]
<1>1. sum \in [0..0 -> Nat] /\ sum[0] = 0 /\ Len(<<>>) = 0
  OBVIOUS
<1> HIDE DEF sum
<1> QED BY <1>1 DEF AddsUp

-----------------------------------------------------------------------------
(***************************************************************************)
(* The places of the frames, step by step.                                 *)
(***************************************************************************)
\* A frame is received: into the channel, or into the hands of a push that waits.
LEMMA PlaceReceived ==
  ASSUME NEW segments, NEW writes, writes # "threw", NEW queue \in Seq(Nat),
         NEW hand \in [push : Nat, write : Nat], NEW count \in Nat,
         PlacedIn(segments, writes, queue, "read", hand, count)
  PROVE  /\ PlacedIn(segments, writes, Append(queue, count + 1), "read", hand, count + 1)
         /\ PlacedIn(segments, writes, queue, "push", [hand EXCEPT !.push = count + 1], count + 1)
<1>1. PICK n \in 0..count :
        /\ segments # <<>> /\ Numbered(segments, n)
        /\ hand.write = IF writes = "write" THEN n + 1 ELSE None
        /\ \A i \in 1..Len(queue) : queue[i] = (IF writes = "write" THEN n + 1 ELSE n) + i
        /\ count = (IF writes = "write" THEN n + 1 ELSE n) + Len(queue)
        /\ hand.push = None
        /\ \A i \in 1..Len(queue) : queue[i] \in 1..count
        /\ hand.push \in 0..count /\ hand.write \in 0..count
  BY DEF PlacedIn, PlacedAt
<1>2. n \in 0..(count + 1) /\ Len(queue) \in Nat /\ count + 1 \in Nat
  OBVIOUS
<1> DEFINE q == Append(queue, count + 1)
           h == [hand EXCEPT !.push = count + 1]
<1>3. /\ Len(q) = Len(queue) + 1 /\ q[Len(queue) + 1] = count + 1
      /\ \A i \in 1..Len(queue) : q[i] = queue[i]
  BY <1>2, AppendProperties
<1>4. h.push = count + 1 /\ h.write = hand.write
  OBVIOUS
<1> HIDE DEF q, h
<1>5. \A i \in 1..Len(q) : /\ q[i] = (IF writes = "write" THEN n + 1 ELSE n) + i
                           /\ q[i] \in 1..(count + 1)
  <2> TAKE i \in 1..Len(q)
  <2>1. i = Len(queue) + 1 \/ i \in 1..Len(queue)
    BY <1>2, <1>3
  <2>2. CASE i = Len(queue) + 1
    BY <1>1, <1>2, <1>3, <2>2
  <2>3. CASE i \in 1..Len(queue)
    BY <1>1, <1>2, <1>3, <2>3
  <2> QED BY <2>1, <2>2, <2>3
<1>6. PlacedIn(segments, writes, q, "read", hand, count + 1)
  <2>2. hand.push \in 0..(count + 1) /\ hand.write \in 0..(count + 1)
    BY <1>1
  <2>3. count + 1 = (IF writes = "write" THEN n + 1 ELSE n) + Len(q)
    <3> DEFINE taken == IF writes = "write" THEN n + 1 ELSE n
    <3>1. taken \in Nat /\ count = taken + Len(queue)
      BY <1>1
    <3> HIDE DEF taken
    <3>2. count + 1 = taken + Len(q)
      BY <1>2, <1>3, <3>1
    <3> QED BY <3>2 DEF taken
  <2>1. PlacedAt(n, segments, writes, q, "read", hand, count + 1)
    BY <1>1, <1>5, <2>2, <2>3 DEF PlacedAt
  <2> QED BY <1>2, <2>1 DEF PlacedIn
<1>7. PlacedIn(segments, writes, queue, "push", h, count + 1)
  <2>1. PlacedAt(n, segments, writes, queue, "push", h, count + 1)
    BY <1>1, <1>2, <1>4 DEF PlacedAt
  <2> QED BY <1>2, <2>1 DEF PlacedIn
<1> QED BY <1>6, <1>7 DEF q, h

\* The drain takes the oldest frame, and a push that waits gets room.
LEMMA PlaceTaken ==
  ASSUME NEW segments, NEW queue \in Seq(Nat), queue # <<>>, NEW pushes,
         NEW hand \in [push : Nat, write : Nat], NEW count \in Nat,
         PlacedIn(segments, "read", queue, pushes, hand, count),
         NEW writes \in {"write", "threw"}
  PROVE  PlacedIn(segments, writes,
                  IF pushes = "push" THEN Append(Tail(queue), hand.push) ELSE Tail(queue),
                  IF pushes = "push" THEN "read" ELSE pushes,
                  [push |-> None, write |-> Head(queue)], count)
<1>1. PICK n \in 0..count :
        /\ segments # <<>> /\ Numbered(segments, n)
        /\ \A i \in 1..Len(queue) : queue[i] = n + i
        /\ count = (IF pushes = "push" THEN n + Len(queue) + 1 ELSE n + Len(queue))
        /\ hand.push = (IF pushes = "push" THEN n + Len(queue) + 1 ELSE None)
  BY DEF PlacedIn, PlacedAt
<1> DEFINE rest == Tail(queue)
           l == Len(queue)
<1>2. /\ l \in Nat /\ l # 0 /\ rest \in Seq(Nat) /\ Len(rest) = l - 1 /\ Head(queue) = queue[1]
      /\ \A i \in 1..(l - 1) : rest[i] = queue[i + 1]
  BY EmptySeq, HeadTailProperties
<1> HIDE DEF rest
<1>3. Head(queue) = n + 1 /\ \A i \in 1..(l - 1) : rest[i] = n + 1 + i
  <2>1. 1 \in 1..l
    BY <1>2
  <2>2. \A i \in 1..(l - 1) : i + 1 \in 1..l
    BY <1>2
  <2> HIDE DEF l
  <2>3. ASSUME NEW i \in 1..(l - 1) PROVE rest[i] = n + 1 + i
    <3>1. rest[i] = n + (i + 1) /\ i \in Nat
      BY <1>1, <1>2, <2>2 DEF l
    <3> QED BY <3>1
  <2> QED BY <1>1, <1>2, <2>1, <2>3 DEF l
<1> DEFINE h == [push |-> None, write |-> Head(queue)]
<1>4. h.push = None /\ h.write = n + 1
  BY <1>3
<1> HIDE DEF h, l
<1>5. CASE pushes = "push"
  <2> DEFINE q == Append(rest, hand.push)
  <2>1. hand.push = n + l + 1 /\ count = n + l + 1 /\ hand.push \in Nat
    BY <1>1, <1>5 DEF l
  <2>2. /\ Len(q) = l /\ q[l] = hand.push /\ \A i \in 1..(l - 1) : q[i] = rest[i]
    BY <1>2, <2>1, AppendProperties
  <2> HIDE DEF q
  <2>3. \A i \in 1..l : q[i] = n + 1 + i /\ q[i] \in 1..count
    <3> TAKE i \in 1..l
    <3>1. i = l \/ i \in 1..(l - 1)
      BY <1>2
    <3>2. CASE i = l
      BY <1>2, <2>1, <2>2, <3>2
    <3>3. CASE i \in 1..(l - 1)
      <4>1. q[i] = n + 1 + i /\ i <= l
        BY <1>2, <1>3, <2>2, <3>3
      <4> QED BY <1>2, <2>1, <4>1
    <3> QED BY <3>1, <3>2, <3>3
  <2>4. PlacedIn(segments, writes, q, "read", h, count)
    <3>1. PlacedAt(n, segments, writes, q, "read", h, count)
      BY <1>1, <1>2, <1>4, <2>1, <2>2, <2>3 DEF PlacedAt, None
    <3> QED BY <3>1 DEF PlacedIn
  <2> QED BY <1>5, <2>4 DEF h, q, rest
<1>6. CASE pushes # "push"
  <2>1. count = n + l
    BY <1>1, <1>6 DEF l
  <2>2. \A i \in 1..(l - 1) : rest[i] \in 1..count
    <3> TAKE i \in 1..(l - 1)
    <3>1. rest[i] = n + 1 + i /\ i \in Nat /\ i <= l - 1
      BY <1>2, <1>3
    <3> QED BY <1>2, <2>1, <3>1
  <2>3. PlacedIn(segments, writes, rest, pushes, h, count)
    <3>1. PlacedAt(n, segments, writes, rest, pushes, h, count)
      BY <1>1, <1>2, <1>3, <1>4, <1>6, <2>1, <2>2 DEF PlacedAt, None
    <3> QED BY <3>1 DEF PlacedIn
  <2> QED BY <1>6, <2>3 DEF h, rest
<1> QED BY <1>5, <1>6

\* A new segment changes no place.
LEMMA PlaceOpened ==
  ASSUME NEW segments \in Seq(Seq(Nat)), NEW writes, NEW queue, NEW pushes, NEW hand,
         NEW count \in Nat, PlacedIn(segments, writes, queue, pushes, hand, count)
  PROVE  PlacedIn(Append(segments, <<>>), writes, queue, pushes, hand, count)
<1> DEFINE more == Append(segments, <<>>)
<1>1. more # <<>> /\ \A n \in 0..count : Numbered(segments, n) => Numbered(more, n)
  <2>1. <<>> \in Seq(Nat)
    BY EmptySeq
  <2>2. more # <<>>
    BY <2>1, AppendProperties
  <2>3. \A n \in 0..count : Numbered(segments, n) => Numbered(more, n)
    <3> TAKE n \in 0..count
    <3>1. n \in Nat
      OBVIOUS
    <3> QED BY <3>1, NumberedOpens
  <2> QED BY <2>2, <2>3
<1> HIDE DEF more
<1>2. PlacedIn(more, writes, queue, pushes, hand, count)
  BY <1>1 DEF PlacedIn, PlacedAt
<1> QED BY <1>2 DEF more

\* The frame in the drain's hands is in the last segment.
LEMMA PlaceWritten ==
  ASSUME NEW segments \in Seq(Seq(Nat)), NEW queue \in Seq(Nat), NEW pushes,
         NEW hand \in [push : Nat, write : Nat], NEW count \in Nat,
         PlacedIn(segments, "write", queue, pushes, hand, count)
  PROVE  /\ hand.write \in 1..count
         /\ PlacedIn([segments EXCEPT ![Len(segments)] = Append(@, hand.write)], "read",
                     queue, pushes, [hand EXCEPT !.write = None], count)
<1>1. PICK n \in 0..count :
        /\ segments # <<>> /\ Numbered(segments, n)
        /\ hand.write = n + 1
        /\ \A i \in 1..Len(queue) : queue[i] = n + 1 + i
        /\ count = (IF pushes = "push" THEN n + 1 + Len(queue) + 1 ELSE n + 1 + Len(queue))
        /\ hand.push = (IF pushes = "push" THEN n + 1 + Len(queue) + 1 ELSE None)
        /\ \A i \in 1..Len(queue) : queue[i] \in 1..count
        /\ hand.push \in 0..count /\ hand.write \in 0..count
  BY DEF PlacedIn, PlacedAt
<1> DEFINE more == [segments EXCEPT ![Len(segments)] = Append(@, n + 1)]
           h == [hand EXCEPT !.write = None]
<1>2. h.push = hand.push /\ h.write = None
  OBVIOUS
<1>3. Numbered(more, n + 1)
  <2>1. n \in Nat
    OBVIOUS
  <2> QED BY <1>1, <2>1, NumberedWrites
<1>4. more # <<>>
  <2>1. Len(segments) \in 1..Len(segments)
    BY <1>1, EmptySeq
  <2>2. Append(segments[Len(segments)], n + 1) \in Seq(Nat)
    BY <2>1
  <2>3. Len(more) = Len(segments)
    BY <2>1, <2>2, ExceptSeq
  <2> QED BY <2>1, <2>3
<1>5. hand.write \in 1..count /\ n + 1 \in 0..count
  BY <1>1
<1> HIDE DEF more, h
<1>6. PlacedIn(more, "read", queue, pushes, h, count)
  <2>1. PlacedAt(n + 1, more, "read", queue, pushes, h, count)
    BY <1>1, <1>2, <1>3, <1>4, <1>5 DEF PlacedAt, None
  <2> QED BY <1>5, <2>1 DEF PlacedIn
<1> QED BY <1>1, <1>5, <1>6 DEF more, h

\* A drain that ends or throws, and a feed that ends.
LEMMA PlaceEnds ==
  ASSUME NEW segments, NEW queue, NEW hand, NEW count
  PROVE  /\ \A pushes : PlacedIn(segments, "write", queue, pushes, hand, count)
                => PlacedIn(segments, "threw", queue, pushes, hand, count)
         /\ \A pushes : PlacedIn(segments, "read", queue, pushes, hand, count)
                => PlacedIn(segments, "done", queue, pushes, hand, count)
         /\ \A writes : PlacedIn(segments, writes, queue, "read", hand, count)
                => PlacedIn(segments, writes, queue, "done", hand, count)
BY DEF PlacedIn, PlacedAt

\* Every frame in a segment has been received.
LEMMA PlacedReceived ==
  ASSUME NEW segments \in Seq(Seq(Nat)), NEW writes, NEW queue, NEW pushes, NEW hand,
         NEW count \in Nat, PlacedIn(segments, writes, queue, pushes, hand, count)
  PROVE  /\ segments # <<>> /\ Len(segments) \in Nat \ {0}
         /\ \A i \in 1..Len(segments) : segments[i] \in Seq(1..count)
<1>1. PICK n \in 0..count : segments # <<>> /\ Numbered(segments, n)
  BY DEF PlacedIn, PlacedAt
<1>2. ASSUME NEW i \in 1..Len(segments) PROVE segments[i] \in Seq(1..count)
  <2>1. segments[i] \in Seq(1..n) /\ 1..n \subseteq 1..count
    BY <1>1, NumberedWithin
  <2> QED BY <2>1, SeqMonotonic
<1> QED BY <1>1, <1>2, EmptySeq

-----------------------------------------------------------------------------
(***************************************************************************)
(* The sizes of the segments, step by step.                                *)
(***************************************************************************)
\* A frame that is received is in no segment yet.
LEMMA SizeReceived ==
  ASSUME NEW sizes \in Seq(Nat), NEW size \in Nat, NEW segments, Len(segments) \in Nat \ {0},
         \A i \in 1..Len(segments) : segments[i] \in Seq(1..Len(sizes)),
         NEW writes, NEW hand, writes = "write" => hand.write \in 1..Len(sizes), NEW bytes \in Nat,
         SizedIn(sizes, segments, writes, hand, bytes)
  PROVE  SizedIn(Append(sizes, size), segments, writes, hand, bytes)
<1> DEFINE more == Append(sizes, size)
<1>1. \A i \in 1..Len(segments), n \in Nat :
        AddsUp(sizes, segments[i], n) => AddsUp(more, segments[i], n)
  BY AddsUpGrows
<1>2. writes = "write" => more[hand.write] = sizes[hand.write]
  BY AppendProperties
<1>3. Len(segments) \in 1..Len(segments)
  OBVIOUS
<1> HIDE DEF more
<1>4. SizedIn(more, segments, writes, hand, bytes)
  BY <1>1, <1>2, <1>3 DEF SizedIn
<1> QED BY <1>4 DEF more

\* The sink opens a segment, and the write to it begins.
LEMMA SizeOpened ==
  ASSUME NEW sizes \in Seq(Nat), NEW segments \in Seq(Seq(Nat)), NEW writes, NEW hand,
         NEW bytes, SizedIn(sizes, segments, writes, hand, bytes), NEW hand1
  PROVE  SizedIn(sizes, Append(segments, <<>>), "write", hand1, 0)
<1> DEFINE more == Append(segments, <<>>)
           l == Len(segments)
<1>1. /\ l \in Nat /\ Len(more) = l + 1 /\ more[l + 1] = <<>>
      /\ \A i \in 1..l : more[i] = segments[i]
  BY EmptySeq, AppendProperties
<1>2. AddsUp(sizes, <<>>, 0)
  BY AddsUpEmpty
<1> HIDE DEF more
<1>3. ASSUME NEW i \in 1..Len(more)
      PROVE  \E n \in Nat : AddsUp(sizes, more[i], n) /\ (n <= MaxSize \/ Len(more[i]) = 1)
  <2>1. i = l + 1 \/ i \in 1..l
    BY <1>1
  <2>2. CASE i = l + 1
    BY <1>1, <1>2, <2>2, RecorderAssumption
  <2>3. CASE i \in 1..l
    BY <1>1, <2>3 DEF SizedIn
  <2> QED BY <2>1, <2>2, <2>3
<1>4. SizedIn(sizes, more, "write", hand1, 0)
  BY <1>1, <1>2, <1>3 DEF SizedIn
<1> QED BY <1>4 DEF more

\* The write to the segment that is open begins, if there is room for the frame;
\* or the drain ends or throws.
LEMMA SizeStays ==
  ASSUME NEW sizes, NEW segments, NEW writes, NEW hand, NEW bytes,
         SizedIn(sizes, segments, writes, hand, bytes), NEW writes1, NEW hand1,
         writes1 = "write" => bytes + sizes[hand1.write] <= MaxSize
  PROVE  SizedIn(sizes, segments, writes1, hand1, bytes)
BY DEF SizedIn

\* The write has ended.
LEMMA SizeWritten ==
  ASSUME NEW sizes \in Seq(Nat), NEW segments \in Seq(Seq(Nat)), segments # <<>>,
         NEW hand, hand.write \in 1..Len(sizes), NEW bytes \in Nat,
         SizedIn(sizes, segments, "write", hand, bytes), NEW hand1
  PROVE  SizedIn(sizes, [segments EXCEPT ![Len(segments)] = Append(@, hand.write)], "read", hand1,
                 bytes + sizes[hand.write])
<1> DEFINE l == Len(segments)
           last == segments[l]
           more == [segments EXCEPT ![l] = Append(@, hand.write)]
           k == hand.write
<1>1. l \in Nat /\ l # 0 /\ l \in 1..l /\ last \in Seq(Nat)
  BY EmptySeq
<1>2. /\ Len(more) = l /\ more[l] = Append(last, k)
      /\ \A i \in 1..l : i # l => more[i] = segments[i]
  BY <1>1
<1>3. AddsUp(sizes, last, bytes) /\ (last = <<>> \/ bytes + sizes[k] <= MaxSize)
  BY DEF SizedIn
<1>4. sizes[k] \in Nat
  OBVIOUS
<1> HIDE DEF more, last
<1>5. AddsUp(sizes, Append(last, k), bytes + sizes[k])
  BY <1>1, <1>3, AddsUpWrites
<1>6. last = <<>> => Len(Append(last, k)) = 1
  BY <1>1, AppendProperties
<1>7. ASSUME NEW i \in 1..l
      PROVE  \E n \in Nat : AddsUp(sizes, more[i], n) /\ (n <= MaxSize \/ Len(more[i]) = 1)
  <2>1. CASE i = l
    <3>1. bytes + sizes[k] \in Nat
      BY <1>4
    <3> QED BY <1>2, <1>3, <1>5, <1>6, <2>1, <3>1
  <2>2. CASE i # l
    BY <1>2, <2>2 DEF SizedIn
  <2> QED BY <2>1, <2>2
<1> HIDE DEF l, k
<1>8. SizedIn(sizes, more, "read", hand1, bytes + sizes[k])
  BY <1>2, <1>5, <1>7 DEF SizedIn
<1> QED BY <1>8 DEF more, k, l

-----------------------------------------------------------------------------
\* What a step leaves alone keeps its place and its size.
LEMMA UntouchedPlaced ==
  ASSUME NEW f \in Feed, Placed(f), 
         feed'[f] = feed[f], received'[f] = received[f], chan'[f] = chan[f], drain'[f] = drain[f],
         inHand'[f] = inHand[f], file'[f] = file[f]
  PROVE  Placed(f)'
BY DEF Placed

\* The same of what is said of its sizes.
LEMMA UntouchedSized ==
  ASSUME NEW f \in Feed, Sized(f), 
         received'[f] = received[f], drain'[f] = drain[f],
         inHand'[f] = inHand[f], file'[f] = file[f], current_bytes'[f] = current_bytes[f]
  PROVE  Sized(f)'
BY DEF Sized

\* The same of what is said of the segments given to zstd.
LEMMA UntouchedGiven ==
  ASSUME NEW f \in Feed, Given(f), Recording' => Recording,
         file'[f] = file[f], sink'[f] = sink[f], 
         synced'[f] = synced[f], children'[f] = children[f], exited'[f] = exited[f]
  PROVE  Given(f)'
BY DEF Given

\* The invariant holds before the first frame.
LEMMA FilesInitInv == ASSUME FilesInit PROVE FilesInv
<1> USE RecorderAssumption
<1>1. FilesTypes
  BY EmptySeq DEF FilesInit, FilesTypes, None
<1>2. ASSUME NEW f \in Feed PROVE Placed(f) /\ Sized(f) /\ Given(f)
  <2>1. /\ file[f] = << <<>> >> /\ received[f] = <<>> /\ chan[f] = <<>> /\ drain[f] = "read"
        /\ feed[f] = "read" /\ inHand[f].push = None /\ inHand[f].write = None
        /\ current_bytes[f] = 0 /\ exited[f] = {} /\ children[f] = {} /\ synced[f] = {}
    BY DEF FilesInit
  <2>2. Numbered(<< <<>> >>, 0)
    <3> DEFINE ends == [i \in 0..1 |-> 0]
    <3>1. ends \in [0..1 -> 0..0] /\ ends[0] = 0 /\ ends[1] = 0
      OBVIOUS
    <3>2. Len(<< <<>> >>) = 1 /\ << <<>> >>[1] = <<>> /\ Len(<<>>) = 0
      OBVIOUS
    <3> HIDE DEF ends
    <3> QED BY <3>1, <3>2 DEF Numbered
  <2>3. Numbered(file[f], 0) /\ file[f] # <<>> /\ Len(file[f]) = 1 /\ file[f][1] = <<>>
    BY <2>1, <2>2
  <2>4. Placed(f)
    <3>1. Len(received[f]) = 0 /\ Len(chan[f]) = 0
      BY <2>1
    <3> QED BY <2>1, <2>3, <3>1 DEF Placed, PlacedIn, PlacedAt, None
  <2>5. AddsUp(received[f], <<>>, 0)
    BY AddsUpEmpty
  <2>6. Sized(f)
    BY <2>1, <2>3, <2>5 DEF Sized, SizedIn
  <2>7. Given(f)
    BY <2>1, <2>3 DEF Given
  <2> QED BY <2>4, <2>6, <2>7
<1> QED BY <1>1, <1>2 DEF FilesInv, FeedInv, FilesInit

\* A step of one feed leaves the others alone.
LEMMA OneFeed ==
  ASSUME FilesInv, FilesTypes', (open \/ \A g \in Feed : feed[g] = "done")',
         NEW f \in Feed, FeedInv(f)', Recording' => Recording,
         \A g \in Feed : g # f =>
            /\ feed'[g] = feed[g] /\ received'[g] = received[g] /\ chan'[g] = chan[g]
            /\ drain'[g] = drain[g] /\ inHand'[g] = inHand[g] /\ file'[g] = file[g]
            /\ current_bytes'[g] = current_bytes[g] /\ synced'[g] = synced[g]
            /\ children'[g] = children[g] /\ exited'[g] = exited[g] /\ sink'[g] = sink[g]
  PROVE  FilesInv'
<1>1. ASSUME NEW g \in Feed PROVE (Placed(g) /\ Sized(g) /\ Given(g))'
  <2>1. CASE g = f
    BY <2>1 DEF FeedInv
  <2>2. CASE g # f
    <3>1. Placed(g) /\ Sized(g) /\ Given(g)
      BY DEF FilesInv, FeedInv
    <3>2. Placed(g)'
      BY <2>2, <3>1, UntouchedPlaced
    <3>3. Sized(g)'
      BY <2>2, <3>1, UntouchedSized
    <3>4. Given(g)'
      BY <2>2, <3>1, UntouchedGiven
    <3> QED BY <3>2, <3>3, <3>4
  <2> QED BY <2>1, <2>2
<1> QED BY <1>1 DEF FilesInv, FeedInv

\* What the invariant says at a feed.
LEMMA FeedTypes ==
  ASSUME FilesInv, NEW f \in Feed
  PROVE  /\ feed[f] \in {"read", "push", "done"} /\ drain[f] \in {"read", "write", "done", "threw"}
         /\ received[f] \in Seq(Nat) /\ received[f] \in Seq(Size) /\ chan[f] \in Seq(Nat)
         /\ inHand[f] \in [push : Nat, write : Nat] /\ file[f] \in Seq(Seq(Nat))
         /\ current_bytes[f] \in Nat /\ Len(received[f]) \in Nat
         /\ synced[f] \subseteq Nat /\ children[f] \subseteq Nat /\ exited[f] \subseteq Nat
         /\ file[f] # <<>> /\ Len(file[f]) \in Nat \ {0}
         /\ \A i \in 1..Len(file[f]) : file[f][i] \in Seq(1..Len(received[f]))
         /\ PlacedIn(file[f], drain[f], chan[f], feed[f], inHand[f], Len(received[f]))
         /\ SizedIn(received[f], file[f], drain[f], inHand[f], current_bytes[f])
         /\ Len(chan[f]) <= BufferCapacity /\ Given(f)
<1>1. FilesTypes /\ Placed(f) /\ Sized(f) /\ Given(f)
  BY DEF FilesInv, FeedInv
<1>2. /\ feed[f] \in {"read", "push", "done"} /\ drain[f] \in {"read", "write", "done", "threw"}
      /\ received[f] \in Seq(Size) /\ chan[f] \in Seq(Nat)
      /\ inHand[f] \in [push : Nat, write : Nat] /\ file[f] \in Seq(Seq(Nat))
      /\ current_bytes[f] \in Nat 
      /\ synced[f] \subseteq Nat /\ children[f] \subseteq Nat /\ exited[f] \subseteq Nat
  BY <1>1 DEF FilesTypes
<1>3. received[f] \in Seq(Nat) /\ Len(received[f]) \in Nat
  <2>1. Size \subseteq Nat
    BY RecorderAssumption
  <2>2. received[f] \in Seq(Nat)
    BY <1>2, <2>1, SeqMonotonic
  <2> QED BY <2>2, LenProperties
<1>4. /\ PlacedIn(file[f], drain[f], chan[f], feed[f], inHand[f], Len(received[f]))
      /\ SizedIn(received[f], file[f], drain[f], inHand[f], current_bytes[f])
      /\ Len(chan[f]) <= BufferCapacity
  BY <1>1 DEF Placed, Sized
<1>5. /\ file[f] # <<>> /\ Len(file[f]) \in Nat \ {0}
      /\ \A i \in 1..Len(file[f]) : file[f][i] \in Seq(1..Len(received[f]))
  BY <1>2, <1>3, <1>4, PlacedReceived
<1> QED BY <1>1, <1>2, <1>3, <1>4, <1>5

\* A frame is received (the loop of a feed): it waits or is pushed.
LEMMA ReceiveKeeps == ASSUME FilesInv, NEW f \in Feed, Receive(f) PROVE FilesInv'
<1> DEFINE k == Len(received[f]) + 1
<1>1. PICK n \in Size : received' = [received EXCEPT ![f] = Append(@, n)]
  BY DEF Receive
<1>2. /\ Recording /\ feed[f] = "read"
      /\ \/ /\ Len(chan[f]) < BufferCapacity
            /\ chan' = [chan EXCEPT ![f] = Append(@, k)]
            /\ UNCHANGED <<feed, inHand>>
         \/ /\ Len(chan[f]) >= BufferCapacity
            /\ feed' = [feed EXCEPT ![f] = "push"]
            /\ inHand' = [inHand EXCEPT ![f].push = k]
            /\ UNCHANGED chan
      /\ UNCHANGED <<open, drain, file, current_bytes, synced, children, exited, sink>>
  BY DEF Receive, sinkVars
<1>3. FilesTypes /\ (open \/ \A g \in Feed : feed[g] = "done") /\ n \in Nat
  BY RecorderAssumption DEF FilesInv, FeedInv
<1>4. drain[f] # "threw" /\ open
  BY <1>2, <1>3 DEF Recording
<1>5. /\ received[f] \in Seq(Nat) /\ chan[f] \in Seq(Nat) /\ received[f] \in Seq(Size)
      /\ inHand[f] \in [push : Nat, write : Nat] /\ file[f] \in Seq(Seq(Nat))
      /\ current_bytes[f] \in Nat /\ Len(received[f]) \in Nat
      /\ Len(file[f]) \in Nat \ {0} /\ \A i \in 1..Len(file[f]) : file[f][i] \in Seq(1..Len(received[f]))
      /\ PlacedIn(file[f], drain[f], chan[f], "read", inHand[f], Len(received[f]))
      /\ SizedIn(received[f], file[f], drain[f], inHand[f], current_bytes[f])
      /\ Len(chan[f]) <= BufferCapacity /\ Given(f)
  BY <1>2, FeedTypes
<1>6. received'[f] = Append(received[f], n) /\ Len(received'[f]) = k /\ k \in Nat
  <2>1. received'[f] = Append(received[f], n)
    BY <1>1, <1>3 DEF FilesTypes
  <2> QED BY <1>5, <2>1, AppendProperties
<1> HIDE DEF k
<1>7. FilesTypes'
  <2>1. received' \in [Feed -> Seq(Size)]
    <3>1. Append(received[f], n) \in Seq(Size)
      BY <1>5, AppendProperties
    <3> QED BY <1>1, <1>3, <3>1 DEF FilesTypes
  <2>2. chan' \in [Feed -> Seq(Nat)]
    <3>1. Append(chan[f], k) \in Seq(Nat)
      BY <1>5, <1>6, AppendProperties
    <3> QED BY <1>2, <1>3, <3>1 DEF FilesTypes
  <2>3. inHand' \in [Feed -> [push : Nat, write : Nat]]
    <3>1. [inHand[f] EXCEPT !.push = k] \in [push : Nat, write : Nat]
      BY <1>5, <1>6
    <3>2. inHand \in [Feed -> [push : Nat, write : Nat]]
      BY <1>3 DEF FilesTypes
    <3>3. inHand' = inHand \/ inHand' = [inHand EXCEPT ![f] = [inHand[f] EXCEPT !.push = k]]
      BY <1>2
    <3> QED BY <3>1, <3>2, <3>3
  <2>4. feed' \in [Feed -> {"read", "push", "done"}]
    BY <1>2, <1>3 DEF FilesTypes
  <2> QED BY <1>2, <1>3, <2>1, <2>2, <2>3, <2>4 DEF FilesTypes
<1>8. Placed(f)'
  <2>1. /\ PlacedIn(file[f], drain[f], Append(chan[f], k), "read", inHand[f], k)
        /\ PlacedIn(file[f], drain[f], chan[f], "push", [inHand[f] EXCEPT !.push = k], k)
    BY <1>4, <1>5, PlaceReceived DEF k
  <2>2. CASE /\ Len(chan[f]) < BufferCapacity
             /\ chan' = [chan EXCEPT ![f] = Append(@, k)]
             /\ UNCHANGED <<feed, inHand>>
    <3>1. chan'[f] = Append(chan[f], k) /\ feed'[f] = "read" /\ inHand'[f] = inHand[f]
      BY <1>2, <1>3, <2>2 DEF FilesTypes
    <3>2. Len(chan'[f]) <= BufferCapacity
      BY <1>5, <1>6, <2>2, <3>1, AppendProperties, RecorderAssumption
    <3> QED BY <1>2, <1>6, <2>1, <3>1, <3>2 DEF Placed
  <2>3. CASE /\ feed' = [feed EXCEPT ![f] = "push"]
             /\ inHand' = [inHand EXCEPT ![f].push = k]
             /\ UNCHANGED chan
    <3>1. chan'[f] = chan[f] /\ feed'[f] = "push" /\ inHand'[f] = [inHand[f] EXCEPT !.push = k]
      BY <1>3, <2>3 DEF FilesTypes
    <3> QED BY <1>2, <1>5, <1>6, <2>1, <3>1 DEF Placed
  <2> QED BY <1>2, <2>2, <2>3
<1>9. Sized(f)'
  <2>1. inHand'[f].write = inHand[f].write
    BY <1>2, <1>3, <1>5 DEF FilesTypes
  <2>2. drain[f] = "write" => inHand[f].write \in 1..Len(received[f])
    BY <1>5, PlaceWritten
  <2>3. SizedIn(Append(received[f], n), file[f], drain[f], inHand[f], current_bytes[f])
    BY <1>3, <1>5, <2>2, SizeReceived
  <2>4. SizedIn(Append(received[f], n), file[f], drain[f], inHand'[f], current_bytes[f])
    BY <2>1, <2>3 DEF SizedIn
  <2> QED BY <1>2, <1>6, <2>4 DEF Sized
<1>10. Given(f)'
  BY <1>2, <1>5 DEF Given, Recording
<1> QED
  <2>1. Recording' => Recording
    BY <1>2
  <2>2. \A g \in Feed : g # f =>
          /\ feed'[g] = feed[g] /\ received'[g] = received[g] /\ chan'[g] = chan[g]
          /\ drain'[g] = drain[g] /\ inHand'[g] = inHand[g] /\ file'[g] = file[g]
          /\ current_bytes'[g] = current_bytes[g] /\ synced'[g] = synced[g]
          /\ children'[g] = children[g] /\ exited'[g] = exited[g] /\ sink'[g] = sink[g]
    BY <1>1, <1>2, <1>3 DEF FilesTypes
  <2>3. (open \/ \A g \in Feed : feed[g] = "done")'
    BY <1>2, <1>4
  <2>4. FeedInv(f)'
    BY <1>8, <1>9, <1>10 DEF FeedInv
  <2> QED BY <1>7, <2>1, <2>2, <2>3, <2>4, OneFeed

\* A feed ends.
LEMMA EndsKeeps == ASSUME FilesInv, NEW f \in Feed, Ends(f) PROVE FilesInv'
<1>1. /\ Recording /\ feed[f] = "read" /\ feed' = [feed EXCEPT ![f] = "done"]
      /\ UNCHANGED <<received, chan, open, drain, inHand, file, current_bytes, synced, children,
                     exited, sink>>
  BY DEF Ends, sinkVars
<1>2. FilesTypes /\ (open \/ \A g \in Feed : feed[g] = "done")
  BY DEF FilesInv, FeedInv
<1>3. feed'[f] = "done" /\ FilesTypes' /\ open
  BY <1>1, <1>2 DEF FilesTypes
<1>4. Placed(f)'
  <2>1. PlacedIn(file[f], drain[f], chan[f], "read", inHand[f], Len(received[f]))
        /\ Len(chan[f]) <= BufferCapacity
    BY <1>1, FeedTypes
  <2>2. PlacedIn(file[f], drain[f], chan[f], "done", inHand[f], Len(received[f]))
    BY <2>1, PlaceEnds
  <2> QED BY <1>1, <1>3, <2>1, <2>2 DEF Placed
<1>5. Sized(f)' /\ Given(f)'
  BY <1>1 DEF FilesInv, FeedInv, Sized, Given, Recording
<1>6. \A g \in Feed : g # f => feed'[g] = feed[g]
  BY <1>1, <1>2 DEF FilesTypes
<1> QED
  BY <1>1, <1>3, <1>4, <1>5, <1>6, OneFeed DEF FeedInv

\* The buffers are closed after the last feed.
LEMMA CloseKeeps == ASSUME FilesInv, watch_then_close PROVE FilesInv'
<1>1. /\ open' = FALSE /\ \A f \in Feed : feed[f] = "done"
      /\ UNCHANGED <<feed, received, chan, drain, inHand, file, current_bytes, synced, children,
                     exited, sink>>
  BY DEF watch_then_close, sinkVars
<1>2. FilesTypes'
  BY <1>1 DEF FilesInv, FeedInv, FilesTypes
<1>3. ASSUME NEW f \in Feed PROVE (Placed(f) /\ Sized(f) /\ Given(f))'
  BY <1>1 DEF FilesInv, FeedInv, Placed, Sized, Given, Recording
<1> QED BY <1>1, <1>2, <1>3 DEF FilesInv, FeedInv

\* The read of a frame from the channel, whatever the sink does with it.
LEMMA TakeKeeps ==
  ASSUME FilesInv, NEW f \in Feed, Recording, drain[f] = "read", chan[f] # <<>>, Take(f)
  PROVE  /\ chan' \in [Feed -> Seq(Nat)] /\ feed' \in [Feed -> {"read", "push", "done"}]
         /\ inHand' \in [Feed -> [push : Nat, write : Nat]]
         /\ (\A g \in Feed : feed[g] = "done") => (\A g \in Feed : feed'[g] = "done")
         /\ \A g \in Feed : g # f =>
              feed'[g] = feed[g] /\ chan'[g] = chan[g] /\ inHand'[g] = inHand[g]
         /\ Len(chan'[f]) <= BufferCapacity
         /\ inHand'[f].write = Head(chan[f]) /\ Head(chan[f]) \in 1..Len(received[f])
         /\ \A writes \in {"write", "threw"} :
              PlacedIn(file[f], writes, chan'[f], feed'[f], inHand'[f], Len(received[f]))
<1> DEFINE q == IF feed[f] = "push" THEN Append(Tail(chan[f]), inHand[f].push) ELSE Tail(chan[f])
           p == IF feed[f] = "push" THEN "read" ELSE feed[f]
           h == [push |-> None, write |-> Head(chan[f])]
<1>1. FilesTypes
  BY DEF FilesInv, FeedInv
<1>2. /\ chan' = [chan EXCEPT ![f] = q] /\ feed' = [feed EXCEPT ![f] = p]
      /\ inHand' = [inHand EXCEPT ![f] = h]
  BY DEF Take
<1>3. /\ feed[f] \in {"read", "push", "done"} /\ chan[f] \in Seq(Nat) /\ Len(received[f]) \in Nat
      /\ inHand[f] \in [push : Nat, write : Nat] /\ Len(chan[f]) <= BufferCapacity
      /\ PlacedIn(file[f], "read", chan[f], feed[f], inHand[f], Len(received[f]))
  BY FeedTypes
<1>4. /\ Tail(chan[f]) \in Seq(Nat) /\ Len(Tail(chan[f])) = Len(chan[f]) - 1
      /\ Head(chan[f]) \in Nat /\ Len(chan[f]) \in Nat /\ Len(chan[f]) # 0
      /\ Head(chan[f]) = chan[f][1]
  BY <1>3, HeadTailProperties, EmptySeq
<1>5. q \in Seq(Nat) /\ Len(q) <= BufferCapacity
  <2>1. CASE feed[f] = "push"
    BY <1>3, <1>4, <2>1, AppendProperties, RecorderAssumption
  <2>2. CASE feed[f] # "push"
    BY <1>3, <1>4, <2>2, RecorderAssumption
  <2> QED BY <2>1, <2>2
<1>6. p \in {"read", "push", "done"} /\ (feed[f] = "done" => p = "done")
  BY <1>3
<1>7. h \in [push : Nat, write : Nat] /\ h.write = Head(chan[f])
  BY <1>4 DEF None
<1>8. \A writes \in {"write", "threw"} : PlacedIn(file[f], writes, q, p, h, Len(received[f]))
  BY <1>3, PlaceTaken
<1>9. Head(chan[f]) \in 1..Len(received[f])
  <2>1. 1 \in 1..Len(chan[f])
    BY <1>4
  <2> QED BY <1>3, <1>4, <2>1 DEF PlacedIn, PlacedAt
<1> HIDE DEF q, p, h
<1>10. chan'[f] = q /\ feed'[f] = p /\ inHand'[f] = h
  BY <1>1, <1>2 DEF FilesTypes
<1>11. \A g \in Feed : g # f =>
         feed'[g] = feed[g] /\ chan'[g] = chan[g] /\ inHand'[g] = inHand[g]
  BY <1>1, <1>2 DEF FilesTypes
<1>12. /\ chan' \in [Feed -> Seq(Nat)] /\ feed' \in [Feed -> {"read", "push", "done"}]
       /\ inHand' \in [Feed -> [push : Nat, write : Nat]]
  BY <1>1, <1>2, <1>5, <1>6, <1>7 DEF FilesTypes
<1>13. (\A g \in Feed : feed[g] = "done") => (\A g \in Feed : feed'[g] = "done")
  BY <1>6, <1>10, <1>11
<1> QED BY <1>5, <1>7, <1>8, <1>9, <1>10, <1>11, <1>12, <1>13

\* A drain reads its buffer: it takes a frame, and opens the next segment if that is due.
LEMMA ReadKeeps == ASSUME FilesInv, NEW f \in Feed, Read(f) PROVE FilesInv'
<1> DEFINE w == received[f][Head(chan[f])]
<1>1. /\ Recording /\ drain[f] = "read" /\ chan[f] # <<>> /\ Take(f)
      /\ drain' = [drain EXCEPT ![f] = "write"]
      /\ \/ rotate(f)
         \/ /\ current_bytes[f] + w <= MaxSize
            /\ UNCHANGED <<file, current_bytes, synced, children, exited>>
      /\ UNCHANGED <<received, open, sink>>
  <2>1. Head(chan[f]) \in 1..Len(received[f]) /\ received[f] \in Seq(Nat) /\ current_bytes[f] \in Nat
    BY TakeKeeps, FeedTypes DEF Read
  <2>2. w \in Nat /\ MaxSize \in Nat
    BY <2>1, RecorderAssumption
  <2> HIDE DEF w
  <2>3. ~ (current_bytes[f] + w > MaxSize) => current_bytes[f] + w <= MaxSize
    BY <2>1, <2>2
  <2> QED BY <2>3 DEF Read, should_rotate, w
<1>2. /\ FilesTypes /\ (open \/ \A g \in Feed : feed[g] = "done")
      /\ file[f] \in Seq(Seq(Nat)) /\ received[f] \in Seq(Nat) /\ current_bytes[f] \in Nat
      /\ Len(received[f]) \in Nat /\ Given(f) /\ Len(file[f]) \in Nat \ {0}
      /\ SizedIn(received[f], file[f], drain[f], inHand[f], current_bytes[f])
      /\ synced[f] \subseteq Nat /\ children[f] \subseteq Nat /\ exited[f] \subseteq Nat
  BY FeedTypes DEF FilesInv, FeedInv
<1>3. /\ chan' \in [Feed -> Seq(Nat)] /\ feed' \in [Feed -> {"read", "push", "done"}]
      /\ inHand' \in [Feed -> [push : Nat, write : Nat]]
      /\ (\A g \in Feed : feed[g] = "done") => (\A g \in Feed : feed'[g] = "done")
      /\ \A g \in Feed : g # f =>
           feed'[g] = feed[g] /\ chan'[g] = chan[g] /\ inHand'[g] = inHand[g]
      /\ Len(chan'[f]) <= BufferCapacity /\ inHand'[f].write = Head(chan[f])
      /\ PlacedIn(file[f], "write", chan'[f], feed'[f], inHand'[f], Len(received[f]))
  BY <1>1, TakeKeeps
<1>4. drain'[f] = "write" /\ drain' \in [Feed -> {"read", "write", "done", "threw"}]
      /\ \A g \in Feed : g # f => drain'[g] = drain[g]
  BY <1>1, <1>2 DEF FilesTypes
<1>5. CASE /\ current_bytes[f] + w <= MaxSize
           /\ UNCHANGED <<file, current_bytes, synced, children, exited>>
  <2>1. FilesTypes'
    BY <1>1, <1>2, <1>3, <1>4, <1>5 DEF FilesTypes
  <2>2. Placed(f)'
    BY <1>1, <1>3, <1>4, <1>5 DEF Placed
  <2>3. SizedIn(received[f], file[f], "write", inHand'[f], current_bytes[f])
    BY <1>2, <1>3, <1>5, SizeStays
  <2>4. Sized(f)'
    BY <1>1, <1>4, <1>5, <2>3 DEF Sized
  <2>5. Given(f)'
    BY <1>1, <1>2, <1>4, <1>5 DEF Given
  <2>6. FeedInv(f)' /\ (open \/ \A g \in Feed : feed[g] = "done")'
    BY <1>1, <1>2, <1>3, <2>2, <2>4, <2>5 DEF FeedInv
  <2>7. \A g \in Feed : g # f =>
          /\ feed'[g] = feed[g] /\ received'[g] = received[g] /\ chan'[g] = chan[g]
          /\ drain'[g] = drain[g] /\ inHand'[g] = inHand[g] /\ file'[g] = file[g]
          /\ current_bytes'[g] = current_bytes[g] /\ synced'[g] = synced[g]
          /\ children'[g] = children[g] /\ exited'[g] = exited[g] /\ sink'[g] = sink[g]
    BY <1>1, <1>3, <1>4, <1>5
  <2> QED BY <1>1, <2>1, <2>6, <2>7, OneFeed
<1>6. CASE rotate(f)
  <2>1. /\ synced' = [synced EXCEPT ![f] = @ \cup {Len(file[f])}]
        /\ children' = [children EXCEPT ![f] = (@ \ exited[f]) \cup {Len(file[f])}]
        /\ exited' = [exited EXCEPT ![f] = {}]
        /\ file' = [file EXCEPT ![f] = Append(@, <<>>)]
        /\ current_bytes' = [current_bytes EXCEPT ![f] = 0]
    BY <1>6 DEF rotate, Reap, Current
  <2>2. /\ Append(file[f], <<>>) \in Seq(Seq(Nat)) /\ Len(Append(file[f], <<>>)) = Len(file[f]) + 1
    BY <1>2, AppendProperties, EmptySeq
  <2>3. FilesTypes'
    <3>1. /\ file' \in [Feed -> Seq(Seq(Nat))] /\ current_bytes' \in [Feed -> Nat]
      BY <1>2, <2>1, <2>2 DEF FilesTypes
    <3>2. /\ synced[f] \cup {Len(file[f])} \in SUBSET Nat
          /\ (children[f] \ exited[f]) \cup {Len(file[f])} \in SUBSET Nat
      BY <1>2
    <3>3. /\ synced' \in [Feed -> SUBSET Nat] /\ children' \in [Feed -> SUBSET Nat]
          /\ exited' \in [Feed -> SUBSET Nat]
      BY <1>2, <2>1, <3>2 DEF FilesTypes
    <3> QED BY <1>1, <1>2, <1>3, <1>4, <3>1, <3>3 DEF FilesTypes
  <2>4. /\ file'[f] = Append(file[f], <<>>) /\ current_bytes'[f] = 0
        /\ synced'[f] = synced[f] \cup {Len(file[f])}
        /\ children'[f] = (children[f] \ exited[f]) \cup {Len(file[f])} /\ exited'[f] = {}
    BY <1>2, <2>1 DEF FilesTypes
  <2>5. Placed(f)'
    <3>1. PlacedIn(Append(file[f], <<>>), "write", chan'[f], feed'[f], inHand'[f], Len(received[f]))
      BY <1>2, <1>3, PlaceOpened
    <3> QED BY <1>1, <1>3, <1>4, <2>4, <3>1 DEF Placed
  <2>6. Sized(f)'
    <3>1. SizedIn(received[f], Append(file[f], <<>>), "write", inHand'[f], 0)
      BY <1>2, SizeOpened
    <3> QED BY <1>1, <1>4, <2>4, <3>1 DEF Sized
  <2>7. Given(f)'
    <3>1. Len(file'[f]) = Len(file[f]) + 1
      BY <2>2, <2>4
    <3>2. \A i \in 1..Len(file[f]) : i \in 1..(Len(file[f]) + 1) /\ i < Len(file[f]) + 1
      BY <1>2
    <3>3. Len(file[f]) \in 1..Len(file[f])
      BY <1>2
    <3>4. exited'[f] \subseteq children'[f] /\ children'[f] \subseteq synced'[f]
      BY <1>2, <2>4 DEF Given
    <3>5. synced'[f] \subseteq 1..Len(file[f])
      BY <1>2, <2>4, <3>3 DEF Given
    <3> QED BY <3>1, <3>2, <3>4, <3>5 DEF Given
  <2>8. FeedInv(f)' /\ (open \/ \A g \in Feed : feed[g] = "done")'
    BY <1>1, <1>2, <1>3, <2>5, <2>6, <2>7 DEF FeedInv
  <2>9. \A g \in Feed : g # f =>
          /\ feed'[g] = feed[g] /\ received'[g] = received[g] /\ chan'[g] = chan[g]
          /\ drain'[g] = drain[g] /\ inHand'[g] = inHand[g] /\ file'[g] = file[g]
          /\ current_bytes'[g] = current_bytes[g] /\ synced'[g] = synced[g]
          /\ children'[g] = children[g] /\ exited'[g] = exited[g] /\ sink'[g] = sink[g]
    BY <1>1, <1>2, <1>3, <1>4, <2>1 DEF FilesTypes
  <2> QED BY <1>1, <2>3, <2>8, <2>9, OneFeed
<1> QED BY <1>1, <1>5, <1>6

\* The next segment cannot be opened.
LEMMA SegmentThrowsKeeps == ASSUME FilesInv, NEW f \in Feed, SegmentThrows(f) PROVE FilesInv'
<1>1. /\ Recording /\ drain[f] = "read" /\ chan[f] # <<>> /\ Take(f)
      /\ drain' = [drain EXCEPT ![f] = "threw"]
      /\ synced' = [synced EXCEPT ![f] = @ \cup {Len(file[f])}]
      /\ children' = [children EXCEPT ![f] = (@ \ exited[f]) \cup {Len(file[f])}]
      /\ exited' = [exited EXCEPT ![f] = {}]
      /\ UNCHANGED <<received, open, file, current_bytes, sink>>
  BY DEF SegmentThrows, Reap, Current
<1>2. /\ FilesTypes /\ (open \/ \A g \in Feed : feed[g] = "done")
      /\ Given(f) /\ Len(file[f]) \in Nat \ {0}
      /\ SizedIn(received[f], file[f], drain[f], inHand[f], current_bytes[f])
      /\ synced[f] \subseteq Nat /\ children[f] \subseteq Nat /\ exited[f] \subseteq Nat
  BY FeedTypes DEF FilesInv, FeedInv
<1>3. /\ chan' \in [Feed -> Seq(Nat)] /\ feed' \in [Feed -> {"read", "push", "done"}]
      /\ inHand' \in [Feed -> [push : Nat, write : Nat]]
      /\ (\A g \in Feed : feed[g] = "done") => (\A g \in Feed : feed'[g] = "done")
      /\ \A g \in Feed : g # f =>
           feed'[g] = feed[g] /\ chan'[g] = chan[g] /\ inHand'[g] = inHand[g]
      /\ Len(chan'[f]) <= BufferCapacity
      /\ PlacedIn(file[f], "threw", chan'[f], feed'[f], inHand'[f], Len(received[f]))
  BY <1>1, TakeKeeps
<1>4. drain'[f] = "threw" /\ drain' \in [Feed -> {"read", "write", "done", "threw"}]
      /\ \A g \in Feed : g # f => drain'[g] = drain[g]
  BY <1>1, <1>2 DEF FilesTypes
<1>5. FilesTypes'
  <2>1. /\ synced[f] \cup {Len(file[f])} \in SUBSET Nat
        /\ (children[f] \ exited[f]) \cup {Len(file[f])} \in SUBSET Nat
    BY <1>2
  <2>2. /\ synced' \in [Feed -> SUBSET Nat] /\ children' \in [Feed -> SUBSET Nat]
        /\ exited' \in [Feed -> SUBSET Nat]
    BY <1>1, <1>2, <2>1 DEF FilesTypes
  <2> QED BY <1>1, <1>2, <1>3, <1>4, <2>2 DEF FilesTypes
<1>6. Placed(f)'
  BY <1>1, <1>3, <1>4 DEF Placed
<1>7. Sized(f)'
  <2>1. SizedIn(received[f], file[f], "threw", inHand'[f], current_bytes[f])
    BY <1>2, SizeStays
  <2> QED BY <1>1, <1>4, <2>1 DEF Sized
<1>8. Given(f)'
  <2>1. /\ synced'[f] = synced[f] \cup {Len(file[f])}
        /\ children'[f] = (children[f] \ exited[f]) \cup {Len(file[f])} /\ exited'[f] = {}
    BY <1>1, <1>2 DEF FilesTypes
  <2>2. Len(file[f]) \in 1..Len(file[f])
    BY <1>2
  <2>3. ~Recording'
    BY <1>4 DEF Recording
  <2> QED BY <1>1, <1>2, <2>1, <2>2, <2>3 DEF Given
<1>9. FeedInv(f)' /\ (open \/ \A g \in Feed : feed[g] = "done")'
  BY <1>1, <1>2, <1>3, <1>6, <1>7, <1>8 DEF FeedInv
<1>10. \A g \in Feed : g # f =>
          /\ feed'[g] = feed[g] /\ received'[g] = received[g] /\ chan'[g] = chan[g]
          /\ drain'[g] = drain[g] /\ inHand'[g] = inHand[g] /\ file'[g] = file[g]
          /\ current_bytes'[g] = current_bytes[g] /\ synced'[g] = synced[g]
          /\ children'[g] = children[g] /\ exited'[g] = exited[g] /\ sink'[g] = sink[g]
  BY <1>1, <1>2, <1>3, <1>4 DEF FilesTypes
<1> QED BY <1>1, <1>5, <1>9, <1>10, OneFeed

\* The frame is in the file.
LEMMA FrameWrittenKeeps == ASSUME FilesInv, NEW f \in Feed, FrameWritten(f) PROVE FilesInv'
<1> DEFINE k == inHand[f].write
           more == [file[f] EXCEPT ![Len(file[f])] = Append(@, k)]
           h == [inHand[f] EXCEPT !.write = None]
<1>1. /\ Recording /\ drain[f] = "write"
      /\ file' = [file EXCEPT ![f] = more]
      /\ current_bytes' = [current_bytes EXCEPT ![f] = @ + received[f][k]]
      /\ drain' = [drain EXCEPT ![f] = "read"] /\ inHand' = [inHand EXCEPT ![f] = h]
      /\ UNCHANGED <<feed, received, chan, open, synced, children, exited, sink>>
  <2>1. file' = [file EXCEPT ![f] = more]
    BY DEF FrameWritten, Current
  <2>2. inHand' = [inHand EXCEPT ![f] = h]
    BY DEF FrameWritten
  <2>3. current_bytes' = [current_bytes EXCEPT ![f] = @ + received[f][k]]
    BY DEF FrameWritten
  <2> QED BY <2>1, <2>2, <2>3 DEF FrameWritten
<1>2. FilesTypes /\ (open \/ \A g \in Feed : feed[g] = "done")
  BY DEF FilesInv, FeedInv
<1>3. /\ received[f] \in Seq(Nat) /\ chan[f] \in Seq(Nat) /\ Len(received[f]) \in Nat
      /\ inHand[f] \in [push : Nat, write : Nat] /\ file[f] \in Seq(Seq(Nat))
      /\ current_bytes[f] \in Nat /\ file[f] # <<>> /\ Len(file[f]) \in Nat \ {0}
      /\ PlacedIn(file[f], "write", chan[f], feed[f], inHand[f], Len(received[f]))
      /\ SizedIn(received[f], file[f], "write", inHand[f], current_bytes[f])
      /\ Len(chan[f]) <= BufferCapacity /\ Given(f)
  BY <1>1, FeedTypes
<1>4. /\ k \in 1..Len(received[f])
      /\ PlacedIn(more, "read", chan[f], feed[f], h, Len(received[f]))
  BY <1>3, PlaceWritten
<1>5. SizedIn(received[f], more, "read", h, current_bytes[f] + received[f][k])
  BY <1>3, <1>4, SizeWritten
<1>6. received[f][k] \in Nat /\ h \in [push : Nat, write : Nat]
  <2>1. received[f][k] \in Nat
    BY <1>3, <1>4, ElementOfSeq
  <2>2. h \in [push : Nat, write : Nat]
    BY <1>3 DEF None
  <2> QED BY <2>1, <2>2
<1>7. more \in Seq(Seq(Nat)) /\ Len(more) = Len(file[f])
  <2>1. Len(file[f]) \in 1..Len(file[f]) /\ k \in Nat
    BY <1>3, <1>4
  <2>2. Append(file[f][Len(file[f])], k) \in Seq(Nat)
    BY <1>3, <2>1
  <2> QED BY <1>3, <2>1, <2>2, ExceptSeq
<1> HIDE DEF more, h, k
<1>8. /\ file'[f] = more /\ current_bytes'[f] = current_bytes[f] + received[f][k]
      /\ drain'[f] = "read" /\ inHand'[f] = h
  BY <1>1, <1>2 DEF FilesTypes
<1>9. FilesTypes'
  <2>1. current_bytes[f] + received[f][k] \in Nat
    BY <1>3, <1>6
  <2>2. current_bytes' \in [Feed -> Nat]
    BY <1>1, <1>2, <2>1 DEF FilesTypes
  <2>3. inHand' \in [Feed -> [push : Nat, write : Nat]] /\ file' \in [Feed -> Seq(Seq(Nat))]
        /\ drain' \in [Feed -> {"read", "write", "done", "threw"}]
    BY <1>1, <1>2, <1>6, <1>7 DEF FilesTypes
  <2> QED BY <1>1, <1>2, <2>2, <2>3 DEF FilesTypes
<1>10. Placed(f)' /\ Sized(f)'
  BY <1>1, <1>3, <1>4, <1>5, <1>8 DEF Placed, Sized
<1>11. Given(f)'
  BY <1>1, <1>3, <1>7, <1>8 DEF Given
<1>12. FeedInv(f)' /\ (open \/ \A g \in Feed : feed[g] = "done")'
  BY <1>1, <1>2, <1>10, <1>11 DEF FeedInv
<1>13. \A g \in Feed : g # f =>
          /\ feed'[g] = feed[g] /\ received'[g] = received[g] /\ chan'[g] = chan[g]
          /\ drain'[g] = drain[g] /\ inHand'[g] = inHand[g] /\ file'[g] = file[g]
          /\ current_bytes'[g] = current_bytes[g] /\ synced'[g] = synced[g]
          /\ children'[g] = children[g] /\ exited'[g] = exited[g] /\ sink'[g] = sink[g]
  BY <1>1, <1>2 DEF FilesTypes
<1> QED BY <1>1, <1>9, <1>12, <1>13, OneFeed

\* The drain ends, by an exception or because everything was read.
LEMMA DrainEndsKeeps ==
  ASSUME FilesInv, NEW f \in Feed, WriteThrows(f) \/ Drained(f) PROVE FilesInv'
<1>1. PICK end \in {"threw", "done"} :
        /\ drain[f] = (IF end = "threw" THEN "write" ELSE "read") /\ Recording
        /\ drain' = [drain EXCEPT ![f] = end]
        /\ UNCHANGED <<feed, received, chan, open, inHand, file, current_bytes, synced, children,
                       exited, sink>>
  BY DEF WriteThrows, Drained, sinkVars
<1>2. FilesTypes /\ (open \/ \A g \in Feed : feed[g] = "done")
  BY DEF FilesInv, FeedInv
<1>3. /\ PlacedIn(file[f], drain[f], chan[f], feed[f], inHand[f], Len(received[f]))
      /\ SizedIn(received[f], file[f], drain[f], inHand[f], current_bytes[f])
      /\ Len(chan[f]) <= BufferCapacity /\ Given(f)
  BY FeedTypes
<1>4. drain'[f] = end /\ FilesTypes' /\ \A g \in Feed : g # f => drain'[g] = drain[g]
  BY <1>1, <1>2 DEF FilesTypes
<1>5. PlacedIn(file[f], end, chan[f], feed[f], inHand[f], Len(received[f]))
  BY <1>1, <1>3, PlaceEnds
<1>6. SizedIn(received[f], file[f], end, inHand[f], current_bytes[f])
  BY <1>1, <1>3, SizeStays
<1>7. FeedInv(f)'
  BY <1>1, <1>3, <1>4, <1>5, <1>6 DEF FeedInv, Placed, Sized, Given
<1> QED BY <1>1, <1>2, <1>4, <1>7, OneFeed

\* The sink is destroyed: its last segment is finished.
LEMMA DestroyKeeps == ASSUME FilesInv, NEW f \in Feed, Destroy(f) PROVE FilesInv'
<1>1. /\ synced' = [synced EXCEPT ![f] = @ \cup {Len(file[f])}]
      /\ children' = [children EXCEPT ![f] = {}] /\ exited' = [exited EXCEPT ![f] = {}]
      /\ sink' = [sink EXCEPT ![f] = "shut"]
      /\ UNCHANGED <<feed, received, chan, open, drain, inHand, file, current_bytes>>
  BY DEF Destroy, Current
<1>2. /\ FilesTypes /\ (open \/ \A g \in Feed : feed[g] = "done") /\ synced[f] \subseteq Nat
      /\ Placed(f) /\ Sized(f) /\ Given(f) /\ Len(file[f]) \in Nat \ {0}
  BY FeedTypes DEF FilesInv, FeedInv
<1>3. /\ synced'[f] = synced[f] \cup {Len(file[f])} /\ children'[f] = {} /\ exited'[f] = {}
      /\ sink'[f] = "shut"
  BY <1>1, <1>2 DEF FilesTypes
<1>4. FilesTypes'
  <2>1. synced[f] \cup {Len(file[f])} \in SUBSET Nat
    BY <1>2
  <2> QED BY <1>1, <1>2, <2>1 DEF FilesTypes
<1>5. Given(f)'
  <2>1. Len(file[f]) \in 1..Len(file[f])
    BY <1>2
  <2> QED BY <1>1, <1>2, <1>3, <2>1 DEF Given
<1>6. FeedInv(f)'
  BY <1>1, <1>2, <1>5 DEF FeedInv, Placed, Sized
<1>7. \A g \in Feed : g # f => /\ synced'[g] = synced[g] /\ children'[g] = children[g]
                               /\ exited'[g] = exited[g] /\ sink'[g] = sink[g]
  BY <1>1, <1>2 DEF FilesTypes
<1>8. Recording' => Recording
  BY <1>1 DEF Recording
<1> QED BY <1>1, <1>2, <1>4, <1>6, <1>7, <1>8, OneFeed

\* A child process ends.
LEMMA ZstdExitsKeeps == ASSUME FilesInv, NEW f \in Feed, ZstdExits(f) PROVE FilesInv'
<1>1. PICK i \in children[f] : exited' = [exited EXCEPT ![f] = @ \cup {i}]
  BY DEF ZstdExits
<1>2. UNCHANGED <<feed, received, chan, open, drain, inHand, file, current_bytes, synced,
                  children, sink>>
  BY DEF ZstdExits
<1>3. /\ FilesTypes /\ (open \/ \A g \in Feed : feed[g] = "done")
      /\ Placed(f) /\ Sized(f) /\ Given(f) /\ exited[f] \subseteq Nat /\ children[f] \subseteq Nat
  BY FeedTypes DEF FilesInv, FeedInv
<1>4. exited'[f] = exited[f] \cup {i} /\ \A g \in Feed : g # f => exited'[g] = exited[g]
  BY <1>1, <1>3 DEF FilesTypes
<1>5. FilesTypes'
  <2>1. exited[f] \cup {i} \in SUBSET Nat
    BY <1>3
  <2> QED BY <1>1, <1>2, <1>3, <2>1 DEF FilesTypes
<1>6. Recording' => Recording
  BY <1>2 DEF Recording
<1>7. Given(f)'
  BY <1>2, <1>3, <1>4, <1>6 DEF Given
<1>8. FeedInv(f)'
  BY <1>2, <1>3, <1>7 DEF FeedInv, Placed, Sized
<1> QED BY <1>2, <1>3, <1>4, <1>5, <1>6, <1>8, OneFeed

\* Other steps leave the files alone.
LEMMA FilesInvStutter == ASSUME FilesInv, UNCHANGED fileVars PROVE FilesInv'
<1>1. UNCHANGED <<feed, received, chan, open, drain, inHand, file, current_bytes, synced, children,
                  exited, sink>>
  BY DEF fileVars
<1>2. ASSUME NEW f \in Feed PROVE (Placed(f) /\ Sized(f) /\ Given(f))'
  BY <1>1 DEF FilesInv, FeedInv, Placed, Sized, Given, Recording
<1> QED BY <1>1, <1>2 DEF FilesInv, FeedInv, FilesTypes

\* The invariant holds in every state of the recorder.
THEOREM FilesInvariant == FilesSpec => []FilesInv
<1>1. FilesInit => FilesInv
  BY FilesInitInv
<1>2. FilesInv /\ [FilesNext]_fileVars => FilesInv'
  BY ReceiveKeeps, EndsKeeps, CloseKeeps, ReadKeeps, SegmentThrowsKeeps, FrameWrittenKeeps,
     DrainEndsKeeps, DestroyKeeps, ZstdExitsKeeps, FilesInvStutter DEF FilesNext
<1> QED BY <1>1, <1>2, PTL DEF FilesSpec

-----------------------------------------------------------------------------
\* The frame of a hand, after the numbers before it.
LEMMA HeldGoesOn ==
  ASSUME NEW n \in Nat, NEW k, k = None \/ k = n + 1
  PROVE  UpTo(n) \o Held(k) = UpTo(IF k = None THEN n ELSE n + 1)
<1>1. CASE k = None
  <2>1. UpTo(n) \in Seq(Nat) /\ Held(k) = <<>>
    BY <1>1, UpToSeq DEF Held
  <2> QED BY <1>1, <2>1, ConcatEmptySeq
<1>2. CASE k # None
  <2>1. k \in Nat /\ k = n + 1 /\ Held(k) = <<k>>
    BY <1>2 DEF Held
  <2>2. <<k>> \in Seq(Nat) /\ Len(<<k>>) = 1 /\ <<k>>[1] = n + 1
    BY <2>1
  <2>3. UpTo(n) \o <<k>> = UpTo(n + Len(<<k>>))
    <3>1. \A i \in 1..Len(<<k>>) : <<k>>[i] = n + i
      BY <2>2
    <3> QED BY <2>2, <3>1, RunGoesOn
  <2> QED BY <1>2, <2>1, <2>2, <2>3
<1> QED BY <1>1, <1>2

\* Segments, hands and channel, one after the other.
LEMMA PlacedConserves ==
  ASSUME NEW segments \in Seq(Seq(Nat)), NEW writes, writes # "threw", NEW queue \in Seq(Nat),
         NEW pushes, NEW hand \in [push : Nat, write : Nat], NEW count \in Nat,
         PlacedIn(segments, writes, queue, pushes, hand, count)
  PROVE  FlattenSeq(segments) \o Held(hand.write) \o queue \o Held(hand.push) = UpTo(count)
<1>1. PICK n \in 0..count : PlacedAt(n, segments, writes, queue, pushes, hand, count)
  BY DEF PlacedIn
<1> DEFINE taken == IF writes = "write" THEN n + 1 ELSE n
           sent == taken + Len(queue)
<1>2. /\ segments # <<>> /\ Numbered(segments, n) /\ n \in Nat
      /\ hand.write = IF writes = "write" THEN taken ELSE None
      /\ \A i \in 1..Len(queue) : queue[i] = taken + i
      /\ count = IF pushes = "push" THEN sent + 1 ELSE sent
      /\ hand.push = IF pushes = "push" THEN sent + 1 ELSE None
  BY <1>1 DEF PlacedAt
<1>3. taken \in Nat /\ sent \in Nat
  BY <1>2
<1>4. FlattenSeq(segments) = UpTo(n)
  BY <1>2, NumberedFlat
<1>5. UpTo(n) \o Held(hand.write) = UpTo(taken)
  <2>1. hand.write = None \/ hand.write = n + 1
    BY <1>2
  <2>2. (IF hand.write = None THEN n ELSE n + 1) = taken
    BY <1>2 DEF None
  <2> QED BY <1>2, <2>1, <2>2, HeldGoesOn
<1> HIDE DEF taken
<1>6. UpTo(taken) \o queue = UpTo(sent)
  BY <1>2, <1>3, RunGoesOn
<1> HIDE DEF sent
<1>7. UpTo(sent) \o Held(hand.push) = UpTo(count)
  <2>1. hand.push = None \/ hand.push = sent + 1
    BY <1>2
  <2>2. (IF hand.push = None THEN sent ELSE sent + 1) = count
    BY <1>2, <1>3 DEF None
  <2> QED BY <1>3, <2>1, <2>2, HeldGoesOn
<1> QED BY <1>4, <1>5, <1>6, <1>7

\* The invariant says that no frame is lost, doubled or overtaken.
LEMMA InvConserves == ASSUME FilesInv PROVE Conservation
<1> SUFFICES ASSUME Recording
             PROVE  /\ \A f \in Feed :
                         FlattenSeq(file[f]) \o Held(inHand[f].write) \o chan[f] \o Held(inHand[f].push)
                           = [i \in 1 .. Len(received[f]) |-> i]
                    /\ open \/ \A f \in Feed : feed[f] = "done"
  BY DEF Conservation
<1>1. ASSUME NEW f \in Feed
      PROVE  FlattenSeq(file[f]) \o Held(inHand[f].write) \o chan[f] \o Held(inHand[f].push)
                 = UpTo(Len(received[f]))
  <2>1. drain[f] # "threw"
    BY DEF Recording
  <2>2. /\ chan[f] \in Seq(Nat) /\ file[f] \in Seq(Seq(Nat)) /\ Len(received[f]) \in Nat
        /\ inHand[f] \in [push : Nat, write : Nat]
        /\ PlacedIn(file[f], drain[f], chan[f], feed[f], inHand[f], Len(received[f]))
    BY FeedTypes
  <2> QED BY <2>1, <2>2, PlacedConserves
<1> QED BY <1>1 DEF FilesInv, FeedInv, UpTo

\* And that the segments are what the sink promises.
LEMMA InvSegmentsSound == ASSUME FilesInv PROVE SegmentsSound
<1>1. FilesTypes
  BY DEF FilesInv, FeedInv
<1>2. ASSUME NEW f \in Feed
      PROVE  /\ Len(chan[f]) <= BufferCapacity
             /\ Range(chan[f]) \cup Range(FlattenSeq(file[f])) \subseteq DOMAIN received[f]
             /\ {inHand[f].push, inHand[f].write} \subseteq {None} \cup DOMAIN received[f]
             /\ current_bytes[f] \in Nat
             /\ exited[f] \subseteq children[f] /\ children[f] \subseteq DOMAIN file[f]
             /\ synced[f] \subseteq DOMAIN file[f]
             /\ \A i \in DOMAIN file[f] : Bytes(f, file[f][i]) <= MaxSize \/ Len(file[f][i]) = 1
             /\ \A i \in children[f] :
                  i \in synced[f] /\ (sink[f] = "open" /\ Recording => i < Current(f))
  <2>1. /\ received[f] \in Seq(Nat) /\ chan[f] \in Seq(Nat) /\ file[f] \in Seq(Seq(Nat))
        /\ inHand[f] \in [push : Nat, write : Nat]
        /\ current_bytes[f] \in Nat /\ Len(received[f]) \in Nat
        /\ \A i \in 1..Len(file[f]) : file[f][i] \in Seq(1..Len(received[f]))
        /\ PlacedIn(file[f], drain[f], chan[f], feed[f], inHand[f], Len(received[f]))
        /\ SizedIn(received[f], file[f], drain[f], inHand[f], current_bytes[f])
        /\ Len(chan[f]) <= BufferCapacity /\ Given(f)
    BY FeedTypes
  <2>2. /\ DOMAIN received[f] = 1..Len(received[f]) /\ DOMAIN file[f] = 1..Len(file[f])
        /\ DOMAIN chan[f] = 1..Len(chan[f])
    BY <2>1, LenProperties
  <2> DEFINE count == Len(received[f])
  <2>3. PICK n \in 0..count : PlacedAt(n, file[f], drain[f], chan[f], feed[f], inHand[f], count)
    BY <2>1 DEF PlacedIn
  <2>4. /\ file[f] # <<>> /\ Numbered(file[f], n) /\ n \in Nat
        /\ \A i \in 1..Len(chan[f]) : chan[f][i] \in 1..count
        /\ inHand[f].push \in 0..count /\ inHand[f].write \in 0..count
    BY <2>3 DEF PlacedAt
  <2>5. FlattenSeq(file[f]) = UpTo(n)
    BY <2>1, <2>4, NumberedFlat
  <2>6. Range(FlattenSeq(file[f])) \subseteq 1..count
    <3>1. Range(UpTo(n)) \subseteq 1..count
      BY <2>1, <2>3 DEF Range, UpTo
    <3> QED BY <2>5, <3>1
  <2>7. Range(chan[f]) \subseteq 1..count
    BY <2>2, <2>4 DEF Range
  <2>8. {inHand[f].push, inHand[f].write} \subseteq {None} \cup 1..count
    BY <2>1, <2>4 DEF None
  <2>9. ASSUME NEW i \in 1..Len(file[f]) PROVE Bytes(f, file[f][i]) <= MaxSize \/ Len(file[f][i]) = 1
    <3>1. PICK m \in Nat : AddsUp(received[f], file[f][i], m) /\ (m <= MaxSize \/ Len(file[f][i]) = 1)
      BY <2>1 DEF SizedIn
    <3>2. Total(received[f], file[f][i]) = m
      BY <2>1, <3>1, AddsUpTotal
    <3> QED BY <3>1, <3>2 DEF Bytes
  <2> QED BY <2>1, <2>2, <2>6, <2>7, <2>8, <2>9 DEF Given, Current
<1>3. FilesTypeOK
  BY <1>1, <1>2 DEF FilesTypes, FilesTypeOK
<1>4. SegmentBound /\ CompressesFinished
  BY <1>2 DEF SegmentBound, CompressesFinished
<1> QED BY <1>3, <1>4 DEF SegmentsSound

\* No frame is lost, repeated or put in another order between the stream and the
\* segments (run_feed, async_drain_one, rotating_file_sink), for any feeds, sizes
\* and bounds, whenever the sink rotates.
THEOREM FramesConserved == FilesSpec => []Conservation
BY FilesInvariant, InvConserves, PTL

\* Segments keep their bound, and zstd gets only segments that are synced and
\* finished (rotating_file_sink).
THEOREM SegmentsAreSound == FilesSpec => []SegmentsSound
BY FilesInvariant, InvSegmentsSound, PTL

-----------------------------------------------------------------------------
\* A drain ends when the buffers are closed and its own is empty, and the sinks
\* are destroyed when all have ended or one has thrown.
DoneInOrder ==
    \A f \in Feed :
        /\ drain[f] = "done" => ~open /\ chan[f] = <<>>
        /\ sink[f] = "shut" /\ Recording => \A g \in Feed : drain[g] = "done"

\* A clean end is complete: the segments of a sink that was shut while nothing has
\* thrown hold every frame received, in order.
CleanEndComplete ==
    \A f \in Feed :
        sink[f] = "shut" /\ Recording =>
            FlattenSeq(file[f]) = [i \in 1 .. Len(received[f]) |-> i]

\* The drains are done, and the sinks shut, in that order after every step.
LEMMA DoneInOrderStep ==
  ASSUME FilesInv, DoneInOrder, [FilesNext]_fileVars PROVE DoneInOrder'
<1> USE DEF DoneInOrder
<1>1. FilesTypes /\ (open \/ \A g \in Feed : feed[g] = "done")
  BY DEF FilesInv
<1>2. CASE UNCHANGED fileVars
  BY <1>2 DEF fileVars, Recording
<1>3. CASE watch_then_close
  BY <1>3 DEF watch_then_close, sinkVars, Recording
<1>4. ASSUME NEW f \in Feed, Receive(f) PROVE DoneInOrder'
  <2>1. open /\ open' = open /\ UNCHANGED <<drain, sink>>
    BY <1>1, <1>4 DEF Receive, sinkVars
  <2> QED BY <2>1 DEF Recording
<1>5. ASSUME NEW f \in Feed, Ends(f) PROVE DoneInOrder'
  BY <1>5 DEF Ends, sinkVars, Recording
<1>6. ASSUME NEW f \in Feed, Read(f) \/ SegmentThrows(f) PROVE DoneInOrder'
  <2>1. /\ drain[f] = "read" /\ UNCHANGED <<open, sink>> /\ Recording
        /\ drain' \in {[drain EXCEPT ![f] = "write"], [drain EXCEPT ![f] = "threw"]}
        /\ \A g \in Feed : g # f => chan'[g] = chan[g]
    BY <1>1, <1>6 DEF Read, SegmentThrows, Take, FilesTypes
  <2>2. drain'[f] \in {"write", "threw"} /\ \A g \in Feed : g # f => drain'[g] = drain[g]
    BY <1>1, <2>1 DEF FilesTypes
  <2> QED BY <2>1, <2>2
<1>7. ASSUME NEW f \in Feed, FrameWritten(f) \/ WriteThrows(f) PROVE DoneInOrder'
  <2>1. /\ drain[f] = "write" /\ UNCHANGED <<open, sink, chan>> /\ Recording
        /\ drain' \in {[drain EXCEPT ![f] = "read"], [drain EXCEPT ![f] = "threw"]}
    BY <1>7 DEF FrameWritten, WriteThrows, sinkVars
  <2>2. drain'[f] \in {"read", "threw"} /\ \A g \in Feed : g # f => drain'[g] = drain[g]
    BY <1>1, <2>1 DEF FilesTypes
  <2> QED BY <2>1, <2>2
<1>8. ASSUME NEW f \in Feed, Drained(f) PROVE DoneInOrder'
  <2>1. /\ drain[f] = "read" /\ UNCHANGED <<open, sink, chan>> /\ Recording
        /\ ~open /\ chan[f] = <<>> /\ drain' = [drain EXCEPT ![f] = "done"]
    BY <1>8 DEF Drained, sinkVars
  <2>2. drain'[f] = "done" /\ \A g \in Feed : g # f => drain'[g] = drain[g]
    BY <1>1, <2>1 DEF FilesTypes
  <2> QED BY <2>1, <2>2
<1>9. ASSUME NEW f \in Feed, Destroy(f) PROVE DoneInOrder'
  <2>1. /\ (\A g \in Feed : drain[g] = "done") \/ ~Recording
        /\ UNCHANGED <<open, drain, chan>> /\ sink' = [sink EXCEPT ![f] = "shut"]
    BY <1>9 DEF Destroy
  <2>2. Recording' <=> Recording
    BY <2>1 DEF Recording
  <2> QED BY <1>1, <2>1, <2>2 DEF FilesTypes
<1>10. ASSUME NEW f \in Feed, ZstdExits(f) PROVE DoneInOrder'
  BY <1>10 DEF ZstdExits, Recording
<1> QED BY <1>2, <1>3, <1>4, <1>5, <1>6, <1>7, <1>8, <1>9, <1>10 DEF FilesNext

\* So a clean end leaves every frame in the files.
LEMMA DoneIsComplete == ASSUME FilesInv, DoneInOrder PROVE CleanEndComplete
<1> SUFFICES ASSUME NEW f \in Feed, sink[f] = "shut", Recording
             PROVE  FlattenSeq(file[f]) = [i \in 1 .. Len(received[f]) |-> i]
  BY DEF CleanEndComplete
<1>1. drain[f] = "done" /\ chan[f] = <<>> /\ feed[f] = "done"
  BY DEF DoneInOrder, FilesInv
<1>2. /\ PlacedIn(file[f], "done", <<>>, "done", inHand[f], Len(received[f]))
      /\ file[f] \in Seq(Seq(Nat)) /\ Len(received[f]) \in Nat
  BY <1>1, FeedTypes
<1>3. PICK n \in 0..Len(received[f]) :
        /\ file[f] # <<>> /\ Numbered(file[f], n) /\ Len(received[f]) = n + Len(<<>>)
  BY <1>2 DEF PlacedIn, PlacedAt
<1>4. n = Len(received[f]) /\ n \in Nat
  BY <1>2, <1>3
<1> QED BY <1>2, <1>3, <1>4, NumberedFlat DEF UpTo

\* What the recorder leaves behind when it ends without an exception is complete
\* (watch_then_close, async_drain_one, the destructor of rotating_file_sink): the
\* safety half of EndsComplete.
THEOREM CleanEndIsComplete == FilesSpec => []CleanEndComplete
<1>1. FilesInit => DoneInOrder
  BY DEF FilesInit, DoneInOrder
<1>2. FilesInv /\ DoneInOrder /\ [FilesNext]_fileVars => DoneInOrder'
  BY DoneInOrderStep
<1>3. FilesInv /\ DoneInOrder => CleanEndComplete
  BY DoneIsComplete
<1> QED BY <1>1, <1>2, <1>3, FilesInvariant, PTL DEF FilesSpec
-----------------------------------------------------------------------------
(***************************************************************************)
(* The aggregates of the screener, for any inputs, any number of events,   *)
(* and rings of any size.  Quotients and remainders first: the rings are   *)
(* indexed by them.                                                        *)
(***************************************************************************)

\* Quotient and remainder.
LEMMA QuotRem ==
  ASSUME NEW x \in Int, NEW k \in Nat \ {0}
  PROVE  /\ x \div k \in Int /\ x % k \in 0..(k - 1)
         /\ x = (x \div k) * k + (x % k)
OBVIOUS

\* A multiple of k other than 0 is at least k away from it.
LEMMA NoMultiple ==
  ASSUME NEW k \in Nat \ {0}, NEW q \in Int, q # 0
  PROVE  q * k \in Int /\ (q * k >= k \/ q * k <= -k)
<1>1. CASE q >= 1
  BY <1>1
<1>2. CASE q <= -1
  BY <1>2
<1> QED BY <1>1, <1>2

\* A quotient and a remainder that fit are the quotient and the remainder.
LEMMA QuotRemUnique ==
  ASSUME NEW k \in Nat \ {0}, NEW q \in Int, NEW r \in 0..(k - 1)
  PROVE  (q * k + r) \div k = q /\ (q * k + r) % k = r
<1> DEFINE x == q * k + r
<1>0. x \in Int /\ r \in Int
  OBVIOUS
<1>1. /\ x \div k \in Int /\ x % k \in 0..(k - 1)
      /\ x = (x \div k) * k + (x % k)
  BY <1>0, QuotRem
<1> DEFINE p == x \div k
           s == x % k
<1> HIDE DEF p, s
<1>2. p \in Int /\ s \in 0..(k - 1) /\ q * k + r = p * k + s
  BY <1>1 DEF p, s
<1>3. p = q
  <2> SUFFICES ASSUME p # q PROVE FALSE
    OBVIOUS
  <2>1. (p - q) * k >= k \/ (p - q) * k <= -k
    BY <1>2, NoMultiple
  <2>2. (p - q) * k = p * k - q * k
    BY <1>2
  <2> QED BY <1>2, <2>1, <2>2
<1>4. s = r
  BY <1>0, <1>2, <1>3
<1> QED BY <1>3, <1>4 DEF p, s

\* The same of a number that is given by them.
LEMMA RemUnique ==
  ASSUME NEW k \in Nat \ {0}, NEW q \in Int, NEW r \in 0..(k - 1), NEW x, x = q * k + r
  PROVE  x \div k = q /\ x % k = r
BY QuotRemUnique

\* A number below k is its own remainder.
LEMMA RemSmall ==
  ASSUME NEW k \in Nat \ {0}, NEW r \in 0..(k - 1)
  PROVE  r \div k = 0 /\ r % k = r
<1>1. r = 0 * k + r
  OBVIOUS
<1> QED BY <1>1, RemUnique

\* A remainder may be taken before an addition.
LEMMA RemAdd ==
  ASSUME NEW k \in Nat \ {0}, NEW x \in Int, NEW y \in Int
  PROVE  ((x % k) + y) % k = (x + y) % k
<1> DEFINE u == (x % k) + y
<1>1. x \div k \in Int /\ x % k \in Int /\ x = (x \div k) * k + (x % k)
  BY QuotRem
<1>2. u \in Int
  BY <1>1
<1>3. u \div k \in Int /\ u % k \in 0..(k - 1) /\ u = (u \div k) * k + (u % k)
  BY <1>2, QuotRem
<1> DEFINE p == x \div k   q == u \div k   r == u % k   m == x % k
<1>4. p \in Int /\ m \in Int /\ q \in Int /\ r \in 0..(k - 1)
      /\ x = p * k + m /\ m + y = q * k + r
  BY <1>1, <1>3
<1> HIDE DEF p, q, r, m
<1>5. p + q \in Int /\ x + y = (p + q) * k + r
  BY <1>4
<1> DEFINE t == p + q   z == x + y
<1>6. t \in Int /\ z = t * k + r /\ r \in 0..(k - 1)
  BY <1>4, <1>5
<1> HIDE DEF t, z
<1>7. z % k = r
  BY <1>6, RemUnique
<1> QED BY <1>7 DEF r, z

\* A whole turn changes no remainder.
LEMMA RemRound ==
  ASSUME NEW k \in Nat \ {0}, NEW x \in Int
  PROVE  (x + k) % k = x % k /\ (x - k) % k = x % k
<1> DEFINE p == x \div k   m == x % k
<1>1. p \in Int /\ m \in 0..(k - 1) /\ x = p * k + m
  BY QuotRem
<1> HIDE DEF p, m
<1>2. x + k = (p + 1) * k + m /\ x - k = (p - 1) * k + m
  BY <1>1
<1>3. (x + k) % k = m
  BY <1>1, <1>2, RemUnique
<1>4. (x - k) % k = m
  BY <1>1, <1>2, RemUnique
<1> QED BY <1>3, <1>4 DEF m

\* Two numbers with one remainder are a whole turn apart.
LEMMA RemApart ==
  ASSUME NEW k \in Nat \ {0}, NEW x \in Int, NEW y \in Int, x < y, x % k = y % k
  PROVE  x + k <= y
<1> DEFINE p == x \div k   q == y \div k   m == x % k
<1>1. p \in Int /\ q \in Int /\ m \in 0..(k - 1) /\ x = p * k + m /\ y = q * k + m
  BY QuotRem
<1> HIDE DEF p, q, m
<1>2. p # q
  BY <1>1
<1>3. (q - p) * k >= k \/ (q - p) * k <= -k
  BY <1>1, <1>2, NoMultiple
<1>4. (q - p) * k = q * k - p * k
  BY <1>1
<1> QED BY <1>1, <1>3, <1>4

\* Every place of a ring is passed in one turn.
LEMMA RemReach ==
  ASSUME NEW k \in Nat \ {0}, NEW x \in Int, NEW b \in 0..(k - 1)
  PROVE  \E i \in 1..k : (x + i) % k = b
<1> DEFINE y == b - x   p == y \div k   m == y % k
<1>1. y \in Int
  OBVIOUS
<1>2. p \in Int /\ m \in 0..(k - 1) /\ y = p * k + m
  BY <1>1, QuotRem
<1>3. b = x + y
  OBVIOUS
<1> HIDE DEF p, m, y
<1>4. CASE m = 0
  <2>1. 1 - p \in Int /\ x + k = (1 - p) * k + b
    BY <1>1, <1>2, <1>3, <1>4
  <2> DEFINE t == 1 - p   z == x + k
  <2>2. t \in Int /\ z = t * k + b
    BY <2>1
  <2> HIDE DEF t, z
  <2>3. z % k = b
    BY <2>2, RemUnique
  <2> QED BY <2>3 DEF z
<1>5. CASE m # 0
  <2>1. -p \in Int /\ x + m = (-p) * k + b
    BY <1>1, <1>2, <1>3
  <2>2. (x + m) % k = b
    BY <1>2, <2>1, RemUnique
  <2>3. m \in 1..k
    BY <1>2, <1>5
  <2> QED BY <2>2, <2>3
<1> QED BY <1>4, <1>5

\* Whole multiples move out of a quotient.
LEMMA QuotShift ==
  ASSUME NEW k \in Nat \ {0}, NEW x \in Int, NEW h \in Int
  PROVE  (x - h * k) \div k = (x \div k) - h
<1> DEFINE p == x \div k   m == x % k
<1>1. p \in Int /\ m \in 0..(k - 1) /\ x = p * k + m
  BY QuotRem
<1> HIDE DEF p, m
<1>2. x - h * k = (p - h) * k + m
  BY <1>1
<1>3. (x - h * k) \div k = p - h
  BY <1>1, <1>2, RemUnique
<1> QED BY <1>3 DEF p

\* Quotients are ordered as the numbers are.
LEMMA QuotOrder ==
  ASSUME NEW k \in Nat \ {0}, NEW x \in Int, NEW y \in Int, x <= y
  PROVE  x \div k <= y \div k
<1> DEFINE p == x \div k   q == y \div k   m == x % k   n == y % k
<1>1. /\ p \in Int /\ m \in 0..(k - 1) /\ x = p * k + m
      /\ q \in Int /\ n \in 0..(k - 1) /\ y = q * k + n
  BY QuotRem
<1> HIDE DEF p, q, m, n
<1>2. p <= q
  <2> SUFFICES ASSUME p > q PROVE FALSE
    BY <1>1
  <2>1. (q - p) * k >= k \/ (q - p) * k <= -k
    BY <1>1, NoMultiple
  <2>2. (q - p) * k = q * k - p * k
    BY <1>1
  <2> QED BY <1>1, <2>1, <2>2
<1> QED BY <1>2 DEF p, q

\* g[i] is the sum of f from a up to but not including i.
Sums(g, f, a, b) ==
    g[a] = 0 /\ \A i \in (a + 1)..b : g[i] = g[i - 1] + f[i - 1]

\* SumOf is the last of any such row of sums: the recursion has one solution.
LEMMA SumIs ==
  ASSUME NEW f, NEW a \in Nat, NEW b \in Nat, a <= b, NEW g \in [a..b -> Int], Sums(g, f, a, b)
  PROVE  SumOf(f, a, b) = g[b]
<1> DEFINE Body(h) == [i \in a..b |-> IF i = a THEN 0 ELSE h[i - 1] + f[i - 1]]
<1>1. \A i \in a..b : g[i] = IF i = a THEN 0 ELSE g[i - 1] + f[i - 1]
  BY DEF Sums
<1>2. g = Body(g)
  BY <1>1
<1>3. ASSUME NEW h, h = Body(h) PROVE h[b] = g[b]
  <2> DEFINE D == {i \in a..b : h[i] # g[i]}
  <2>1. D = {}
    <3> SUFFICES ASSUME D # {} PROVE FALSE
      OBVIOUS
    <3>1. D \in SUBSET Nat
      OBVIOUS
    <3>2. PICK i \in D : \A k \in D : i <= k
      BY <3>1, LeastExists
    <3>3. i \in a..b /\ h[i] # g[i]
      OBVIOUS
    <3>4. h[i] = IF i = a THEN 0 ELSE h[i - 1] + f[i - 1]
      BY <1>3, <3>3
    <3>5. i # a => i - 1 \in a..b /\ i - 1 \notin D
      BY <3>2, <3>3
    <3>6. i # a => h[i - 1] = g[i - 1]
      BY <3>5
    <3> HIDE DEF D, Body
    <3> QED BY <1>1, <3>3, <3>4, <3>6
  <2> HIDE DEF Body
  <2> QED BY <2>1
<1>4. SumOf(f, a, b) = (CHOOSE h : h = Body(h))[b]
  BY DEF SumOf
<1> HIDE DEF Body
<1>5. (CHOOSE h : h = Body(h)) = Body(CHOOSE h : h = Body(h))
  BY <1>2
<1> QED BY <1>3, <1>4, <1>5

\* There is such a row, whatever is added.
LEMMA SumExists ==
  ASSUME NEW f, NEW a \in Nat, NEW b \in Nat, a <= b, \A i \in a..(b - 1) : f[i] \in Int
  PROVE  \E g \in [a..b -> Int] : Sums(g, f, a, b)
<1> DEFINE Has(n) == \E g \in [a..n -> Int] : Sums(g, f, a, n)
           D == {n \in a..b : ~Has(n)}
<1>1. Has(a)
  <2> DEFINE g == [i \in a..a |-> 0]
  <2>1. g \in [a..a -> Int] /\ Sums(g, f, a, a)
    BY DEF Sums
  <2> QED BY <2>1
<1>2. D = {}
  <2> SUFFICES ASSUME D # {} PROVE FALSE
    OBVIOUS
  <2>1. D \in SUBSET Nat
    OBVIOUS
  <2>2. PICK n \in D : \A k \in D : n <= k
    BY <2>1, LeastExists
  <2>3. n \in a..b /\ ~Has(n)
    OBVIOUS
  <2>4. n # a /\ n - 1 \in a..b
    <3>1. n # a
      BY <1>1, <2>3, Zenon
    <3> QED BY <2>3, <3>1
  <2>5. Has(n - 1)
    <3>1. n - 1 \notin D
      BY <2>2, <2>3, <2>4
    <3> QED BY <2>4, <3>1
  <2>6. PICK g \in [a..(n - 1) -> Int] : Sums(g, f, a, n - 1)
    BY <2>5
  <2> DEFINE h == [i \in a..n |-> IF i = n THEN g[n - 1] + f[n - 1] ELSE g[i]]
  <2>7. h \in [a..n -> Int]
    <3>1. f[n - 1] \in Int /\ g[n - 1] \in Int
      BY <2>3, <2>4
    <3>2. \A i \in a..n : i # n => g[i] \in Int
      BY <2>3
    <3> QED BY <3>1, <3>2
  <2>8. Sums(h, f, a, n)
    <3>1. h[a] = 0
      BY <2>3, <2>4, <2>6 DEF Sums
    <3>2. ASSUME NEW i \in (a + 1)..n PROVE h[i] = h[i - 1] + f[i - 1]
      <4>1. i \in a..n /\ i - 1 \in a..n /\ i - 1 # n
        BY <2>3
      <4>2. h[i - 1] = g[i - 1]
        BY <4>1
      <4>3. CASE i = n
        BY <4>1, <4>2, <4>3
      <4>4. CASE i # n
        <5>1. g[i] = g[i - 1] + f[i - 1] /\ h[i] = g[i]
          BY <2>3, <2>6, <4>1, <4>4 DEF Sums
        <5> QED BY <4>2, <5>1
      <4> QED BY <4>3, <4>4
    <3> QED BY <3>1, <3>2 DEF Sums
  <2>9. Has(n)
    BY <2>7, <2>8
  <2> QED BY <2>3, <2>9
<1>3. b \in a..b /\ b \notin D
  BY <1>2
<1> QED BY <1>3

\* One number more.
LEMMA SumGoesOn ==
  ASSUME NEW f, NEW a \in Nat, NEW b \in Nat, a <= b, \A i \in a..b : f[i] \in Int
  PROVE  SumOf(f, a, b) \in Int /\ SumOf(f, a, b + 1) = SumOf(f, a, b) + f[b]
<1>1. PICK g \in [a..(b + 1) -> Int] : Sums(g, f, a, b + 1)
  <2> DEFINE c == b + 1
  <2>1. c \in Nat /\ a <= c /\ \A i \in a..(c - 1) : f[i] \in Int
    OBVIOUS
  <2> HIDE DEF c
  <2>2. \E g \in [a..c -> Int] : Sums(g, f, a, c)
    BY <2>1, SumExists
  <2> QED BY <2>2 DEF c
<1>2. SumOf(f, a, b + 1) = g[b + 1]
  BY <1>1, SumIs
<1> DEFINE h == [i \in a..b |-> g[i]]
<1>3. h \in [a..b -> Int] /\ Sums(h, f, a, b)
  BY <1>1 DEF Sums
<1>4. SumOf(f, a, b) = h[b]
  <2> HIDE DEF h
  <2> QED BY <1>3, SumIs
<1>5. h[b] = g[b] /\ g[b] \in Int /\ g[b + 1] = g[b] + f[b]
  BY <1>1 DEF Sums
<1> QED BY <1>2, <1>4, <1>5

\* A sum of numbers is a number.
LEMMA SumType ==
  ASSUME NEW f, NEW a \in Nat, NEW b \in Nat, a <= b, \A i \in a..(b - 1) : f[i] \in Int
  PROVE  SumOf(f, a, b) \in Int
<1>1. PICK g \in [a..b -> Int] : Sums(g, f, a, b)
  BY SumExists
<1> QED BY <1>1, SumIs

\* A sum of zeros is zero.
LEMMA SumNone ==
  ASSUME NEW f, NEW a \in Nat, NEW b \in Nat, a <= b, \A i \in a..(b - 1) : f[i] = 0
  PROVE  SumOf(f, a, b) = 0
<1> DEFINE g == [i \in a..b |-> 0]
<1>1. g \in [a..b -> Int] /\ Sums(g, f, a, b) /\ g[b] = 0
  BY DEF Sums
<1> HIDE DEF g
<1> QED BY <1>1, SumIs

\* So is a sum of nothing.
LEMMA SumEmpty ==
  ASSUME NEW f, NEW a \in Nat PROVE SumOf(f, a, a) = 0
<1> DEFINE g == [i \in a..a |-> 0]
<1>1. g \in [a..a -> Int] /\ Sums(g, f, a, a) /\ g[a] = 0 /\ a <= a
  BY DEF Sums
<1> HIDE DEF g
<1> QED BY <1>1, SumIs

\* Equal numbers have equal sums.
LEMMA SumSame ==
  ASSUME NEW f, NEW h, NEW a \in Nat, NEW b \in Nat, a <= b,
         \A i \in a..(b - 1) : f[i] \in Int /\ h[i] = f[i]
  PROVE  SumOf(h, a, b) = SumOf(f, a, b)
<1>1. PICK g \in [a..b -> Int] : Sums(g, f, a, b)
  BY SumExists
<1>2. Sums(g, h, a, b)
  <2>1. \A i \in (a + 1)..b : i - 1 \in a..(b - 1)
    OBVIOUS
  <2> QED BY <1>1, <2>1 DEF Sums
<1> QED BY <1>1, <1>2, SumIs

\* A number that changes moves the sum by the difference.
LEMMA SumChanged ==
  ASSUME NEW f, NEW h, NEW a \in Nat, NEW b \in Nat, NEW c \in a..(b - 1),
         \A i \in a..(b - 1) : f[i] \in Int /\ h[i] \in Int /\ (i # c => h[i] = f[i])
  PROVE  SumOf(h, a, b) = SumOf(f, a, b) + (h[c] - f[c])
<1> DEFINE d == h[c] - f[c]
<1>0. d \in Int /\ h[c] = f[c] + d /\ f[c] \in Int
  OBVIOUS
<1>1. PICK g \in [a..b -> Int] : Sums(g, f, a, b)
  BY SumExists
<1> DEFINE k == [i \in a..b |-> IF i <= c THEN g[i] ELSE g[i] + d]
<1> HIDE DEF d
<1>2. k \in [a..b -> Int]
  BY <1>0
<1>3. Sums(k, h, a, b)
  <2>1. k[a] = 0
    BY <1>1 DEF Sums
  <2>2. ASSUME NEW i \in (a + 1)..b PROVE k[i] = k[i - 1] + h[i - 1]
    <3>1. i \in a..b /\ i - 1 \in a..b /\ i - 1 \in a..(b - 1)
      OBVIOUS
    <3>2. g[i] = g[i - 1] + f[i - 1] /\ g[i] \in Int /\ g[i - 1] \in Int /\ f[i - 1] \in Int
      BY <1>1, <3>1 DEF Sums
    <3>3. /\ k[i] = IF i <= c THEN g[i] ELSE g[i] + d
          /\ k[i - 1] = IF i - 1 <= c THEN g[i - 1] ELSE g[i - 1] + d
      BY <3>1
    <3>4. h[i - 1] = IF i - 1 = c THEN f[i - 1] + d ELSE f[i - 1]
      BY <1>0, <3>1
    <3> HIDE DEF k
    <3> QED BY <1>0, <3>2, <3>3, <3>4
  <2> QED BY <2>1, <2>2 DEF Sums
<1>4. SumOf(h, a, b) = k[b] /\ SumOf(f, a, b) = g[b]
  <2> HIDE DEF k
  <2> QED BY <1>1, <1>2, <1>3, SumIs
<1>5. k[b] = g[b] + d
  OBVIOUS
<1> QED BY <1>4, <1>5 DEF d

\* The first number is taken off a sum.
LEMMA SumFirst ==
  ASSUME NEW f, NEW a \in Nat, NEW b \in Nat, a < b, \A i \in a..(b - 1) : f[i] \in Int
  PROVE  SumOf(f, a, b) = f[a] + SumOf(f, a + 1, b)
<1>1. PICK g \in [a..b -> Int] : Sums(g, f, a, b)
  BY SumExists
<1> DEFINE k == [i \in (a + 1)..b |-> g[i] - f[a]]
<1>2. g[a] = 0 /\ g[a + 1] = f[a] /\ f[a] \in Int
  BY <1>1 DEF Sums
<1>3. k \in [(a + 1)..b -> Int]
  BY <1>2
<1>4. Sums(k, f, a + 1, b)
  <2>1. k[a + 1] = 0
    BY <1>2
  <2>2. ASSUME NEW i \in (a + 2)..b PROVE k[i] = k[i - 1] + f[i - 1]
    <3>1. i - 1 \in (a + 1)..b /\ i - 1 \in a..(b - 1) /\ i \in (a + 1)..b
      OBVIOUS
    <3>2. g[i] = g[i - 1] + f[i - 1] /\ g[i - 1] \in Int /\ f[i - 1] \in Int
      BY <1>1, <3>1 DEF Sums
    <3>3. k[i] = g[i] - f[a] /\ k[i - 1] = g[i - 1] - f[a]
      BY <3>1
    <3> HIDE DEF k
    <3> QED BY <1>2, <3>2, <3>3
  <2>3. (a + 1) + 1 = a + 2
    OBVIOUS
  <2> HIDE DEF k
  <2> QED BY <2>1, <2>2, <2>3 DEF Sums
<1>5. SumOf(f, a, b) = g[b] /\ SumOf(f, a + 1, b) = k[b]
  <2> HIDE DEF k
  <2> QED BY <1>1, <1>3, <1>4, SumIs
<1>6. k[b] = g[b] - f[a] /\ g[b] \in Int
  OBVIOUS
<1> QED BY <1>2, <1>5, <1>6

\* The sum over the slots of a ring is a number.
LEMMA RingType ==
  ASSUME NEW f, NEW N \in Nat, \A i \in 0..(N - 1) : f[i] \in Int
  PROVE  SumOf(f, 0, N) \in Int
<1> DEFINE a == 0
<1>1. a \in Nat /\ a <= N /\ \A i \in a..(N - 1) : f[i] \in Int
  OBVIOUS
<1> HIDE DEF a
<1>2. SumOf(f, a, N) \in Int
  BY <1>1, SumType
<1> QED BY <1>2 DEF a

\* Rings with equal slots have equal sums.
LEMMA RingSame ==
  ASSUME NEW f, NEW h, NEW N \in Nat, \A b \in 0..(N - 1) : f[b] \in Int /\ h[b] = f[b]
  PROVE  SumOf(h, 0, N) = SumOf(f, 0, N)
BY SumSame

\* The numbers are put into slots: the sum of the slots is the sum of the numbers.
LEMMA SumBySlots ==
  ASSUME NEW n \in Nat, NEW N \in Nat, NEW x \in [1..n -> Int], NEW slot \in [1..n -> 0..(N - 1)],
         NEW f,
         \A b \in 0..(N - 1) :
            f[b] = SumOf([i \in 1..n |-> IF slot[i] = b THEN x[i] ELSE 0], 1, n + 1)
  PROVE  SumOf(f, 0, N) = SumOf(x, 1, n + 1)
<1> DEFINE In(b) == [i \in 1..n |-> IF slot[i] = b THEN x[i] ELSE 0]
           upto(m) == [b \in 0..(N - 1) |-> SumOf(In(b), 1, m)]
           g == [m \in 1..(n + 1) |-> SumOf(upto(m), 0, N)]
<1>1. ASSUME NEW b \in 0..(N - 1), NEW m \in 1..(n + 1)
      PROVE  SumOf(In(b), 1, m) \in Int
  <2>1. \A i \in 1..(m - 1) : In(b)[i] \in Int
    OBVIOUS
  <2> HIDE DEF In
  <2> QED BY <2>1, SumType
<1>2. ASSUME NEW m \in 1..(n + 1) PROVE SumOf(upto(m), 0, N) \in Int
  <2>1. \A b \in 0..(N - 1) : upto(m)[b] \in Int
    BY <1>1
  <2> HIDE DEF upto
  <2> QED BY <2>1, SumType
<1>3. g \in [1..(n + 1) -> Int]
  BY <1>2
<1>4. g[1] = 0
  <2>1. \A b \in 0..(N - 1) : SumOf(In(b), 1, 1) = 0
    <3> TAKE b \in 0..(N - 1)
    <3>1. \A i \in 1..(1 - 1) : In(b)[i] = 0
      OBVIOUS
    <3> DEFINE v == In(b)
    <3>2. SumOf(v, 1, 1) = 0
      <4> HIDE DEF v
      <4> QED BY <3>1, SumNone
    <3> QED BY <3>2
  <2>2. \A b \in 0..(N - 1) : upto(1)[b] = 0
    BY <2>1
  <2>3. SumOf(upto(1), 0, N) = 0
    <3> HIDE DEF upto
    <3> QED BY <2>2, SumNone
  <2> QED BY <2>3
<1>5. ASSUME NEW m \in 1..n PROVE SumOf(upto(m + 1), 0, N) = SumOf(upto(m), 0, N) + x[m]
  <2>1. ASSUME NEW b \in 0..(N - 1)
        PROVE  /\ SumOf(In(b), 1, m) \in Int /\ In(b)[m] \in Int
               /\ SumOf(In(b), 1, m + 1) = SumOf(In(b), 1, m) + In(b)[m]
    <3>1. \A i \in 1..m : In(b)[i] \in Int
      OBVIOUS
    <3> HIDE DEF In
    <3> QED BY <3>1, SumGoesOn
  <2> DEFINE c == slot[m]   p == upto(m)   q == upto(m + 1)
  <2>2. c \in 0..(N - 1) /\ x[m] \in Int
    OBVIOUS
  <2>3. \A b \in 0..(N - 1) : p[b] = SumOf(In(b), 1, m) /\ q[b] = SumOf(In(b), 1, m + 1)
    OBVIOUS
  <2>4. \A b \in 0..(N - 1) : In(b)[m] = IF b = c THEN x[m] ELSE 0
    OBVIOUS
  <2> HIDE DEF p, q, In, c
  <2>5. \A b \in 0..(N - 1) : p[b] \in Int /\ q[b] \in Int /\ (b # c => q[b] = p[b])
    <3> TAKE b \in 0..(N - 1)
    <3>1. /\ p[b] = SumOf(In(b), 1, m) /\ p[b] \in Int
          /\ q[b] = p[b] + In(b)[m] /\ In(b)[m] = IF b = c THEN x[m] ELSE 0
      BY <2>1, <2>3, <2>4
    <3> QED BY <2>2, <3>1
  <2>6. q[c] - p[c] = x[m]
    <3>1. p[c] \in Int /\ q[c] = p[c] + In(c)[m] /\ In(c)[m] = x[m]
      BY <2>1, <2>2, <2>3, <2>4
    <3> QED BY <2>2, <3>1
  <2>7. SumOf(q, 0, N) = SumOf(p, 0, N) + (q[c] - p[c])
    <3>1. 0 \in Nat /\ N \in Nat
      OBVIOUS
    <3> QED BY ONLY <2>2, <2>5, <3>1, SumChanged
  <2> QED BY <2>6, <2>7 DEF p, q
<1>6. Sums(g, x, 1, n + 1)
  <2> SUFFICES ASSUME NEW i \in 2..(n + 1) PROVE g[i] = g[i - 1] + x[i - 1]
    <3>1. 1 + 1 = 2
      OBVIOUS
    <3> HIDE DEF g
    <3> QED BY <1>4, <3>1 DEF Sums
  <2>1. i - 1 \in 1..n /\ i - 1 \in 1..(n + 1) /\ (i - 1) + 1 = i
    OBVIOUS
  <2> HIDE DEF upto
  <2>2. SumOf(upto(i), 0, N) = SumOf(upto(i - 1), 0, N) + x[i - 1]
    BY <1>5, <2>1
  <2> QED BY <2>1, <2>2
<1>7. SumOf(x, 1, n + 1) = g[n + 1]
  <2> HIDE DEF g
  <2> QED BY <1>3, <1>6, SumIs
<1>8. g[n + 1] = SumOf(upto(n + 1), 0, N)
  OBVIOUS
<1>9. SumOf(f, 0, N) = SumOf(upto(n + 1), 0, N)
  <2>1. \A b \in 0..(N - 1) : upto(n + 1)[b] \in Int /\ f[b] = upto(n + 1)[b]
    BY <1>1
  <2> HIDE DEF upto
  <2> QED BY <2>1, RingSame
<1> QED BY <1>7, <1>8, <1>9
-----------------------------------------------------------------------------
(* The window of volumes *)

\* The number of the bucket of sample i, counted from the first one.
Turn(f, i) == (f[i].at - f[1].at) \div BucketSeconds

\* What is younger than the window, and nothing else.
Recent(f) ==
    [i \in DOMAIN f |-> IF Turn(f, i) > Turn(f, Len(f)) - Buckets THEN f[i].dv ELSE 0]

\* The bucket of the ring that sample i was added to: it is as far behind the head
\* as its number is behind the last one.
Slot(head, f, i) == (head + (Turn(f, i) - Turn(f, Len(f)))) % Buckets

\* What slot b of the ring should have of the samples.
InSlot(head, f, b) ==
    [i \in 1..Len(f) |-> IF Slot(head, f, i) = b THEN Recent(f)[i] ELSE 0]

\* What was added, and when.
Sample == [at : Nat \ {0}, dv : Nat]

\* The samples are in the order of time, the head's time is the boundary of the
\* last one's bucket, and every bucket of the ring has what is recent of its own.
WindowInv(w, f, t) ==
    /\ w \in [buckets : [0..(Buckets - 1) -> Int], head : 0..(Buckets - 1), head_time : Nat]
    /\ f \in Seq(Sample) /\ t \in Nat \ {0}
    /\ \A i \in 1..Len(f) : f[i].at <= t
    /\ \A i, j \in 1..Len(f) : i <= j => f[i].at <= f[j].at
    /\ f = <<>> => w.head_time = 0 /\ \A b \in 0..(Buckets - 1) : w.buckets[b] = 0
    /\ f # <<>> =>
         /\ w.head_time = f[1].at + Turn(f, Len(f)) * BucketSeconds
         /\ \A b \in 0..(Buckets - 1) :
              w.buckets[b] = SumOf(InSlot(w.head, f, b), 1, Len(f) + 1)

\* Rings and buckets are not empty.
LEMMA WindowConstants == Buckets \in Nat \ {0} /\ BucketSeconds \in Nat \ {0} /\ Slots \in Nat \ {0}
BY AggregatesAssumption

\* The numbers of the buckets grow.
LEMMA TurnsGrow ==
  ASSUME NEW w, NEW f, NEW t, WindowInv(w, f, t)
  PROVE  /\ Len(f) \in Nat /\ DOMAIN f = 1..Len(f)
         /\ \A i \in 1..Len(f) : /\ f[i] \in Sample /\ f[i].at \in Nat \ {0} /\ f[i].dv \in Nat
                                 /\ Turn(f, i) \in Nat /\ Turn(f, i) <= Turn(f, Len(f))
         /\ f # <<>> => Len(f) \in 1..Len(f) /\ 1 \in 1..Len(f) /\ Turn(f, Len(f)) \in Nat
<1>1. Len(f) \in Nat /\ DOMAIN f = 1..Len(f) /\ \A i \in 1..Len(f) : f[i] \in Sample
  BY DEF WindowInv
<1>2. f # <<>> => Len(f) \in 1..Len(f) /\ 1 \in 1..Len(f)
  BY <1>1, EmptySeq DEF WindowInv
<1>3. \A i \in 1..Len(f) : f[i].at \in Nat \ {0} /\ f[i].dv \in Nat
  BY <1>1 DEF Sample
<1>4. ASSUME NEW i \in 1..Len(f)
      PROVE  Turn(f, i) \in Nat /\ Turn(f, i) <= Turn(f, Len(f))
  <2>1. 1 \in 1..Len(f) /\ Len(f) \in 1..Len(f) /\ 1 <= i /\ i <= Len(f)
    BY <1>1
  <2>2. f[1].at <= f[i].at /\ f[i].at <= f[Len(f)].at
    BY <2>1 DEF WindowInv
  <2>3. f[i].at - f[1].at \in Nat /\ f[Len(f)].at - f[1].at \in Nat
    BY <1>3, <2>1, <2>2
  <2> DEFINE x == f[i].at - f[1].at   y == f[Len(f)].at - f[1].at
  <2>4. x \in Int /\ y \in Int /\ 0 <= x /\ x <= y
    BY <1>3, <2>1, <2>2, <2>3
  <2>5. 0 \div BucketSeconds = 0
    BY WindowConstants, RemSmall
  <2> HIDE DEF x, y
  <2>6. x \div BucketSeconds \in Int /\ 0 \div BucketSeconds <= x \div BucketSeconds
        /\ x \div BucketSeconds <= y \div BucketSeconds
    <3> DEFINE k == BucketSeconds   z == 0
    <3>1. k \in Nat \ {0} /\ z \in Int /\ z <= x
      BY <2>4, WindowConstants
    <3> HIDE DEF k, z
    <3>2. x \div k \in Int
      BY <2>4, <3>1, QuotRem
    <3>3. z \div k <= x \div k
      BY <2>4, <3>1, QuotOrder
    <3>4. x \div k <= y \div k
      BY <2>4, <3>1, QuotOrder
    <3> QED BY <3>2, <3>3, <3>4 DEF k, z
  <2>7. x \div BucketSeconds \in Nat
    BY <2>5, <2>6
  <2> QED BY <2>6, <2>7 DEF Turn, x, y
<1> QED BY <1>1, <1>2, <1>3, <1>4

\* vol_sum is the sum of what is recent.
LEMMA WindowSum ==
  ASSUME NEW w, NEW f, NEW t, WindowInv(w, f, t)
  PROVE  vol_sum(w) = SumOf(Recent(f), 1, Len(f) + 1)
<1>1. Buckets \in Nat \ {0} /\ Len(f) \in Nat /\ DOMAIN f = 1..Len(f)
  BY TurnsGrow, WindowConstants
<1>2. CASE f = <<>>
  <2>1. SumOf(w.buckets, 0, Buckets) = 0
    BY <1>1, <1>2, SumNone DEF WindowInv
  <2>2. Len(f) = 0 /\ \A i \in 1..(1 - 1) : Recent(f)[i] = 0
    BY <1>2
  <2>3. SumOf(Recent(f), 1, 1) = 0
    <3> DEFINE r == Recent(f)
    <3> HIDE DEF r
    <3>1. SumOf(r, 1, 1) = 0
      BY SumNone
    <3> QED BY <3>1 DEF r
  <2> QED BY <2>1, <2>2, <2>3 DEF vol_sum
<1>3. CASE f # <<>>
  <2>1. Recent(f) \in [1..Len(f) -> Int]
    BY <1>1, TurnsGrow DEF Recent
  <2> DEFINE slot == [i \in 1..Len(f) |-> Slot(w.head, f, i)]
  <2>2. ASSUME NEW i \in 1..Len(f) PROVE Slot(w.head, f, i) \in 0..(Buckets - 1)
    <3>1. w.head + (Turn(f, i) - Turn(f, Len(f))) \in Int
      <4>1. w.head \in Int
        BY <1>1 DEF WindowInv
      <4>2. Turn(f, i) \in Int /\ Turn(f, Len(f)) \in Int
        BY <1>3, TurnsGrow
      <4> QED BY <4>1, <4>2
    <3> QED BY <1>1, <3>1, QuotRem DEF Slot
  <2>3. slot \in [1..Len(f) -> 0..(Buckets - 1)]
    BY <2>2
  <2>4. \A b \in 0..(Buckets - 1) :
          w.buckets[b] = SumOf([i \in 1..Len(f) |-> IF slot[i] = b THEN Recent(f)[i] ELSE 0],
                               1, Len(f) + 1)
    <3> TAKE b \in 0..(Buckets - 1)
    <3>1. InSlot(w.head, f, b) = [i \in 1..Len(f) |-> IF slot[i] = b THEN Recent(f)[i] ELSE 0]
      BY DEF InSlot
    <3>2. w.buckets[b] = SumOf(InSlot(w.head, f, b), 1, Len(f) + 1)
      BY <1>3 DEF WindowInv
    <3> QED BY <3>1, <3>2
  <2> DEFINE n == Len(f)   r == Recent(f)   v == w.buckets
  <2>5. n \in Nat /\ Buckets \in Nat /\ r \in [1..n -> Int]
    BY <1>1, <2>1
  <2> HIDE DEF n, r, v, slot
  <2>6. SumOf(v, 0, Buckets) = SumOf(r, 1, n + 1)
    BY <2>3, <2>4, <2>5, SumBySlots DEF n, r, v
  <2> QED BY <2>6 DEF n, r, v, vol_sum
<1> QED BY <1>2, <1>3

\* Where the head goes: as far as the number of the bucket has grown, but not more
\* than once around.
LEMMA MinOfTwo ==
  ASSUME NEW a \in Int, NEW b \in Int
  PROVE  Min({a, b}) = IF a <= b THEN a ELSE b
<1> DEFINE m == IF a <= b THEN a ELSE b
<1>1. m \in {a, b} /\ \A y \in {a, b} : m <= y
  OBVIOUS
<1>2. \A x \in {a, b} : (\A y \in {a, b} : x <= y) => x = m
  BY <1>1
<1> HIDE DEF m
<1>3. Min({a, b}) = m
  BY <1>1, <1>2 DEF Min
<1> QED BY <1>3 DEF m

\* The head moves on by steps buckets and clears the ones it passes.  Of what a
\* sample with number k has put into bucket b nothing is recent if b was passed;
\* otherwise it is recent if it was before.
Clears(head, steps, effective, last, k, b) ==
    LET moved == (head + effective) % Buckets
        old == (head + (k - last)) % Buckets = b /\ k > last - Buckets
        new == (moved + (k - (last + steps))) % Buckets = b /\ k > (last + steps) - Buckets
    IN  IF \E i \in 1..effective : (head + i) % Buckets = b THEN ~new ELSE new <=> old

\* That is what advance_to does to the slots, once around at most.
LEMMA SlotsPass ==
  ASSUME NEW head \in 0..(Buckets - 1), NEW steps \in Nat, NEW last \in Nat, NEW k \in Nat,
         k <= last, NEW b \in 0..(Buckets - 1), NEW effective \in Nat,
         effective = IF steps <= Buckets THEN steps ELSE Buckets
  PROVE  Clears(head, steps, effective, last, k, b)
<1> DEFINE N == Buckets
           moved == (head + effective) % N
           old == (head + (k - last)) % N = b /\ k > last - N
           new == (moved + (k - (last + steps))) % N = b /\ k > (last + steps) - N
<1>1. N \in Nat \ {0} /\ head \in Int /\ b \in 0..(N - 1) /\ head + (k - last) \in Int
  BY WindowConstants
<1>2. moved \in Int
  BY <1>1, QuotRem
<1>3. ASSUME steps <= N PROVE (moved + (k - (last + steps))) % N = (head + (k - last)) % N
  <2> DEFINE x == head + effective   y == k - (last + steps)
  <2>1. x \in Int /\ y \in Int /\ x + y = head + (k - last)
    BY <1>1, <1>3
  <2> HIDE DEF x, y, N
  <2>2. ((x % N) + y) % N = (x + y) % N
    BY <1>1, <2>1, RemAdd
  <2> QED BY <2>1, <2>2 DEF x, y
<1>4. CASE \E i \in 1..effective : (head + i) % N = b
  <2>1. PICK i \in 1..effective : (head + i) % N = b
    BY <1>4
  <2>2. ~new
    <3> SUFFICES ASSUME new PROVE FALSE
      OBVIOUS
    <3>1. k > (last + steps) - N
      OBVIOUS
    <3>2. steps <= N /\ effective = steps
      BY <1>1, <3>1
    <3> DEFINE x == head + (k - last)   y == head + i
    <3>3. x \in Int /\ y \in Int /\ x < y /\ y < x + N
      BY <1>1, <2>1, <3>1, <3>2
    <3>4. x % N = y % N
      BY <1>3, <2>1, <3>2
    <3> HIDE DEF x, y, N
    <3>5. x + N <= y
      BY <1>1, <3>3, <3>4, RemApart
    <3> QED BY <1>1, <3>3, <3>5
  <2> QED BY <2>1, <2>2 DEF Clears
<1>5. CASE ~ \E i \in 1..effective : (head + i) % N = b
  <2>1. steps <= N /\ effective = steps
    <3>1. effective # N
      <4> HIDE DEF N
      <4>1. \E i \in 1..N : (head + i) % N = b
        BY <1>1, RemReach
      <4> QED BY <1>5, <4>1
    <3> QED BY <1>1, <3>1
  <2>2. (moved + (k - (last + steps))) % N = (head + (k - last)) % N
    BY <1>3, <2>1
  <2>3. ASSUME (head + (k - last)) % N = b, k > last - N PROVE k > (last + steps) - N
    <3> SUFFICES ASSUME k <= (last + steps) - N PROVE FALSE
      BY <1>1
    <3> DEFINE x == head + (k - last)   i == (k - last) + N
    <3>1. i \in 1..effective /\ x \in Int /\ head + i = x + N
      BY <1>1, <2>1, <2>3
    <3>2. (x + N) % N = x % N
      <4> HIDE DEF x, N
      <4> QED BY <1>1, <3>1, RemRound
    <3>3. (head + i) % N = b
      BY <2>3, <3>1, <3>2
    <3> HIDE DEF i
    <3> QED BY <1>5, <3>1, <3>3
  <2>4. k > (last + steps) - N => k > last - N
    BY <1>1
  <2> QED BY <1>5, <2>2, <2>3, <2>4 DEF Clears
<1> QED BY <1>4, <1>5

\* The last sample of a longer history, and the others.
LEMMA SampleAdded ==
  ASSUME NEW w, NEW f, NEW t, WindowInv(w, f, t), NEW dv \in Nat
  PROVE  LET s == [at |-> t, dv |-> dv]   h == Append(f, s)   n == Len(f)
         IN  /\ h \in Seq(Sample) /\ h # <<>> /\ Len(h) = n + 1 /\ n \in Nat
             /\ DOMAIN h = 1..(n + 1) /\ h[n + 1] = s
             /\ \A i \in 1..n : h[i] = f[i]
             /\ \A i \in 1..(n + 1) : h[i].at <= t
             /\ \A i, j \in 1..(n + 1) : i <= j => h[i].at <= h[j].at
             /\ f # <<>> => \A i \in 1..n : Turn(h, i) = Turn(f, i)
<1> DEFINE s == [at |-> t, dv |-> dv]   h == Append(f, s)   n == Len(f)
<1>1. f \in Seq(Sample) /\ t \in Nat \ {0} /\ n \in Nat /\ s \in Sample
  BY DEF WindowInv, Sample
<1>2. /\ h \in Seq(Sample) /\ h # <<>> /\ Len(h) = n + 1 /\ DOMAIN h = 1..(n + 1)
      /\ h[n + 1] = s /\ \A i \in 1..n : h[i] = f[i]
  BY <1>1, AppendProperties
<1> HIDE DEF h, s
<1>3. \A i \in 1..n : f[i].at <= t
  BY DEF WindowInv
<1>4. s.at = t /\ t \in Nat
  BY <1>1 DEF s
<1>5. ASSUME NEW i \in 1..(n + 1) PROVE h[i].at <= t
  <2>1. i \in 1..n \/ i = n + 1
    BY <1>1
  <2> QED BY <1>2, <1>3, <1>4, <2>1
<1>6. ASSUME NEW i \in 1..(n + 1), NEW j \in 1..(n + 1), i <= j PROVE h[i].at <= h[j].at
  <2>1. CASE j = n + 1
    BY <1>2, <1>4, <1>5, <2>1
  <2>2. CASE j # n + 1
    <3>1. i \in 1..n /\ j \in 1..n
      BY <1>1, <1>6, <2>2
    <3> QED BY <1>2, <1>6, <3>1 DEF WindowInv
  <2> QED BY <2>1, <2>2
<1>7. ASSUME f # <<>>, NEW i \in 1..n PROVE Turn(h, i) = Turn(f, i)
  <2>1. h[1] = f[1] /\ h[i] = f[i]
    BY <1>1, <1>2
  <2> QED BY <2>1 DEF Turn
<1> QED BY <1>1, <1>2, <1>5, <1>6, <1>7 DEF h, s

\* What advance_to makes of w when steps buckets have passed.
Passes(w, v, steps, effective) ==
    /\ effective = IF steps <= Buckets THEN steps ELSE Buckets
    /\ v.head_time = w.head_time + steps * BucketSeconds
    /\ v.head = (w.head + effective) % Buckets
    /\ v \in [buckets : [0..(Buckets - 1) -> Int], head : 0..(Buckets - 1), head_time : Nat]
    /\ \A b \in 0..(Buckets - 1) :
         v.buckets[b] = IF \E i \in 1..effective : (w.head + i) % Buckets = b
                          THEN 0 ELSE w.buckets[b]

\* A product of natural numbers is one.
LEMMA NatProduct ==
  ASSUME NEW a \in Nat, NEW b \in Nat PROVE a * b \in Nat
OBVIOUS

\* The window moves as far as the number of the bucket grows.
LEMMA Advanced ==
  ASSUME NEW w, NEW f, NEW t, WindowInv(w, f, t), f # <<>>, NEW dv \in Nat
  PROVE  \E steps, effective \in Nat :
            /\ Passes(w, advance_to(w, t), steps, effective)
            /\ Turn(Append(f, [at |-> t, dv |-> dv]), Len(f) + 1) = Turn(f, Len(f)) + steps
<1> DEFINE N == Buckets   K == BucketSeconds   last == Turn(f, Len(f))
           steps == (t - w.head_time) \div K
           effective == IF steps <= N THEN steps ELSE N
           v == advance_to(w, t)
           h == Append(f, [at |-> t, dv |-> dv])
           n == Len(f)
<1>1. /\ N \in Nat \ {0} /\ K \in Nat \ {0} /\ n \in 1..n /\ 1 \in 1..n /\ n \in Nat /\ last \in Nat
      /\ f[1].at \in Nat \ {0} /\ f[n].at \in Nat \ {0}
  BY WindowConstants, TurnsGrow
<1>2. /\ w \in [buckets : [0..(N - 1) -> Int], head : 0..(N - 1), head_time : Nat]
      /\ w.head_time = f[1].at + last * K /\ t \in Nat \ {0} /\ f[n].at <= t
  BY <1>1 DEF WindowInv
<1>3. w.buckets \in [0..(N - 1) -> Int] /\ w.head \in 0..(N - 1) /\ w.head_time \in Nat /\ w.head \in Int
  BY <1>1, <1>2
<1>4. t - w.head_time \in Nat /\ w.head_time # 0
  <2> DEFINE x == f[n].at - f[1].at
  <2>1. x \in Int
    BY <1>1
  <2> HIDE DEF x, K
  <2>2. x % K \in 0..(K - 1) /\ x = (x \div K) * K + (x % K) /\ x \div K \in Int
    BY <1>1, <2>1, QuotRem
  <2>3. x \div K = last
    BY DEF Turn, x, K
  <2>4. last * K <= x /\ last * K \in Nat
    <3>1. last * K \in Nat
      BY <1>1, NatProduct
    <3> HIDE DEF last
    <3> QED BY <1>1, <2>1, <2>2, <2>3, <3>1
  <2>5. last * K <= f[n].at - f[1].at
    BY <2>4 DEF x
  <2> DEFINE p == last * K
  <2>6. p \in Nat /\ p <= f[n].at - f[1].at /\ w.head_time = f[1].at + p
    BY <1>2, <2>4, <2>5
  <2> DEFINE d == f[1].at   e == f[n].at   u == w.head_time
  <2>7. /\ d \in Nat \ {0} /\ e \in Nat \ {0} /\ t \in Nat /\ e <= t
        /\ p \in Nat /\ p <= e - d /\ u = d + p
    BY <1>1, <1>2, <2>6
  <2> HIDE DEF p, d, e, u
  <2>8. t - u \in Nat /\ u # 0
    BY <2>7
  <2> QED BY <2>8 DEF u
<1>5. steps \in Nat
  <2> DEFINE x == t - w.head_time
  <2>1. x \in Int /\ 0 <= x
    BY <1>4
  <2> HIDE DEF x, K
  <2>2. x \div K \in Int
    BY <1>1, <2>1, QuotRem
  <2>3. 0 \div K <= x \div K
    <3> DEFINE z == 0
    <3>1. z \in Int /\ z <= x
      BY <2>1
    <3> HIDE DEF z
    <3>2. z \div K <= x \div K
      BY <1>1, <2>1, <3>1, QuotOrder
    <3> QED BY <3>2 DEF z
  <2>4. 0 \div K = 0
    BY <1>1, RemSmall
  <2>5. x \div K \in Nat
    BY <2>2, <2>3, <2>4
  <2> QED BY <2>5 DEF x
<1>6. Turn(h, n + 1) = last + steps
  <2>1. h[1].at = f[1].at /\ h[n + 1].at = t
    BY <1>1, <1>2, AppendProperties DEF WindowInv
  <2> DEFINE x == t - f[1].at
  <2>2. x \in Int /\ last \in Int
    BY <1>1, <1>2
  <2>3. t - w.head_time = x - last * K
    BY <1>1, <1>2
  <2>4. Turn(h, n + 1) = x \div K
    BY <2>1 DEF Turn
  <2> HIDE DEF x, K, last
  <2>5. (x - last * K) \div K = (x \div K) - last
    BY <1>1, <2>2, QuotShift
  <2>6. x \div K \in Int
    BY <1>1, <2>2, QuotRem
  <2> QED BY <2>2, <2>3, <2>4, <2>5, <2>6
<1>7. Min({steps, N}) = effective /\ effective \in Nat
  <2> HIDE DEF steps
  <2> QED BY <1>1, <1>5, MinOfTwo
<1>8. ASSUME steps = 0 PROVE Passes(w, v, steps, effective)
  <2>1. v = w /\ effective = 0
    BY <1>1, <1>4, <1>8 DEF advance_to
  <2>2. w.head = (w.head + effective) % N
    <3>1. w.head + effective = w.head
      BY <1>3, <2>1
    <3>2. w.head % N = w.head
      BY <1>1, <1>3, RemSmall
    <3> QED BY <3>1, <3>2
  <2>3. v.head_time = w.head_time + steps * K
    BY <1>1, <1>3, <1>8, <2>1
  <2>4. \A b \in 0..(N - 1) :
          v.buckets[b] = IF \E i \in 1..effective : (w.head + i) % N = b THEN 0 ELSE w.buckets[b]
    BY <2>1
  <2> QED BY <1>2, <2>1, <2>2, <2>3, <2>4 DEF Passes
<1>9. ASSUME steps # 0 PROVE Passes(w, v, steps, effective)
  <2> DEFINE passed == {(w.head + i) % N : i \in 1..effective}
  <2>1. ~ (t <= w.head_time \/ steps <= 0)
    <3>1. t # w.head_time
      <4> SUFFICES ASSUME t = w.head_time PROVE FALSE
        OBVIOUS
      <4>1. t - w.head_time = 0
        BY <1>3
      <4> QED BY <1>1, <1>9, <4>1, RemSmall
    <3> HIDE DEF steps
    <3> QED BY <1>2, <1>3, <1>4, <1>5, <1>9, <3>1
  <2>2. v = [buckets |-> [i \in DOMAIN w.buckets |-> IF i \in passed THEN 0 ELSE w.buckets[i]],
             head |-> (w.head + effective) % N, head_time |-> w.head_time + steps * K]
    <3> HIDE DEF effective
    <3> QED BY <1>4, <1>7, <2>1 DEF advance_to
  <2>3. v.head_time = w.head_time + steps * K /\ v.head = (w.head + effective) % N
    BY <2>2
  <2>4. \A b \in 0..(N - 1) :
          v.buckets[b] = IF \E i \in 1..effective : (w.head + i) % N = b THEN 0 ELSE w.buckets[b]
    <3> TAKE b \in 0..(N - 1)
    <3>1. DOMAIN w.buckets = 0..(N - 1)
      BY <1>3
    <3>2. v.buckets[b] = IF b \in passed THEN 0 ELSE w.buckets[b]
      <4> HIDE DEF effective, steps, passed, v
      <4> QED BY <2>2, <3>1
    <3>3. b \in passed <=> \E i \in 1..effective : (w.head + i) % N = b
      <4> HIDE DEF effective, steps
      <4> QED OBVIOUS
    <3> HIDE DEF passed, v
    <3> QED BY <3>2, <3>3
  <2>5. v \in [buckets : [0..(N - 1) -> Int], head : 0..(N - 1), head_time : Nat]
    <3>1. (w.head + effective) % N \in 0..(N - 1)
      <4> HIDE DEF effective
      <4>1. w.head + effective \in Int
        BY <1>3, <1>7
      <4> QED BY <1>1, <4>1, QuotRem
    <3>2. w.head_time + steps * K \in Nat
      <4> HIDE DEF steps
      <4>1. steps * K \in Nat
        BY <1>1, <1>5, NatProduct
      <4> QED BY <1>3, <4>1
    <3>3. [i \in DOMAIN w.buckets |-> IF i \in passed THEN 0 ELSE w.buckets[i]] \in [0..(N - 1) -> Int]
      <4>1. DOMAIN w.buckets = 0..(N - 1) /\ \A i \in 0..(N - 1) : w.buckets[i] \in Int
        BY <1>3
      <4> HIDE DEF passed, N
      <4> QED BY <4>1
    <3> HIDE DEF passed, effective, steps, v
    <3> QED BY <2>2, <3>1, <3>2, <3>3
  <2> HIDE DEF passed
  <2> QED BY <2>3, <2>4, <2>5 DEF Passes
<1> HIDE DEF steps, effective, v
<1> QED BY <1>5, <1>6, <1>7, <1>8, <1>9 DEF v

\* update() keeps the window exact, however many buckets have passed.
LEMMA UpdateKeeps ==
  ASSUME NEW w, NEW f, NEW t, WindowInv(w, f, t), NEW dv \in Nat
  PROVE  WindowInv(update(w, t, dv), Append(f, [at |-> t, dv |-> dv]), t)
<1> DEFINE N == Buckets   K == BucketSeconds   n == Len(f)
           v == advance_to(w, t)
           z == update(w, t, dv)
           s == [at |-> t, dv |-> dv]
           h == Append(f, s)
           last == Turn(h, n + 1)
<1>1. /\ N \in Nat \ {0} /\ K \in Nat \ {0} /\ n \in Nat /\ t \in Nat \ {0}
      /\ w \in [buckets : [0..(N - 1) -> Int], head : 0..(N - 1), head_time : Nat]
  BY WindowConstants, TurnsGrow DEF WindowInv
<1>2. /\ h \in Seq(Sample) /\ h # <<>> /\ Len(h) = n + 1 /\ DOMAIN h = 1..(n + 1) /\ h[n + 1] = s
      /\ \A i \in 1..n : h[i] = f[i]
      /\ \A i \in 1..(n + 1) : h[i].at <= t
      /\ \A i, j \in 1..(n + 1) : i <= j => h[i].at <= h[j].at
      /\ f # <<>> => \A i \in 1..n : Turn(h, i) = Turn(f, i)
  BY SampleAdded
<1>3. s.dv = dv /\ s.at = t
  OBVIOUS
<1> HIDE DEF h, s
\* What is to be shown of the window before the sample is added.
<1>4. /\ v \in [buckets : [0..(N - 1) -> Int], head : 0..(N - 1), head_time : Nat]
      /\ v.head_time = h[1].at + last * K /\ last \in Nat
      /\ \A b \in 0..(N - 1) : v.buckets[b] = SumOf(InSlot(v.head, h, b), 1, n + 1)
      /\ \A b \in 0..(N - 1) : \A i \in 1..n : InSlot(v.head, h, b)[i] \in Int
  <2>1. CASE f = <<>>
    <3>1. n = 0 /\ w.head_time = 0 /\ \A b \in 0..(N - 1) : w.buckets[b] = 0
      BY <2>1 DEF WindowInv
    <3>2. v = [w EXCEPT !.head_time = t]
      BY <3>1 DEF advance_to
    <3>3. /\ v \in [buckets : [0..(N - 1) -> Int], head : 0..(N - 1), head_time : Nat]
          /\ v.head_time = t /\ v.head = w.head /\ v.buckets = w.buckets
      BY <1>1, <3>2
    <3>4. h[1].at = t /\ last = 0
      <4>1. h[1].at = t /\ h[n + 1].at = t /\ t - t = 0
        BY <1>1, <1>2, <1>3, <3>1
      <4>2. 0 \div K = 0
        BY <1>1, RemSmall
      <4> QED BY <4>1, <4>2 DEF Turn
    <3>5. v.head_time = h[1].at + last * K
      BY <1>1, <3>3, <3>4
    <3>6. ASSUME NEW b \in 0..(N - 1) PROVE v.buckets[b] = SumOf(InSlot(v.head, h, b), 1, n + 1)
      <4> DEFINE x == InSlot(v.head, h, b)
      <4> HIDE DEF x
      <4>1. SumOf(x, 1, 1) = 0
        BY SumEmpty
      <4> QED BY <3>1, <3>3, <4>1 DEF x
    <3> QED BY <3>1, <3>3, <3>4, <3>5, <3>6
  <2>2. CASE f # <<>>
    <3>1. PICK steps, effective \in Nat :
            Passes(w, v, steps, effective) /\ Turn(h, n + 1) = Turn(f, n) + steps
      BY <2>2, Advanced DEF h, s
    <3> DEFINE old == Turn(f, n)
    <3>2. /\ old \in Nat /\ last = old + steps /\ last \in Nat
          /\ \A i \in 1..n : /\ Turn(f, i) \in Nat /\ Turn(f, i) <= old
                             /\ f[i].dv \in Nat /\ f[i].at \in Nat
      BY <2>2, <3>1, TurnsGrow
    <3>3. /\ w.head_time = f[1].at + old * K
          /\ \A b \in 0..(N - 1) : w.buckets[b] = SumOf(InSlot(w.head, f, b), 1, n + 1)
          /\ w.head \in 0..(N - 1)
      BY <1>1, <2>2 DEF WindowInv
    <3>4. /\ effective = IF steps <= N THEN steps ELSE N
          /\ v.head_time = w.head_time + steps * K
          /\ v.head = (w.head + effective) % N
          /\ v \in [buckets : [0..(N - 1) -> Int], head : 0..(N - 1), head_time : Nat]
          /\ \A b \in 0..(N - 1) :
               v.buckets[b] = IF \E i \in 1..effective : (w.head + i) % N = b
                                THEN 0 ELSE w.buckets[b]
      BY <3>1 DEF Passes
    <3>5. v.head_time = h[1].at + last * K
      <4>1. h[1] = f[1] /\ f[1].at \in Nat
        BY <1>2, <2>2, <3>2, TurnsGrow
      <4> DEFINE d == f[1].at
      <4> HIDE DEF d, K, old, last, v
      <4>2. d \in Int /\ v.head_time = (d + old * K) + steps * K
        BY <3>3, <3>4, <4>1 DEF d
      <4>3. last * K = old * K + steps * K
        BY <1>1, <3>2
      <4>4. v.head_time = d + last * K
        <5> DEFINE p == old * K   q == steps * K   r == last * K   u == v.head_time
        <5>1. p \in Int /\ q \in Int /\ u = (d + p) + q /\ r = p + q
          BY <1>1, <3>2, <4>2, <4>3
        <5> HIDE DEF p, q, r, u
        <5>2. u = d + r
          BY <4>2, <5>1
        <5> QED BY <5>2 DEF r, u
      <4> QED BY <4>1, <4>4 DEF d
    <3>6. ASSUME NEW b \in 0..(N - 1), NEW i \in 1..n
          PROVE  /\ InSlot(v.head, h, b)[i] =
                      IF \E j \in 1..effective : (w.head + j) % N = b
                        THEN 0 ELSE InSlot(w.head, f, b)[i]
                 /\ InSlot(w.head, f, b)[i] \in Int
      <4> DEFINE k == Turn(f, i)
      <4>1. /\ k \in Nat /\ k <= old /\ f[i].dv \in Nat /\ h[i] = f[i] /\ Turn(h, i) = k
            /\ i \in 1..(n + 1) /\ i \in DOMAIN f /\ i \in DOMAIN h
        BY <1>1, <1>2, <2>2, <3>2, TurnsGrow
      <4>2. InSlot(v.head, h, b)[i] =
              IF /\ (v.head + (k - last)) % N = b
                 /\ k > last - N
                THEN f[i].dv ELSE 0
        BY <1>2, <4>1 DEF InSlot, Slot, Recent
      <4>3. InSlot(w.head, f, b)[i] =
              IF /\ (w.head + (k - old)) % N = b
                 /\ k > old - N
                THEN f[i].dv ELSE 0
        BY <4>1 DEF InSlot, Slot, Recent
      <4>4. LET new == (v.head + (k - last)) % N = b /\ k > last - N
                was == (w.head + (k - old)) % N = b /\ k > old - N
            IN  IF \E j \in 1..effective : (w.head + j) % N = b THEN ~new ELSE new <=> was
        <5> DEFINE hd == w.head
        <5>1. hd \in 0..(N - 1) /\ old \in Nat /\ k \in Nat /\ k <= old
          BY <3>2, <3>3, <4>1
        <5>2. last = old + steps /\ v.head = (hd + effective) % N
          BY <3>2, <3>4
        <5> HIDE DEF k, old, last, v, hd
        <5>3. Clears(hd, steps, effective, old, k, b)
          BY <3>4, <5>1, SlotsPass
        <5> QED BY <5>2, <5>3 DEF hd, Clears
      <4> HIDE DEF k, old, last, v
      <4> QED BY <4>1, <4>2, <4>3, <4>4
    <3>7. ASSUME NEW b \in 0..(N - 1) PROVE v.buckets[b] = SumOf(InSlot(v.head, h, b), 1, n + 1)
      <4> DEFINE x == InSlot(v.head, h, b)   y == InSlot(w.head, f, b)   m == n + 1
      <4>1. m \in Nat /\ 1 <= m /\ m - 1 = n
        BY <1>1
      <4>2. CASE \E j \in 1..effective : (w.head + j) % N = b
        <5>1. \A i \in 1..(m - 1) : x[i] = 0
          BY <3>6, <4>1, <4>2
        <5> HIDE DEF x, m
        <5>2. SumOf(x, 1, m) = 0
          BY <4>1, <5>1, SumNone
        <5> QED BY <3>4, <4>2, <5>2 DEF x, m
      <4>3. CASE ~ \E j \in 1..effective : (w.head + j) % N = b
        <5>1. \A i \in 1..(m - 1) : y[i] \in Int /\ x[i] = y[i]
          BY <3>6, <4>1, <4>3
        <5> HIDE DEF x, y, m
        <5>2. SumOf(x, 1, m) = SumOf(y, 1, m)
          BY <4>1, <5>1, SumSame
        <5> QED BY <3>3, <3>4, <4>3, <5>2 DEF x, y, m
      <4> QED BY <4>2, <4>3
    <3>8. \A b \in 0..(N - 1) : \A i \in 1..n : InSlot(v.head, h, b)[i] \in Int
      BY <3>6
    <3> QED BY <3>2, <3>4, <3>5, <3>7, <3>8
  <2> QED BY <2>1, <2>2
<1>5. z = [v EXCEPT !.buckets[v.head] = @ + dv]
  BY DEF update
<1>6. v.buckets \in [0..(N - 1) -> Int] /\ v.head \in 0..(N - 1) /\ v.head_time \in Nat
  BY <1>4
<1> HIDE DEF z, v, last
<1>7. /\ z \in [buckets : [0..(N - 1) -> Int], head : 0..(N - 1), head_time : Nat]
      /\ z.head = v.head /\ z.head_time = v.head_time
      /\ \A b \in 0..(N - 1) : z.buckets[b] = IF b = v.head THEN v.buckets[b] + dv ELSE v.buckets[b]
  <2> DEFINE u == [v.buckets EXCEPT ![v.head] = @ + dv]
  <2>1. z = [v EXCEPT !.buckets = u]
    BY <1>4, <1>5
  <2>2. u \in [0..(N - 1) -> Int]
        /\ \A b \in 0..(N - 1) : u[b] = IF b = v.head THEN v.buckets[b] + dv ELSE v.buckets[b]
    <3> DEFINE vb == v.buckets   hd == v.head
    <3>1. vb \in [0..(N - 1) -> Int] /\ hd \in 0..(N - 1) /\ vb[hd] + dv \in Int
      <4>1. vb \in [0..(N - 1) -> Int] /\ hd \in 0..(N - 1)
        BY <1>6
      <4> HIDE DEF vb, hd, N
      <4>2. vb[hd] \in Int
        BY <4>1
      <4> QED BY <4>1, <4>2
    <3>0. u = [vb EXCEPT ![hd] = vb[hd] + dv]
      OBVIOUS
    <3> HIDE DEF vb, hd, N, u
    <3>2. u \in [0..(N - 1) -> Int]
          /\ \A b \in 0..(N - 1) : u[b] = IF b = hd THEN vb[b] + dv ELSE vb[b]
      BY <3>0, <3>1
    <3> QED BY <3>2 DEF vb, hd
  <2> HIDE DEF u
  <2>3. z.buckets = u /\ z.head = v.head /\ z.head_time = v.head_time
    BY <1>4, <2>1
  <2>4. z \in [buckets : [0..(N - 1) -> Int], head : 0..(N - 1), head_time : Nat]
    BY <1>4, <2>1, <2>2
  <2> QED BY <2>2, <2>3, <2>4
<1>8. ASSUME NEW b \in 0..(N - 1) PROVE z.buckets[b] = SumOf(InSlot(z.head, h, b), 1, (n + 1) + 1)
  <2> DEFINE x == InSlot(v.head, h, b)   m == n + 1
  <2>1. x[m] = IF v.head = b THEN dv ELSE 0
    <3>1. (v.head + (last - last)) % N = v.head
      <4>1. v.head + (last - last) = v.head
        BY <1>4, <1>6
      <4> QED BY <1>1, <1>6, <4>1, RemSmall
    <3>2. last > last - N
      BY <1>1, <1>4
    <3>3. m \in 1..m /\ m \in DOMAIN h
      BY <1>1, <1>2
    <3> QED BY <1>2, <1>3, <3>1, <3>2, <3>3 DEF InSlot, Slot, Recent, last
  <2>2. m \in Nat /\ 1 <= m /\ \A i \in 1..m : x[i] \in Int
    <3>1. \A i \in 1..m : i \in 1..n \/ i = m
      BY <1>1
    <3>2. \A i \in 1..n : x[i] \in Int
      BY <1>4
    <3>3. x[m] \in Int
      BY <2>1
    <3> HIDE DEF x
    <3> QED BY <1>1, <3>1, <3>2, <3>3
  <2>3. v.buckets[b] = SumOf(x, 1, m) /\ v.buckets[b] \in Int
    BY <1>4, <1>6
  <2> HIDE DEF x, m
  <2>4. SumOf(x, 1, m + 1) = SumOf(x, 1, m) + x[m]
    BY <2>2, SumGoesOn
  <2>5. z.buckets[b] = SumOf(x, 1, m + 1)
    BY <1>7, <2>1, <2>3, <2>4
  <2> QED BY <1>7, <2>5 DEF x, m
<1>9. z.head_time = h[1].at + Turn(h, Len(h)) * K
  BY <1>2, <1>4, <1>7 DEF last
<1> QED BY <1>1, <1>2, <1>7, <1>8, <1>9 DEF WindowInv, z, h, s

\* Time passes.
LEMMA WindowLater ==
  ASSUME NEW w, NEW f, NEW t, WindowInv(w, f, t)
  PROVE  WindowInv(w, f, t + 1)
<1>1. t \in Nat \ {0} /\ \A i \in 1..Len(f) : f[i].at \in Nat /\ f[i].at <= t
  BY TurnsGrow DEF WindowInv
<1>2. t + 1 \in Nat \ {0} /\ \A i \in 1..Len(f) : f[i].at <= t + 1
  BY <1>1
<1> QED BY <1>2 DEF WindowInv
-----------------------------------------------------------------------------
(* The ring of true ranges, and the bar *)

\* An element that no other exceeds is the maximum.
LEMMA MaxIs ==
  ASSUME NEW T \in SUBSET Int, NEW m \in T, \A y \in T : m >= y
  PROVE  Max(T) = m
<1>1. \A x \in T : (\A y \in T : x >= y) => x = m
  <2> TAKE x \in T
  <2> HAVE \A y \in T : x >= y
  <2>1. x >= m /\ m >= x /\ x \in Int /\ m \in Int
    OBVIOUS
  <2> QED BY <2>1
<1> QED BY <1>1 DEF Max

\* An element that no other is below is the minimum.
LEMMA MinIs ==
  ASSUME NEW T \in SUBSET Int, NEW m \in T, \A y \in T : m <= y
  PROVE  Min(T) = m
<1>1. \A x \in T : (\A y \in T : x <= y) => x = m
  <2> TAKE x \in T
  <2> HAVE \A y \in T : x <= y
  <2>1. x <= m /\ m <= x /\ x \in Int /\ m \in Int
    OBVIOUS
  <2> QED BY <2>1
<1> QED BY <1>1 DEF Min

\* The maximum of two numbers.
LEMMA MaxOfTwo ==
  ASSUME NEW a \in Int, NEW b \in Int
  PROVE  Max({a, b}) = IF a >= b THEN a ELSE b
<1> DEFINE m == IF a >= b THEN a ELSE b   T == {a, b}
<1>1. T \in SUBSET Int /\ m \in T /\ \A y \in T : m >= y
  OBVIOUS
<1> HIDE DEF m, T
<1>2. Max(T) = m
  BY <1>1, MaxIs
<1> QED BY <1>2 DEF m, T

\* The maximum of three numbers is a number.
LEMMA MaxOfThree ==
  ASSUME NEW a \in Int, NEW b \in Int, NEW c \in Int
  PROVE  Max({a, b, c}) \in Int
<1> DEFINE ab == IF a >= b THEN a ELSE b
           m == IF ab >= c THEN ab ELSE c
           T == {a, b, c}
<1>1. T \in SUBSET Int /\ m \in T /\ \A y \in T : m >= y
  OBVIOUS
<1>2. m \in Int
  OBVIOUS
<1> HIDE DEF m, T
<1>3. Max(T) = m
  BY <1>1, MaxIs
<1> QED BY <1>2, <1>3 DEF T

\* A true range is a number.
LEMMA RangeIsInt ==
  ASSUME NEW b, NEW prev \in Nat, b.high \in Nat, b.low \in Nat
  PROVE  TrueRange(b, prev) \in Int
<1> DEFINE Gap(p) == IF prev = 0 THEN 0 ELSE IF p < prev THEN prev - p ELSE p - prev
           x == b.high - b.low
           y == Gap(b.high)
           z == Gap(b.low)
<1>1. x \in Int /\ y \in Int /\ z \in Int
  OBVIOUS
<1>2. TrueRange(b, prev) = Max({x, y, z})
  BY DEF TrueRange
<1> HIDE DEF x, y, z
<1> QED BY <1>1, <1>2, MaxOfThree

\* The ring holds the last ranges, each at the place of its number.
RingInv(r, rs) ==
    LET n == Len(rs)
        first == n - r.count + 1
    IN  /\ r \in [slots : [0..(Slots - 1) -> Int], head : 0..(Slots - 1), count : Nat]
        /\ rs \in Seq(Int)
        /\ r.head = n % Slots
        /\ r.count = IF Slots <= n THEN Slots ELSE n
        /\ \A i \in first..n : r.slots[(i - 1) % Slots] = rs[i]
        /\ SumOf(r.slots, 0, r.count) = SumOf(rs, first, n + 1)

\* push keeps it: the oldest range makes room for the new one.
LEMMA PushKeeps ==
  ASSUME NEW r, NEW rs, RingInv(r, rs), NEW tr \in Int
  PROVE  RingInv(push(r, tr), Append(rs, tr))
<1> DEFINE S == Slots   n == Len(rs)   c == r.count   hd == r.head   p == r.slots
           z == push(r, tr)   q == [p EXCEPT ![hd] = tr]   d == z.count
           ss == Append(rs, tr)
           first == n - c + 1
           next == (n + 1) - d + 1
<1>1. /\ S \in Nat \ {0} /\ n \in Nat /\ c \in Nat /\ c = (IF S <= n THEN S ELSE n)
      /\ hd = n % S /\ hd \in 0..(S - 1) /\ p \in [0..(S - 1) -> Int] /\ rs \in Seq(Int)
      /\ \A i \in first..n : p[(i - 1) % S] = rs[i]
      /\ SumOf(p, 0, c) = SumOf(rs, first, n + 1)
  <2>1. S \in Nat \ {0} /\ rs \in Seq(Int) /\ n \in Nat
    BY WindowConstants DEF RingInv
  <2>2. r \in [slots : [0..(S - 1) -> Int], head : 0..(S - 1), count : Nat]
    BY DEF RingInv
  <2>3. hd \in 0..(S - 1) /\ p \in [0..(S - 1) -> Int] /\ c \in Nat
    BY <2>2
  <2>4. hd = n % S /\ c = (IF S <= n THEN S ELSE n) /\ SumOf(p, 0, c) = SumOf(rs, first, n + 1)
    BY Zenon DEF RingInv
  <2>5. \A i \in first..n : p[(i - 1) % S] = rs[i]
    BY Zenon DEF RingInv
  <2> QED BY <2>1, <2>3, <2>4, <2>5
<1>2. /\ ss \in Seq(Int) /\ Len(ss) = n + 1 /\ ss[n + 1] = tr /\ \A i \in 1..n : ss[i] = rs[i]
      /\ \A i \in 1..n : rs[i] \in Int
  BY <1>1, AppendProperties
<1>3. /\ z.slots = q /\ z.head = (hd + 1) % S /\ d = IF c < S THEN c + 1 ELSE c
      /\ z = [slots |-> q, head |-> (hd + 1) % S, count |-> d]
  BY DEF push
<1>4. q \in [0..(S - 1) -> Int] /\ \A b \in 0..(S - 1) : q[b] = IF b = hd THEN tr ELSE p[b]
  <2> HIDE DEF p, hd, S
  <2> QED BY <1>1
<1> HIDE DEF S, n, c, hd, p, z, q, d, ss
<1>5. (hd + 1) % S = (n + 1) % S /\ (hd + 1) % S \in 0..(S - 1)
  <2> DEFINE one == 1
  <2>1. one \in Int /\ n \in Int
    BY <1>1
  <2>2. n + one \in Int /\ hd + one \in Int
    BY <1>1
  <2> HIDE DEF one
  <2>3. ((n % S) + one) % S = (n + one) % S
    BY <1>1, <2>1, RemAdd
  <2>4. (hd + one) % S \in 0..(S - 1)
    BY <1>1, <2>2, QuotRem
  <2> QED BY <1>1, <2>3, <2>4 DEF one
<1>6. d \in Nat /\ d = IF S <= n + 1 THEN S ELSE n + 1
  BY <1>1, <1>3
<1>7. z \in [slots : [0..(S - 1) -> Int], head : 0..(S - 1), count : Nat]
  BY <1>3, <1>4, <1>5, <1>6
<1>8. ASSUME NEW i \in next..(n + 1) PROVE q[(i - 1) % S] = ss[i]
  <2> DEFINE j == i - 1
  <2>0. j \in Int /\ j <= n /\ n < j + S /\ i \in Int /\ 1 <= i
    BY <1>1, <1>6
  <2>1. j % S \in 0..(S - 1)
    <3> HIDE DEF j
    <3> QED BY <1>1, <2>0, QuotRem
  <2>2. CASE i = n + 1
    <3>1. j = n
      BY <1>1, <2>2
    <3> QED BY <1>1, <1>2, <1>4, <2>2, <3>1
  <2>3. CASE i # n + 1
    <3>1. j < n /\ i \in first..n /\ i \in 1..n
      BY <1>1, <1>3, <1>6, <2>0, <2>3
    <3>2. j % S # n % S
      <4> HIDE DEF j
      <4>1. S \in Nat \ {0} /\ n \in Int /\ j \in Int /\ j < n /\ n < j + S
        BY <1>1, <2>0, <3>1
      <4>2. j % S = n % S => j + S <= n
        BY ONLY <4>1, RemApart
      <4> QED BY <4>1, <4>2
    <3>3. q[j % S] = p[j % S]
      <4> HIDE DEF j
      <4> QED BY <1>1, <1>4, <2>1, <3>2
    <3> QED BY <1>1, <1>2, <3>1, <3>3
  <2> QED BY <2>2, <2>3
<1>9. SumOf(q, 0, d) = SumOf(ss, next, (n + 1) + 1)
  <2>1. CASE n < S
    <3>1. c = n /\ d = n + 1 /\ hd = n /\ first = 1 /\ next = 1
      <4>1. c = n /\ d = n + 1
        BY <1>1, <1>3, <2>1
      <4>2. n % S = n
        <5>1. n \in 0..(S - 1) /\ S \in Nat \ {0}
          BY <1>1, <2>1
        <5> QED BY ONLY <5>1, RemSmall
      <4> QED BY <1>1, <4>1, <4>2
    <3>2. \A i \in 0..(n - 1) : p[i] \in Int /\ q[i] = p[i]
      BY <1>1, <1>4, <2>1, <3>1
    <3>3. SumOf(q, 0, n) = SumOf(p, 0, n)
      BY <1>1, <3>2, RingSame
    <3>4. SumOf(q, 0, n + 1) = SumOf(q, 0, n) + q[n]
      <4>1. \A i \in 0..n : q[i] \in Int
        BY <1>1, <1>4, <2>1
      <4> QED BY <1>1, <4>1, SumGoesOn
    <3>5. q[n] = tr
      BY <1>1, <1>4, <2>1, <3>1
    <3> DEFINE m == n + 1
    <3>6. m \in Nat /\ 1 <= m /\ m - 1 = n
      BY <1>1
    <3>7. SumOf(ss, 1, m) = SumOf(rs, 1, m)
      <4>1. \A i \in 1..(m - 1) : rs[i] \in Int /\ ss[i] = rs[i]
        BY <1>2, <3>6
      <4> HIDE DEF m
      <4> QED BY <3>6, <4>1, SumSame
    <3>8. SumOf(ss, 1, m + 1) = SumOf(ss, 1, m) + ss[m]
      <4>1. \A i \in 1..m : ss[i] \in Int
        BY <1>2
      <4> HIDE DEF m
      <4> QED BY <3>6, <4>1, SumGoesOn
    <3> QED BY <1>1, <1>2, <3>1, <3>3, <3>4, <3>5, <3>7, <3>8
  <2>2. CASE n >= S
    <3>1. c = S /\ d = S /\ first = (n - S) + 1 /\ next = first + 1 /\ first \in 1..n
      BY <1>1, <1>3, <2>2
    <3>2. SumOf(q, 0, S) = SumOf(p, 0, S) + (q[hd] - p[hd])
      <4>1. 0 \in Nat /\ S \in Nat /\ hd \in 0..(S - 1)
        BY <1>1
      <4>2. \A i \in 0..(S - 1) : p[i] \in Int /\ q[i] \in Int /\ (i # hd => q[i] = p[i])
        BY <1>1, <1>4
      <4> QED BY ONLY <4>1, <4>2, SumChanged
    <3>3. q[hd] = tr /\ p[hd] = rs[first] /\ rs[first] \in Int
      <4>1. (first - 1) % S = hd
        <5>1. first - 1 = n - S
          BY <1>1, <3>1
        <5>2. (n - S) % S = n % S
          <6>1. n \in Int /\ S \in Nat \ {0}
            BY <1>1
          <6> QED BY ONLY <6>1, RemRound
        <5> QED BY <1>1, <5>1, <5>2
      <4>2. first \in first..n
        BY <1>1, <3>1
      <4>3. p[(first - 1) % S] = rs[first]
        BY <1>1, <4>2
      <4> QED BY <1>1, <1>2, <1>4, <3>1, <4>1, <4>3
    <3> DEFINE m == n + 1
    <3>4. m \in Nat /\ first \in Nat /\ first + 1 \in Nat /\ first < m /\ first + 1 <= m /\ m - 1 = n
      BY <1>1, <3>1
    <3>5. SumOf(rs, first, m) = rs[first] + SumOf(rs, first + 1, m)
      <4>1. \A i \in first..(m - 1) : rs[i] \in Int
        BY <1>2, <3>1, <3>4
      <4> HIDE DEF m, first
      <4> QED BY <3>4, <4>1, SumFirst
    <3>6. SumOf(ss, first + 1, m) = SumOf(rs, first + 1, m) /\ SumOf(rs, first + 1, m) \in Int
      <4> DEFINE a == first + 1
      <4>1. a \in Nat /\ a <= m /\ \A i \in a..(m - 1) : rs[i] \in Int /\ ss[i] = rs[i]
        BY <1>2, <3>1, <3>4
      <4> HIDE DEF m, a
      <4>2. SumOf(ss, a, m) = SumOf(rs, a, m)
        BY <3>4, <4>1, SumSame
      <4>3. SumOf(rs, a, m) \in Int
        BY <3>4, <4>1, SumType
      <4> QED BY <4>2, <4>3 DEF a
    <3>7. SumOf(ss, first + 1, m + 1) = SumOf(ss, first + 1, m) + ss[m]
      <4> DEFINE a == first + 1
      <4>1. a \in Nat /\ a <= m /\ \A i \in a..m : ss[i] \in Int
        BY <1>2, <3>1, <3>4
      <4> HIDE DEF m, a
      <4>2. SumOf(ss, a, m + 1) = SumOf(ss, a, m) + ss[m]
        BY <3>4, <4>1, SumGoesOn
      <4> QED BY <4>2 DEF a
    <3>8. SumOf(p, 0, S) = SumOf(rs, first, m) /\ ss[m] = tr
      BY <1>1, <1>2, <3>1
    <3> HIDE DEF first
    <3>9. SumOf(q, 0, S) = SumOf(ss, first + 1, m + 1)
      BY <3>2, <3>3, <3>5, <3>6, <3>7, <3>8
    <3> QED BY <3>1, <3>9
  <2> QED BY <1>1, <2>1, <2>2
<1> HIDE DEF first
<1> QED BY <1>2, <1>3, <1>5, <1>6, <1>7, <1>8, <1>9 DEF RingInv, S, z, ss, d

\* The types of a bar and of the prices seen.
Bars == [primed : BOOLEAN, minute_index : Nat, open : Nat, high : Nat, low : Nat, close : Nat]
PriceSeen == [price : Nat, trade : BOOLEAN]
Seens == Seq(PriceSeen)

\* The bar is the bar of the prices seen: m is the last trade, hi and lo are the
\* highest and the lowest price.
BarAt(m, hi, lo, b, s) ==
    /\ s[1].trade /\ b.open = s[1].price
    /\ s[m].trade /\ b.close = s[m].price /\ \A i \in 1..Len(s) : s[i].trade => i <= m
    /\ b.high = s[hi].price /\ b.low = s[lo].price
    /\ \A i \in 1..Len(s) : s[i].price <= b.high /\ b.low <= s[i].price

\* There is such a place for each of the three, once a bar is open.
BarInv(b, s) ==
    /\ b \in Bars /\ s \in Seens
    /\ b.primed => \E m, hi, lo \in 1..Len(s) : BarAt(m, hi, lo, b, s)

\* A bar that is opened, and a price that extends it.
LEMMA BarOpens ==
  ASSUME NEW b, NEW minute \in Nat, NEW price \in Nat
  PROVE  BarInv(reopen(b, minute, price), <<[price |-> price, trade |-> TRUE]>>)
<1> DEFINE s == <<[price |-> price, trade |-> TRUE]>>   z == reopen(b, minute, price)
<1>1. s \in Seens /\ Len(s) = 1 /\ s[1] = [price |-> price, trade |-> TRUE]
  BY DEF Seens, PriceSeen
<1>2. z \in Bars /\ z.open = price /\ z.high = price /\ z.low = price /\ z.close = price
  BY DEF reopen, Bars
<1>3. s[1].trade /\ s[1].price = price
  BY <1>1
<1> HIDE DEF s, z
<1>4. BarAt(1, 1, 1, z, s)
  BY <1>1, <1>2, <1>3 DEF BarAt
<1>5. 1 \in 1..Len(s)
  BY <1>1
<1> QED BY <1>1, <1>2, <1>4, <1>5 DEF BarInv, s, z

\* A quote extends the bar, a trade closes it as well.
LEMMA BarGoesOn ==
  ASSUME NEW b, NEW s, BarInv(b, s), b.primed, NEW price \in Nat, NEW trade \in BOOLEAN, NEW z,
         z = IF trade THEN update_from_trade(b, price) ELSE extend_range(b, price)
  PROVE  BarInv(z, Append(s, [price |-> price, trade |-> trade]))
<1> DEFINE e == [price |-> price, trade |-> trade]   h == Append(s, e)   n == Len(s)
<1>1. b \in Bars /\ s \in Seens /\ n \in Nat
  BY DEF BarInv, Seens
<1>2. PICK m, hi, lo \in 1..n : BarAt(m, hi, lo, b, s)
  BY DEF BarInv
<1>3. \A i \in 1..n : s[i].price \in Nat
  <2>1. \A i \in 1..n : s[i] \in PriceSeen
    BY <1>1 DEF Seens
  <2> QED BY <2>1 DEF PriceSeen
<1>4. /\ h \in Seens /\ Len(h) = n + 1 /\ h[n + 1] = e /\ \A i \in 1..n : h[i] = s[i]
  <2>1. e \in PriceSeen
    BY DEF PriceSeen
  <2> HIDE DEF e
  <2> QED BY <1>1, <2>1, AppendProperties DEF Seens
<1>5. e.price = price /\ e.trade = trade
  OBVIOUS
<1> HIDE DEF h, e
<1>6. b.high \in Int /\ b.low \in Int /\ b.high \in Nat /\ b.low \in Nat
  BY <1>1 DEF Bars
<1>7. /\ Max({b.high, price}) = IF b.high >= price THEN b.high ELSE price
      /\ Min({b.low, price}) = IF b.low <= price THEN b.low ELSE price
  BY <1>6, MaxOfTwo, MinOfTwo
<1>8. /\ z.open = b.open /\ z.close = (IF trade THEN price ELSE b.close)
      /\ z.high = (IF b.high >= price THEN b.high ELSE price)
      /\ z.low = (IF b.low <= price THEN b.low ELSE price)
      /\ z \in Bars
  <2> DEFINE hh == IF b.high >= price THEN b.high ELSE price
             ll == IF b.low <= price THEN b.low ELSE price
  <2>1. extend_range(b, price) = [b EXCEPT !.high = hh, !.low = ll] /\ hh \in Nat /\ ll \in Nat
    BY <1>6, <1>7 DEF extend_range
  <2> HIDE DEF hh, ll
  <2>2. CASE trade
    <3>1. z = [[b EXCEPT !.high = hh, !.low = ll] EXCEPT !.close = price]
      BY <2>1, <2>2 DEF update_from_trade
    <3>2. z.open = b.open /\ z.close = price /\ z.high = hh /\ z.low = ll /\ z \in Bars
      BY <1>1, <2>1, <3>1 DEF Bars
    <3> QED BY <2>2, <3>2 DEF hh, ll
  <2>3. CASE ~trade
    <3>1. z = [b EXCEPT !.high = hh, !.low = ll]
      BY <2>1, <2>3
    <3>2. z.open = b.open /\ z.close = b.close /\ z.high = hh /\ z.low = ll /\ z \in Bars
      BY <1>1, <2>1, <3>1 DEF Bars
    <3> QED BY <2>3, <3>2 DEF hh, ll
  <2> QED BY <2>2, <2>3
<1> DEFINE m2 == IF trade THEN n + 1 ELSE m
           hi2 == IF b.high >= price THEN hi ELSE n + 1
           lo2 == IF b.low <= price THEN lo ELSE n + 1
<1>9. /\ m2 \in 1..(n + 1) /\ hi2 \in 1..(n + 1) /\ lo2 \in 1..(n + 1)
      /\ \A i \in 1..(n + 1) : i \in 1..n \/ i = n + 1
  BY <1>1
<1>10. BarAt(m2, hi2, lo2, z, h)
  <2>1. /\ s[1].trade /\ b.open = s[1].price
        /\ s[m].trade /\ b.close = s[m].price /\ \A i \in 1..n : s[i].trade => i <= m
        /\ b.high = s[hi].price /\ b.low = s[lo].price
        /\ \A i \in 1..n : s[i].price <= b.high /\ b.low <= s[i].price
    BY <1>2 DEF BarAt
  <2>2. h[1].trade /\ z.open = h[1].price
    <3>1. h[1] = s[1]
      BY <1>1, <1>2, <1>4
    <3> QED BY <1>8, <2>1, <3>1
  <2>3. h[m2].trade /\ z.close = h[m2].price
    BY <1>4, <1>5, <1>8, <2>1
  <2>4. \A i \in 1..(n + 1) : h[i].trade => i <= m2
    <3> TAKE i \in 1..(n + 1)
    <3>1. CASE i = n + 1
      BY <1>1, <1>4, <1>5, <3>1
    <3>2. CASE i \in 1..n
      BY <1>1, <1>4, <2>1, <3>2
    <3> QED BY <1>9, <3>1, <3>2
  <2>5. z.high = h[hi2].price /\ z.low = h[lo2].price
    BY <1>4, <1>5, <1>8, <2>1
  <2>6. \A i \in 1..(n + 1) : h[i].price <= z.high /\ z.low <= h[i].price
    <3> TAKE i \in 1..(n + 1)
    <3>1. CASE i = n + 1
      BY <1>4, <1>5, <1>6, <1>8, <3>1
    <3>2. CASE i \in 1..n
      <4>1. h[i].price = s[i].price /\ s[i].price \in Nat /\ s[i].price <= b.high /\ b.low <= s[i].price
        BY <1>3, <1>4, <2>1, <3>2
      <4> QED BY <1>6, <1>8, <4>1
    <3> QED BY <1>9, <3>1, <3>2
  <2> HIDE DEF m2, hi2, lo2
  <2> QED BY <1>4, <2>2, <2>3, <2>4, <2>5, <2>6 DEF BarAt
<1> HIDE DEF m2, hi2, lo2
<1> QED BY <1>4, <1>8, <1>9, <1>10 DEF BarInv, h, e

-----------------------------------------------------------------------------
\* The types of the other members.
Aggs == [events_total : Nat, primed : BOOLEAN, last_quote_volume : Nat, prev_close : Nat,
         natr : [sum : Int, of : Nat, close : Nat]]

\* natr is what the last bar that was closed has left.
NatrInv(a, r, rs) ==
    /\ a.natr.sum = SumOf(r.slots, 0, r.count) /\ a.natr.of = r.count
    /\ rs # <<>> => a.natr.close = a.prev_close

\* The inductive invariant.
AggInv ==
    /\ input \in Inputs /\ agg \in Aggs
    /\ WindowInv(win, fed, now)
    /\ RingInv(trw, ranges) /\ NatrInv(agg, trw, ranges)
    /\ BarInv(bar, seen)

\* The invariant says what the selector relies on.
LEMMA InvExact == AggInv => AggregatesExact
<1> SUFFICES ASSUME AggInv PROVE AggregatesExact
  OBVIOUS
<1>1. WindowInv(win, fed, now) /\ RingInv(trw, ranges) /\ NatrInv(agg, trw, ranges) /\ BarInv(bar, seen)
  BY DEF AggInv
<1>2. WindowExact
  <2>1. vol_sum(win) = SumOf(Recent(fed), 1, Len(fed) + 1)
    BY <1>1, WindowSum
  <2> QED BY <2>1 DEF WindowExact, Recent, Turn
<1> DEFINE prices == {seen[i].price : i \in DOMAIN seen}
           trades == {i \in DOMAIN seen : seen[i].trade}
           n == Len(ranges)
<1>3. ASSUME bar.primed
      PROVE  /\ bar.open = seen[Min(trades)].price /\ bar.close = seen[Max(trades)].price
             /\ bar.high = Max(prices) /\ bar.low = Min(prices)
  <2>1. bar \in Bars /\ seen \in Seens /\ \E m, hi, lo \in 1..Len(seen) : BarAt(m, hi, lo, bar, seen)
    BY <1>1, <1>3 DEF BarInv
  <2>2. PICK m, hi, lo \in 1..Len(seen) : BarAt(m, hi, lo, bar, seen)
    BY <2>1
  <2>3. /\ seen[1].trade /\ bar.open = seen[1].price
        /\ seen[m].trade /\ bar.close = seen[m].price
        /\ \A i \in 1..Len(seen) : seen[i].trade => i <= m
        /\ bar.high = seen[hi].price /\ bar.low = seen[lo].price
        /\ \A i \in 1..Len(seen) : seen[i].price <= bar.high /\ bar.low <= seen[i].price
    BY <2>2 DEF BarAt
  <2>4. Len(seen) \in Nat /\ DOMAIN seen = 1..Len(seen) /\ 1 \in 1..Len(seen)
    BY <2>1, <2>2 DEF Seens
  <2>5. trades \in SUBSET Int /\ 1 \in trades /\ m \in trades
        /\ (\A y \in trades : 1 <= y) /\ \A y \in trades : m >= y
    BY <2>3, <2>4
  <2>6. prices \in SUBSET Int
    <3>1. \A i \in 1..Len(seen) : seen[i] \in PriceSeen
      BY <2>1 DEF Seens
    <3>2. \A i \in 1..Len(seen) : seen[i].price \in Int
      BY <3>1 DEF PriceSeen
    <3> QED BY <2>4, <3>2
  <2>7. bar.high \in prices /\ bar.low \in prices
    BY <2>3, <2>4
  <2>8. \A y \in prices : y <= bar.high /\ bar.low <= y
    BY <2>3, <2>4
  <2>9. \A y \in prices : bar.high >= y
    BY <2>6, <2>7, <2>8
  <2> HIDE DEF trades, prices
  <2>10. Min(trades) = 1 /\ Max(trades) = m
    BY <2>5, MinIs, MaxIs
  <2>11. Max(prices) = bar.high
    BY <2>6, <2>7, <2>9, MaxIs
  <2>12. Min(prices) = bar.low
    BY <2>6, <2>7, <2>8, MinIs
  <2> QED BY <2>3, <2>10, <2>11, <2>12
<1>4. trw.count = Min({Slots, n}) /\ agg.natr.sum = SumOf(ranges, n - trw.count + 1, n + 1)
      /\ agg.natr.of = trw.count
  <2>1. Slots \in Int /\ n \in Int /\ ranges \in Seq(Int)
    BY <1>1, WindowConstants DEF RingInv
  <2>2. /\ trw.count = IF Slots <= n THEN Slots ELSE n
        /\ SumOf(trw.slots, 0, trw.count) = SumOf(ranges, n - trw.count + 1, n + 1)
    BY <1>1, Zenon DEF RingInv
  <2>3. Min({Slots, n}) = IF Slots <= n THEN Slots ELSE n
    BY <2>1, MinOfTwo
  <2> QED BY <1>1, <2>2, <2>3 DEF NatrInv
<1>5. n > 0 => agg.natr.close = agg.prev_close
  BY <1>1 DEF NatrInv
<1> QED BY <1>2, <1>3, <1>4, <1>5 DEF AggregatesExact, BarExact

\* The invariant holds before the first event.
LEMMA AggStarts == AggInit => AggInv
<1> SUFFICES ASSUME AggInit PROVE AggInv
  OBVIOUS
<1>0. Buckets \in Nat \ {0} /\ Slots \in Nat \ {0}
  BY WindowConstants
<1>1. input \in Inputs /\ agg \in Aggs
  BY DEF AggInit, Aggs
<1>2. WindowInv(win, fed, now)
  <2>1. fed = <<>> /\ now = 1 /\ Len(fed) = 0 /\ fed \in Seq(Sample)
    BY DEF AggInit
  <2>2. win \in [buckets : [0..(Buckets - 1) -> Int], head : 0..(Buckets - 1), head_time : Nat]
        /\ win.head_time = 0 /\ \A b \in 0..(Buckets - 1) : win.buckets[b] = 0
    BY <1>0 DEF AggInit
  <2> QED BY <2>1, <2>2 DEF WindowInv
<1>3. RingInv(trw, ranges) /\ trw.count = 0 /\ SumOf(trw.slots, 0, trw.count) = 0
  <2>1. ranges = <<>> /\ Len(ranges) = 0 /\ ranges \in Seq(Int)
    BY DEF AggInit
  <2>2. /\ trw \in [slots : [0..(Slots - 1) -> Int], head : 0..(Slots - 1), count : Nat]
        /\ trw.head = 0 /\ trw.count = 0
    BY <1>0 DEF AggInit
  <2>3. 0 % Slots = 0
    BY <1>0, RemSmall
  <2>4. SumOf(trw.slots, 0, 0) = 0 /\ SumOf(ranges, 1, 1) = 0
    BY SumEmpty
  <2>5. Len(ranges) - trw.count + 1 = 1 /\ Len(ranges) + 1 = 1
    BY <2>1, <2>2
  <2> QED BY <1>0, <2>1, <2>2, <2>3, <2>4, <2>5 DEF RingInv
<1>4. NatrInv(agg, trw, ranges)
  BY <1>3 DEF AggInit, NatrInv
<1>5. BarInv(bar, seen)
  BY DEF AggInit, BarInv, Bars, Seens
<1> QED BY <1>1, <1>2, <1>3, <1>4, <1>5 DEF AggInv

\* Every step of the screener keeps it.
LEMMA AggStep ==
  ASSUME AggInv, [AggNext]_aggVars
  PROVE  AggInv'
<1>1. /\ input \in Inputs /\ agg \in Aggs /\ WindowInv(win, fed, now) /\ RingInv(trw, ranges)
      /\ NatrInv(agg, trw, ranges) /\ BarInv(bar, seen)
  BY DEF AggInv
<1>2. /\ input.totals \subseteq Nat /\ input.prices \subseteq Nat
      /\ bar \in Bars /\ bar.primed \in BOOLEAN /\ bar.minute_index \in Nat /\ bar.close \in Nat
      /\ bar.high \in Nat /\ bar.low \in Nat
  BY <1>1, AggregatesAssumption DEF BarInv, Bars
<1>3. /\ agg.last_quote_volume \in Nat /\ agg.prev_close \in Nat
      /\ agg.natr \in [sum : Int, of : Nat, close : Nat] /\ agg.events_total \in Nat
  BY <1>1 DEF Aggs
<1>4. CASE UNCHANGED aggVars
  BY <1>1, <1>4 DEF aggVars, AggInv
<1>5. CASE Clock
  <2>1. now' = now + 1 /\ UNCHANGED <<input, agg, bar, win, trw, fed, seen, ranges>>
    BY <1>5 DEF Clock
  <2>2. WindowInv(win', fed', now')
    BY <1>1, <2>1, WindowLater
  <2> QED BY <1>1, <2>1, <2>2 DEF AggInv
<1>6. ASSUME NEW mid \in input.prices, NEW fits \in BOOLEAN, BookTicker(mid, fits)
      PROVE  AggInv'
  <2>1. /\ agg' = [agg EXCEPT !.events_total = @ + 1]
        /\ UNCHANGED <<input, now, win, trw, fed, ranges>>
    BY <1>6 DEF BookTicker
  <2>2. agg' \in Aggs /\ agg'.natr = agg.natr /\ agg'.prev_close = agg.prev_close
    BY <1>1, <1>3, <2>1 DEF Aggs
  <2>3. NatrInv(agg', trw', ranges')
    BY <1>1, <2>1, <2>2 DEF NatrInv
  <2>4. BarInv(bar', seen')
    <3>1. CASE UNCHANGED <<bar, seen>>
      BY <1>1, <3>1
    <3>2. CASE /\ bar.primed /\ bar' = extend_range(bar, mid)
               /\ seen' = Append(seen, [price |-> mid, trade |-> FALSE])
      <4>1. mid \in Nat
        BY <1>2
      <4> QED BY <1>1, <3>2, <4>1, BarGoesOn
    <3> QED BY <1>6, <3>1, <3>2 DEF BookTicker
  <2> QED BY <1>1, <2>1, <2>2, <2>3, <2>4 DEF AggInv
<1>7. ASSUME NEW total \in input.totals, NEW price \in input.prices, NEW f \in BOOLEAN,
             NEW g \in BOOLEAN, NEW m \in {0, 1}, Ticker(total, f, price, g, bar.minute_index + m)
      PROVE  AggInv'
  <2> DEFINE v == IF f THEN total ELSE 0
             a == [agg EXCEPT !.primed = TRUE, !.last_quote_volume = v]
             minute == bar.minute_index + m
  <2>1. v \in Nat /\ price \in Nat /\ minute \in Nat
    BY <1>2
  <2>2. /\ a \in Aggs /\ a.natr = agg.natr /\ a.prev_close = agg.prev_close
    <3> HIDE DEF v
    <3> QED BY <1>1, <1>3, <2>1 DEF Aggs
  <2>3. /\ Totals(v) /\ UNCHANGED <<input, now>>
        /\ \/ LastPrice(a, price, minute)
           \/ agg' = a /\ UNCHANGED <<bar, trw, seen, ranges>>
    BY <1>7 DEF Ticker
  <2> HIDE DEF v, a, minute
  <2>4. WindowInv(win', fed', now')
    <3>1. CASE UNCHANGED <<win, fed>>
      BY <1>1, <2>3, <3>1
    <3>2. CASE win' = update(win, now, Delta(v)) /\ fed' = Append(fed, [at |-> now, dv |-> Delta(v)])
      <4>1. Delta(v) \in Nat
        BY <1>3, <2>1 DEF Delta
      <4> QED BY <1>1, <2>3, <3>2, <4>1, UpdateKeeps
    <3> QED BY <2>3, <3>1, <3>2 DEF Totals
  <2>5. agg' \in Aggs /\ RingInv(trw', ranges') /\ NatrInv(agg', trw', ranges') /\ BarInv(bar', seen')
    <3>1. NatrInv(a, trw, ranges)
      BY <1>1, <2>2 DEF NatrInv
    <3>2. CASE agg' = a /\ UNCHANGED <<bar, trw, seen, ranges>>
      BY <1>1, <2>2, <3>1, <3>2
    <3>3. CASE /\ bar' = reopen(bar, minute, price)
               /\ seen' = <<[price |-> price, trade |-> TRUE]>>
               /\ agg' = a /\ UNCHANGED <<trw, ranges>>
      BY <1>1, <2>1, <2>2, <3>1, <3>3, BarOpens
    <3>4. CASE /\ bar.primed /\ bar' = update_from_trade(bar, price)
               /\ seen' = Append(seen, [price |-> price, trade |-> TRUE])
               /\ agg' = a /\ UNCHANGED <<trw, ranges>>
      <4>1. BarInv(bar', seen')
        BY <1>1, <2>1, <3>4, BarGoesOn
      <4> QED BY <1>1, <2>2, <3>1, <3>4, <4>1
    <3>5. CASE close_bar_and_open_next(a, minute, price)
      <4> DEFINE tr == TrueRange(bar, agg.prev_close)
                 r == push(trw, tr)
                 natr == [sum |-> SumOf(r.slots, 0, r.count), of |-> r.count, close |-> bar.close]
      <4>1. /\ trw' = r /\ ranges' = Append(ranges, tr)
            /\ agg' = [a EXCEPT !.prev_close = bar.close, !.natr = natr]
            /\ bar' = reopen(bar, minute, price) /\ seen' = <<[price |-> price, trade |-> TRUE]>>
        BY <3>5 DEF close_bar_and_open_next
      <4>2. tr \in Int
        BY <1>2, <1>3, RangeIsInt
      <4> HIDE DEF tr
      <4>3. RingInv(trw', ranges')
        BY <1>1, <4>1, <4>2, PushKeeps
      <4>4. BarInv(bar', seen')
        BY <2>1, <4>1, BarOpens
      <4>5. natr \in [sum : Int, of : Nat, close : Nat]
        <5>1. /\ r \in [slots : [0..(Slots - 1) -> Int], head : 0..(Slots - 1), count : Nat]
              /\ r.count = IF Slots <= Len(ranges') THEN Slots ELSE Len(ranges')
              /\ Len(ranges') \in Nat
          BY <4>1, <4>3 DEF RingInv
        <5>2. r.slots \in [0..(Slots - 1) -> Int] /\ r.count \in Nat /\ r.count <= Slots
          BY <5>1, WindowConstants
        <5>3. \A i \in 0..(r.count - 1) : r.slots[i] \in Int
          BY <5>2, WindowConstants
        <5> DEFINE p == r.slots   c == r.count
        <5> HIDE DEF p, c
        <5>4. SumOf(p, 0, c) \in Int
          BY <5>2, <5>3, RingType DEF p, c
        <5> HIDE DEF r
        <5> QED BY <1>2, <5>2, <5>4 DEF p, c
      <4> HIDE DEF natr
      <4>6. agg' \in Aggs /\ agg'.natr = natr /\ agg'.prev_close = bar.close
        BY <1>2, <2>2, <4>1, <4>5 DEF Aggs
      <4>7. NatrInv(agg', trw', ranges')
        BY <4>1, <4>6 DEF NatrInv, natr
      <4> QED BY <4>3, <4>4, <4>6, <4>7
    <3> QED BY <2>3, <3>2, <3>3, <3>4, <3>5 DEF LastPrice
  <2> QED BY <1>1, <2>3, <2>4, <2>5 DEF AggInv
<1> QED BY <1>4, <1>5, <1>6, <1>7 DEF AggNext

\* The aggregates in the recorder program: the monitor leaves them alone.
LEMMA AggInvariant == RecorderSpec => []AggInv
<1>1. RecorderInit => AggInv
  BY AggStarts DEF RecorderInit
<1>2. AggInv /\ [RecorderNext]_recorderVars => AggInv'
  <2> SUFFICES ASSUME AggInv, [RecorderNext]_recorderVars PROVE AggInv'
    OBVIOUS
  <2>1. [AggNext]_aggVars
    BY DEF RecorderNext, OfMonitor, recorderVars
  <2> QED BY <2>1, AggStep
<1> QED BY <1>1, <1>2, PTL DEF RecorderSpec

\* What the selector scores a symbol by is what the exchange has sent, whatever
\* the sizes of the rings, the totals, the prices and the pauses: the window of
\* aggregates.hpp (tf_window) holds the volume of its last buckets and nothing
\* else, the bar is that of the prices of its minute, and the ring of true ranges
\* (tr_window) the last ones.
THEOREM AggregatesAreExact == RecorderSpec => []AggregatesExact
<1>1. AggInv => AggregatesExact
  BY InvExact
<1> QED BY <1>1, AggInvariant, PTL
=============================================================================
