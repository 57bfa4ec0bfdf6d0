-------------------------- MODULE DepthFeedProofs --------------------------
(***************************************************************************)
(* Lemmas about DepthFeed, for every set of prices and quantities and every*)
(* history: what the map operations of the two order books yield, what an  *)
(* event says about the exchange's history, and when a book is the         *)
(* exchange's.  The proofs about both order books rest on them.            *)
(***************************************************************************)
EXTENDS DepthFeed, FiniteSetTheorems, SequenceTheorems, WellFoundedInduction, TLAPS

-----------------------------------------------------------------------------
(***************************************************************************)
(* Least and greatest elements.  Min and Max are CHOOSE expressions; these *)
(* lemmas say that what they choose exists.                                *)
(***************************************************************************)

\* Every non-empty set of naturals has a least element.
LEMMA LeastExists ==
  ASSUME NEW T \in SUBSET Nat, T # {}
  PROVE  \E x \in T : \A y \in T : x <= y
<1> DEFINE R == OpToRel(<, Nat)
<1>1. IsWellFoundedOn(R, Nat)
  BY NatLessThanWellFounded
<1>2. \A x, y \in Nat : y < x => <<y, x>> \in R
  BY DEF OpToRel
<1> HIDE DEF R
<1>3. PICK x \in T : \A y \in T : ~ (<<y, x>> \in R)
  BY <1>1, WFMin
<1>4. \A y \in T : x <= y
  <2> TAKE y \in T
  <2>1. x \in Nat /\ y \in Nat /\ ~ (y < x)
    BY <1>2, <1>3
  <2> QED BY <2>1
<1> QED BY <1>4

\* Min of a non-empty set of naturals is its least element.
LEMMA MinIsLeast ==
  ASSUME NEW T \in SUBSET Nat, T # {}
  PROVE  Min(T) \in T /\ \A y \in T : Min(T) <= y
BY LeastExists DEF Min

\* Max of a non-empty bounded set of naturals is its greatest element.
LEMMA MaxIsGreatest ==
  ASSUME NEW n \in Nat, NEW T \in SUBSET (0..n), T # {}
  PROVE  Max(T) \in T /\ \A y \in T : Max(T) >= y
<1> DEFINE D == {d \in 0..n : n - d \in T}
<1>1. D \in SUBSET Nat /\ D # {}
  <2>1. PICK t \in T : TRUE
    OBVIOUS
  <2>2. n - t \in D
    BY <2>1
  <2>3. D # {}
    BY <2>2 DEF D
  <2>4. D \in SUBSET Nat
    OBVIOUS
  <2> QED BY <2>3, <2>4
<1>2. PICK d \in D : \A e \in D : d <= e
  BY <1>1, LeastExists
<1>3. \A y \in T : n - d >= y
  <2> TAKE y \in T
  <2>1. y \in 0..n /\ n - y \in D
    OBVIOUS
  <2>2. d <= n - y
    BY <2>1, <1>2
  <2>3. d \in 0..n
    OBVIOUS
  <2> HIDE DEF D
  <2> QED BY <2>1, <2>2, <2>3
<1>4. \E x \in T : \A y \in T : x >= y
  BY <1>3
<1> QED BY <1>4 DEF Max

-----------------------------------------------------------------------------
(***************************************************************************)
(* The operators of DepthFeed.                                             *)
(***************************************************************************)

Complete == DepthLimit >= Cardinality(Price)

\* A snapshot shows a level as it is, or leaves it out if it is truncated.
LEMMA SnapshotLevels ==
  ASSUME NEW b \in Book
  PROVE  /\ SnapshotOf(b) \in Book
         /\ \A p \in Price : \/ SnapshotOf(b)[p] = b[p]
                             \/ SnapshotOf(b)[p] = 0 /\ ~Complete
<1>1. SnapshotOf(b) \in Book
  BY DEF SnapshotOf, Book, Quantity
<1>2. ASSUME NEW p \in Price, Complete PROVE InWindow(b, p)
  <2> DEFINE better == {q \in Price : b[q] # 0 /\ q < p}
  <2>1. better \in SUBSET Price /\ p \notin better
    BY FeedAssumption
  <2>2. better # Price
    BY <2>1
  <2> HIDE DEF better
  <2>3. /\ Cardinality(better) <= Cardinality(Price)
        /\ Cardinality(Price) # Cardinality(better)
        /\ IsFiniteSet(better)
    BY <2>1, <2>2, FS_Subset, FeedAssumption
  <2>4. Cardinality(Price) \in Nat /\ Cardinality(better) \in Nat
    BY <2>3, FS_CardinalityType, FeedAssumption
  <2>5. Cardinality(better) < DepthLimit
    BY <2>3, <2>4, <1>2, FeedAssumption DEF Complete
  <2> QED BY <2>5 DEF InWindow, better
<1>3. ASSUME NEW p \in Price
      PROVE  \/ SnapshotOf(b)[p] = b[p]
             \/ SnapshotOf(b)[p] = 0 /\ ~Complete
  BY <1>2 DEF SnapshotOf
<1> QED BY <1>1, <1>3

\* A level that an interval of the history does not touch keeps its value.
LEMMA UntouchedStays ==
  ASSUME NEW h, NEW a \in Nat, NEW b \in Nat, NEW p \in Price \ Touched(h, a, b),
         NEW v \in a..b
  PROVE  h[v][p] = h[a][p]
BY DEF Touched

\* A longer history says the same about the updates it had before.
LEMMA HistoryGrows ==
  ASSUME NEW h \in Seq(Book), NEW x \in Book
  PROVE  /\ Append(h, x) \in Seq(Book)
         /\ Len(Append(h, x)) = Len(h) + 1
         /\ \A v \in 1..Len(h) : Append(h, x)[v] = h[v]
         /\ \A a, b \in 1..Len(h) : Touched(Append(h, x), a, b) = Touched(h, a, b)
<1>1. /\ Append(h, x) \in Seq(Book)
      /\ Len(Append(h, x)) = Len(h) + 1
      /\ \A v \in 1..Len(h) : Append(h, x)[v] = h[v]
  BY AppendProperties
<1>2. ASSUME NEW a \in 1..Len(h), NEW b \in 1..Len(h)
      PROVE  Touched(Append(h, x), a, b) = Touched(h, a, b)
  <2>1. \A v \in (a + 1)..b : v \in 1..Len(h)
    OBVIOUS
  <2> DEFINE g == Append(h, x)
  <2>2. g[a] = h[a] /\ \A v \in (a + 1)..b : g[v] = h[v]
    BY <1>1, <2>1
  <2> HIDE DEF g
  <2>3. Touched(g, a, b) = Touched(h, a, b)
    BY <2>2 DEF Touched
  <2> QED BY <2>3 DEF g
<1> QED BY <1>1, <1>2

\* Applying levels to a side of the book gives a side of the book.
LEMMA ApplyLevelsType ==
  ASSUME NEW levels \in Levels, NEW side \in Book
  PROVE  ApplyLevels(levels, side) \in Book
<1>1. PICK P \in SUBSET Price : levels \in [P -> Quantity]
  BY DEF Levels
<1> QED BY <1>1 DEF ApplyLevels, Book

\* Which buffered events a snapshot leaves, and what applying them yields.
LEMMA BufferedType ==
  ASSUME NEW evs \in Seq(Event), NEW id \in Nat, NEW side \in Book
  PROVE  /\ Kept(evs, id) \in SUBSET (0..Len(evs))
         /\ Kept(evs, id) \in SUBSET (1..Len(evs))
         /\ Newer(evs, id) \in SUBSET (0..Len(evs))
         /\ Newer(evs, id) \subseteq Kept(evs, id)
         /\ EraseOlder(evs, id) \in Seq(Event)
         /\ IdAfter(evs, id) \in Nat
         /\ ApplyBuffered(evs, id, side) \in Book
<1>1. DOMAIN evs = 1..Len(evs) /\ Len(evs) \in Nat
  OBVIOUS
<1>1a. \A i \in 1..Len(evs) : evs[i] \in Event
  OBVIOUS
<1>2. /\ Kept(evs, id) \in SUBSET (0..Len(evs))
      /\ Kept(evs, id) \in SUBSET (1..Len(evs))
      /\ Newer(evs, id) \in SUBSET (0..Len(evs))
  BY <1>1 DEF Kept, Newer
<1>3. Newer(evs, id) \subseteq Kept(evs, id)
  BY <1>1, <1>1a DEF Kept, Newer, Event
<1>4. EraseOlder(evs, id) \in Seq(Event)
  <2>1. CASE Kept(evs, id) = {}
    BY <2>1 DEF EraseOlder
  <2>2. CASE Kept(evs, id) # {}
    <3>1. Min(Kept(evs, id)) \in 1..Len(evs)
      BY <1>2, <2>2, MinIsLeast
    <3>2. SubSeq(evs, Min(Kept(evs, id)), Len(evs)) \in Seq(Event)
      BY <1>1, <3>1, SubSeqProperties
    <3> QED BY <2>2, <3>2 DEF EraseOlder
  <2> QED BY <2>1, <2>2
<1>5. IdAfter(evs, id) \in Nat
  <2>1. CASE Newer(evs, id) = {}
    BY <2>1 DEF IdAfter
  <2>2. CASE Newer(evs, id) # {}
    <3>1. Max(Newer(evs, id)) \in Newer(evs, id)
      BY <1>1, <1>2, <2>2, MaxIsGreatest
    <3>2. evs[Max(Newer(evs, id))] \in Event
      BY <3>1, <1>1, <1>1a DEF Newer
    <3> QED BY <2>2, <3>2 DEF IdAfter, Event
  <2> QED BY <2>1, <2>2
<1>6. ApplyBuffered(evs, id, side) \in Book
  <2> DEFINE naming(p) == {i \in Newer(evs, id) : p \in DOMAIN evs[i].levels}
  <2>1. SUFFICES ASSUME NEW p \in Price
                 PROVE (IF naming(p) = {} THEN side[p]
                        ELSE evs[Max(naming(p))].levels[p]) \in Quantity
    BY <2>1 DEF ApplyBuffered, Book
  <2>2. CASE naming(p) = {}
    BY <2>2 DEF Book
  <2>3. CASE naming(p) # {}
    <3>1. Max(naming(p)) \in naming(p)
      <4>1. naming(p) \in SUBSET (0..Len(evs))
        BY <1>2
      <4> HIDE DEF naming
      <4> QED BY <4>1, <1>1, <2>3, MaxIsGreatest
    <3>2. PICK i \in naming(p) : i = Max(naming(p))
      BY <3>1
    <3>3. evs[i] \in Event /\ p \in DOMAIN evs[i].levels
      BY <1>1, <1>1a DEF Newer
    <3>4. evs[i].levels[p] \in Quantity
      BY <3>3 DEF Event, Levels
    <3> QED BY <2>3, <3>2, <3>4
  <2> QED BY <2>2, <2>3
<1> QED BY <1>2, <1>3, <1>4, <1>5, <1>6

\* Touched levels with the quantities of a book of the history.
LEMMA TouchedLevels ==
  ASSUME NEW h \in Seq(Book), NEW a, NEW b, NEW v \in 1..Len(h)
  PROVE  [p \in Touched(h, a, b) |-> h[v][p]] \in Levels
<1>1. h[v] \in [Price -> Quantity]
  BY DEF Book
<1>2. Touched(h, a, b) \in SUBSET Price
  BY DEF Touched
<1>3. [p \in Touched(h, a, b) |-> h[v][p]] \in [Touched(h, a, b) -> Quantity]
  BY <1>1, <1>2
<1> QED BY <1>2, <1>3 DEF Levels

\* The exchange's steps keep the feed well typed.
LEMMA FeedTypeNext ==
  ASSUME FeedTypeOK, FeedNext
  PROVE  FeedTypeOK'
<1> USE FeedAssumption DEF FeedTypeOK
<1>1. ASSUME NEW p \in Price, NEW q \in Quantity, Update(p, q)
      PROVE  FeedTypeOK'
  <2>1. hist[Len(hist)] \in Book
    BY EmptySeq
  <2>2. [hist[Len(hist)] EXCEPT ![p] = q] \in Book
    BY <2>1 DEF Book
  <2> QED BY <1>1, <2>2, HistoryGrows DEF Update
<1>2. CASE UpdateElsewhere
  <2>1. hist[Len(hist)] \in Book
    BY EmptySeq
  <2> QED BY <1>2, <2>1, HistoryGrows DEF UpdateElsewhere
<1>3. ASSUME NEW first \in 1..MaxVersion, Emit(first)
      PROVE  FeedTypeOK'
  <2>1. NextEvent(first) \in Event
    <3>1. [p \in Touched(hist, sent, Len(hist)) |-> hist[Len(hist)][p]] \in Levels
      BY TouchedLevels
    <3> QED BY <3>1 DEF NextEvent, Event
  <2> QED BY <1>3, <2>1 DEF Emit
<1> QED BY <1>1, <1>2, <1>3 DEF FeedNext

\* What the exchange's steps do to the history.
LEMMA FeedSteps ==
  ASSUME FeedTypeOK, FeedNext
  PROVE  \/ \E x \in Book : hist' = Append(hist, x) /\ UNCHANGED <<sent, stream>>
         \/ \E first \in 1..MaxVersion : Emit(first)
<1> USE DEF FeedTypeOK
<1>0. hist[Len(hist)] \in Book
  BY EmptySeq
<1>1. ASSUME NEW p \in Price, NEW q \in Quantity, Update(p, q)
      PROVE  \E x \in Book : hist' = Append(hist, x) /\ UNCHANGED <<sent, stream>>
  <2>1. [hist[Len(hist)] EXCEPT ![p] = q] \in Book
    BY <1>0 DEF Book
  <2> QED BY <1>1, <2>1 DEF Update
<1>2. ASSUME UpdateElsewhere
      PROVE  \E x \in Book : hist' = Append(hist, x) /\ UNCHANGED <<sent, stream>>
  BY <1>0, <1>2 DEF UpdateElsewhere
<1> QED BY <1>1, <1>2 DEF FeedNext

-----------------------------------------------------------------------------
(***************************************************************************)
(* Events and the history.  These are operators of the values they speak   *)
(* of, so that the lemmas can be used in both states of a step.            *)
(***************************************************************************)

\* An event tells the truth about the updates between pu and u.
GoodEvent(e, h, s) ==
    /\ e.pu \in 1..s /\ e.u \in 1..s
    /\ e.pu < e.U /\ e.U <= e.u
    /\ e.levels = [p \in Touched(h, e.pu, e.u) |-> h[e.u][p]]

AllGood(evs, h, s) == \A i \in DOMAIN evs : GoodEvent(evs[i], h, s)

\* The events in flight are a chain that ends with the last one sent.
Linked(evs, s) ==
    \A i \in DOMAIN evs : evs[i].u = IF i = Len(evs) THEN s ELSE evs[i + 1].pu

\* The pu of the next event that the client will get.
NextPu(evs, s) == IF evs = <<>> THEN s ELSE evs[1].pu

InOrder(evs) == \A i, j \in DOMAIN evs : i < j => evs[i].u <= evs[j].pu

EndBefore(evs, id) == \A i \in DOMAIN evs : evs[i].u <= id

StartAfter(evs, id) == \A i \in DOMAIN evs : id <= evs[i].pu

\* The events after i up to j do not name level p.
Silent(evs, i, j, p) == \A k \in (i + 1)..j : p \notin DOMAIN evs[k].levels

\* A level on which the events after i up to j are silent is the same after
\* event i and after event j: no event between them is missing.
NoHole(evs, h) ==
    \A i, j \in DOMAIN evs : \A p \in Price :
        i <= j /\ Silent(evs, i, j, p) => h[evs[i].u][p] = h[evs[j].u][p]

\* b shows what the exchange had at update v, but for levels that a truncated
\* snapshot left out.
Vouched(b, h, v) ==
    \A p \in Price : b[p] = h[v][p] \/ (b[p] = 0 /\ ~Complete)

-----------------------------------------------------------------------------
(***************************************************************************)
(* What is kept of them.                                                   *)
(***************************************************************************)

\* The ids of a good event.
LEMMA GoodIds ==
  ASSUME NEW h, NEW s \in Nat, NEW e \in Event, GoodEvent(e, h, s)
  PROVE  /\ e.pu \in 1..s /\ e.u \in 1..s
         /\ e.pu \in Nat /\ e.u \in Nat
         /\ e.pu < e.U /\ e.U <= e.u /\ e.pu < e.u
<1>1. e.pu \in Nat /\ e.U \in Nat /\ e.u \in Nat
  BY DEF Event
<1>2. e.pu \in 1..s /\ e.u \in 1..s /\ e.pu < e.U /\ e.U <= e.u
  BY DEF GoodEvent
<1> QED BY <1>1, <1>2

\* A good event stays good when the exchange moves on.
LEMMA GoodStays ==
  ASSUME NEW h \in Seq(Book), NEW s \in 1..Len(h),
         NEW evs \in Seq(Event), AllGood(evs, h, s)
  PROVE  /\ \A x \in Book : AllGood(evs, Append(h, x), s)
         /\ AllGood(evs, h, Len(h))
<1>1. ASSUME NEW x \in Book, NEW i \in DOMAIN evs
      PROVE  GoodEvent(evs[i], Append(h, x), s)
  <2> DEFINE e == evs[i]
             g == Append(h, x)
  <2>1. GoodEvent(e, h, s)
    BY DEF AllGood
  <2>2. e.pu \in 1..Len(h) /\ e.u \in 1..Len(h)
    BY <2>1 DEF GoodEvent
  <2>3. Touched(g, e.pu, e.u) = Touched(h, e.pu, e.u) /\ g[e.u] = h[e.u]
    BY <2>2, HistoryGrows
  <2> HIDE DEF e, g
  <2>4. GoodEvent(e, g, s)
    BY <2>1, <2>3 DEF GoodEvent
  <2> QED BY <2>4 DEF e, g
<1>2. AllGood(evs, h, Len(h))
  BY DEF AllGood, GoodEvent
<1> QED BY <1>1, <1>2 DEF AllGood

\* A book that is vouched for stays so when the history grows.
LEMMA VouchedStays ==
  ASSUME NEW h \in Seq(Book), NEW x \in Book, NEW v \in 1..Len(h), NEW b,
         Vouched(b, h, v)
  PROVE  Vouched(b, Append(h, x), v)
<1>1. Append(h, x)[v] = h[v]
  BY HistoryGrows
<1> QED BY <1>1 DEF Vouched

\* A level keeps its value over events that are silent on it.
LEMMA SilentKeeps ==
  ASSUME NEW evs, NEW h, NoHole(evs, h), NEW i \in DOMAIN evs, NEW j \in DOMAIN evs,
         NEW p \in Price, i <= j, Silent(evs, i, j, p)
  PROVE  h[evs[i].u][p] = h[evs[j].u][p]
BY DEF NoHole

\* A buffer without a hole has none when the history grows.
LEMMA NoHoleStays ==
  ASSUME NEW h \in Seq(Book), NEW x \in Book, NEW s \in 1..Len(h),
         NEW evs \in Seq(Event), AllGood(evs, h, s), NoHole(evs, h)
  PROVE  NoHole(evs, Append(h, x))
<1>1. ASSUME NEW i \in DOMAIN evs
      PROVE  Append(h, x)[evs[i].u] = h[evs[i].u]
  <2>1. GoodEvent(evs[i], h, s)
    BY DEF AllGood
  <2>2. evs[i].u \in 1..Len(h)
    BY <2>1 DEF GoodEvent
  <2> QED BY <2>2, HistoryGrows
<1> DEFINE g == Append(h, x)
<1>2. ASSUME NEW i \in DOMAIN evs, NEW j \in DOMAIN evs, NEW p \in Price,
             i <= j, Silent(evs, i, j, p)
      PROVE  g[evs[i].u][p] = g[evs[j].u][p]
  <2>1. h[evs[i].u][p] = h[evs[j].u][p]
    BY <1>2, SilentKeeps
  <2> QED BY <2>1, <1>1
<1> HIDE DEF g
<1>3. NoHole(evs, g)
  BY <1>2 DEF NoHole
<1> QED BY <1>3 DEF g

\* An event appended to a good buffer that it follows.
LEMMA AppendEvent ==
  ASSUME NEW evs \in Seq(Event), NEW e \in Event, NEW h \in Seq(Book),
         NEW s \in 1..Len(h),
         AllGood(evs, h, s), GoodEvent(e, h, s), InOrder(evs),
         EndBefore(evs, e.pu)
  PROVE  /\ AllGood(Append(evs, e), h, s)
         /\ InOrder(Append(evs, e))
         /\ EndBefore(Append(evs, e), e.u)
         /\ Append(evs, e)[Len(Append(evs, e))] = e
         /\ NoHole(evs, h) /\ (evs # <<>> => evs[Len(evs)].u = e.pu)
              => NoHole(Append(evs, e), h)
<1> DEFINE n == Len(evs) + 1
           new == Append(evs, e)
<1>0. n \in Nat /\ n = Len(new) /\ DOMAIN new = 1..n /\ DOMAIN evs = 1..(n - 1)
  BY AppendProperties
<1>1. new[n] = e /\ \A i \in 1..(n - 1) : new[i] = evs[i]
  BY AppendProperties
<1>2. e.pu < e.u /\ e.pu \in 1..s /\ e.u \in 1..s
  BY DEF GoodEvent, Event
<1> HIDE DEF n, new
<1>3. AllGood(new, h, s)
  BY <1>0, <1>1 DEF AllGood
<1>4. InOrder(new)
  <2> SUFFICES ASSUME NEW i \in 1..n, NEW j \in 1..n, i < j
               PROVE  new[i].u <= new[j].pu
    BY <1>0 DEF InOrder
  <2>1. i \in 1..(n - 1) /\ (j = n \/ j \in 1..(n - 1))
    BY <1>0
  <2>2. CASE j = n
    BY <2>1, <2>2, <1>0, <1>1 DEF EndBefore
  <2>3. CASE j \in 1..(n - 1)
    BY <2>1, <2>3, <1>0, <1>1 DEF InOrder
  <2> QED BY <2>1, <2>2, <2>3
<1>5. EndBefore(new, e.u)
  <2> SUFFICES ASSUME NEW i \in 1..n PROVE new[i].u <= e.u
    BY <1>0 DEF EndBefore
  <2>1. CASE i = n
    BY <2>1, <1>1, <1>2
  <2>2. CASE i # n
    <3>1. i \in 1..(n - 1)
      BY <2>2, <1>0
    <3>2. evs[i].u <= e.pu /\ evs[i].u \in 1..s
      BY <3>1, <1>0 DEF EndBefore, AllGood, GoodEvent
    <3> QED BY <3>1, <3>2, <1>1, <1>2
  <2> QED BY <2>1, <2>2
<1>6. ASSUME NoHole(evs, h), evs # <<>> => evs[Len(evs)].u = e.pu
      PROVE  NoHole(new, h)
  <2> SUFFICES ASSUME NEW i \in 1..n, NEW j \in 1..n, NEW p \in Price, i <= j,
                      Silent(new, i, j, p)
               PROVE  h[new[i].u][p] = h[new[j].u][p]
    BY <1>0 DEF NoHole
  <2>1. CASE j # n
    <3>1. i \in 1..(n - 1) /\ j \in 1..(n - 1)
      BY <2>1, <1>0
    <3>2. \A k \in (i + 1)..j : k \in 1..(n - 1) /\ new[k] = evs[k]
      BY <3>1, <1>0, <1>1
    <3>3. Silent(evs, i, j, p)
      BY <3>2 DEF Silent
    <3>4. i \in DOMAIN evs /\ j \in DOMAIN evs
      BY <3>1, <1>0
    <3>5. h[evs[i].u][p] = h[evs[j].u][p]
      BY <3>4, <3>3, <1>6, SilentKeeps
    <3> QED BY <3>1, <3>5, <1>1
  <2>2. CASE i = n
    BY <2>2, <1>0
  <2>3. CASE i # n /\ j = n
    <3>1. i \in 1..(n - 1) /\ n - 1 \in 1..(n - 1) /\ i <= n - 1 /\ n \in (i + 1)..j
      BY <2>3, <1>0
    <3>2. Silent(evs, i, n - 1, p)
      <4> SUFFICES ASSUME NEW k \in (i + 1)..(n - 1)
                   PROVE  p \notin DOMAIN evs[k].levels
        BY DEF Silent
      <4>1. k \in (i + 1)..j /\ k \in 1..(n - 1)
        BY <2>3, <3>1, <1>0
      <4> QED BY <4>1, <1>1 DEF Silent
    <3>3. h[evs[i].u][p] = h[evs[n - 1].u][p]
      <4>1. i \in DOMAIN evs /\ n - 1 \in DOMAIN evs /\ i <= n - 1
        BY <3>1, <1>0
      <4> QED BY <4>1, <3>2, <1>6, SilentKeeps
    <3>4. evs[n - 1].u = e.pu
      BY <3>1, <1>6 DEF n
    <3>5. p \notin Touched(h, e.pu, e.u)
      <4>1. p \notin DOMAIN e.levels
        BY <3>1, <1>1 DEF Silent
      <4> QED BY <4>1 DEF GoodEvent
    <3>6. h[e.u][p] = h[e.pu][p]
      BY <3>5, <1>2, UntouchedStays
    <3> QED BY <2>3, <3>1, <3>3, <3>4, <3>6, <1>1
  <2> QED BY <2>1, <2>2, <2>3
<1> QED BY <1>0, <1>1, <1>3, <1>4, <1>5, <1>6 DEF new

\* What erase_if leaves of a buffer has every property that the buffer had.
LEMMA EraseKeeps ==
  ASSUME NEW evs \in Seq(Event), NEW id \in Nat, NEW h, NEW s, NEW b, NEW n,
         AllGood(evs, h, s), InOrder(evs), EndBefore(evs, n), StartAfter(evs, b)
  PROVE  LET rest == EraseOlder(evs, id) IN
         /\ AllGood(rest, h, s) /\ InOrder(rest)
         /\ EndBefore(rest, n) /\ StartAfter(rest, b)
         /\ rest # <<>> => evs # <<>> /\ rest[Len(rest)] = evs[Len(evs)]
         /\ NoHole(evs, h) => NoHole(rest, h)
<1> DEFINE rest == EraseOlder(evs, id)
<1>1. CASE Kept(evs, id) = {}
  <2>1. rest = <<>>
    BY <1>1 DEF EraseOlder
  <2> HIDE DEF rest
  <2>2. DOMAIN rest = {}
    BY <2>1
  <2> QED BY <2>1, <2>2
          DEF rest, AllGood, InOrder, EndBefore, StartAfter, NoHole
<1>2. CASE Kept(evs, id) # {}
  <2> DEFINE m == Min(Kept(evs, id)) - 1
             k == Len(evs) - m
  <2>1. Min(Kept(evs, id)) \in 1..Len(evs) /\ Len(evs) \in Nat
    <3>1. Kept(evs, id) \in SUBSET (1..Len(evs)) /\ Len(evs) \in Nat
      BY DEF Kept
    <3>2. Kept(evs, id) \in SUBSET Nat
      BY <3>1
    <3> QED BY <3>1, <3>2, <1>2, MinIsLeast
  <2>2. m \in Nat /\ k \in Nat /\ k >= 1 /\ m + k = Len(evs)
    BY <2>1
  <2>3. /\ rest \in Seq(Event) /\ Len(rest) = k
        /\ \A i \in 1..k : rest[i] = evs[i + m]
    <3>1. rest = SubSeq(evs, m + 1, Len(evs))
      BY <1>2, <2>1 DEF EraseOlder
    <3>2. /\ SubSeq(evs, m + 1, Len(evs)) \in Seq(Event)
          /\ Len(SubSeq(evs, m + 1, Len(evs))) = k
          /\ \A i \in 1..k : SubSeq(evs, m + 1, Len(evs))[i] = evs[i + m]
      <4> DEFINE l == Len(evs)
      <4>0. l \in Nat /\ m + k = l
        BY <2>1, <2>2
      <4> HIDE DEF m, k, l
      <4>1. m + 1 \in Int /\ l \in Int /\ m + 1 <= l /\ l - (m + 1) + 1 = k
        BY <2>2, <4>0
      <4>1a. \A i \in (m + 1)..l : evs[i] \in Event
        BY <2>2, <4>0 DEF l
      <4>2. \A i \in 1..k : (m + 1) + i - 1 = i + m
        BY <2>2
      <4>3. /\ SubSeq(evs, m + 1, l) \in Seq(Event)
            /\ Len(SubSeq(evs, m + 1, l)) = k
            /\ \A i \in 1..k : SubSeq(evs, m + 1, l)[i] = evs[(m + 1) + i - 1]
        BY <4>1, <4>1a, SubSeqProperties
      <4> QED BY <4>2, <4>3 DEF l
    <3> QED BY <3>1, <3>2
  <2> HIDE DEF m, k, rest
  <2>4. DOMAIN rest = 1..k /\ DOMAIN evs = 1..Len(evs)
    BY <2>3
  <2>5. \A i \in 1..k : i + m \in 1..Len(evs)
    BY <2>2
  <2>6. AllGood(rest, h, s) /\ EndBefore(rest, n) /\ StartAfter(rest, b)
    BY <2>3, <2>4, <2>5 DEF AllGood, EndBefore, StartAfter
  <2>7. InOrder(rest)
    <3> SUFFICES ASSUME NEW i \in 1..k, NEW j \in 1..k, i < j
                 PROVE  rest[i].u <= rest[j].pu
      BY <2>4 DEF InOrder
    <3>1. i + m \in 1..Len(evs) /\ j + m \in 1..Len(evs) /\ i + m < j + m
      BY <2>2, <2>5
    <3>2. evs[i + m].u <= evs[j + m].pu
      BY <3>1, <2>4 DEF InOrder
    <3> QED BY <3>2, <2>3
  <2>8. evs # <<>> /\ rest[Len(rest)] = evs[Len(evs)]
    BY <2>1, <2>2, <2>3
  <2>9. ASSUME NoHole(evs, h) PROVE NoHole(rest, h)
    <3> SUFFICES ASSUME NEW i \in 1..k, NEW j \in 1..k, NEW p \in Price, i <= j,
                        Silent(rest, i, j, p)
                 PROVE  h[rest[i].u][p] = h[rest[j].u][p]
      BY <2>4 DEF NoHole
    <3>1. i + m \in 1..Len(evs) /\ j + m \in 1..Len(evs) /\ i + m <= j + m
      BY <2>2, <2>5
    <3>2. Silent(evs, i + m, j + m, p)
      <4> SUFFICES ASSUME NEW l \in (i + m + 1)..(j + m)
                   PROVE  p \notin DOMAIN evs[l].levels
        BY DEF Silent
      <4>1. l - m \in (i + 1)..j /\ l - m \in 1..k /\ (l - m) + m = l
        BY <2>2
      <4>2. rest[l - m] = evs[l]
        BY <4>1, <2>3
      <4> QED BY <4>1, <4>2 DEF Silent
    <3>3. h[evs[i + m].u][p] = h[evs[j + m].u][p]
      BY <3>1, <3>2, <2>4, <2>9 DEF NoHole
    <3> QED BY <3>3, <2>3
  <2> QED BY <2>6, <2>7, <2>8, <2>9 DEF rest
<1> QED BY <1>1, <1>2

\* The next event: what its ids are and what is left behind it.
LEMMA HeadOfStream ==
  ASSUME NEW evs \in Seq(Event), evs # <<>>, NEW h \in Seq(Book), NEW s \in 1..Len(h),
         AllGood(evs, h, s), Linked(evs, s)
  PROVE  /\ Head(evs) \in Event /\ GoodEvent(Head(evs), h, s)
         /\ Head(evs).pu = NextPu(evs, s)
         /\ Head(evs).u = NextPu(Tail(evs), s)
         /\ Head(evs).pu \in Nat /\ Head(evs).u \in Nat /\ Head(evs).pu < Head(evs).u
         /\ AllGood(Tail(evs), h, s) /\ Linked(Tail(evs), s)
<1>1. /\ DOMAIN evs = 1..Len(evs) /\ Len(evs) \in Nat /\ Len(evs) >= 1
      /\ Head(evs) = evs[1]
      /\ Tail(evs) \in Seq(Event) /\ Len(Tail(evs)) = Len(evs) - 1
      /\ DOMAIN Tail(evs) = 1..(Len(evs) - 1)
      /\ \A i \in 1..(Len(evs) - 1) : Tail(evs)[i] = evs[i + 1]
  BY HeadTailProperties
<1>2. Head(evs) \in Event /\ GoodEvent(Head(evs), h, s)
  BY <1>1 DEF AllGood
<1>3. Head(evs).pu = NextPu(evs, s)
  BY <1>1 DEF NextPu
<1>4. Head(evs).u = NextPu(Tail(evs), s)
  <2>1. CASE Len(evs) = 1
    <3>1. Tail(evs) = <<>>
      BY <2>1, <1>1, EmptySeq
    <3> QED BY <2>1, <3>1, <1>1 DEF Linked, NextPu
  <2>2. CASE Len(evs) # 1
    <3>0. 1 \in 1..(Len(evs) - 1) /\ 1 \in 1..Len(evs)
      BY <2>2, <1>1
    <3>1. Tail(evs) # <<>> /\ Tail(evs)[1] = evs[1 + 1]
      BY <3>0, <1>1
    <3>2. evs[1].u = evs[1 + 1].pu
      BY <2>2, <3>0, <1>1 DEF Linked
    <3> QED BY <3>1, <3>2, <1>1 DEF NextPu
  <2> QED BY <2>1, <2>2
<1>5. AllGood(Tail(evs), h, s)
  BY <1>1 DEF AllGood
<1>6. Linked(Tail(evs), s)
  <2> SUFFICES ASSUME NEW i \in 1..(Len(evs) - 1)
               PROVE  Tail(evs)[i].u = IF i = Len(Tail(evs)) THEN s
                                       ELSE Tail(evs)[i + 1].pu
    BY <1>1 DEF Linked
  <2>1. i + 1 \in DOMAIN evs /\ Tail(evs)[i] = evs[i + 1]
    BY <1>1
  <2>2. evs[i + 1].u = IF i + 1 = Len(evs) THEN s ELSE evs[i + 1 + 1].pu
    BY <2>1 DEF Linked
  <2>3. CASE i + 1 = Len(evs)
    BY <2>1, <2>2, <2>3, <1>1
  <2>4. CASE i + 1 # Len(evs)
    <3> DEFINE l == Len(evs)
    <3>0. l \in Nat /\ i \in 1..(l - 1) /\ i + 1 # l /\ Len(Tail(evs)) = l - 1
      BY <2>4, <1>1
    <3> HIDE DEF l
    <3>1a. i + 1 \in 1..(l - 1) /\ i # l - 1
      BY <3>0
    <3>1. i + 1 \in 1..(Len(evs) - 1) /\ i # Len(Tail(evs))
      BY <3>0, <3>1a DEF l
    <3>2. Tail(evs)[i + 1] = evs[i + 1 + 1]
      BY <3>1, <1>1
    <3> QED BY <3>1, <3>2, <2>1, <2>2, <2>4
  <2> QED BY <2>3, <2>4
<1>7. Head(evs).pu \in Nat /\ Head(evs).u \in Nat /\ Head(evs).pu < Head(evs).u
  BY <1>2 DEF GoodEvent, Event
<1> QED BY <1>1, <1>2, <1>3, <1>4, <1>5, <1>6, <1>7

\* The next event's pu is the id of an event that the exchange has sent.
LEMMA NextPuType ==
  ASSUME NEW evs \in Seq(Event), NEW h \in Seq(Book), NEW s \in 1..Len(h),
         AllGood(evs, h, s)
  PROVE  NextPu(evs, s) \in 1..s
<1>1. CASE evs = <<>>
  BY <1>1 DEF NextPu
<1>2. CASE evs # <<>>
  <2>1. 1 \in DOMAIN evs
    BY <1>2, EmptySeq
  <2>2. GoodEvent(evs[1], h, s)
    BY <2>1 DEF AllGood
  <2> QED BY <1>2, <2>2 DEF NextPu, GoodEvent
<1> QED BY <1>1, <1>2

\* In an ordered buffer that a snapshot brackets, the last event is the last
\* one kept, and its u is the id of the book that is built.
LEMMA BufferEnd ==
  ASSUME NEW evs \in Seq(Event), NEW id \in Nat, NEW h \in Seq(Book),
         NEW s \in 1..Len(h), AllGood(evs, h, s), InOrder(evs), Brackets(evs, id)
  PROVE  /\ Len(evs) \in 1..Len(evs)
         /\ Min(Kept(evs, id)) \in 1..Len(evs)
         /\ \A i \in 1..Len(evs) : evs[i].u \in 1..s
         /\ \A i, j \in 1..Len(evs) : i < j => evs[i].u < evs[j].u
         /\ Max(Kept(evs, id)) = Len(evs)
         /\ IdAfter(evs, id) = evs[Len(evs)].u
<1> DEFINE n == Len(evs)
           m == Min(Kept(evs, id))
<1>1. n \in Nat /\ DOMAIN evs = 1..n
  OBVIOUS
<1>2. Kept(evs, id) # {} /\ Kept(evs, id) \in SUBSET (1..n)
  BY <1>1 DEF Kept, Brackets
<1>3. m \in Kept(evs, id) /\ m \in 1..n
  BY <1>1, <1>2, MinIsLeast
<1>4. ASSUME NEW i \in 1..n
      PROVE  evs[i].u \in 1..s /\ evs[i].pu \in 1..s /\ evs[i].pu < evs[i].u
  <2>1. evs[i] \in Event /\ GoodEvent(evs[i], h, s)
    BY <1>1 DEF AllGood
  <2> QED BY <2>1, GoodIds
<1> HIDE DEF n, m
<1>5. \A i, j \in 1..n : i < j => evs[i].u < evs[j].u
  <2> SUFFICES ASSUME NEW i \in 1..n, NEW j \in 1..n, i < j
               PROVE  evs[i].u < evs[j].u
    OBVIOUS
  <2>1. evs[i].u <= evs[j].pu
    BY <1>1 DEF InOrder
  <2>2. evs[i].u \in Nat /\ evs[j].pu \in Nat /\ evs[j].u \in Nat /\ evs[j].pu < evs[j].u
    BY <1>4
  <2> QED BY <2>1, <2>2
<1>6. n \in 1..n /\ evs[n].u >= evs[m].u
  <2>1. n \in 1..n /\ (m = n \/ m < n)
    BY <1>1, <1>3
  <2> QED BY <2>1, <1>3, <1>4, <1>5
<1>7. n \in Kept(evs, id)
  <2>1. evs[m].u >= id
    BY <1>3 DEF Kept
  <2>2. evs[n].u >= id
    BY <2>1, <1>3, <1>4, <1>6
  <2> QED BY <2>2, <1>1, <1>6 DEF Kept
<1>8. Max(Kept(evs, id)) = n
  <2>1. Max(Kept(evs, id)) \in Kept(evs, id) /\ Max(Kept(evs, id)) >= n
    BY <1>1, <1>2, <1>7, MaxIsGreatest, Kept(evs, id) \in SUBSET (0..n)
  <2> QED BY <2>1, <1>1, <1>2
<1>9. IdAfter(evs, id) = evs[n].u
  <2>0. Newer(evs, id) \in SUBSET (0..n) /\ Newer(evs, id) \in SUBSET (1..n)
    BY <1>1 DEF Newer
  <2>1. CASE Newer(evs, id) = {}
    <3>1. evs[n].u >= id /\ ~(evs[n].u > id)
      BY <2>1, <1>1, <1>6, <1>7 DEF Newer, Kept
    <3>2. evs[n].u = id
      BY <3>1, <1>4, <1>6
    <3> QED BY <2>1, <3>2 DEF IdAfter
  <2>2. CASE Newer(evs, id) # {}
    <3> DEFINE l == Max(Newer(evs, id))
    <3>1. l \in Newer(evs, id) /\ \A y \in Newer(evs, id) : l >= y
      BY <2>0, <2>2, <1>1, MaxIsGreatest
    <3>1a. IdAfter(evs, id) = evs[l].u
      BY <2>2 DEF IdAfter
    <3> HIDE DEF l
    <3>2. l \in 1..n /\ evs[l].u > id
      BY <3>1, <1>1 DEF Newer
    <3>3. l < n => evs[n].u > id
      BY <3>2, <1>4, <1>5, <1>6
    <3>4. l < n => n \in Newer(evs, id)
      BY <3>3, <1>1, <1>6 DEF Newer
    <3>5. l = n
      BY <3>1, <3>2, <3>4, <1>1
    <3> QED BY <3>1a, <3>5
  <2> QED BY <2>1, <2>2
<1> QED BY <1>3, <1>4, <1>5, <1>6, <1>8, <1>9 DEF n, m

\* The book built from a snapshot and a buffer without a hole is the
\* exchange's book at the last event of the buffer.
LEMMA FitsVouched ==
  ASSUME NEW evs \in Seq(Event), NEW h \in Seq(Book), NEW s \in 1..Len(h),
         NEW id \in 1..Len(h), AllGood(evs, h, s), InOrder(evs), Brackets(evs, id),
         EndBefore(evs, id) \/ NoHole(evs, h)
  PROVE  Vouched(ApplyBuffered(evs, id, SnapshotOf(h[id])), h, IdAfter(evs, id))
<1> DEFINE n == Len(evs)
           m == Min(Kept(evs, id))
           side == SnapshotOf(h[id])
<1>1. /\ n \in 1..n /\ n \in Nat /\ m \in 1..n
      /\ \A i \in 1..n : evs[i].u \in 1..s
      /\ \A i, j \in 1..n : i < j => evs[i].u < evs[j].u
      /\ IdAfter(evs, id) = evs[n].u
      /\ DOMAIN evs = 1..n /\ id \in Nat
  BY BufferEnd
<1>2. h[id] \in Book
  OBVIOUS
<1>3. \A p \in Price : side[p] = h[id][p] \/ (side[p] = 0 /\ ~Complete)
  BY <1>2, SnapshotLevels
<1>4. evs[m].U <= id /\ id <= evs[m].u /\ Kept(evs, id) # {}
  BY DEF Brackets
<1>5. \A i \in 1..n : GoodEvent(evs[i], h, s)
  BY <1>1 DEF AllGood
<1> SUFFICES ASSUME NEW p \in Price
             PROVE  \/ ApplyBuffered(evs, id, side)[p] = h[evs[n].u][p]
                    \/ ApplyBuffered(evs, id, side)[p] = 0 /\ ~Complete
  BY <1>1 DEF Vouched
<1> DEFINE naming == {i \in Newer(evs, id) : p \in DOMAIN evs[i].levels}
<1>6. ApplyBuffered(evs, id, side)[p] =
        IF naming = {} THEN side[p] ELSE evs[Max(naming)].levels[p]
  BY DEF ApplyBuffered
<1>7. /\ naming \in SUBSET (0..n) /\ naming \in SUBSET (1..n)
      /\ \A i \in naming : evs[i].u > id /\ p \in DOMAIN evs[i].levels
      /\ \A i \in 1..n : evs[i].u > id /\ p \in DOMAIN evs[i].levels => i \in naming
  BY <1>1 DEF Newer
<1> HIDE DEF n, m, side, naming
<1>8. CASE EndBefore(evs, id)
  <2>1. \A i \in 1..n : evs[i].u <= id
    BY <1>8, <1>1 DEF EndBefore
  <2>2. naming = {}
    BY <2>1, <1>1, <1>7
  <2>3. evs[n].u >= evs[m].u
    BY <1>1
  <2>4. evs[n].u = id
    BY <2>1, <2>3, <1>1, <1>4
  <2> QED BY <2>2, <2>4, <1>3, <1>6
<1>9. CASE NoHole(evs, h) /\ naming # {}
  <2> DEFINE k == Max(naming)
  <2>1. k \in naming /\ \A y \in naming : k >= y
    BY <1>1, <1>7, <1>9, MaxIsGreatest
  <2>1a. ApplyBuffered(evs, id, side)[p] = evs[k].levels[p]
    BY <1>6, <1>9
  <2> HIDE DEF k
  <2>2. k \in 1..n /\ evs[k].u > id /\ p \in DOMAIN evs[k].levels
    BY <2>1, <1>7
  <2>3. evs[k].levels[p] = h[evs[k].u][p]
    <3>1. GoodEvent(evs[k], h, s)
      BY <2>2, <1>5
    <3> QED BY <3>1, <2>2 DEF GoodEvent
  <2>4. Silent(evs, k, n, p)
    <3> SUFFICES ASSUME NEW i \in (k + 1)..n PROVE p \notin DOMAIN evs[i].levels
      BY DEF Silent
    <3>1. i \in 1..n /\ k < i /\ ~(k >= i)
      BY <2>2, <1>1
    <3>2. evs[i].u > id
      BY <3>1, <2>2, <1>1
    <3> QED BY <3>1, <3>2, <2>1, <1>7
  <2>5. h[evs[k].u][p] = h[evs[n].u][p]
    <3>1. k \in DOMAIN evs /\ n \in DOMAIN evs /\ k <= n
      BY <2>2, <1>1
    <3> QED BY <3>1, <2>4, <1>9, SilentKeeps
  <2> QED BY <2>1a, <2>3, <2>5
<1>10. CASE NoHole(evs, h) /\ naming = {}
  <2>1. Silent(evs, m, n, p)
    <3> SUFFICES ASSUME NEW i \in (m + 1)..n PROVE p \notin DOMAIN evs[i].levels
      BY DEF Silent
    <3>1. i \in 1..n /\ m < i
      BY <1>1
    <3>2. evs[i].u > id
      <4>1. evs[m].u < evs[i].u /\ id <= evs[m].u
        BY <3>1, <1>1, <1>4
      <4>2. evs[m].u \in Nat /\ evs[i].u \in Nat /\ id \in Nat
        BY <3>1, <1>1
      <4> QED BY <4>1, <4>2
    <3> QED BY <3>1, <3>2, <1>7, <1>10
  <2>2. h[evs[m].u][p] = h[evs[n].u][p]
    <3>1. m \in DOMAIN evs /\ n \in DOMAIN evs /\ m <= n
      BY <1>1
    <3> QED BY <3>1, <2>1, <1>10, SilentKeeps
  <2>3. h[id][p] = h[evs[m].u][p]
    <3>1. CASE evs[m].u = id
      BY <3>1
    <3>2. CASE evs[m].u # id
      <4>1. evs[m].u > id
        BY <3>2, <1>1, <1>4
      <4>2. p \notin DOMAIN evs[m].levels
        BY <4>1, <1>1, <1>7, <1>10
      <4>3. GoodEvent(evs[m], h, s)
        BY <1>1, <1>5
      <4>4. p \notin Touched(h, evs[m].pu, evs[m].u)
        BY <4>2, <4>3 DEF GoodEvent
      <4>5. /\ evs[m].pu \in Nat /\ evs[m].u \in Nat /\ evs[m].pu < evs[m].u
            /\ evs[m].pu < id
        <5>1. evs[m] \in Event
          BY <1>1
        <5> QED BY <4>3, <5>1, <1>1, <1>4 DEF GoodEvent, Event
      <4>6. id \in evs[m].pu..evs[m].u /\ evs[m].u \in evs[m].pu..evs[m].u
        BY <4>1, <4>5, <1>1
      <4> DEFINE a == evs[m].pu
                 b == evs[m].u
      <4> HIDE DEF a, b
      <4>7. a \in Nat /\ b \in Nat /\ p \notin Touched(h, a, b) /\ id \in a..b /\ b \in a..b
        BY <4>4, <4>5, <4>6 DEF a, b
      <4>8. h[id][p] = h[a][p] /\ h[b][p] = h[a][p]
        BY <4>7, UntouchedStays
      <4> QED BY <4>8 DEF b
    <3> QED BY <3>1, <3>2
  <2>4. ApplyBuffered(evs, id, side)[p] = side[p]
    BY <1>6, <1>10
  <2> QED BY <2>2, <2>3, <2>4, <1>3
<1> QED BY <1>8, <1>9, <1>10

\* An event applied to a vouched book whose id is its pu.
LEMMA ApplyVouched ==
  ASSUME NEW e \in Event, NEW h \in Seq(Book), NEW s \in 1..Len(h),
         GoodEvent(e, h, s), NEW b, Vouched(b, h, e.pu)
  PROVE  Vouched(ApplyLevels(e.levels, b), h, e.u)
<1> SUFFICES ASSUME NEW p \in Price
             PROVE  \/ ApplyLevels(e.levels, b)[p] = h[e.u][p]
                    \/ ApplyLevels(e.levels, b)[p] = 0 /\ ~Complete
  BY DEF Vouched
<1>1. ApplyLevels(e.levels, b)[p] = IF p \in DOMAIN e.levels THEN e.levels[p] ELSE b[p]
  BY DEF ApplyLevels
<1>2. DOMAIN e.levels = Touched(h, e.pu, e.u)
  BY DEF GoodEvent
<1>3. CASE p \in DOMAIN e.levels
  <2>1. e.levels[p] = h[e.u][p]
    BY <1>2, <1>3 DEF GoodEvent
  <2> QED BY <2>1, <1>1, <1>3
<1>4. CASE p \notin DOMAIN e.levels
  <2>1. e.pu \in Nat /\ e.u \in Nat /\ e.u \in e.pu..e.u
    BY DEF GoodEvent, Event
  <2>2. h[e.u][p] = h[e.pu][p]
    BY <1>2, <1>4, <2>1, UntouchedStays
  <2> QED BY <2>2, <1>1, <1>4 DEF Vouched
<1> QED BY <1>3, <1>4
=============================================================================
