----------------------------- MODULE DepthFeed -----------------------------
(***************************************************************************)
(* The exchange as the order books of binapi2 see it: one side of one      *)
(* symbol's book, the diff-depth stream and the REST depth snapshot.       *)
(*                                                                         *)
(* Every update of the exchange gets the next update id.  hist[v] is the   *)
(* book after update v, so "the true book at id v" is always available to  *)
(* the properties.  Bids and asks are two maps that the code treats in the *)
(* same way and never compares, so one side is modelled; quantity 0 means  *)
(* that the level is absent from the map.                                  *)
(*                                                                         *)
(* The exchange is not part of the repository: its actions are modelled    *)
(* from what local_order_book.cpp and pipeline_order_book.cpp rely on.     *)
(***************************************************************************)
EXTENDS Integers, Sequences, FiniteSets, FiniteSetsExt

CONSTANTS
    Price,       \* the price levels of the side, ordered best first
    Qty,         \* the non-zero quantities
    DepthLimit,  \* how many levels a REST snapshot returns
    MaxLag,      \* how many updates the REST server may be behind
    MaxVersion   \* bound: number of updates the exchange makes

ASSUME FeedAssumption ==
    /\ Price \subseteq Int /\ IsFiniteSet(Price)
    /\ Qty \subseteq Nat \ {0}
    /\ DepthLimit \in Nat
    /\ MaxLag \in Nat
    /\ MaxVersion \in Nat

Quantity == Qty \cup {0}
Book == [Price -> Quantity]
Levels == UNION {[P -> Quantity] : P \in SUBSET Price}
Event == [U : Nat, u : Nat, pu : Nat, levels : Levels]

VARIABLES
    hist,    \* hist[v]: the exchange's book after update v
    sent,    \* id of the last update that has been put into an event
    stream   \* events on their way to the client, oldest first

feedVars == <<hist, sent, stream>>

EmptyBook == [p \in Price |-> 0]

(***************************************************************************)
(* The levels that moved away from what they were at update a of history h,*)
(* at some point up to update b.                                           *)
(***************************************************************************)
Touched(h, a, b) ==
    {p \in Price : \E v \in (a + 1)..b : h[v][p] # h[a][p]}

(***************************************************************************)
(* The snapshot of book b: its best DepthLimit levels (order_book_request  *)
(* carries limit = depth_limit).                                           *)
(***************************************************************************)
InWindow(b, p) ==
    Cardinality({q \in Price : b[q] # 0 /\ q < p}) < DepthLimit

SnapshotOf(b) == [p \in Price |-> IF InWindow(b, p) THEN b[p] ELSE 0]

-----------------------------------------------------------------------------
(***************************************************************************)
(* The map operations of the two order books.                              *)
(***************************************************************************)

\* Faulty variant: a level with quantity zero is skipped, not erased.
ApplyLevels_KeepsZero(levels, side) ==
    [p \in Price |-> IF p \in DOMAIN levels /\ levels[p] # 0 THEN levels[p] ELSE side[p]]

\* apply_levels: quantities are absolute, zero erases the level.
ApplyLevels(levels, side) ==
    [p \in Price |-> IF p \in DOMAIN levels THEN levels[p] ELSE side[p]]

\* The buffered events that std::erase_if leaves: those that do not end
\* before the snapshot id; and those among them that the loop applies.
Kept(evs, id) == {i \in DOMAIN evs : evs[i].u >= id}
Newer(evs, id) == {i \in DOMAIN evs : evs[i].u > id}

\* std::erase_if.  Events are buffered in the order of u (BufferInOrder), so
\* what it leaves is a suffix.
EraseOlder(evs, id) ==
    LET kept == Kept(evs, id)
    IN  IF kept = {} THEN <<>> ELSE SubSeq(evs, Min(kept), Len(evs))

\* Faulty variant: any remaining event will do.
Brackets_Any(evs, id) == Kept(evs, id) # {}

\* The first remaining event must cover the snapshot's id.
Brackets(evs, id) ==
    LET kept == Kept(evs, id)
    IN  kept # {} /\ evs[Min(kept)].U <= id /\ id <= evs[Min(kept)].u

\* The loop that applies the newer events in order, in closed form: for each
\* level, the last event that names it decides.
ApplyBuffered(evs, id, side) ==
    [p \in Price |->
        LET naming == {i \in Newer(evs, id) : p \in DOMAIN evs[i].levels}
        IN  IF naming = {} THEN side[p] ELSE evs[Max(naming)].levels[p]]

\* Faulty variant: the buffered events do not move last_update_id.
IdAfter_Snapshot(evs, id) == id

\* last_update_id after the loop: apply_event sets it for every event.
IdAfter(evs, id) ==
    LET newer == Newer(evs, id)
    IN  IF newer = {} THEN id ELSE evs[Max(newer)].u

-----------------------------------------------------------------------------
FeedInit ==
    /\ hist = <<EmptyBook>>
    /\ sent = 1
    /\ stream = <<>>

\* A level of this book changes.
Update(p, q) ==
    /\ Len(hist) < MaxVersion
    /\ hist[Len(hist)][p] # q
    /\ hist' = Append(hist, [hist[Len(hist)] EXCEPT ![p] = q])
    /\ UNCHANGED <<sent, stream>>

\* Update ids are shared: an id may be spent without changing this book.
UpdateElsewhere ==
    /\ Len(hist) < MaxVersion
    /\ hist' = Append(hist, hist[Len(hist)])
    /\ UNCHANGED <<sent, stream>>

\* The event for everything since the last one.  Its first id U may leave
\* out leading ids that did not touch this book; pu chains the events.
NextEvent(first) ==
    [U |-> first, u |-> Len(hist), pu |-> sent,
     levels |-> [p \in Touched(hist, sent, Len(hist)) |-> hist[Len(hist)][p]]]

Emit(first) ==
    /\ sent < Len(hist)
    /\ first \in (sent + 1)..Len(hist)
    /\ Touched(hist, sent, first - 1) = {}
    /\ stream' = Append(stream, NextEvent(first))
    /\ sent' = Len(hist)
    /\ UNCHANGED hist

FeedNext ==
    \/ \E p \in Price, q \in Quantity : Update(p, q)
    \/ UpdateElsewhere
    \/ \E first \in 1..MaxVersion : Emit(first)

FeedTypeOK ==
    /\ hist \in Seq(Book) /\ hist # <<>>
    /\ sent \in 1..Len(hist)
    /\ stream \in Seq(Event)
=============================================================================
