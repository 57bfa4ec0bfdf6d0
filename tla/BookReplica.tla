---------------------------- MODULE BookReplica ----------------------------
(***************************************************************************)
(* What a local order book promises to the code that reads it: the book it *)
(* publishes is always one complete state of the exchange's history, and a *)
(* later publication is a later state.  How the copy is obtained (buffering*)
(* events, REST snapshots, gaps, restarts) is not visible here.            *)
(***************************************************************************)
EXTENDS Naturals, Sequences

CONSTANTS
    Books,      \* the states a book can be in
    NoBook      \* what is shown before the first publication

VARIABLES
    hist,       \* the exchange's history, one book per update id
    id,         \* last_update_id of the published book, 0 before the first
    levels      \* the published book

replicaVars == <<hist, id, levels>>

Init ==
    /\ \E b \in Books : hist = <<b>>
    /\ id = 0
    /\ levels = NoBook

ExchangeUpdates ==
    /\ \E b \in Books : hist' = Append(hist, b)
    /\ UNCHANGED <<id, levels>>

Publish ==
    /\ id' \in (id + 1)..Len(hist)
    /\ levels' = hist[id']
    /\ UNCHANGED hist

Next == ExchangeUpdates \/ Publish

Spec == Init /\ [][Next]_replicaVars
=============================================================================
