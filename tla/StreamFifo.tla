---------------------------- MODULE StreamFifo ----------------------------
(***************************************************************************)
(* What a stream buffer promises to the two sides that share it: a bounded *)
(* queue in which what is accepted is read in the same order and only      *)
(* once, and whose end means that everything was read, if the side that    *)
(* pushes has closed it.  The queue, the forwarder, its wake-ups and the   *)
(* channel behind it are not visible here.                                 *)
(***************************************************************************)
EXTENDS Naturals, Sequences

CONSTANTS
    Items,      \* what can be pushed
    Room        \* items that can be under way

VARIABLES
    accepted,   \* the items accepted so far
    taken,      \* the items read so far
    closedBy,   \* "nobody", "producer" or another thread ("owner")
    ended       \* has the reader seen the end?

fifoVars == <<accepted, taken, closedBy, ended>>

Init ==
    /\ accepted = <<>> /\ taken = <<>>
    /\ closedBy = "nobody" /\ ended = FALSE

\* A push() that another thread's close() overtakes may still be accepted.
Accept ==
    /\ closedBy # "producer"
    /\ Len(accepted) < Len(taken) + Room
    /\ \E x \in Items : accepted' = Append(accepted, x)
    /\ UNCHANGED <<taken, closedBy, ended>>

Deliver ==
    /\ ~ended /\ Len(taken) < Len(accepted)
    /\ taken' = Append(taken, accepted[Len(taken) + 1])
    /\ UNCHANGED <<accepted, closedBy, ended>>

Close ==
    /\ closedBy = "nobody" /\ closedBy' \in {"producer", "owner"}
    /\ UNCHANGED <<accepted, taken, ended>>

End ==
    /\ ~ended /\ ended' = TRUE
    /\ closedBy # "nobody" /\ (closedBy = "producer" => taken = accepted)
    /\ UNCHANGED <<accepted, taken, closedBy>>

Next == Accept \/ Deliver \/ Close \/ End

Spec == Init /\ [][Next]_fifoVars
=============================================================================
