-------------------------- MODULE BackoffHistory --------------------------
(***************************************************************************)
(* LocalOrderBook with a history of the attempts to synchronise that have  *)
(* failed since async_run was called or was last synced: how each failed,  *)
(* and how many events the code decided to wait for after it.              *)
(***************************************************************************)
EXTENDS LocalOrderBook

VARIABLE failed   \* history: the failed attempts, in order

backoffVars == <<vars, failed>>

BackoffInit == Init /\ failed = <<>>

Recorded(how) == failed' = Append(failed, [how |-> how, wait |-> wait'])

BackoffNext ==
    \/ SnapshotFails /\ Recorded("rest")
    \/ SnapshotMisses /\ Recorded("bracket")
    \/ (AsyncRun \/ SnapshotFits) /\ failed' = <<>>
    \/ /\ \/ FeedNext /\ UNCHANGED clientVars
          \/ Stop \/ HandleEvent \/ GeneratorFails \/ Disconnect
          \/ \E id \in 1..MaxVersion : AnswerSnapshot(id)
       /\ UNCHANGED failed

BackoffSpec == BackoffInit /\ [][BackoffNext]_backoffVars

\* "After each failed bracket check we double the wait (up to a cap)"
\* (local_order_book.cpp:80) and "exponential backoff capped at max_wait" (line
\* 126): the wait after a failed bracket check is twice the wait after the failed
\* attempt before it, or max_wait.
WaitDoubles ==
    \A i \in 2..Len(failed) :
        failed[i].how = "bracket" => failed[i].wait = Min({max_wait, 2 * failed[i - 1].wait})
=============================================================================
