----------------------------- MODULE Recorder -----------------------------
(***************************************************************************)
(* The recorder program: what the screener learns of a symbol, and the     *)
(* detail monitor that follows the selector.  The two meet in the score of *)
(* a symbol, which Selector leaves open; they are looked at one at a time. *)
(***************************************************************************)
EXTENDS DetailMonitor, Aggregates

VARIABLE part   \* "monitor" or "screener"

recorderVars == <<vars, aggVars, part>>

\* Totals that grow, pause and shrink while time passes and nothing has a price;
\* and prices while the totals stay: window and bar have no state in common.
ScreenerInputs ==
    {[totals |-> {1, 3}, prices |-> {0}, until |-> 8],
     [totals |-> {0}, prices |-> {1, 2, 4}, until |-> 1]}

RecorderInit ==
    /\ Init /\ AggInit /\ part \in {"monitor", "screener"}
    /\ part = "monitor" => input = CHOOSE i \in Inputs : TRUE

OfMonitor(A) == part = "monitor" /\ A /\ UNCHANGED <<aggVars, part>>

RecorderNext ==
    \/ OfMonitor(Next)
    \/ part = "screener" /\ AggNext /\ UNCHANGED <<vars, part>>

\* The fairness of DetailMonitor.
RecorderSpec ==
    /\ RecorderInit /\ [][RecorderNext]_recorderVars
    /\ WF_recorderVars(OfMonitor(ManageStep))
    /\ SF_recorderVars(OfMonitor(Resnap /\ manage' = "timer"))

\* A symbol that stays in the active set is recorded in the end, unless a
\* connection is lost (nothing opens it again) or the monitor has ended; one that
\* stays out of it is not recorded for ever.
RecordsActive == part = "monitor" => FollowsActive /\ LetsGo
=============================================================================
