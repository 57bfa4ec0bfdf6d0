--------------------------- MODULE DetailMonitor ---------------------------
(***************************************************************************)
(* The detail monitor of the recorder program (async-recorder/detail/): one *)
(* coroutine follows the selector's active set with subscriptions on two   *)
(* connections, one drains the frames of both into the files of their      *)
(* symbols, and two read.  All run on one thread; they interleave at the   *)
(* awaits.  Composed with the selector, which ticks between any two steps. *)
(***************************************************************************)
EXTENDS Selector, Sequences

CONSTANTS
    Capacity,   \* frames record_buf holds (16384 in the code)
    FullDepth   \* cfg.depth_mode = full: depth snapshots are repeated

ASSUME DetailAssumption == Capacity \in Nat /\ FullDepth \in BOOLEAN

VARIABLES
    manage,         \* the await manage_subs_loop is suspended in
    cur,            \* the symbol it is busy with
    to_add, to_remove,  \* what is left of the round's two lists
    r_pub,          \* the result of the request on the public connection
    sinks,          \* symbols with open files (st.sinks)
    subscribed,     \* st.subscribed
    asked,          \* asked[c]: symbols whose last request written on c was SUBSCRIBE
    up,             \* up[c]: is connection c alive?
    record_buf,     \* frames read and not drained, by symbol
    writing,        \* the symbol whose file drain_loop is writing, or NoOne
    torn            \* was that file destroyed under the write?

manageVars == <<manage, cur, to_add, to_remove, r_pub>>
drainVars == <<record_buf, writing, torn>>
vars == <<selectorVars, manageVars, sinks, subscribed, asked, up, drainVars>>

Conn == {"pub", "mkt"}
NoOne == "none"

\* detail_monitor_run after both connections are open.
Init ==
    /\ SelectorInit
    /\ manage = "timer" /\ cur = NoOne /\ to_add = {} /\ to_remove = {}
    /\ r_pub = TRUE
    /\ sinks = {} /\ subscribed = {}
    /\ asked = [c \in Conn |-> {}] /\ up = [c \in Conn |-> TRUE]
    /\ record_buf = <<>> /\ writing = NoOne /\ torn = FALSE

Alive == manage # "threw"

-----------------------------------------------------------------------------
(* manage_subs_loop.  Each action runs from one await to the next. *)

\* Go on with the next symbol to add, then with the next to remove, then with
\* the repeated snapshots, then wait for the timer.  The lists are unordered.
Onward(adds, removes) ==
    /\ to_add' = adds /\ to_remove' = removes /\ r_pub' = TRUE
    /\ \/ adds # {} /\ manage' = "snapshot" /\ cur' \in adds
       \/ adds = {} /\ removes # {} /\ manage' = "unpub" /\ cur' \in removes
       \/ /\ adds = {} /\ removes = {} /\ cur' = NoOne
          /\ manage' = IF FullDepth /\ sinks' # {} THEN "resnap" ELSE "timer"

\* Faulty variant: symbols that are no longer active are not removed.
Timer_KeepsOld ==
    /\ manage = "timer"
    /\ UNCHANGED <<sinks, subscribed, asked, up, drainVars, selectorVars>>
    /\ Onward(active \ subscribed, {})

\* The round's two lists are the difference between the active set of this
\* moment and the symbols subscribed; the selector ticks on while they are
\* worked off.
Timer ==
    /\ manage = "timer"
    /\ UNCHANGED <<sinks, subscribed, asked, up, drainVars, selectorVars>>
    /\ Onward(active \ subscribed, subscribed \ active)

\* Faulty variant: a symbol without a snapshot is skipped.
Snapshot_Skips ==
    /\ manage = "snapshot"
    /\ \/ sinks' = sinks \cup {cur} /\ manage' = "pub" /\ UNCHANGED <<cur, to_add, to_remove, r_pub>>
       \/ UNCHANGED sinks /\ Onward(to_add \ {cur}, to_remove)
    /\ UNCHANGED <<subscribed, asked, up, drainVars, selectorVars>>

\* fetch_depth_snapshot has returned, with or without a snapshot: the files are
\* opened and the public request is written.
Snapshot ==
    /\ manage = "snapshot"
    /\ sinks' = sinks \cup {cur}
    /\ manage' = "pub"
    /\ UNCHANGED <<cur, to_add, to_remove, r_pub, subscribed, asked, up, drainVars,
                   selectorVars>>

\* A file cannot be opened: the exception leaves the loop and ends the monitor.
OpenThrows ==
    /\ manage = "snapshot"
    /\ manage' = "threw"
    /\ UNCHANGED <<cur, to_add, to_remove, r_pub, sinks, subscribed, asked, up,
                   drainVars, selectorVars>>

\* A control request is only written, nobody looks at the answer: it succeeds on
\* a live connection, and either way on one that is dead.
Write(c, ok, symbols) ==
    /\ ok \/ ~up[c]
    /\ asked' = IF ok THEN [asked EXCEPT ![c] = symbols] ELSE asked

async_subscribe(c, ok) == Write(c, ok, asked[c] \cup {cur})
async_unsubscribe(c, ok) == Write(c, ok, asked[c] \ {cur})

SubscribePub ==
    /\ manage = "pub"
    /\ \E ok \in BOOLEAN : async_subscribe("pub", ok) /\ r_pub' = ok
    /\ manage' = "mkt"
    /\ UNCHANGED <<cur, to_add, to_remove, sinks, subscribed, up, drainVars, selectorVars>>

\* Erasing a symbol's sinks closes its files, also the one being written.
EraseSinks ==
    /\ sinks' = sinks \ {cur}
    /\ torn' = (torn \/ writing = cur)

\* Faulty variant: the result of the public request is forgotten.
SubscribeMkt_OneHalf ==
    /\ manage = "mkt"
    /\ \E ok \in BOOLEAN :
        /\ async_subscribe("mkt", ok)
        /\ \/ /\ ok
              /\ subscribed' = subscribed \cup {cur}
              /\ UNCHANGED <<sinks, torn>>
           \/ ~ok /\ EraseSinks /\ UNCHANGED subscribed
    /\ Onward(to_add \ {cur}, to_remove)
    /\ UNCHANGED <<up, record_buf, writing, selectorVars>>

\* Faulty variant: the files of a symbol that could not be subscribed stay open.
SubscribeMkt_LeaksFiles ==
    /\ manage = "mkt"
    /\ \E ok \in BOOLEAN :
        /\ async_subscribe("mkt", ok)
        /\ \/ r_pub /\ ok /\ subscribed' = subscribed \cup {cur}
           \/ ~(r_pub /\ ok) /\ UNCHANGED subscribed
    /\ UNCHANGED sinks
    /\ Onward(to_add \ {cur}, to_remove)
    /\ UNCHANGED <<up, drainVars, selectorVars>>

\* Both requests decide: if one failed the files are closed again, and what was
\* asked for on the other connection stays asked for.
SubscribeMkt ==
    /\ manage = "mkt"
    /\ \E ok \in BOOLEAN :
        /\ async_subscribe("mkt", ok)
        /\ \/ /\ r_pub /\ ok
              /\ subscribed' = subscribed \cup {cur}
              /\ UNCHANGED <<sinks, torn>>
           \/ ~(r_pub /\ ok) /\ EraseSinks /\ UNCHANGED subscribed
    /\ Onward(to_add \ {cur}, to_remove)
    /\ UNCHANGED <<up, record_buf, writing, selectorVars>>

\* Faulty variant: the public half of a removed symbol is not unsubscribed.
UnsubscribePub_Skips ==
    /\ manage = "unpub"
    /\ manage' = "unmkt"
    /\ UNCHANGED <<cur, to_add, to_remove, r_pub, asked, sinks, subscribed, up, drainVars,
                   selectorVars>>

UnsubscribePub ==
    /\ manage = "unpub"
    /\ \E ok \in BOOLEAN : async_unsubscribe("pub", ok)
    /\ manage' = "unmkt"
    /\ UNCHANGED <<cur, to_add, to_remove, r_pub, sinks, subscribed, up, drainVars, selectorVars>>

\* The symbol is dropped whether or not the requests were written.
UnsubscribeMkt ==
    /\ manage = "unmkt"
    /\ \E ok \in BOOLEAN : async_unsubscribe("mkt", ok)
    /\ EraseSinks
    /\ subscribed' = subscribed \ {cur}
    /\ Onward(to_add, to_remove \ {cur})
    /\ UNCHANGED <<up, record_buf, writing, selectorVars>>

\* The repeated snapshots of the symbols that are due, one request after the
\* other; only this coroutine changes the map it walks over.
Resnap ==
    /\ manage = "resnap"
    /\ manage' \in {"resnap", "timer"}
    /\ UNCHANGED <<cur, to_add, to_remove, r_pub, sinks, subscribed, asked, up, drainVars,
                   selectorVars>>

-----------------------------------------------------------------------------
(* The exchange, the read loops and drain_loop. *)

\* Faulty variant: a full buffer does not hold the read loop back.
connection_read_loop_Unbounded ==
    /\ Alive
    /\ \E c \in Conn : up[c] /\ \E s \in asked[c] : record_buf' = Append(record_buf, s)
    /\ UNCHANGED <<manageVars, sinks, subscribed, asked, up, writing, torn, selectorVars>>

\* connection_read_loop: a frame of a symbol that was asked for.  A full buffer
\* suspends the push, and with it the read loop.
connection_read_loop ==
    /\ Alive
    /\ \E c \in Conn : up[c] /\ \E s \in asked[c] :
        /\ Len(record_buf) < Capacity
        /\ record_buf' = Append(record_buf, s)
    /\ UNCHANGED <<manageVars, sinks, subscribed, asked, up, writing, torn, selectorVars>>

\* The connection is lost: its read loop ends, and nothing opens it again.
Drop ==
    /\ Alive
    /\ \E c \in Conn : up[c] /\ up' = [up EXCEPT ![c] = FALSE]
    /\ UNCHANGED <<manageVars, sinks, subscribed, asked, drainVars, selectorVars>>

\* drain_loop takes a frame: one without sinks is dropped, for the others the
\* loop awaits the write, holding a reference to the symbol's sinks.
Drain ==
    /\ Alive /\ writing = NoOne /\ record_buf # <<>>
    /\ record_buf' = Tail(record_buf)
    /\ writing' = IF Head(record_buf) \in sinks THEN Head(record_buf) ELSE NoOne
    /\ UNCHANGED <<manageVars, sinks, subscribed, asked, up, torn, selectorVars>>

\* The write completes.
Written ==
    /\ Alive /\ writing # NoOne /\ ~torn
    /\ writing' = NoOne
    /\ UNCHANGED <<manageVars, sinks, subscribed, asked, up, record_buf, torn, selectorVars>>

\* A write whose file was destroyed: the operation is aborted and its exception
\* ends the monitor, or it had completed already and the loop goes on after
\* writing to freed memory.
WrittenTorn ==
    /\ Alive /\ writing # NoOne /\ torn
    /\ writing' = NoOne /\ torn' = FALSE
    /\ manage' \in {manage, "threw"}
    /\ UNCHANGED <<cur, to_add, to_remove, r_pub, sinks, subscribed, asked, up, record_buf,
                   selectorVars>>

\* The rotation before the write or the write itself fails: the exception leaves
\* drain_loop and ends the monitor.
DrainThrows ==
    /\ Alive /\ writing # NoOne /\ ~torn
    /\ writing' = NoOne /\ manage' = "threw"
    /\ UNCHANGED <<cur, to_add, to_remove, r_pub, sinks, subscribed, asked, up, record_buf,
                   torn, selectorVars>>

Select ==
    /\ Alive
    /\ SelectorTick
    /\ UNCHANGED <<manageVars, sinks, subscribed, asked, up, drainVars>>

ManageStep ==
    \/ Timer \/ Snapshot \/ OpenThrows
    \/ SubscribePub \/ SubscribeMkt
    \/ UnsubscribePub \/ UnsubscribeMkt
    \/ Resnap

Next ==
    \/ ManageStep
    \/ connection_read_loop \/ Drop
    \/ Drain \/ Written \/ WrittenTorn \/ DrainThrows
    \/ Select

Spec == Init /\ [][Next]_vars

\* Timers expire and requests complete; the repeated snapshots of a round end.
FairSpec ==
    /\ Spec
    /\ WF_vars(ManageStep)
    /\ SF_vars(Resnap /\ manage' = "timer")

-----------------------------------------------------------------------------
TypeOK ==
    /\ SelectorTypeOK
    /\ manage \in {"timer", "snapshot", "pub", "mkt", "unpub", "unmkt", "resnap", "threw"}
    /\ cur \in Symbol \cup {NoOne}
    /\ to_add \subseteq Symbol /\ to_remove \subseteq Symbol
    /\ {r_pub, torn} \subseteq BOOLEAN
    /\ sinks \subseteq Symbol /\ subscribed \subseteq Symbol
    /\ asked \in [Conn -> SUBSET Symbol] /\ up \in [Conn -> BOOLEAN]
    /\ record_buf \in Seq(Symbol) /\ Len(record_buf) <= Capacity
    /\ writing \in Symbol \cup {NoOne}

\* Files are open exactly for the symbols that are subscribed, up to the one the
\* manager is busy with: nothing is believed subscribed without files, and a
\* symbol that could not be subscribed leaves none open (subs.cpp, the two error
\* paths).
FilesFollowSubscriptions ==
    /\ subscribed \subseteq sinks
    /\ sinks \subseteq subscribed \cup {cur}

\* A symbol that is believed subscribed was asked for on both connections.
AskedOnBoth ==
    \A s \in subscribed :
        manage \notin {"unpub", "unmkt", "threw"} \/ s # cur
            => \A c \in Conn : s \in asked[c]

\* While both connections live the exchange sends nothing nobody records: what
\* is asked for is subscribed, up to the symbol the manager is busy with.
NoOrphans ==
    (\A c \in Conn : up[c]) => \A c \in Conn : asked[c] \subseteq subscribed \cup {cur}

\* A mandatory symbol that is subscribed stays subscribed, however stale the
\* manager's lists are (selector rule 2 and subs.cpp's difference).
MandatoryKept ==
    [][Mandatory \cap subscribed \subseteq subscribed']_vars

\* A symbol that stays in the active set is recorded in the end, unless a
\* connection is lost (nothing opens it again) or the monitor has ended.
FollowsActive ==
    \A s \in Symbol :
        <>[](s \in active) =>
            <>[](s \in subscribed) \/ <>(manage = "threw" \/ \E c \in Conn : ~up[c])

\* One that stays out of it is not recorded for ever.
LetsGo ==
    \A s \in Symbol :
        <>[](s \notin active) => []<>(s \notin subscribed \/ manage = "threw")

\* "Accessed from the drain loop, the subscription manager, and the status
\* source - all on the same executor, so no synchronisation": no file is
\* destroyed while drain_loop writes it.
NoTornWrite == ~torn

\* Files, the set of subscriptions and what each connection was asked for stay
\* together, whichever request fails and whatever the selector does meanwhile.
SubscriptionsAgree == TypeOK /\ FilesFollowSubscriptions /\ AskedOnBoth /\ NoOrphans
=============================================================================
