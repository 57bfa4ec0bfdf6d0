----------------------------- MODULE Selector -----------------------------
(***************************************************************************)
(* The selector of the recorder program (async-recorder/selector.cpp): on *)
(* every tick of its timer it scores the symbols the screener knows, drops *)
(* the ones that have been quiet for long enough and admits the best of   *)
(* the others.  Time is counted in ticks; the two time points kept for a  *)
(* symbol, admitted_at and below_since, are ages that stop growing at the *)
(* thresholds they are compared with.                                      *)
(***************************************************************************)
EXTENDS Integers, FiniteSets, FiniteSetsExt

CONSTANTS
    Symbol, Mandatory,      \* all symbols; cfg_.mandatory
    Score,                  \* the values score_symbol can give
    AddScore, RemoveScore,  \* thresholds of admission and of eviction
    MinHold, Cooloff,       \* min_hold_seconds and cooloff_seconds, in ticks
    MinActive, MaxActive    \* bounds of the active set

ASSUME SelectorAssumption ==
    /\ IsFiniteSet(Symbol) /\ Mandatory \subseteq Symbol
    /\ Score \subseteq Int /\ {AddScore, RemoveScore} \subseteq Int
    /\ {MinHold, Cooloff, MinActive, MaxActive} \subseteq Nat

VARIABLES
    active,     \* active_
    held,       \* held[s]: age of admitted_at, at most MinHold
    below,      \* below[s]: age of below_since, at most Cooloff, or NotBelow
    quiet       \* history: ticks since s was admitted or last scored RemoveScore

selectorVars == <<active, held, below, quiet>>

NotBelow == -1

\* The constructor admits the mandatory symbols, at the epoch of the clock.
SelectorInit ==
    /\ active = Mandatory
    /\ held = [s \in Symbol |-> MinHold]
    /\ below = [s \in Symbol |-> NotBelow]
    /\ quiet = [s \in Symbol |-> 0]

Older(age, limit) == IF age < limit THEN age + 1 ELSE age

\* The sets of the n best symbols of a pool: what a walk down the list sorted
\* by score takes, whatever the order of equal scores.
Best(pool, score, n) ==
    {t \in SUBSET pool :
        /\ Cardinality(t) = (IF n < 0 THEN 0 ELSE Min({n, Cardinality(pool)}))
        /\ \A x \in t, y \in pool \ t : score[x] >= score[y]}

\* Rule 2: the symbols the eviction rules look at, and those among them that
\* score below the threshold.  Mandatory symbols and symbols in their minimum
\* hold are left alone.
Eligible == {s \in active \ Mandatory : Older(held[s], MinHold) >= MinHold}

Low(score) == {s \in Eligible : score[s] < RemoveScore}

\* Faulty variant: a tick above the threshold does not forget below_since.
BelowFor_NoReset(s, score) ==
    IF s \notin Eligible THEN below[s]
    ELSE IF below[s] = NotBelow THEN IF s \in Low(score) THEN 0 ELSE NotBelow
         ELSE Older(below[s], Cooloff)

\* How long the symbol has been below the threshold, this tick included: a tick
\* above it forgets below_since, the first tick below it sets it.
BelowFor(s, score) ==
    IF s \notin Eligible THEN below[s]
    ELSE IF s \notin Low(score) \/ below[s] = NotBelow
         THEN IF s \in Low(score) THEN 0 ELSE NotBelow
         ELSE Older(below[s], Cooloff)

\* Faulty variant: mandatory symbols are evicted like the others.
Evicted_Mandatory(score) == {s \in active : score[s] < RemoveScore}

Evicted(score) == {s \in Low(score) : BelowFor(s, score) >= Cooloff}

\* Rule 3: symbols that score AddScore or more, best first, up to max_active.
Admits(kept, known, score) ==
    Best({s \in known \ kept : score[s] >= AddScore}, score,
         MaxActive - Cardinality(kept))

\* Rule 4: the best of the rest, whatever they score, up to min_active.
Floor(kept, known, score) ==
    Best(known \ kept, score, MinActive - Cardinality(kept))

\* selector::tick: known is the key set of the aggregates map, from which
\* nothing is ever erased; every symbol admitted by score came from it.
tick(known, score) ==
    LET kept == active \ Evicted(score) IN
    \E X \in Admits(kept, known, score) :
    \E Y \in Floor(kept \cup X, known, score) :
        /\ active' = kept \cup X \cup Y
        /\ held' = [s \in Symbol |->
                      IF s \in X \cup Y THEN 0 ELSE Older(held[s], MinHold)]
        /\ below' = [s \in Symbol |->
                      IF s \in Evicted(score) \cup X \cup Y THEN NotBelow
                      ELSE BelowFor(s, score)]
        /\ quiet' = [s \in Symbol |->
                      IF s \in active \cap active' /\ score[s] < RemoveScore
                      THEN Older(quiet[s], Cooloff) ELSE 0]

\* One round of selector_run: the timer expires and the selector ticks.
SelectorTick ==
    \E known \in {k \in SUBSET Symbol : active \ Mandatory \subseteq k} :
    \E score \in [Symbol -> Score] : tick(known, score)

-----------------------------------------------------------------------------
SelectorTypeOK ==
    /\ active \subseteq Symbol
    /\ held \in [Symbol -> 0 .. MinHold]
    /\ below \in [Symbol -> {NotBelow} \cup 0 .. Cooloff]
    /\ quiet \in [Symbol -> 0 .. Cooloff]

\* Eviction is earned: a symbol leaves the set only after its minimum hold, and
\* only when no tick of a whole cool-off saw it at remove_score or above.
EvictionEarned ==
    [][\A s \in active \ active' :
           held'[s] = MinHold /\ quiet[s] >= Cooloff]_selectorVars
=============================================================================
