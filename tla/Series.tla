------------------------------- MODULE Series -------------------------------
(***************************************************************************)
(* The throughput history behind the dashboard's chart (ThroughputHistory  *)
(* and _resample of api/dashboard_compat.py): the series of one technology,*)
(* its file, crashes, restarts and a wall clock that is set forward and    *)
(* back.  A point is the time it was recorded at; record and window run    *)
(* under one lock, and the time a reader waits for it is left out.  Step   *)
(* ticks of the clock are the sixty seconds between two points.            *)
(***************************************************************************)
EXTENDS Integers, Sequences, FiniteSets, SequencesExt

CONSTANTS
    Step,    \* _THP_STEP_S
    MaxAge,  \* _THP_MAX_AGE_S
    Spans,   \* _TS_RANGES: the spans a chart may have
    Target,  \* _TS_TARGET_POINTS: the most slots of a chart
    MaxTime, \* bound on the wall clock
    MaxMoves \* bound on how often it is set

\* The five ranges are whole numbers of slots, and the slots of steps.
SeriesAssumption ==
    /\ Step \in Nat \ {0}
    /\ MaxAge \in Nat
    /\ Target \in Nat \ {0}
    /\ Spans \subseteq Nat
    /\ \A span \in Spans :
          IF span > Step * Target THEN span % Target = 0 ELSE span % Step = 0
    /\ MaxTime \in Nat
    /\ MaxMoves \in Nat

VARIABLES
    clock, \* time.time()
    moves, \* how often the clock was set
    up,    \* the process runs
    mem,   \* the series in memory
    file   \* the series in the file; an unreadable one counts as empty

vars == <<clock, moves, up, mem, file>>

Init ==
    /\ clock \in 0..Step
    /\ moves = 0
    /\ up = FALSE
    /\ mem = <<>>
    /\ file = <<>>

\* The points that are young enough, in the order of the series.
Since(s, cutoff) ==
    LET young == {i \in DOMAIN s : s[i] >= cutoff}
    IN  [n \in 1..Cardinality(young) |->
            s[CHOOSE i \in young : Cardinality({j \in young : j <= i}) = n]]

\* The points dropped are those in front of the first that is young enough.
Pruned(s, cutoff) ==
    SubSeq(s, CHOOSE i \in DOMAIN s : /\ s[i] >= cutoff
                                     /\ \A j \in 1..(i - 1) : s[j] < cutoff,
           Len(s))

Tick ==
    /\ clock < MaxTime
    /\ clock' = clock + 1
    /\ UNCHANGED <<moves, up, mem, file>>

\* The clock is set, by an operator or by NTP.
Move ==
    /\ moves < MaxMoves
    /\ moves' = moves + 1
    /\ clock' \in 0..MaxTime
    /\ UNCHANGED <<up, mem, file>>

\* _load.
Start ==
    /\ ~up
    /\ up' = TRUE
    /\ mem' = Since(file, clock - MaxAge)
    /\ UNCHANGED <<clock, moves, file>>

Recorded(s) == Pruned(Append(s, clock), clock - MaxAge)

\* Faulty variant: a point too far in the future is taken for a point too old.
DueEitherWay ==
    mem # <<>> => (clock - Last(mem) >= Step \/ Last(mem) - clock >= Step)

Due == mem # <<>> => clock - Last(mem) >= Step

\* record, whose flush replaces the file or fails and leaves it.
Record ==
    /\ up
    /\ Due
    /\ mem' = Recorded(mem)
    /\ file' \in {Recorded(mem), file}
    /\ UNCHANGED <<clock, moves, up>>

Crash ==
    /\ up
    /\ up' = FALSE
    /\ mem' = <<>>
    /\ UNCHANGED <<clock, moves, file>>

Next == Tick \/ Move \/ Start \/ Record \/ Crash

Spec == Init /\ [][Next]_vars

------------------------------------------------------------------------------
\* window and _resample.  A slot is a step wide, or as wide as it takes to
\* have no more than Target of them.
Width(span) == IF span > Step * Target THEN span \div Target ELSE Step
SlotsOf(span) == span \div Width(span)

\* The points of each slot, which is drawn as their mean.  int() rounds towards
\* zero, so that the first slot reaches one slot back; what the clock has yet to
\* come to is past the last one.
Chart(span) ==
    LET from    == clock - SlotsOf(span) * Width(span)
        points  == {t \in ToSet(mem) : t >= clock - span}
        slot(t) == IF t < from THEN -((from - t) \div Width(span))
                   ELSE (t - from) \div Width(span)
    IN  [i \in 0..(SlotsOf(span) - 1) |-> {t \in points : slot(t) = i}]

\* The slots that are drawn: from the first with a point to the last, those
\* between without one repeating the value before.
Filled(span) == {i \in DOMAIN Chart(span) : Chart(span)[i] # {}}
Drawn(span)  == {i \in DOMAIN Chart(span) :
                    \E j, k \in Filled(span) : j <= i /\ i <= k}

Spaced(s) == \A i, j \in DOMAIN s : i < j => s[j] - s[i] >= Step

\* However often the clock is set, a write fails or the process is killed, the
\* points in memory and in the file are in order and a step apart.  A chart of
\* any span leaves out no point of it that is behind the clock; what it draws as
\* one mean lies within the width of a slot and is no more than the steps that
\* fit there, so that over a span whose slots are a step wide each point stands
\* by itself; and it draws nothing that was not measured there or before.
SeriesSpaced ==
    /\ Spaced(mem)
    /\ Spaced(file)
    /\ \A span \in Spans :
          /\ \A i \in Drawn(span) :
                /\ \A t, u \in Chart(span)[i] : t - u < Width(span)
                /\ (Cardinality(Chart(span)[i]) - 1) * Step < Width(span)
                /\ i \notin Filled(span) => \E j \in Filled(span) : j < i
          /\ \A t \in ToSet(mem) :
                clock - span <= t /\ t < clock =>
                    \E i \in Filled(span) : t \in Chart(span)[i]
=============================================================================
