----------------------------- MODULE Histogram -----------------------------
(***************************************************************************)
(* The latency histogram of the request metrics: how durations are put     *)
(* into buckets, and what is made of the buckets when a report asks for a  *)
(* percentile.  A figure is a fraction, [num, den], where the code has a   *)
(* float; durations are whole milliseconds.                                *)
(***************************************************************************)
EXTENDS Integers, Sequences, FiniteSetsExt, Functions

CONSTANT Bounds   \* bucketBoundsMs

ASSUME HistogramAssumption ==
    /\ Bounds \in Seq(Nat \ {0}) /\ Bounds /= <<>>
    /\ \A i \in 1..(Len(Bounds) - 1) : Bounds[i] < Bounds[i + 1]

Overflow == Len(Bounds) + 1

NewHistogram ==
    [counts |-> [i \in 1..Overflow |-> 0], total |-> 0,
     minSeen |-> 0, maxSeen |-> 0, haveSeen |-> FALSE]

\* Mutant: a duration equal to a bound goes to the bucket above it.
BucketAbove(ms) == Min({i \in 1..Len(Bounds) : Bounds[i] > ms} \cup {Overflow})

\* sort.SearchFloat64s: the first bucket whose bound is not below the duration.
Bucket(ms) == Min({i \in 1..Len(Bounds) : Bounds[i] >= ms} \cup {Overflow})

Observe(h, ms) ==
    IF ms < 0 THEN h
    ELSE [counts   |-> [h.counts EXCEPT ![Bucket(ms)] = @ + 1],
          total    |-> h.total + 1,
          minSeen  |-> IF h.haveSeen THEN Min({h.minSeen, ms}) ELSE ms,
          maxSeen  |-> IF h.haveSeen THEN Max({h.maxSeen, ms}) ELSE ms,
          haveSeen |-> TRUE]

Reset(h) ==
    [h EXCEPT !.counts = [i \in 1..Overflow |-> 0], !.total = 0,
              !.haveSeen = FALSE, !.minSeen = 0, !.maxSeen = 0]

Whole(n) == [num |-> n, den |-> 1]
NoFigure == Whole(-1)    \* the second result of quantile is false
AtMost(a, b) == a.num * b.den <= b.num * a.den

\* Linear interpolation inside bucket i, below which cum durations were counted.
Interpolate(h, percent, i, cum) ==
    LET lower == IF i > 1 THEN Bounds[i - 1] ELSE 0
        upper == IF i <= Len(Bounds) THEN Bounds[i] ELSE Max({h.maxSeen, lower})
    IN  [num |-> lower * 100 * h.counts[i]
                   + (upper - lower) * (percent * h.total - 100 * cum),
         den |-> 100 * h.counts[i]]

\* Never outside what was observed.
Clamp(h, value) ==
    IF ~AtMost(Whole(h.minSeen), value) THEN Whole(h.minSeen)
    ELSE IF ~AtMost(value, Whole(h.maxSeen)) THEN Whole(h.maxSeen)
    ELSE value

Percents == {50, 95, 99}

\* The sums of the first 0, 1, 2, ... numbers of a list, as a loop adds them up.
Cumulative(list) ==
    LET sum[i \in 0..Len(list)] == IF i = 0 THEN 0 ELSE sum[i - 1] + list[i]
    IN  sum

\* The first bucket that reaches the rank, or no figure when nothing was counted.
Quantile(h, percent) ==
    LET upto == Cumulative(h.counts)
        i == Min({j \in 1..Overflow : h.counts[j] > 0 /\ 100 * upto[j] >= percent * h.total})
    IN  IF h.total = 0 THEN NoFigure
        ELSE IF percent <= 0 THEN Whole(h.minSeen)
        ELSE IF percent >= 100 THEN Whole(h.maxSeen)
        ELSE Clamp(h, Interpolate(h, percent, i, upto[i - 1]))

\* The percentiles of a report, and those of a row that has none.
Percentiles(h) == [p \in Percents |-> Quantile(h, p)]
NoPercentiles == [p \in Percents |-> NoFigure]

----------------------------------------------------------------------------
\* What a window of durations should be reported as, ds[i] being the duration of
\* line i: its nearest-rank percentile, the least of the durations that at least
\* that share of them does not exceed.
AtOrBelow(ds, d) == Cardinality({i \in DOMAIN ds : ds[i] <= d})

Exact(ds, percent) ==
    Min({d \in Range(ds) : 100 * AtOrBelow(ds, d) >= percent * Cardinality(DOMAIN ds)})

\* Durations that are negative are not counted.
Counted(ds) == [i \in {j \in DOMAIN ds : ds[j] >= 0} |-> ds[i]]

\* A percentile that is in the bucket of the true one, and within what was seen.
Honest(figure, percent, ds) ==
    LET counted == Counted(ds) IN
    IF DOMAIN counted = {} THEN figure = NoFigure
    ELSE /\ \A k \in 1..Len(Bounds) :
              AtMost(figure, Whole(Bounds[k])) <=> Exact(counted, percent) <= Bounds[k]
         /\ \E i \in DOMAIN counted : AtMost(Whole(counted[i]), figure)
         /\ \E i \in DOMAIN counted : AtMost(figure, Whole(counted[i]))
=============================================================================
