---- MODULE MetricSeries ----
(***************************************************************************)
(* What the metric detail view computes from data points: the window they  *)
(* are cut to, the breakdown offered, the buckets the chart draws, the     *)
(* summary tiles above it and the colours that tie the two together.       *)
(*                                                                         *)
(* A point is [id, t, a, v]: a time, the value of its one attribute (Unset *)
(* when it has none) and its delta.  A chart point is [time, sum]; what is *)
(* drawn for a Sum is sum.  Time is counted in seconds.                    *)
(***************************************************************************)
EXTENDS Integers, Sequences, SequencesExt, FiniteSets, FiniteSetsExt

CONSTANTS
    TargetBuckets,  \* TARGET_BUCKETS
    FacetMax,       \* DISCOVERED_FACET_MAX
    Colors,         \* the size of the palette
    Hash            \* the palette slot an identity prefers

All == 0            \* the range "all"; any other range is its width
Unset == 0          \* the attribute is missing
None == "none"

Total(S, f(_)) == MapThenSumSet(f, S)

----
(* Windows.                                                                *)

\* Anchored on the newest point, not on the clock.
filterDataPointsInRange(ps, range) ==
    IF range = All \/ ps = <<>> THEN ps
    ELSE LET newest == Max({p.t : p \in ToSet(ps)})
         IN  SelectSeq(ps, LAMBDA p : p.t >= newest - range)

filterPointsInEventWindow(ps, w) ==
    IF w.mode = "live" THEN filterDataPointsInRange(ps, w.range)
    ELSE SelectSeq(ps, LAMBDA p : p.t >= w.from /\ p.t < w.to)

\* Math.round of a quotient, at least one second.
bucketSecondsForDuration(d) ==
    Max({1, (2 * d + TargetBuckets) \div (2 * TargetBuckets)})

bucketSecondsForDataExtent(P) ==
    IF Cardinality(P) < 2 THEN 1
    ELSE Max({1, (Max({p.t : p \in P}) - Min({p.t : p \in P})) \div TargetBuckets})

bucketSecondsForRawMetricPoints(P, w) ==
    IF w.mode = "fixed" THEN bucketSecondsForDuration(w.to - w.from)
    ELSE IF w.range = All THEN bucketSecondsForDataExtent(P)
    ELSE bucketSecondsForDuration(w.range)

bucketStart(t, width) == (t \div width) * width

\* Bug: a partial first bucket keeps the start that lies before the window.
chartTimeUnclamped(start, w) == start

\* chartTimeForAggregateTimestamp, and the same in bucketRawMetricPoints.
chartTime(start, w) == IF w.mode = "fixed" THEN Max({start, w.from}) ELSE start

\* The chart points of one series: the deltas of a bucket add up.
bucketRawMetricPoints(P, w, width) ==
    {[time |-> chartTime(s, w),
      sum  |-> Total({p \in P : bucketStart(p.t, width) = s}, LAMBDA p : p.v)]
        : s \in {bucketStart(p.t, width) : p \in P}}

\* The domain of the chart; for "all", the extent of what is drawn.
eventWindowDomain(points, w, now) ==
    IF w.mode = "fixed" THEN <<w.from, w.to>>
    ELSE IF w.range = All THEN <<Min({c.time : c \in points}), Max({c.time : c \in points})>>
    ELSE <<now - w.range, now>>

filterPointsInDomain(points, dom) ==
    {c \in points : c.time >= dom[1] /\ c.time <= dom[2]}

----
(* Breakdown and colours.                                                  *)

computeAttributeCardinality(P) == Cardinality({p.a : p \in P} \ {Unset})

\* The breakdowns offered: the attribute, when it tells few enough series apart.
resolveMetricFacets(P) ==
    IF computeAttributeCardinality(P) \in 2..FacetMax THEN <<"attr">> ELSE <<>>

\* An explicit "All", the picked breakdown while it is offered, or the first.
resolveEffectiveFacet(picked, facets) ==
    IF picked = "all" \/ facets = <<>> THEN None
    ELSE IF picked \in ToSet(facets) THEN picked ELSE Head(facets)

\* The identity a colour belongs to: the breakdown and the value.
identity(facet, a) == <<facet, a>>

\* In the order of the identities each takes its preferred slot or the next
\* free one; with every slot taken, it is back at its own.
seriesColorIndexes(ids) ==
    LET order == SetToSortSeq(ids, LAMBDA i, j : i[2] < j[2])
        free(used, start) ==
            LET open == {k \in 0..(Colors - 1) : (start + k) % Colors \notin used}
            IN  IF open = {} THEN start ELSE (start + Min(open)) % Colors
        take(map, i) == map @@ (i :> free(Range(map), Hash[i]))
    IN  FoldLeft(take, <<>>, order)

----
(* The chart and the tiles above it.                                       *)

groups(P) == {p.a : p \in P}

\* What storage.MetricAggregate answers for the points of a breakdown.
metricAggregate(P, w) ==
    LET width == bucketSecondsForRawMetricPoints(P, w)
    IN  [a \in groups(P) |->
           {[start |-> s,
             sum |-> Total({p \in P : p.a = a /\ bucketStart(p.t, width) = s}, LAMBDA p : p.v)]
               : s \in {bucketStart(p.t, width) : p \in {q \in P : q.a = a}}}]

buildAggregatedFacetSeries(series, facet, w) ==
    LET color == seriesColorIndexes({identity(facet, a) : a \in DOMAIN series})
    IN  {[key |-> a, color |-> color[identity(facet, a)],
          points |-> {[time |-> chartTime(b.start, w), sum |-> b.sum] : b \in series[a]}]
            : a \in DOMAIN series}

\* Every line on the grid of the whole metric.
buildRawGroupedSeries(P, w) ==
    LET color == seriesColorIndexes({identity(None, a) : a \in groups(P)})
        width == bucketSecondsForRawMetricPoints(P, w)
    IN  {[key |-> a, color |-> color[identity(None, a)],
          points |-> bucketRawMetricPoints({p \in P : p.a = a}, w, width)]
            : a \in groups(P)}

\* The lines the chart draws, cut to its domain.
visibleSeries(lines, w, now) ==
    LET points == UNION {l.points : l \in lines}
    IN  IF points = {} THEN lines
        ELSE {[l EXCEPT !.points = filterPointsInDomain(@, eventWindowDomain(points, w, now))]
                 : l \in lines}

\* The increase of each group.  A fixed answer is scoped already; a live one
\* is cut to the range before its newest bucket.
statTilesFromAggregate(series, facet, w) ==
    LET color == seriesColorIndexes({identity(facet, a) : a \in DOMAIN series})
        inRange(B) == IF w.mode = "fixed" \/ w.range = All THEN B
                      ELSE {b \in B : b.start >= Max({c.start : c \in B}) - w.range}
    IN  {[key |-> a, color |-> color[identity(facet, a)],
          value |-> Total(inRange(series[a]), LAMBDA b : b.sum)] : a \in DOMAIN series}

statTilesFromRawPoints(ps, w) ==
    LET P == ToSet(IF w.mode = "live" THEN filterDataPointsInRange(ps, w.range) ELSE ps)
        color == seriesColorIndexes({identity(None, a) : a \in groups(P)})
    IN  {[key |-> a, color |-> color[identity(None, a)],
          value |-> Total({p \in P : p.a = a}, LAMBDA p : p.v)] : a \in groups(P)}
====
