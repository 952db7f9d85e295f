---- MODULE MetricView ----
(***************************************************************************)
(* Metrics in the browser: the buffer that live deliveries and the initial *)
(* load write, and the detail view of metric "m", which merges a fetched   *)
(* range with the live points, picks a breakdown from what it shows and    *)
(* keeps a server-side aggregate of it fresh with a debounced refetch.     *)
(*                                                                         *)
(* The server stores what is committed in log; a point's id is its index.  *)
(* A query reads when it is made: a later read only adds points.  The      *)
(* clock is the newest time stored.                                        *)
(***************************************************************************)
EXTENDS MetricSeries

CONSTANTS
    Points,         \* what an exporter may send for "m": [t, a]
    Others,         \* the other metrics
    History,        \* what the server had stored before the page was loaded
    Windows,        \* [mode |-> "live", range] and [mode |-> "fixed", from, to]
    Addressed,      \* the windows the page's address may name at first
    Hooks,          \* which of "aggregate" and "distribution" to follow
    MetricCap, MaxDataPoints,          \* BufferCaps
    MaxCommits, MaxEvents, MaxFailures \* bounds

ASSUME MetricViewAssumption ==
    /\ Points \subseteq [t : Nat, a : Nat]
    /\ History \in Seq([m : Others \cup {"m"}, t : Nat, a : Nat])
    /\ Windows \subseteq [mode : {"fixed"}, from : Nat, to : Nat] \cup [mode : {"live"}, range : Nat]
    /\ \A w \in Windows : w.mode = "fixed" => w.from < w.to
    /\ Addressed \subseteq Windows
    /\ {MetricCap, MaxDataPoints, MaxCommits, TargetBuckets, Colors} \subseteq Nat \ {0}
    /\ {MaxEvents, MaxFailures, FacetMax} \subseteq Nat

Undefined == -1
NoBounds == [from |-> Undefined, to |-> Undefined]

VARIABLES
    log, wire,       \* what the server stored, and the ids not delivered yet
    metrics,         \* metricsAtom
    initialized,     \* initializedAtom: the initial load was applied
    open, window, picked, facet,
    bounds,          \* queryBounds: the window, resolved once
    points, held,    \* the metric-points queries, and their placeholder
    display,         \* what useStableArray returns
    hook, series,    \* the query that aggregates, and its cache
    timer,           \* its debounced refetch is due
    events, failures,
    missed           \* history: what was delivered when the view joined a request
                     \* under way, and that request had not read

vars == <<log, wire, metrics, initialized, open, window, picked, facet, bounds, points,
          held, display, hook, series, timer, events, failures, missed>>

----
(* The buffer.                                                             *)

point(i) == [id |-> i, t |-> log[i].t, a |-> log[i].a, v |-> 2^(i - 1)]
now == Max({0} \union {log[i].t : i \in DOMAIN log})
Lookup(ms, key) == {j \in DOMAIN ms : ms[j].key = key}
delivered == {i \in DOMAIN log : log[i].m = "m"} \ ToSet(wire)
dataPoints == LET at == Lookup(metrics, "m")
              IN  IF at = {} THEN <<>> ELSE metrics[CHOOSE j \in at : TRUE].points

mergeDataPoints(existing, incoming) ==
    existing \o SelectSeq(incoming, LAMBDA i : i \notin ToSet(existing))

\* Bug: new groups stay in the order they arrived.
prependUnreversed(new, working) == new \o working

\* Each new group comes to the front, as if it had come alone.
prepend(new, working) == Reverse(new) \o working

mergeGroup(g, i) ==
    LET merged == mergeDataPoints(g.points, <<i>>)
        added == Len(merged) - Len(g.points)
    IN  [g EXCEPT !.points = SubSeq(merged, Max({1, Len(merged) - MaxDataPoints + 1}), Len(merged)),
                  !.pointCount = @ + added,
                  !.latest = IF added > 0 THEN i ELSE @]

\* One store update for the deliveries of a flush window.
addMetrics(ms, ids) ==
    LET merge(gs, i) == [j \in DOMAIN gs |-> IF gs[j].key = log[i].m THEN mergeGroup(gs[j], i)
                                             ELSE gs[j]]
        add(s, i) ==
            IF Lookup(s.working \o s.new, log[i].m) # {}
            THEN [working |-> merge(s.working, i), new |-> merge(s.new, i)]
            ELSE [s EXCEPT !.new = Append(@, [key |-> log[i].m, points |-> <<i>>,
                                              pointCount |-> 1, latest |-> i])]
        s == FoldLeft(add, [working |-> ms, new |-> <<>>], ids)
        next == prepend(s.new, s.working)
    IN  SubSeq(next, 1, Min({Len(next), MetricCap}))

\* What the server answers to the initial load when it has read the first n
\* points: every group, without points.
initialGroups(n) ==
    LET ids(key) == {i \in 1..n : log[i].m = key}
        present == {key \in Others \union {"m"} : ids(key) # {}}
    IN  SetToSortSeq({[key |-> key, points |-> <<>>, pointCount |-> Cardinality(ids(key)),
                       latest |-> Max(ids(key))] : key \in present},
                     LAMBDA g, h : g.latest > h.latest)

----
(* Queries.                                                                *)

queryBounds(w, clock) ==
    IF w.mode = "fixed" THEN [from |-> w.from, to |-> w.to]
    ELSE [from |-> IF w.range = All THEN Undefined ELSE clock - w.range, to |-> Undefined]

InBounds(p, b) == /\ p.m = "m"
                  /\ b.from = Undefined \/ p.t >= b.from
                  /\ b.to = Undefined \/ p.t < b.to

\* What the server answers, and how much it had stored by then.
Read(b) == [ids |-> {i \in DOMAIN log : InBounds(log[i], b)}, upTo |-> Len(log)]

NoEntry == [data |-> <<>>, error |-> FALSE, req |-> <<>>]
Entry(cache, key) == IF key \in DOMAIN cache THEN cache[key] ELSE NoEntry
Put(cache, key, e) == [k \in {key} \cup DOMAIN cache |-> IF k = key THEN e ELSE cache[k]]

\* A new request forgets an error, unless older data stands behind it.
ask(e, answer) == [e EXCEPT !.req = <<answer>>, !.error = @ /\ e.data # <<>>]

\* An observer that comes to a key asks, unless the key is asked for already.
fetchOptionally(cache, key, answer) ==
    LET e == Entry(cache, key)
    IN  IF e.req # <<>> THEN cache ELSE Put(cache, key, ask(e, answer))

\* refetch() drops a request under way, but waits for the very first one.
refetch(cache, key, answer) ==
    LET e == Entry(cache, key)
    IN  IF e.req # <<>> /\ e.data = <<>> THEN cache ELSE Put(cache, key, ask(e, answer))

\* What of ids the request under way does not answer for.
unread(e, ids) == ids \ e.req[1].ids

settle(e, ok) == IF ok THEN [data |-> e.req, error |-> FALSE, req |-> <<>>]
                 ELSE [e EXCEPT !.error = TRUE, !.req = <<>>]

----
(* The detail view.                                                        *)

mounted == open /\ Lookup(metrics, "m") # {}

\* Oldest first, as the server orders them.
sortedPoints(ids) ==
    SetToSortSeq(ids, LAMBDA i, j : log[i].t < log[j].t \/ (log[i].t = log[j].t /\ i < j))

\* useMetricRangePoints: fetched (or, while that loads, the previous) range
\* first, then the live points it lacks, cut to the window.
windowed(e, previous, live, w) ==
    LET fetched == IF e.data # <<>> THEN e.data[1].ids ELSE IF e.error THEN {} ELSE previous
        merged == mergeDataPoints(sortedPoints(fetched), live)
    IN  filterPointsInEventWindow([k \in DOMAIN merged |-> point(merged[k])], w)

\* Bug: the same length is the same content.
isSameContentLength(a, b) == Len(a) = Len(b)

\* useStableArray: length, first and last element stand for the content.
isSameContent(a, b) ==
    /\ Len(a) = Len(b)
    /\ a = <<>> \/ (Head(a).id = Head(b).id /\ Last(a).id = Last(b).id)

\* The queries differ in their key: only the aggregate's names the window.
enabled == mounted /\ (hook = "aggregate" => facet # None)
seriesKey == <<facet, IF hook = "aggregate" THEN <<window>> ELSE <<>>, bounds>>

\* Bug: a delivery while a refetch is due starts nothing.
isRelevantIdle(fresh, added) == fresh /\ ~timer

\* Whether the effect that dataPoints started asks again.
isRelevant(fresh, added) ==
    /\ fresh
    /\ hook = "aggregate" => facet' # None
    /\ window'.mode = "fixed" =>
          hook = "aggregate" /\ \E i \in added : InBounds(log[i], bounds')

\* What makes that effect run again.
effectDeps(fresh) ==
    \/ fresh
    \/ IF hook = "aggregate" THEN facet' # facet \/ window' # window
       ELSE window'.mode # window.mode

\* The effects of a state change on the detail view.  pc, sc, due and left
\* are the caches, the timer and missed as the change left them; fresh says
\* that dataPoints is a new array.  Running the debounce effect again clears
\* its timer, whether or not it sets another.
Render(pc, sc, due, left, fresh) ==
    LET arrives == mounted' /\ (~mounted \/ window' # window)
        added == ToSet(dataPoints') \ ToSet(dataPoints)
        comes == enabled' /\ (~enabled \/ seriesKey' # seriesKey)
    IN  /\ bounds' = IF ~mounted' THEN NoBounds
                     ELSE IF arrives THEN queryBounds(window', now') ELSE bounds
        /\ points' = IF mounted' /\ (~mounted \/ bounds' # bounds)
                     THEN fetchOptionally(pc, bounds', Read(bounds')) ELSE pc
        /\ held' = LET e == Entry(points', bounds')
                   IN  IF ~mounted' THEN {} ELSE IF e.data # <<>> THEN e.data[1].ids ELSE held
        /\ display' = LET next == windowed(Entry(points', bounds'), held', dataPoints', window')
                      IN  IF ~mounted' THEN <<>>
                          ELSE IF mounted /\ isSameContent(display, next) THEN display
                          ELSE next
        /\ facet' = IF mounted' THEN resolveEffectiveFacet(picked', resolveMetricFacets(ToSet(display')))
                    ELSE None
        /\ series' = IF comes THEN fetchOptionally(sc, seriesKey', Read(bounds')) ELSE sc
        /\ missed' = LET e == Entry(sc, seriesKey')
                     IN  IF ~comes THEN left
                         ELSE IF e.req # <<>> THEN unread(e, delivered') ELSE {}
        /\ timer' = IF ~mounted' \/ ~mounted THEN FALSE
                    ELSE IF effectDeps(fresh) THEN isRelevant(fresh, added)
                    ELSE due

\* The tiles of a Sum: of the server's answer while a breakdown is on.
MetricSummary(answer, w) == IF facet # None THEN statTilesFromAggregate(answer, facet, w)
                            ELSE statTilesFromRawPoints(display, w)

\* The lines below them.
ChartInner(answer, w) ==
    visibleSeries(IF facet # None THEN buildAggregatedFacetSeries(answer, facet, w)
                  ELSE buildRawGroupedSeries(ToSet(display), w), w, now)

----
Init ==
    /\ log = History /\ wire = <<>> /\ metrics = <<>> /\ initialized = FALSE
    /\ open = FALSE /\ window \in Addressed /\ picked = None /\ facet = None
    /\ bounds = NoBounds /\ points = <<>> /\ held = {} /\ display = <<>>
    /\ hook \in Hooks /\ series = <<>> /\ timer = FALSE
    /\ events = 0 /\ failures = 0
    /\ missed = {}

client == <<metrics, open, window, picked, facet, bounds, points, held, display, series, timer,
            missed>>

\* The exporter stores a data point, which the hub then broadcasts.
Commit(p) ==
    /\ Len(log) < Len(History) + MaxCommits
    /\ log' = Append(log, p) /\ wire' = Append(wire, Len(log) + 1)
    /\ UNCHANGED <<client, initialized, hook, events, failures>>

\* The deliveries of one flush window.
Flush(k) ==
    /\ k <= Len(wire)
    /\ metrics' = addMetrics(metrics, SubSeq(wire, 1, k))
    /\ wire' = SubSeq(wire, k + 1, Len(wire))
    /\ UNCHANGED <<log, initialized, open, window, hook, events, failures>>
    /\ picked' = IF mounted' THEN picked ELSE None
    /\ Render(points, series, timer, missed,
              \E i \in ToSet(SubSeq(wire, 1, k)) : log[i].m = "m")

\* useInitialLoad's effect, once: what the server read some time after the
\* page asked replaces the buffer.
InitialLoad(n) ==
    /\ ~initialized /\ initialized' = TRUE
    /\ n \in Len(History)..Len(log)
    /\ metrics' = initialGroups(n)
    /\ UNCHANGED <<log, wire, open, window, hook, events, failures>>
    /\ picked' = IF mounted' THEN picked ELSE None
    /\ Render(points, series, timer, missed, TRUE)

UserStep == events < MaxEvents /\ events' = events + 1

\* After gcTime a query nobody looks at is forgotten.
OpenDetail(forgotten) ==
    /\ UserStep
    /\ ~open /\ Lookup(metrics, "m") # {}
    /\ open' = TRUE
    /\ UNCHANGED <<log, wire, metrics, initialized, window, picked, hook, failures>>
    /\ Render(IF forgotten THEN <<>> ELSE points, IF forgotten THEN <<>> ELSE series,
              FALSE, missed, FALSE)

CloseDetail ==
    /\ UserStep
    /\ open /\ open' = FALSE /\ picked' = None
    /\ UNCHANGED <<log, wire, metrics, initialized, window, hook, failures>>
    /\ Render(points, series, FALSE, missed, FALSE)

\* setWindow.
SetWindow(w) ==
    /\ UserStep
    /\ mounted /\ w # window /\ window' = w
    /\ UNCHANGED <<log, wire, metrics, initialized, open, picked, hook, failures>>
    /\ Render(points, series, timer, missed, FALSE)

\* setPickedId, by one of the tabs.
PickFacet(f) ==
    /\ UserStep
    /\ mounted /\ f # picked /\ picked' = f
    /\ f = "all" \/ f \in ToSet(resolveMetricFacets(ToSet(display)))
    /\ UNCHANGED <<log, wire, metrics, initialized, open, window, hook, failures>>
    /\ Render(points, series, timer, missed, FALSE)

Outcome(ok) == failures' = failures + (IF ok THEN 0 ELSE 1) /\ failures' <= MaxFailures

AnswerPoints(key, ok) ==
    /\ points[key].req # <<>>
    /\ Outcome(ok)
    /\ UNCHANGED <<log, wire, metrics, initialized, open, window, picked, hook, events>>
    /\ Render(Put(points, key, settle(points[key], ok)), series, timer, missed, FALSE)

AnswerSeries(key, ok) ==
    /\ series[key].req # <<>>
    /\ Outcome(ok)
    /\ UNCHANGED <<log, wire, metrics, initialized, open, window, picked, hook, events>>
    /\ Render(points, Put(series, key, settle(series[key], ok)), timer, missed, FALSE)

\* LIVE_REFETCH_DEBOUNCE_MS after the last relevant delivery.
TimerFires ==
    /\ timer
    /\ UNCHANGED <<log, wire, metrics, initialized, open, window, picked, hook, events, failures>>
    /\ LET e == Entry(series, seriesKey)
       IN  Render(points, refetch(series, seriesKey, Read(bounds)), FALSE,
                  IF e.req # <<>> /\ e.data = <<>> THEN unread(e, delivered) ELSE {}, FALSE)

Arrivals == {[m |-> "m", t |-> p.t, a |-> p.a] : p \in Points}
               \union {[m |-> o, t |-> 1, a |-> Unset] : o \in Others}

Load == \E n \in 0..(Len(History) + MaxCommits) : InitialLoad(n)
Deliver == \E k \in 1..MaxCommits : Flush(k)
Answer == \/ \E key \in DOMAIN points, ok \in BOOLEAN : AnswerPoints(key, ok)
          \/ \E key \in DOMAIN series, ok \in BOOLEAN : AnswerSeries(key, ok)

Next ==
    \/ \E p \in Arrivals : Commit(p)
    \/ Deliver
    \/ Load
    \/ \E forgotten \in BOOLEAN : OpenDetail(forgotten)
    \/ CloseDetail
    \/ \E w \in Windows : SetWindow(w)
    \/ \E f \in {"all", "attr"} : PickFacet(f)
    \/ Answer
    \/ TimerFires

Spec == Init /\ [][Next]_vars

----
(* Properties.                                                             *)

\* telemetry.ts: "batching this doesn't change the resulting order".  The
\* deliveries of a flush window leave the groups, their points, counts and
\* latest values as they would one by one, as long as none falls out.
BatchingIsInvisible ==
    \A k \in 1..Len(wire) :
        LET ids == SubSeq(wire, 1, k)
        IN  Cardinality({g.key : g \in ToSet(metrics)} \union {log[i].m : i \in ToSet(ids)}) <= MetricCap
              => addMetrics(metrics, ids)
                    = FoldLeft(LAMBDA ms, i : addMetrics(ms, <<i>>), metrics, ids)

\* Once the range has loaded, the view shows each point once, only points of
\* the window, and all of those delivered: those the server had when it was
\* asked, and the later ones the buffer still holds.  Neither the order of
\* fetch, delivery and initial load nor the shortcut of useStableArray loses
\* one.
PointsComplete ==
    LET e == Entry(points, bounds)
        shown == ToSet(display)
        newest == Max({p.t : p \in shown})
        inWindow(t) == IF window.mode = "fixed" THEN t >= window.from /\ t < window.to
                       ELSE window.range = All \/ t >= newest - window.range
    IN  mounted /\ e.data # <<>> /\ ~e.error =>
          /\ IsInjective([k \in DOMAIN display |-> display[k].id])
          /\ \A p \in shown : inWindow(p.t)
          /\ \A i \in delivered :
                InBounds(log[i], bounds) /\ (i <= e.data[1].upTo \/ i \in ToSet(dataPoints))
                  => shown # {} /\ (inWindow(log[i].t) => point(i) \in shown)

\* Whether tiles and lines speak of the same groups in the same colours with
\* the same totals, and tell groups apart while there are colours left.
agree(tiles, lines) ==
    /\ tiles = {[key |-> l.key, color |-> l.color,
                 value |-> Total(l.points, LAMBDA c : c.sum)] : l \in lines}
    /\ Cardinality(tiles) <= Colors => Cardinality({x.color : x \in tiles}) = Cardinality(tiles)

\* In a fixed window, and over everything, the tiles and the lines of the
\* chart agree, with a breakdown (both from the server's answer) and without
\* one (both from the points shown): no clamped bucket start, domain cut or
\* colour assignment sets them apart.
SummaryMatchesChart ==
    LET w == IF window.mode = "fixed" THEN window ELSE [mode |-> "live", range |-> All]
        answer == metricAggregate({point(i) : i \in Read(queryBounds(w, now)).ids}, w)
    IN  mounted => agree(MetricSummary(answer, w), ChartInner(answer, w))

\* What an open view owes once it asks for nothing and no refetch is due: an
\* answer that has the points ids.
caughtUp(ids) ==
    LET e == Entry(series, seriesKey)
    IN  enabled /\ ~timer /\ e.req = <<>> /\ ~e.error =>
            /\ e.data # <<>>
            /\ {i \in ids : InBounds(log[i], bounds)} \subseteq e.data[1].ids

\* In live mode a stale aggregate or distribution is about to be asked for
\* again: no later render, key change or overtaken request forgets a delivery
\* the trailing debounce was waiting for.  Only what was missed stays out: a
\* refetch that joins the very first request, or a view that comes back to a
\* key that is asked for already, takes an answer that lacks the deliveries
\* made since that request, and asks for them with the next delivery.
SeriesCatchUp == window.mode = "live" => caughtUp(delivered \ missed)

====
