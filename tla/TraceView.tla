---- MODULE TraceView ----
(***************************************************************************)
(* The open trace: the span tree of the waterfall with its collapsed       *)
(* branches, its span search and its selection, and the zoom of the        *)
(* overview above it.  Two things change underneath: the summary of the    *)
(* trace, which deliveries widen, and the spans, which a snapshot          *)
(* replaces.  Either may be ahead of the other, and the server may have    *)
(* deleted what they show.                                                 *)
(*                                                                         *)
(* A span is its number, which is its place in the server's answer; a      *)
(* trace gives each span its parent, start, duration, status and name.     *)
(* The zoom is in thousandths of the trace, as the slider's steps are.     *)
(***************************************************************************)
EXTENDS Integers, Sequences, SequencesExt, FiniteSets, FiniteSetsExt

CONSTANTS
    Spans,       \* span ids: positive numbers
    Traces,      \* traces that can be opened: functions of Spans
    Early,       \* spans the server holds when a trace is opened
    Names,       \* texts of the span search
    Width,       \* the overview's width in pixels
    Stops,       \* where a thumb can be moved, in steps
    MaxEvents    \* bound: what the user does, and sweeps

Steps == 1000
NoSpan == 0

ASSUME TraceViewAssumption ==
    /\ Spans \subseteq Nat \ {0} /\ Early \subseteq Spans /\ Early # {}
    /\ \A t \in Traces : \A s \in Spans :
           t[s].parent \in Nat /\ t[s].start \in Nat /\ t[s].duration \in Nat
    /\ Width \in Nat \ {0} /\ Stops \subseteq 0..Steps /\ MaxEvents \in Nat

NoDrag == [pointer |-> NoSpan]
NoQuery == ""

VARIABLES
    trace,               \* what the spans of the open trace are
    stored,              \* the spans the server holds
    summary, spans,      \* TraceData: startEpochNs and duration; its spans
    wanted,              \* the span of the route
    collapse,            \* selectedId and collapsed
    search, errorsOnly,
    range, drag,         \* the zoom, and SelectionDrag
    events,
    swept                \* history: the server deleted spans of the open trace

traceVars == <<trace, stored, summary, spans, swept>>
treeVars == <<wanted, collapse, search, errorsOnly>>
zoomVars == <<range, drag>>
vars == <<traceVars, treeVars, zoomVars, events>>

Event == events < MaxEvents /\ events' = events + 1

(***************************************************************************)
(* span-tree.ts.                                                           *)
(***************************************************************************)
SpanEnd(s) == trace[s].start + trace[s].duration

compareByStartTime(s, u) ==
    \/ trace[s].start < trace[u].start
    \/ trace[s].start = trace[u].start /\ s < u

\* The spans that are there, in start order.
Sorted(here) ==
    SortSeq(SelectSeq(SetToSortSeq(Spans, <), LAMBDA s : s \in here), compareByStartTime)

kids(here, p) == SelectSeq(Sorted(here), LAMBDA s : trace[s].parent = p)

roots(here) == SelectSeq(Sorted(here), LAMBDA s : trace[s].parent \notin here)

RECURSIVE walk(_, _, _)
walk(here, list, depth) ==
    IF list = <<>> THEN <<>>
    ELSE LET s == Head(list)
             below == kids(here, s)
         IN  <<[span |-> s, depth |-> depth, hasChildren |-> below # <<>>]>>
             \o walk(here, below, depth + 1) \o walk(here, Tail(list), depth)

buildTree(here) == walk(here, roots(here), 0)

\* A span and its parents as far as they are there, or until one comes again.
RECURSIVE climb(_, _, _)
climb(here, s, ids) ==
    IF s \notin here \/ s \in ids THEN ids
    ELSE climb(here, trace[s].parent, ids \cup {s})

\* Bug: only the parent is taken.
spanPathParent(here, s) == {s} \cup {trace[u].parent : u \in {s} \cap here}

spanPath(here, s) == climb(here, s, {})

Filtering == search # NoQuery \/ errorsOnly

Hit(s) ==
    /\ errorsOnly => trace[s].error
    /\ search # NoQuery => trace[s].name = search

matchingSpanIds(here) ==
    FoldSet(LAMBDA s, ids : climb(here, s, ids), {}, {s \in here : Hit(s)})

\* Bug: collapsed branches stay closed while a filter is on.
visibleSpansCollapsed(flat, collapsed, matching) ==
    LET step(acc, f) ==
            IF \/ Filtering /\ f.span \notin matching
               \/ acc.skip # -1 /\ f.depth > acc.skip
            THEN acc
            ELSE [rows |-> Append(acc.rows, f),
                  skip |-> IF f.span \in collapsed THEN f.depth ELSE -1]
    IN  FoldLeft(step, [rows |-> <<>>, skip |-> -1], flat).rows

\* One row after the other; skip is the depth of the branch being left out.
visibleSpans(flat, collapsed, matching) ==
    LET step(acc, f) ==
            IF \/ Filtering /\ f.span \notin matching
               \/ acc.skip # -1 /\ f.depth > acc.skip
            THEN acc
            ELSE [rows |-> Append(acc.rows, f),
                  skip |-> IF ~Filtering /\ f.span \in collapsed
                           THEN f.depth ELSE -1]
    IN  FoldLeft(step, [rows |-> <<>>, skip |-> -1], flat).rows

Rows == visibleSpans(buildTree(spans), collapse.collapsed, matchingSpanIds(spans))

(***************************************************************************)
(* A render of the waterfall: when the span it is given as selected is     *)
(* another one, the branches above it are opened.                          *)
(***************************************************************************)
selectedSpan(here, id) == IF id \in here THEN id ELSE NoSpan

reveal(here, id, collapsed) ==
    LET selected == selectedSpan(here, id)
    IN  collapse' =
            IF collapse.selectedId = selected
            THEN [collapse EXCEPT !.collapsed = collapsed]
            ELSE [selectedId |-> selected,
                  collapsed |-> collapsed \ (spanPath(here, selected) \ {selected})]

(***************************************************************************)
(* The summary of the row, from the server and from deliveries.            *)
(***************************************************************************)
\* What the spans in the table come to, also after a sweep has rebuilt it.
SummaryOf(t, set) ==
    LET first == Min({t[s].start : s \in set})
    IN  [start |-> first,
         duration |-> Max({t[s].start + t[s].duration : s \in set}) - first]

\* The start and the duration are taken apart.
mergeTrace(old, new) ==
    [start |-> Min({old.start, new.start}),
     duration |-> Max({old.duration, new.duration})]

\* TraceDetailView and what is below it are keyed by the trace.
Opened(t) ==
    /\ trace' = t /\ stored' = Early /\ summary' = SummaryOf(t, Early) /\ spans' = {}
    /\ swept' = FALSE
    /\ wanted' = NoSpan
    /\ collapse' = [selectedId |-> NoSpan, collapsed |-> {}]
    /\ search' = NoQuery /\ errorsOnly' = FALSE
    /\ range' = <<0, Steps>> /\ drag' = NoDrag

Init ==
    /\ trace \in Traces /\ stored = Early /\ summary = SummaryOf(trace, Early)
    /\ spans = {} /\ swept = FALSE
    /\ wanted = NoSpan
    /\ collapse = [selectedId |-> NoSpan, collapsed |-> {}]
    /\ search = NoQuery /\ errorsOnly = FALSE
    /\ range = <<0, Steps>> /\ drag = NoDrag
    /\ events = 0

Commit(s) ==
    /\ s \notin stored
    /\ stored' = stored \cup {s}
    /\ UNCHANGED <<trace, summary, spans, swept, treeVars, zoomVars, events>>

\* The retention sweep, the size trim and the clear delete what started before
\* a cutoff; the browser is not told.
Sweep(cutoff) ==
    /\ Event
    /\ stored' = {s \in stored : trace[s].start >= cutoff}
    /\ stored' # stored
    /\ swept' = TRUE
    /\ UNCHANGED <<trace, summary, spans, treeVars, zoomVars>>

\* A delivery has the summary of what is stored, and no spans.
Deliver ==
    /\ stored # {}
    /\ summary' = mergeTrace(summary, SummaryOf(trace, stored))
    /\ summary' # summary
    /\ UNCHANGED <<trace, stored, spans, swept, treeVars, zoomVars, events>>

\* useTraceSpans replaces the spans; the selected one may only now be there.
replaceSpans ==
    /\ spans # stored
    /\ spans' = stored
    /\ reveal(stored, wanted, collapse.collapsed)
    /\ UNCHANGED <<trace, stored, summary, swept, wanted, search, errorsOnly, zoomVars, events>>

openTrace == Event /\ \E t \in Traces : Opened(t)

\* A row of the tree, the service column or the timeline; or its links.
selectSpan ==
    /\ Event
    /\ \E f \in ToSet(Rows) :
          /\ wanted' = f.span
          /\ reveal(spans, f.span, collapse.collapsed)
    /\ UNCHANGED <<traceVars, search, errorsOnly, zoomVars>>

\* A span link or the browser's history names any span of the trace.
followRoute ==
    /\ Event
    /\ \E s \in Spans : wanted' = s /\ reveal(spans, s, collapse.collapsed)
    /\ UNCHANGED <<traceVars, search, errorsOnly, zoomVars>>

closeSpan ==
    /\ Event /\ wanted # NoSpan
    /\ wanted' = NoSpan /\ reveal(spans, NoSpan, collapse.collapsed)
    /\ UNCHANGED <<traceVars, search, errorsOnly, zoomVars>>

toggleSpan ==
    /\ Event /\ ~Filtering
    /\ \E f \in ToSet(Rows) :
          /\ f.hasChildren
          /\ reveal(spans, wanted, SymDiff(collapse.collapsed, {f.span}))
    /\ UNCHANGED <<traceVars, wanted, search, errorsOnly, zoomVars>>

\* Collapse all, or Expand all when all are collapsed.
collapseAll ==
    /\ Event /\ ~Filtering
    /\ LET parents == {f.span : f \in {g \in ToSet(buildTree(spans)) : g.hasChildren}}
       IN  reveal(spans, wanted, IF parents \subseteq collapse.collapsed THEN {} ELSE parents)
    /\ UNCHANGED <<traceVars, wanted, search, errorsOnly, zoomVars>>

setSearch ==
    /\ Event
    /\ \E q \in (Names \cup {NoQuery}) \ {search} : search' = q
    /\ UNCHANGED <<traceVars, wanted, collapse, errorsOnly, zoomVars>>

setErrorsOnly ==
    /\ Event
    /\ errorsOnly' = ~errorsOnly
    /\ UNCHANGED <<traceVars, wanted, collapse, search, zoomVars>>

(***************************************************************************)
(* useTraceRangeSelection: dragging over the overview.  The pointer is     *)
(* captured, so it may leave the overview on either side.                  *)
(***************************************************************************)
Clamp(x, lo, hi) == Max({lo, Min({hi, x})})

\* Math.round of a fraction.
toStep(x) == Clamp((2 * Steps * x + Width) \div (2 * Width), 0, Steps)

\* Bug: a drag that ends where it began, at the right edge, is beyond it.
rangeOfUncapped(startX, x) ==
    LET anchor == toStep(startX)
        current == toStep(x)
        lower == Min({anchor, current})
    IN  <<lower, Max({lower + 1, anchor, current})>>

rangeOf(startX, x) ==
    LET anchor == toStep(startX)
        current == toStep(x)
        lower == Min({Steps - 1, anchor, current})
    IN  <<lower, Max({lower + 1, anchor, current})>>

Moved(x) == drag.started \/ x - drag.startX >= 3 \/ drag.startX - x >= 3

updateSelection(x) == range' = IF Moved(x) THEN rangeOf(drag.startX, x) ELSE range

pointerDown ==
    /\ Event /\ drag = NoDrag
    /\ \E x \in 0..Width :
          drag' = [pointer |-> 1, startX |-> x, started |-> FALSE]
    /\ UNCHANGED <<traceVars, treeVars, range>>

pointerMove ==
    /\ Event /\ drag # NoDrag
    /\ \E x \in -1..Width + 1 :
          /\ updateSelection(x)
          /\ drag' = [drag EXCEPT !.started = Moved(x)]
    /\ UNCHANGED <<traceVars, treeVars>>

pointerUp ==
    /\ Event /\ drag # NoDrag
    /\ \E x \in -1..Width + 1 : updateSelection(x)
    /\ drag' = NoDrag
    /\ UNCHANGED <<traceVars, treeVars>>

pointerCancel ==
    /\ Event /\ drag # NoDrag
    /\ drag' = NoDrag
    /\ UNCHANGED <<traceVars, treeVars, range>>

doubleClick ==
    /\ Event /\ drag = NoDrag
    /\ range' = <<0, Steps>>
    /\ UNCHANGED <<traceVars, treeVars, drag>>

\* The slider keeps its thumbs apart by minStepsBetweenValues.
moveThumb ==
    /\ Event /\ drag = NoDrag
    /\ \E v \in Stops :
          \/ v + 1 <= range[2] /\ range' = <<v, range[2]>>
          \/ range[1] + 1 <= v /\ range' = <<range[1], v>>
    /\ UNCHANGED <<traceVars, treeVars, drag>>

Next ==
    \/ \E s \in Spans : Commit(s) \/ Sweep(trace[s].start + 1)
    \/ Deliver \/ replaceSpans
    \/ openTrace \/ selectSpan \/ followRoute \/ closeSpan
    \/ toggleSpan \/ collapseAll \/ setSearch \/ setErrorsOnly
    \/ pointerDown \/ pointerMove \/ pointerUp \/ pointerCancel
    \/ doubleClick \/ moveThumb

Spec == Init /\ [][Next]_vars

(***************************************************************************)
(* The bars, in thousandths of a nanosecond.                               *)
(***************************************************************************)
traceTimeline ==
    LET first == Min({trace[s].start : s \in spans})
        last == Max({SpanEnd(s) : s \in spans} \cup {first})
        own == summary.duration <= 0 /\ spans # {}
    IN  [start |-> IF own THEN first ELSE summary.start,
         duration |-> Max({1, IF own THEN last - first ELSE summary.duration})]

viewStart == traceTimeline.duration * range[1]
viewEnd == traceTimeline.duration * range[2]
viewDuration == Max({Steps, viewEnd - viewStart})

toNsOffset(s) == Steps * (trace[s].start - traceTimeline.start)
offsetEnd(s) == toNsOffset(s) + Steps * Max({0, trace[s].duration})

intersects(s) == offsetEnd(s) >= viewStart /\ toNsOffset(s) <= viewEnd

barStart(s) == Clamp(toNsOffset(s) - viewStart, 0, viewDuration)

barLength(s) ==
    Max({0, Min({viewDuration - barStart(s),
                 Min({offsetEnd(s), viewEnd}) - Max({toNsOffset(s), viewStart})})})

\* What the timeline column draws: a bar for each row that is in view.
Bars ==
    [s \in {r \in {f.span : f \in ToSet(Rows)} : intersects(r)} |->
        [start |-> barStart(s), length |-> barLength(s)]]

(***************************************************************************)
(* Properties.                                                             *)
(***************************************************************************)

\* What is above a span of a trace, of those that are there: it is in every
\* set that has the span and, with a span, its parent.
Lines(t, here) ==
    LET closed == {S \in SUBSET here : \A u \in S : t[u].parent \in here => t[u].parent \in S}
    IN  [s \in here |-> {u \in here : \A S \in closed : s \in S => u \in S}]

\* A line ends at a root, unless the parents go round in a circle.
Rooted(lines) == {s \in spans : \E r \in lines[s] : trace[r].parent \notin spans}

Expected(lines) ==
    IF Filtering THEN {s \in Rooted(lines) : \E m \in spans : Hit(m) /\ s \in lines[m]}
    ELSE {s \in Rooted(lines) : (lines[s] \ {s}) \cap collapse.collapsed = {}}

\* The rows of the waterfall are the tree: every span that hangs below a root,
\* also one whose parent has not arrived, exactly once, except below collapsed
\* branches, or, while the span search or "Errors only" is on, exactly the
\* matches with all their ancestors; each below its own parent, one deeper,
\* and siblings by start time (buildTree, matchingSpanIds, visibleSpans).
RowsAreTheTree ==
    LET rows == Rows
        lines == Lines(trace, spans)
        expected == Expected(lines)
        parent(i) == trace[rows[i].span].parent
    IN  /\ {f.span : f \in ToSet(rows)} = expected
        /\ Len(rows) = Cardinality(expected)
        /\ \A i \in DOMAIN rows :
              /\ rows[i].depth = Cardinality(lines[rows[i].span]) - 1
              /\ parent(i) \in spans =>
                    \E k \in 1..i - 1 :
                       /\ rows[k].span = parent(i)
                       /\ \A j \in k + 1 .. i : rows[j].depth > rows[k].depth
              /\ \A j \in 1..i - 1 :
                    parent(j) = parent(i) =>
                        trace[rows[j].span].start <= trace[rows[i].span].start

\* Whenever the waterfall gets another selected span (a click, a link, or the
\* arrival of the spans it waited for), no branch above that span stays
\* collapsed, whatever the user had collapsed before: by RowsAreTheTree its row
\* is then on screen unless a filter leaves it out (spanPath, WaterfallInner).
SelectionRevealed ==
    [][LET now == collapse'.selectedId
       IN  (now # collapse.selectedId /\ now # NoSpan) =>
               (Lines(trace', spans')[now] \ {now}) \cap collapse'.collapsed = {}]_vars

\* The range of the summary has the whole of a span.
Covers(s) == summary.start <= trace[s].start /\ SpanEnd(s) <= summary.start + summary.duration

\* The zoom is never empty or outside the trace, whatever the pointers do; the
\* bar of a row is drawn exactly when some of it is inside the zoom and covers
\* exactly that part; with the whole trace in view no row that the summary's
\* range has is without a bar; and a summary that was merged with one of the
\* spans that are there has them all, unless the server deleted some
\* (updateSelection, traceTimeline, the bars, mergeTrace).
ZoomShowsTheSpans ==
    /\ 0 <= range[1] /\ range[1] < range[2] /\ range[2] <= Steps
    /\ LET rows == {f.span : f \in ToSet(Rows)}
           bars == Bars
       IN  \A s \in rows :
             LET low == Max({toNsOffset(s), viewStart})
                 high == Min({offsetEnd(s), viewEnd})
             IN  /\ s \in DOMAIN bars <=> low <= high
                 /\ s \in DOMAIN bars =>
                       /\ bars[s] = [start |-> low - viewStart, length |-> high - low]
                       /\ high - viewStart <= viewDuration
                 /\ range = <<0, Steps>> /\ Covers(s) => s \in DOMAIN bars
                 /\ ~swept /\ summary = mergeTrace(summary, SummaryOf(trace, spans))
                       => Covers(s)
====
