---- MODULE SignalStore ----
(***************************************************************************)
(* What the writer goroutine of internal/storage does to the database:     *)
(* the tables, the in-writer resource cache, the transactions, and what is *)
(* left behind when a statement fails or the process dies between two of   *)
(* them.  The messages come from WritePipeline, one at a time; here they   *)
(* are chosen freely.  One action is one autocommitted statement, or one   *)
(* transaction.                                                            *)
(*                                                                         *)
(* Rows keep what the properties tell apart.  A span row is                *)
(*   [trace, id, root, start, end, error, links, res]                      *)
(* (root: parent_span_id is empty; links: how many; res: resource_hash), a *)
(* stored span adds ingested.  A log is [ts, res], a metric point          *)
(* [series, ts, layout].  Instants are nanoseconds; exemplars follow their *)
(* point and histogram layouts stand for their hash.                       *)
(***************************************************************************)
EXTENDS Integers, Sequences, FiniteSets, Functions, SequencesExt

CONSTANTS
    TraceBatches,     \* records [resources, spans], two sequences
    LogBatches,       \* records [resources, logs], a sequence and a set
    MetricBatches,    \* records [resources, series, points]: a sequence, a
                      \* function from series to resource, a set
    NoLayout,         \* the NULL histogram_layout_hash
    MaxSpansPerTrace, \* maxSpansPerTrace (10,000 in the code)
    CacheCap,         \* resourceCacheCap (10,000)
    Retention,        \* Options.Retention
    Day,              \* the nanoseconds in a day
    Micro,            \* the nanoseconds in a microsecond (1,000)
    Horizon,          \* the nanoseconds an int64 reaches (2^63)
    FileBacked,       \* Options.Path is not empty
    MaxTrims,         \* maxSizeSweepIterations (60)
    Faults,           \* what may fail, among write, sweep, clear, crash
    MaxTime,          \* bound on the clock
    MaxOps            \* bound on the messages processed

ASSUME StoreAssumption ==
    /\ MaxSpansPerTrace \in Nat \ {0}
    /\ CacheCap \in Nat \ {0}
    /\ Retention \in Nat \ {0}
    /\ Day \in Nat \ {0} /\ Micro \in Nat \ {0} /\ Horizon \in Nat \ {0}
    /\ MaxTrims \in Nat \ {0}
    /\ MaxTime \in Nat /\ MaxOps \in Nat
    /\ FileBacked \in BOOLEAN
    /\ Faults \subseteq {"write", "sweep", "clear", "crash"}

Instants == -Horizon..(Horizon - 1)

\* Rows come in slices, times are AsTime of an OTLP timestamp, span ids are
\* ranked, and the hash of a resource is never NULL.  A duration fits a
\* time.Duration: beyond that Sub saturates, which the SQL does not.
ASSUME BatchTypes ==
    /\ \A b \in TraceBatches :
          /\ DOMAIN b = {"resources", "spans"}
          /\ b.resources \in Seq(ToSet(b.resources)) /\ b.spans \in Seq(ToSet(b.spans))
          /\ \A r \in ToSet(b.spans) :
                /\ r.start \in Instants /\ r.end \in Instants /\ r.end - r.start \in Instants
                /\ r.id \in Nat /\ r.links \in Nat
                /\ r.root \in BOOLEAN /\ r.error \in BOOLEAN /\ r.res # NoLayout
    /\ \A b \in LogBatches :
          b.resources \in Seq(ToSet(b.resources)) /\ \A l \in b.logs : l.ts \in Instants
    /\ \A b \in MetricBatches :
          b.resources \in Seq(ToSet(b.resources)) /\ \A p \in b.points : p.ts \in Instants

\* ConvertTraces, ConvertLogs and ConvertMetrics put the resource and the
\* series of every row they make into the same batch.
ASSUME BatchAssumption ==
    /\ \A b \in TraceBatches : {r.res : r \in ToSet(b.spans)} \subseteq ToSet(b.resources)
    /\ \A b \in LogBatches : {l.res : l \in b.logs} \subseteq ToSet(b.resources)
    /\ \A b \in MetricBatches :
          /\ Range(b.series) \subseteq ToSet(b.resources)
          /\ {p.series : p \in b.points} \subseteq DOMAIN b.series

VARIABLES
    now,        \* the clock
    resources,  \* resource hashes in table resources
    cache,      \* Storage.resourceCache, most recently used first
    spans,      \* table spans
    links,      \* <<trace, id>> of the spans with rows in span_links
    summaries,  \* table trace_summaries: a function from trace to row
    tombstones, \* table dropped_traces: a function from trace to last_seen
    rebuilt,    \* ghost: traces whose summary comes from a sweep's rebuild
    logs,       \* table logs
    points,     \* table metric_points
    series,     \* table metric_series: a function from series to resource
    layouts,    \* table histogram_layouts
    pc,         \* where the writer is in the message it processes
    batch,      \* the batch in hand
    todo,       \* resources of the batch still to upsert, tables to clear
    snapshot,   \* resources as BEGIN of the metric transaction found it
    trims,      \* day-trim iterations of this sweep
    ops,        \* ghost: messages begun, bounded by MaxOps
    torn        \* ghost: a clear was cut short, and none completed since

dims == <<resources, series, layouts>>
traceTables == <<spans, links, summaries, tombstones, rebuilt>>
facts == <<traceTables, logs, points>>
hand == <<batch, todo, snapshot>>
vars == <<now, dims, cache, facts, pc, hand, trims, ops, torn>>

Empty == <<>>  \* a function, or sequence, with an empty domain

Init ==
    /\ now = 0
    /\ resources = {} /\ cache = <<>> /\ series = Empty /\ layouts = {}
    /\ spans = {} /\ links = {} /\ summaries = Empty /\ tombstones = Empty
    /\ rebuilt = {}
    /\ logs = {} /\ points = {}
    /\ pc = "idle" /\ batch = Empty /\ todo = <<>> /\ snapshot = {}
    /\ trims = 0 /\ ops = 0
    /\ torn = FALSE

May(fault) == fault \in Faults

\* The writer is done with its message, or gives up on it.
Finish == pc' = "idle" /\ batch' = Empty /\ todo' = <<>> /\ snapshot' = {}

Begin ==
    /\ pc = "idle"
    /\ ops < MaxOps
    /\ ops' = ops + 1

Tick ==
    /\ now < MaxTime
    /\ now' = now + 1
    /\ UNCHANGED <<dims, cache, facts, pc, hand, trims, ops, torn>>

----
(* lruSet                                                                  *)

\* Contains moves a hit to the front.
Touch(c, r) == <<r>> \o RemoveAt(c, CHOOSE i \in DOMAIN c : c[i] = r)

\* Add evicts the least recently used key beyond the capacity.
CacheAdd(c, r) ==
    IF Len(c) < CacheCap THEN <<r>> \o c ELSE <<r>> \o SubSeq(c, 1, CacheCap - 1)

----
(* upsertResources, one resource at a time                                 *)

BeginBatch(b, kind) ==
    /\ Begin
    /\ pc' = kind
    /\ batch' = b
    /\ todo' = b.resources
    /\ snapshot' = resources
    /\ UNCHANGED <<now, dims, cache, facts, trims, torn>>

BeginTraces == \E b \in TraceBatches : BeginBatch(b, "traces")
BeginLogs == \E b \in LogBatches : BeginBatch(b, "logs")
BeginMetrics == \E b \in MetricBatches : BeginBatch(b, "metrics")

UpsertResource ==
    /\ pc \in {"traces", "logs", "metrics"}
    /\ todo # <<>>
    /\ todo' = Tail(todo)
    /\ IF Contains(cache, Head(todo))
       THEN /\ cache' = Touch(cache, Head(todo))
            /\ UNCHANGED resources
       ELSE /\ cache' = CacheAdd(cache, Head(todo))
            /\ resources' = resources \cup {Head(todo)}
    /\ UNCHANGED <<now, series, layouts, facts, pc, batch, snapshot, trims,
                   ops, torn>>

\* A failed statement of upsertResources or writeTraces ends the write; what
\* was committed before it stays, an open trace transaction is rolled back.
WriteFails ==
    /\ May("write")
    /\ pc \in {"traces", "logs", "spans"}
    /\ Finish
    /\ UNCHANGED <<now, dims, cache, facts, trims, ops, torn>>

----
(* writeMetrics: one transaction around the dimensions and the points      *)

RollbackMetrics ==
    /\ May("write")
    /\ pc = "metrics"
    /\ resources' = snapshot
    /\ cache' = <<>>
    /\ Finish
    /\ UNCHANGED <<now, series, layouts, facts, trims, ops, torn>>

\* upsertSeries, upsertHistogramLayouts, the points, COMMIT.  A batch with no
\* points commits its dimensions all the same.
CommitMetrics ==
    /\ pc = "metrics"
    /\ todo = <<>>
    /\ series' = [s \in DOMAIN series \cup DOMAIN batch.series |->
                    IF s \in DOMAIN series THEN series[s] ELSE batch.series[s]]
    /\ layouts' = layouts \cup ({p.layout : p \in batch.points} \ {NoLayout})
    /\ points' = points \cup batch.points
    /\ Finish
    /\ UNCHANGED <<now, resources, cache, traceTables, logs, trims, ops, torn>>

----
(* writeLogs                                                               *)

AppendLogs ==
    /\ pc = "logs"
    /\ todo = <<>>
    /\ logs' = logs \cup batch.logs
    /\ Finish
    /\ UNCHANGED <<now, dims, cache, traceTables, points, trims, ops, torn>>

\* No transaction: the deferred Close of the appender may still flush the
\* rows that were appended before the one that failed.
AppendLogsFails ==
    /\ May("write")
    /\ pc = "logs"
    /\ todo = <<>>
    /\ \E part \in SUBSET batch.logs : logs' = logs \cup part
    /\ Finish
    /\ UNCHANGED <<now, dims, cache, traceTables, points, trims, ops, torn>>

----
(* writeTraces                                                             *)

TracesOf(rows) == {r.trace : r \in ToSet(rows)}

Refresh(f, hit) == [t \in DOMAIN f |-> IF t \in hit THEN now ELSE f[t]]

\* The loop that keeps the rows at the indices I.
RowsAt(rows, I) ==
    LET upTo[n \in 0..Len(rows)] ==
            IF n = 0 THEN <<>>
            ELSE IF n \in I THEN Append(upTo[n - 1], rows[n])
            ELSE upTo[n - 1]
    IN  upTo[Len(rows)]

\* Bug: the rows of a tombstoned trace are kept.
DiscardNone(rows, hit) == rows

Discard(rows, hit) == RowsAt(rows, {i \in DOMAIN rows : rows[i].trace \notin hit})

\* filterDroppedTraceRows: the tombstones the batch hits are refreshed (its
\* own autocommitted UPDATE) and their rows discarded.
FilterDropped ==
    LET hit == TracesOf(batch.spans) \cap DOMAIN tombstones
        kept == Discard(batch.spans, hit)
    IN  /\ pc = "traces"
        /\ todo = <<>>
        /\ tombstones' = Refresh(tombstones, hit)
        /\ IF kept = <<>>
           THEN Finish
           ELSE /\ pc' = "spans"
                /\ batch' = [batch EXCEPT !.spans = kept]
                /\ UNCHANGED <<todo, snapshot>>
        /\ UNCHANGED <<now, dims, cache, spans, links, summaries, rebuilt, logs,
                       points, trims, ops, torn>>

KeysOf(S) == {<<s.trace, s.id>> : s \in S}
SpansOf(S, t) == {s \in S : s.trace = t}

Key(r) == <<r.trace, r.id>>

\* Only traces that have a summary are looked up.
AlreadyStored(r) == r.trace \in DOMAIN summaries /\ Key(r) \in KeysOf(spans)

\* Bug: duplicates within the batch are not filtered.
NewSpansAcross(rows) == RowsAt(rows, {i \in DOMAIN rows : ~AlreadyStored(rows[i])})

\* filterNewSpans: rows that are neither stored nor repeated in the batch, in
\* batch order.
NewSpans(rows) ==
    RowsAt(rows, {i \in DOMAIN rows :
                    /\ ~AlreadyStored(rows[i])
                    /\ \A j \in 1..(i - 1) : Key(rows[j]) # Key(rows[i])})

NoRoot == [id |-> 0, start |-> 0, end |-> 0, res |-> NoLayout]
NoSummary == [start |-> 0, end |-> 0, count |-> 0, links |-> 0, error |-> FALSE,
              firstSeen |-> 0, root |-> NoRoot, earliest |-> NoRoot]

RootOf(r) == [id |-> r.id, start |-> r.start, end |-> r.end, res |-> r.res]

\* Bug: equal durations go to whichever root arrives last.
PreferRootLatest(sum, r) ==
    \/ sum.root = NoRoot
    \/ r.end - r.start >= sum.root.end - sum.root.start

\* traceSummaryState.preferRoot: the longest root to the nanosecond, then the
\* smallest id.
PreferRoot(sum, r) ==
    LET old == sum.root.end - sum.root.start
    IN  \/ sum.root = NoRoot
        \/ r.end - r.start > old
        \/ r.end - r.start = old /\ r.id < sum.root.id

Least(a, b) == IF a < b THEN a ELSE b
Greatest(a, b) == IF a > b THEN a ELSE b

\* traceSummaryState.mergeSpan
MergeSpan(sum, r) ==
    LET first == sum.count = 0
        earlier == \/ first
                   \/ r.start < sum.start
                   \/ r.start = sum.start /\ r.id < sum.earliest.id
    IN  [ start     |-> IF first THEN r.start ELSE Least(r.start, sum.start),
          end       |-> IF first THEN r.end ELSE Greatest(r.end, sum.end),
          count     |-> sum.count + 1,
          links     |-> sum.links + r.links,
          error     |-> sum.error \/ r.error,
          firstSeen |-> IF first THEN now ELSE Least(now, sum.firstSeen),
          root      |-> IF r.root /\ PreferRoot(sum, r) THEN RootOf(r) ELSE sum.root,
          earliest  |-> IF earlier THEN RootOf(r) ELSE sum.earliest ]

\* mergeTraceSummaryStates, for one trace: the loop merges its rows in order.
Merged(t, rows) ==
    LET upTo[n \in 0..Len(rows)] ==
            IF n = 0 THEN IF t \in DOMAIN summaries THEN summaries[t] ELSE NoSummary
            ELSE IF rows[n].trace = t THEN MergeSpan(upTo[n - 1], rows[n])
            ELSE upTo[n - 1]
    IN  upTo[Len(rows)]

\* The service name shown for a trace: COALESCE of its root's resource and
\* its earliest span's.  A NULL fails the scan, and with it the transaction.
ServiceKnown(sum) ==
    \/ sum.root # NoRoot /\ sum.root.res \in resources
    \/ sum.earliest.res \in resources

Stored(r) == [trace |-> r.trace, id |-> r.id, root |-> r.root, start |-> r.start,
              end |-> r.end, error |-> r.error, links |-> r.links, res |-> r.res,
              ingested |-> now]

\* writeTraceRowsTransaction: deduplicate, append, merge the summaries, drop
\* and tombstone the traces that outgrew the limit, read the summaries back.
WriteSpans ==
    LET new == NewSpans(batch.spans)
        touched == TracesOf(new)
        sum(t) == Merged(t, new)
        over == {t \in touched : sum(t).count > MaxSpansPerTrace}
        kept == touched \ over
        added == {Stored(r) : r \in ToSet(new)}
        ids == KeysOf({s \in added : s.links > 0})
        drop(f) == [t \in DOMAIN f \cup over |-> IF t \in over THEN now ELSE f[t]]
    IN  /\ pc = "spans"
        /\ \A t \in kept : ServiceKnown(sum(t))
        /\ spans' = {s \in spans \cup added : s.trace \notin over}
        /\ links' = {l \in links \cup ids : l[1] \notin over}
        /\ summaries' = [t \in (DOMAIN summaries \cup kept) \ over |->
                            IF t \in kept THEN sum(t) ELSE summaries[t]]
        /\ tombstones' = drop(tombstones)
        /\ rebuilt' = rebuilt \ over
        /\ Finish
        /\ UNCHANGED <<now, dims, cache, logs, points, trims, ops, torn>>

\* The read-back meets a trace whose service is NULL: nothing is stored.
WriteSpansFails ==
    /\ pc = "spans"
    /\ \E t \in TracesOf(NewSpans(batch.spans)) :
          LET sum == Merged(t, NewSpans(batch.spans))
          IN  sum.count <= MaxSpansPerTrace /\ ~ServiceKnown(sum)
    /\ Finish
    /\ UNCHANGED <<now, dims, cache, facts, trims, ops, torn>>

----
(* performSweep                                                            *)

\* The first row of each span: the QUALIFY of rebuildTraceSummariesQuery.
Deduped(S) ==
    {s \in S : \A o \in S : o.id = s.id => s.ingested <= o.ingested}

\* The cast from TIMESTAMP_NS to TIMESTAMP, which knows microseconds only.
Truncated(t) == t - (t % Micro)

\* end_ts - start_ts in SQL: an INTERVAL.
Interval(s) == Truncated(s.end) - Truncated(s.start)

\* The orders of the root and of the earliest candidates.
LongerInterval(s, o) ==
    \/ Interval(s) > Interval(o)
    \/ Interval(s) = Interval(o) /\ s.id < o.id

Earlier(s, o) ==
    \/ s.start < o.start
    \/ s.start = o.start /\ s.id < o.id

\* The row of S that the window's ORDER BY puts first.
First(S, before(_, _)) == CHOOSE s \in S : \A o \in S \ {s} : before(s, o)

\* Roots are the spans without a parent.
Roots(S) == {s \in S : s.root}

RootBy(S, before(_, _)) ==
    IF Roots(S) = {} THEN NoRoot ELSE RootOf(First(Roots(S), before))

\* rebuildTraceSummariesQuery: the summary of one trace with spans S.
Rebuild(S) ==
    LET rows == Deduped(S)
    IN  [ start     |-> Min({s.start : s \in rows}),
          end       |-> Max({s.end : s \in rows}),
          count     |-> Cardinality(rows),
          links     |-> MapThenSumSet(LAMBDA s : s.links, rows),
          error     |-> \E s \in rows : s.error,
          firstSeen |-> Min({s.ingested : s \in rows}),
          root      |-> RootBy(rows, LongerInterval),
          earliest  |-> RootOf(First(rows, Earlier)) ]

TracesIn(S) == {s.trace : s \in S}

LinksLeft(old) == links \ KeysOf(old)

\* deleteFactsBefore, one transaction: the facts and tombstones older than
\* the cutoff; the summaries of the traces that lost a span are rebuilt.
DeleteFactsBefore(cutoff) ==
    LET old == {s \in spans : s.start < cutoff}
        left == spans \ old
        affected == TracesIn(old)
    IN  /\ spans' = left
        /\ links' = LinksLeft(old)
        /\ summaries' = [t \in (DOMAIN summaries \ affected) \cup (affected \cap TracesIn(left)) |->
                            IF t \in affected THEN Rebuild(SpansOf(left, t)) ELSE summaries[t]]
        /\ rebuilt' = (rebuilt \cup affected) \cap DOMAIN summaries'
        /\ points' = {p \in points : p.ts >= cutoff}
        /\ logs' = {l \in logs : l.ts >= cutoff}
        /\ tombstones' = Restrict(tombstones, {t \in DOMAIN tombstones : tombstones[t] >= cutoff})

BeginSweep ==
    /\ Begin
    /\ pc' = "expire"
    /\ trims' = 0
    /\ UNCHANGED <<now, dims, cache, facts, hand, torn>>

Expire ==
    /\ pc = "expire"
    /\ DeleteFactsBefore(now - Retention)
    /\ pc' = "series"
    /\ UNCHANGED <<now, dims, cache, hand, trims, ops, torn>>

\* pruneDimensions: one autocommitted DELETE after the other.
PruneSeries ==
    /\ pc = "series"
    /\ series' = Restrict(series, DOMAIN series \cap {p.series : p \in points})
    /\ pc' = "layouts"
    /\ UNCHANGED <<now, resources, layouts, cache, facts, hand, trims, ops, torn>>

LayoutsUsed == {p.layout : p \in points}

LayoutsLeft == layouts \cap LayoutsUsed

PruneLayouts ==
    /\ pc = "layouts"
    /\ layouts' = LayoutsLeft
    /\ pc' = "resources"
    /\ UNCHANGED <<now, resources, series, cache, facts, hand, trims, ops, torn>>

\* Bug: a resource that only logs refer to is pruned.
ResourcesUsedByTracesAndMetrics == {s.res : s \in spans} \cup Range(series)

ResourcesUsed == {s.res : s \in spans} \cup {l.res : l \in logs} \cup Range(series)

PruneResources ==
    /\ pc = "resources"
    /\ resources' = resources \cap ResourcesUsed
    /\ cache' = <<>>
    /\ pc' = "checkpoint"
    /\ UNCHANGED <<now, series, layouts, facts, hand, trims, ops, torn>>

\* After the CHECKPOINT the retention pass is over; a file-backed database
\* goes on to enforceMaxSize, whose last iteration returns.
SweepCheckpoint ==
    /\ pc = "checkpoint"
    /\ IF FileBacked /\ trims < MaxTrims
       THEN pc' = "size" /\ UNCHANGED hand
       ELSE Finish
    /\ UNCHANGED <<now, dims, cache, facts, trims, ops, torn>>

FactTimes == {s.start : s \in spans} \cup {p.ts : p \in points} \cup {l.ts : l \in logs}

\* enforceMaxSize finds the file small enough (its size is not modelled), or
\* nothing left to trim.
UnderMaxSize ==
    /\ pc = "size"
    /\ Finish
    /\ UNCHANGED <<now, dims, cache, facts, trims, ops, torn>>

\* Bug: the cutoff is the oldest fact itself, which is not before it.
TrimCutoffAtOldest == Min(FactTimes)

\* The oldest fact and the day after it.
TrimCutoff == Min(FactTimes) + Day

TrimDay ==
    /\ pc = "size"
    /\ FactTimes # {}
    /\ DeleteFactsBefore(TrimCutoff)
    /\ trims' = trims + 1
    /\ pc' = "series"
    /\ UNCHANGED <<now, dims, cache, hand, ops, torn>>

Sweeping == {"expire", "series", "layouts", "resources", "checkpoint", "size"}

\* A statement of the sweep fails: deleteFactsBefore rolls back, what was
\* done before it stays.
SweepFails ==
    /\ May("sweep")
    /\ pc \in Sweeping
    /\ Finish
    /\ UNCHANGED <<now, dims, cache, facts, trims, ops, torn>>

----
(* performClear                                                            *)

Tables ==
    << "span_links", "spans", "trace_summaries", "metric_exemplars", "metric_points",
       "logs", "metric_series", "histogram_layouts", "resources", "dropped_traces" >>

BeginClear ==
    /\ Begin
    /\ pc' = "clear"
    /\ todo' = Tables
    /\ UNCHANGED <<now, dims, cache, facts, batch, snapshot, trims, torn>>

\* DELETE FROM the next table, autocommitted.
ClearTable ==
    LET emptied(table, old, none) == IF Head(todo) = table THEN none ELSE old
    IN  /\ pc = "clear"
        /\ todo # <<>>
        /\ todo' = Tail(todo)
        /\ links' = emptied("span_links", links, {})
        /\ spans' = emptied("spans", spans, {})
        /\ summaries' = emptied("trace_summaries", summaries, Empty)
        /\ rebuilt' = emptied("trace_summaries", rebuilt, {})
        /\ points' = emptied("metric_points", points, {})
        /\ logs' = emptied("logs", logs, {})
        /\ series' = emptied("metric_series", series, Empty)
        /\ layouts' = emptied("histogram_layouts", layouts, {})
        /\ resources' = emptied("resources", resources, {})
        /\ tombstones' = emptied("dropped_traces", tombstones, Empty)
        /\ UNCHANGED <<now, cache, pc, batch, snapshot, trims, ops, torn>>

\* CHECKPOINT and the cache reset.
ClearCheckpoint ==
    /\ pc = "clear"
    /\ todo = <<>>
    /\ cache' = <<>>
    /\ torn' = FALSE
    /\ Finish
    /\ UNCHANGED <<now, dims, facts, trims, ops>>

\* A DELETE or the CHECKPOINT fails: the rest is skipped, the reset included.
ClearFails ==
    /\ May("clear")
    /\ pc = "clear"
    /\ torn' = TRUE
    /\ Finish
    /\ UNCHANGED <<now, dims, cache, facts, trims, ops>>

----
\* The process dies and the file is opened again: the WAL holds what was
\* committed, the cache starts empty.  An interrupted clear is a clear fault.
Restart ==
    /\ May("crash")
    /\ FileBacked
    /\ pc = "clear" => May("clear")
    /\ cache' = <<>>
    /\ torn' = (torn \/ pc = "clear")
    /\ resources' = IF pc = "metrics" THEN snapshot ELSE resources
    /\ Finish
    /\ UNCHANGED <<now, series, layouts, facts, trims, ops>>

Next ==
    \/ Tick
    \/ BeginTraces \/ BeginLogs \/ BeginMetrics \/ UpsertResource \/ WriteFails
    \/ RollbackMetrics \/ CommitMetrics
    \/ AppendLogs \/ AppendLogsFails
    \/ FilterDropped \/ WriteSpans \/ WriteSpansFails
    \/ BeginSweep \/ Expire \/ PruneSeries \/ PruneLayouts \/ PruneResources
    \/ SweepCheckpoint \/ UnderMaxSize \/ TrimDay \/ SweepFails
    \/ BeginClear \/ ClearTable \/ ClearCheckpoint \/ ClearFails
    \/ Restart

Spec == Init /\ [][Next]_vars

----
(* Properties                                                              *)

Duration(s) == s.end - s.start

\* The order of preferRoot.
Longer(s, o) ==
    \/ Duration(s) > Duration(o)
    \/ Duration(s) = Duration(o) /\ s.id < o.id

\* The roots that only two truncations can prefer to the longest one.
NearlyLongest(S) ==
    {s \in Roots(S) : \A o \in Roots(S) : Duration(o) - Duration(s) < 2 * Micro}

\* The root of a summary, which is a copy of the columns of a span: once a
\* sweep has rebuilt it, it is the longest only up to the truncations.
RootRight(S, root, exact) ==
    IF Roots(S) = {} THEN root = NoRoot
    ELSE /\ root \in {RootOf(s) : s \in NearlyLongest(S)}
         /\ exact => root = RootBy(S, Longer)

\* trace_summaries, kept up to date by merging each batch in Go, is what
\* rebuildTraceSummariesQuery would compute from the spans, but for the root:
\* the two order roots by different clocks.
SummaryMatchesSpans ==
    /\ DOMAIN summaries = TracesIn(spans)
    /\ \A t \in DOMAIN summaries :
          LET S == SpansOf(spans, t)
          IN  /\ summaries[t] = [Rebuild(S) EXCEPT !.root = summaries[t].root]
              /\ RootRight(S, summaries[t].root, t \notin rebuilt)

\* span_links holds the links of the stored spans, and of no other.
LinksMatchSpans == links = KeysOf({s \in spans : s.links > 0})

\* The tables derived from the spans agree with them, whatever the order of
\* batches, resends, sweeps, trims, failures and restarts; only while a clear
\* empties the tables one by one, or after one was cut short, may they differ.
\* The root is the longest to the nanosecond until a sweep takes a span of the
\* trace; from then on another root may be longer, by less than two
\* microseconds, and stay hidden behind it.
DerivedTablesMatch ==
    pc # "clear" /\ ~torn => SummaryMatchesSpans /\ LinksMatchSpans

\* filterNewSpans: a span that is sent again, in the same batch or in a later
\* one, before or after a restart or a clear cut short at any table, is stored
\* once.
NoDuplicateSpans ==
    \A s, o \in spans : s.trace = o.trace /\ s.id = o.id => s = o

\* writeTraces: while a trace has a tombstone nothing of it is stored.
TombstoneExcludes ==
    \A t \in DOMAIN tombstones :
        /\ SpansOf(spans, t) = {}
        /\ t \notin DOMAIN summaries
        /\ \A l \in links : l[1] # t

\* No row is without the dimension rows it joins to.
DimensionsExist ==
    /\ {s.res : s \in spans} \cup {l.res : l \in logs} \subseteq resources
    /\ Range(series) \subseteq resources
    /\ \A p \in points : /\ p.series \in DOMAIN series
                         /\ p.layout # NoLayout => p.layout \in layouts

\* A resource the cache vouches for is in the table.
CacheSound == pc # "clear" => ToSet(cache) \subseteq resources

\* pruneDimensions leaves, in one pass, no dimension row without a fact: the
\* series go first so that they release their resources.
NoOrphansAfterPrune ==
    pc = "checkpoint" =>
        /\ DOMAIN series = {p.series : p \in points}
        /\ layouts = LayoutsUsed \ {NoLayout}
        /\ resources = {s.res : s \in spans} \cup {l.res : l \in logs} \cup Range(series)

\* The dimension tables, the prune that empties them and the cache that
\* upsertResources trusts instead of reading them: in any state a reader or a
\* crash can find, half-way through a prune or a clear included, every row has
\* its dimensions, after a rollback, prune, clear or restart the cache vouches
\* for nothing that is not there, and a prune leaves nothing unused.  A clear
\* that was cut short is excepted: NoResourceSuppressed is about that.
DimensionsSound == ~torn => DimensionsExist /\ CacheSound /\ NoOrphansAfterPrune

\* Every iteration of enforceMaxSize deletes some fact: it cannot use up its
\* iterations on an empty day.
TrimDeletes ==
    [][pc = "size" /\ pc' = "series" =>
          FactTimes' # FactTimes /\ FactTimes' \subseteq FactTimes]_vars

\* The comment of performClear: it resets the cache so that a full wipe cannot
\* suppress a resource row that needs to be inserted again.
NoResourceSuppressed ==
    pc = "logs" /\ todo = <<>> => ToSet(batch.resources) \subseteq resources
====
