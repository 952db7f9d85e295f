# otelop in TLA+

otelop receives OpenTelemetry data, stores it in an embedded DuckDB, and shows
it in a browser that is fed live over a WebSocket. This directory holds TLA+
models of its stateful parts, the TLC configurations that check them, and
proofs for TLAPS. Paths below are relative to `src/`.

Run a check with `tlc -config X.cfg M`, a proof with `tlapm M.tla`.

## 1. Inventory

| Part | Source | State | Operations |
|---|---|---|---|
| write pipeline | `internal/storage/storage.go` | write queue, commit queue, `mu`/`closed`, the `pending` job of `runCommits` | `AddTraces/Metrics/Logs`, `Sync`, `Sweep`, `Clear`, `Close`, sweep loop, writer, delivery goroutine |
| writer and tables | `storage.go`, `trace_summary.go`, `span_links.go`, `lru.go` | ten tables, `resourceCache` | `writeTraces`, `writeMetrics`, `writeLogs` |
| retention, trim, clear | `storage.go` | the same tables, the clock | `performSweep`, `deleteFactsBefore`, `pruneDimensions`, `enforceMaxSize`, `performClear` |
| schema, conversion, queries | rest of `internal/storage` | none of their own | DDL at `Open`; pure conversion; read-only SQL |
| daemon control | `internal/daemon`, `cmd/otelop/{start,stop,restart,status}.go` | metadata file, its flock, the ready pipe, processes | start, stop, restart, status, the daemon child |
| broadcast | `internal/broadcast` | none | turns commit events into WebSocket messages; skips all when nobody listens |
| hub and clients | `internal/websocket`, `internal/server/handler_ws.go` | client set, broadcast queue, a send buffer per client | `Run`, `Register`, `Unregister`, `Broadcast`, the pumps |
| runtime | `internal/runtime` | `ready`, the component handles, the root context | `Start`, `Shutdown` |
| collector, exporter | `internal/collector`, `internal/exporter` | the OpenTelemetry collector | `ConsumeX` calls `Storage.AddX` |
| HTTP, GraphQL | `internal/server`, `internal/graphql` | none | queries, `clearSignals` |
| config, logger, self-telemetry, login startup, docs | the packages of that name | none at run time | read flags, write unit files |
| browser: connection | `frontend/src/lib/websocket-manager.ts`, `hooks/use-telemetry-query-updates.ts`, `hooks/use-span-links.ts` | socket, subscribers, back-off and refresh timers, query cache | subscribe, connect, reconnect, refresh, poll |
| browser: traces | `stores/telemetry.ts`, `hooks/use-websocket.ts`, `use-signal-list-page.ts`, `use-trace-*.ts`, `use-live-trace-search.ts` | bounded row buffer, cursor, ids the server vouched for, lookups in flight | apply deliveries and deletes, load pages, look up, search |
| browser: logs | `stores/telemetry.ts`, `stores/filters.ts`, `hooks/use-render-window.ts`, `use-load-older-rows.ts`, `lib/log-search.ts`, `lib/log-filter.ts` | buffer, anchor row of the window on screen, search text | deliver, page, Load more, Back to latest, search, filter editor |
| browser: metrics | `stores/telemetry.ts`, `hooks/use-metric-*.ts`, `lib/metric-*.ts`, `lib/chart-time-range.ts` | metric buffer, fetched ranges, debounced aggregates | deliver, initial load, open, window, breakdown |
| browser: open trace | `components/traces/span-tree.ts`, `span-waterfall.tsx`, `trace-*.ts*`, `use-trace-range-selection.ts` | collapsed branches, filters, selection, zoom, drag | the user's clicks and drags, arriving spans |
| browser: places | `router.tsx`, `App.tsx`, `hooks/use-signal-route.ts`, `lib/route-search.ts`, `lib/event-time-window.ts`, `components/filters` | URL, history, memory of each tab, search box, filter editor | navigate, Back, tabs, windows, filters |
| browser: rest | header, server info, suggestions, UI kit, formatting | last answer of a query | rendering |

How they interact. The exporter's goroutines call `Storage.AddX`, which tries
to send on the write queue. One writer goroutine takes messages off it and is
the only one to touch the database for writing. After each batch it hands a
commit event to the commit queue; the delivery goroutine coalesces metric
events and calls `broadcast.NewBatch`, which reads rows back and hands messages
to the hub; the hub copies them to every client's buffer. The periodic sweep,
`clearSignals` and tests send control messages through the same write queue.
`Runtime.Shutdown` stops collector, server and storage in that order and then
cancels the hub. The command line meets the daemon only through the metadata
file, the lock on it, the ready pipe and signals.

What is hard, and what makes each part correct:

* *Write pipeline.* Go channels that are closed while others send, a mutex held
  across a blocking send, a full queue at either end, a job read ahead and
  pushed back, contexts that end while their message is queued. Correct: no
  send on a closed channel, commit order, nothing dispatched is lost, Sync is a
  barrier for delivery, Close drains, nobody waits for ever.
* *Writer and tables.* Some writes are transactions and some are runs of
  autocommitted statements; a Go cache runs beside a table; a summary is merged
  incrementally in one place and rebuilt in SQL in another; producers resend.
  Correct: caches and summaries agree with the tables after every failure,
  crash and restart, spans are stored once, a dropped trace stays out.
* *Retention.* Dimension rows shared by three signals, NULL columns, cutoffs of
  two kinds. Correct: no dangling and no orphaned row, trims make progress.
* *Daemon.* Processes that share files and a lock, and die at any point.
  Correct: a running daemon can be found, a command always ends.
* *Hub and clients.* Three goroutines for each connection that must bring each
  other down, channels that are closed while others use them, bounded buffers,
  a hub that stops first. Correct: no use of a closed channel, no message lost
  but by a full buffer or for want of a JSON form, no dead client in the map.
* *Browser.* JavaScript runs one callback at a time, so what races is the order
  of callbacks: a delivery before or after the answer that already contains it,
  an answer to a question nobody asks any more, a timer that another delivery
  starts again, a reconnect between two messages, a click on a row that moves.
  Correct: one socket, and whoever shows old data has something under way that
  ends it; no row is lost between a page and the live stream, or shown after it
  was deleted; a search is answered for the newest state of every row; rows stay
  where the reader has them; a tab comes back as it was left; chart and tiles
  agree; the tree shows every span once.

## 2. The modules

### WritePipeline (with CommitStream, MCWritePipeline, WritePipelineProofs)

The goroutines of `storage.go` around the two channels. Actors: `Producers`
(AddX), `Controllers` (Sync, Sweep, Clear), the `SweepLoop`, `Closers`, the
writer and the delivery goroutine.

| Model | Code |
|---|---|
| `callerPc`, `call`, `gaveUp` | where a caller is in `enqueue`/`enqueueBlocking` and in its wait for the reply |
| `closerPc` | `Close`: lock, set `closed`, close the queue, two joins |
| `Readers`, `WriterPending` | `s.mu`, a `sync.RWMutex`: a waiting writer holds back later readers |
| `queue`, `cur`, `writerPc` | `s.queue`, the message in `run`, where `run` is |
| `commitCh`, `commitClosed` | `s.commitCh` |
| `jobs`, `pending`, `deliveryPc` | the batch and the pushed-back job of `runCommits` |
| `accepted`, `written`, `dispatched`, `delivered`, `answered`, `reached` | history: what passed each point |

A message is an id and a kind; ids are given in queue order. What the writer
does with a batch is one action with two outcomes, an event or none
(`DispatchCommit`, `WriteSilently`). A batch with a full commit queue loses its
event (`DropCommit`), a Sync marker waits instead (`SendBarrier`). `TakeJob`,
`Collect` and `StopCollecting` are the three ways the coalescing loop moves:
take one more metric job, push back another kind, or stop.

`CommitStream` says what the package promises without goroutines: batches wait
in order, each is processed once and yields at most one event, events are
delivered in order in runs of the allowed shape, and a closed store has nothing
left. `ImplementsCommitStream` is the refinement: the abstract buffer is the
writer's message followed by the queue, the abstract events are the batch, the
pushed-back job and the channel, control messages removed (`BatchesIn`).
`CommitStream` states its next-state relation and its fairness apart: `Safety`
is the part that is proved, `Spec` adds the progress that TLC checks.

### SignalStore (with MCSignalStore, SignalStoreProofs)

What the writer does for each message. One action is one autocommitted
statement or one transaction, so that a failure or a crash can come between any
two that the database separates. Tables are sets of rows, or functions when
they have a key; a row keeps the columns the properties tell apart. Times are
nanoseconds within an int64 (`Instants`), and `Day` and `Micro` say how many make
a day, on which the trim works, and a microsecond, below which an INTERVAL knows
no difference (item 14 of section 4). The ghost `rebuilt` names the traces whose
summary a sweep has rebuilt.
`BatchTypes` says what the converters hand over: rows with their fields, and
durations that fit an int64, beyond which Go's `Sub` saturates and SQL does not.
A filter over a batch is the rows at the positions it keeps (`RowsAt`).

| Model | Code |
|---|---|
| `BeginTraces`, `UpsertResource`, `WriteSpans` | `writeTraces`: resources one by one outside the transaction, `filterDroppedTraceRows`, then `writeTraceRowsTransaction` |
| `Refresh`, `Discard` | the tombstone refresh and the filter |
| `NewSpans`, `MergeSpan`, `Merged` | `filterNewSpans`, `mergeSpan`, `mergeTraceSummaryStates` |
| `Rebuild`, `Roots`, `RootBy`, `LongerInterval`, `Earlier`, `First` | the SQL of `rebuildTraceSummariesQuery`, stated as a definition over a set of spans; the two orders are those of its windows, and subtracting two TIMESTAMP_NS casts them to microseconds first (`Truncated`) |
| `BeginMetrics`, `UpsertResource`, `CommitMetrics`, `RollbackMetrics` | `writeMetrics`: one transaction; `snapshot` is what a rollback restores |
| `AppendLogs`, `AppendLogsFails` | `writeLogs`; an appender that fails may have flushed some rows |
| `BeginSweep` .. `SweepCheckpoint` | `performSweep`; `PruneSeries`, `PruneLayouts`, `PruneResources` are its three statements, `UnderMaxSize`/`TrimDay` the loop of `enforceMaxSize` |
| `BeginClear`, `ClearTable`, `ClearCheckpoint`, `ClearFails` | `performClear`, table by table |
| `Touch`, `CacheAdd` | `lruSet` |
| `Restart` | the process dies and `Open` runs again: tables stay, cache and work in hand are gone |

Whether the file is over its size limit is a free choice, since the model has
no bytes. The model goes wrong in every way `Faults` allows, and each run says
which.

### DaemonControl (with DaemonControlProofs)

The metadata path (`file`: which daemon's inode is there), the lock on each
inode (`holder`), the daemon processes (`child`) and the commands (`pc`). A
lock belongs to the inode that was opened, whatever has happened to the path.
`ReadMetadata`, `OpenProbe`, `ProbeLock`, `ProbeUnlock` are the four system
calls of `Running`; `WriteMetadata`, `OpenMetadata`, `LockMetadata`,
`RemoveThenUnlock`, `Exit` are `runServer` and its deferred calls. A daemon may
crash anywhere and a command may be refused, time out or fail to spawn.

### Hub (with SocketProofs)

`Run`, `handleWebSocket`, `ReadPump`, `WritePump` and `BroadcastContext`.
`register` and `unregister` are unbuffered, so `ReceiveRegister` and
`ReceiveUnregister` are one step of both sides; `AddClient` and `RemoveClient`
are what `Run` does next, and in between the handler already goes on. The
count that `BroadcastContext` reads is the size of the map, and the read and
the send after it are two steps. A message is its number in the broadcast
queue, which is what order and loss need; `unencodable` are those that
`json.Marshal` refuses (a gauge may be NaN), which `dispatch` gives to nobody
(`Addressees`). `WritePumpExit` may happen at any
time (a write or a ping times out) and must happen under `MustExit`.

### LiveSocket (with SocketProofs)

`WsManager` and the lists of span links that listen to it. A callback is an
action: `subscribe`, `unsubscribe`, `disconnect` (the tick after the last one
left), `onopen`, `onclose`, `Reconnect` (the back-off timer), `onmessage`,
`RefreshTimer`, `refetchInterval`. `log` is what the server committed, each
entry about the trace of the list or about the one at the other end of a link;
`wire` are the entries whose notification is on its way, and any of them may be
`Lost`: the commit queue, the hub's queue and the client's buffer drop what does
not fit, and a sweep or a trim announces nothing. `relevant` is the
callback that tells whether a message concerns a list: it knows the other end
only from the data it shows. The query cache (`fetch`, `answer`, `seen`) is the
external part: a `mount` joins a request in flight, which an earlier mount may
have left; invalidating restarts a request when there is data, and joins a first
one. `useTraceSpans` and `useSpanLink` are cases of the same: a list that
never gets a link, and a list of one.

### TraceList and TraceSearch (with TraceListProofs, SearchProofs)

`TraceList` is the buffer `tracesAtom` with its four writers, and the server
they hear from: `Commit` and `Exceeds` announce a change, and an announcement
may be lost (`Announce`: a full commit queue, hub queue or client buffer, or no
connection); `Sweep` takes spans or a tombstone away and announces nothing. The
history variables `unheard` and `swept` remember which traces that was. The
flush window
of `useWebSocket` (`onMessage`, `tick`, `dispatchQueue` with `dispatchItem` for
one message and `endRun` where the type changes and the cap cuts), pages
(`Ask`, `fetchPage`, `replaceTracePage`, `loadMore`, `appendTraces`), the lookup
of a selected trace (`askTrace`, `loadTrace`, `cacheTrace`) and its span
snapshots (`loadSpans`). A request is three steps: asked, answered at the
server, published. `TraceSearch` is the closure of `useLiveTraceSearch`:
`pending` with a version per id, one request at a time (`run`,
`matchingTraceIds`, `resolves`, `rejects`), the page that publishes a new set of
matches, and requests of a search that was left.

### Browse (with SearchProofs)

The URL as a record, the history as a sequence of places, the memory of each
tab. `Arrive` is `beforeLoad` of every route, which remembers the place; each
link, button and key is an action that goes through `navigate`. `Init` is any
shared URL. The filter editor and the search box keep state beside the URL and
are therefore variables.

### MetricSeries, MetricView (with MCMetricView, MetricViewProofs)

`MetricSeries` has the pure part: windows, buckets, breakdowns, colours, the
chart's series, the tiles, and `metricAggregate`, the server's SQL. `MetricView`
has the buffer, the initial load, and the open metric: the fetched range merged
with live points, the aggregate and distribution queries behind a trailing
debounce. `Render` is what a render of the detail does to keys and timers, and
every action ends with it.

### SearchTerms, LogList (with MCLogList, LogListProofs)

`SearchTerms` is the grammar (`tokenize`, `parseTerm`, `parseLogSearch`), the
printer (`serializeLogTerm`), the matcher (`createLogSearchMatcher`) and the
drafts of the filter editor. `LogList` is the logs tab over it: the buffer, the
time filter, pages, and the window of rows on screen, which `resolve` finds
again by its anchor row on every render (`Show`, `ShowLoaded`). The server
commits, delivers or drops (`Commit`, `addLogs`, `Drop`), sweeps (`Sweep`) and
answers pages (`InBounds`, `fetchPage`); a session's bounds come from the
browser's clock, any of `Clocks`, and a log may be ahead of it. A query goes
through the URL on its way (`navigate`). The history variable `unheard` remembers
what no delivery brings to the session, `swept` what was deleted. `Keep` is the
loop of the filter: a recursive function, so that it can be proved about.

`SocketProofs` is about both ends of the websocket, `SearchProofs` about what the
page looks for, `Browse` and `TraceSearch`; the modules they extend together keep
their names apart (`HubInit`, `BrowseInit` and so on).

### TraceView (with MCTraceView)

`buildTree`, `matchingSpanIds`, `visibleSpans` and `spanPath` of `span-tree.ts`
as operators over the spans that have arrived; collapse, selection, filters,
drag and zoom as variables. `Commit` and `Sweep` are the writer storing spans and
deleting them by a cutoff, which it does without telling the browser (`swept`
remembers it); `SummaryOf` is what the summary of the stored spans comes to
either way. `Deliver` merges that summary into the row and `replaceSpans` brings
the spans; either may be ahead. `Bars` is what the timeline column draws.

## 3. The runs

| Run | Module, cfg | Question | Distinct states |
|---|---|---|---|
| `pipeline` | MCWritePipeline | Is every interleaving safe, does everyone come back, and is it a CommitStream? | 190k |
| `store` | MCSignalStore | Are tables, summaries, cache and links right after any order of messages, failures and crashes? | 2.9M |
| `resource_suppressed` | MCSignalStore, ResourceSuppressed.cfg | *violation:* a clear cut short keeps a cache of deleted rows | |
| `hub` | Hub | Does the hub lose nothing by itself, and does every connection end cleanly? | 120k |
| `daemon` | DaemonControl | Can a daemon be found, do commands end? | 86k |
| `live_socket` | LiveSocket | Is there one socket, and is stale data always on its way out? | 314k |
| `trace_list` | TraceList | Is there a hole, a ghost or a lost detail in the list; does a selected trace show? | 297k |
| `trace_search` | TraceSearch | Is every row vouched for as it is now, and no question forgotten? | 562k |
| `browse` | Browse | Do tabs come back, do edits hit their term, do windows keep their width? | 85k |
| `metrics` | MCMetricView, MetricView.cfg | Does batching show, is a point lost, do tiles and chart agree, does the aggregate catch up? | 257k |
| `log_list` | MCLogList, LogList.cfg | Is everything reachable, do rows stay put, does a query survive its text? | 92k |
| `trace_view` | MCTraceView, TraceView.cfg | Are the rows the tree, does the zoom show the spans, is a selection revealed? | 204k |

Bounds. *Pipeline:* queues of one, where every wait is as tight as it can be, and
three calls: a batch in hand, one in the queue and one that finds it full; two
closers meet. One producer, one controller and the sweep loop give all three
ways of entering the queue. *Store:* three trace batches hold a span that comes
twice with different contents, roots of equal length and one that is shorter by
less than a microsecond (two nanoseconds here, and a day is as long), and enough
spans to cross a limit of three; a cache of one entry evicts on every second resource; two
resources and two series, one with no layout, separate the pruning cases; four
instants and retention one make a row fresh, at the boundary and old; six messages
allow store, resend, sweep, trim and store again. *Hub:* two connections
register, unregister and lose each other's company in every order; with a queue
and buffers of one, two messages fill each of them. *Daemon:* two clients and
two daemons are what every race in the code is about; three commands are a
start, a stop that times out and another start. *LiveSocket:* one list and the
feed are a first and a last subscriber; two changes are a link and then a change
of what it links to; two faults are a lost connection and a refused reconnect,
or a lost connection and a failed request. The list is one of incoming links;
with `Incoming = {}` the graph has the same size and the same results.
*TraceList:* three traces and a buffer of two with pages of one put every
boundary, cap, cursor and window, inside the history; three events are a lost
delivery, a sweep and one more change. *TraceSearch:* two traces
with batches of one leave one question waiting while another is asked; two
searches are one left and one entered. *Browse:* four things done are a tab, a
change in it, another tab and Back. *Metrics:* two values of an attribute whose
hashes collide, a late point inside the fixed window and a new one after it, and
a buffer of one point per series. *LogList:* five logs, one of them late and
from before the live window, and a clock that has one of them ahead; a window of
one row below a page of two; two events are a dropped delivery or a sweep and a
change of scope; twelve texts use every part of the grammar, three of them those
of section 4, item 11. *TraceView:* a tree with two branches,
a chain that arrives from its end, and a circle of parents; three events are a
drag, or collapse and select or filter, and one more of them or a sweep.

Fairness. *Pipeline:* weak fairness of the writer, of the delivery goroutine, of
each caller and of `Close`: they are goroutines, run by the Go scheduler
whenever they can move. A blocking send on the queue is strongly fair: other
senders may fill the room first, and Go serves blocked senders in turn. Callers
of `sync.RWMutex` are served because a waiting writer stops new readers. Nobody
is forced to call anything. In `Hub` the branches of `Run` that end something,
Stop and the receive from `unregister`, are strongly fair: Go's select picks
among the ready cases at random, so a stream of other events cannot keep it from
them. A write ends or times out and a ping of a closed connection fails; no
connection, message or shutdown is forced. In `DaemonControl` the kernel runs
both sides and a daemon that got SIGTERM begins to shut down; no crash, stop or
command is forced, and no shutdown is assumed to be quick (stop has its timeout
for that). In the browser timers fire, messages that are on the wire are
received, requests end one way or another, and an accepted socket opens; nobody
has to mount, click or commit, and the number of faults is bounded, as a
property that something is shown in the end needs.

Deadlock is checked in the pipeline: the only state without a step of its own
is the end of everything, which `Done` makes explicit. It is off elsewhere:
those models stop at the bound on messages, commands or user events; the hub
also really stops at the end, with a `ReadPump` waiting for it or not.

## 4. Where the code and its words part

One disagreement is kept as a run. `resource_suppressed`: the comment of
`performClear` (storage.go:1360) says the cache reset keeps a wipe from
suppressing a resource. The reset is after the last statement, and an error
after `resources` was emptied skips it; the next batch stores rows whose
resource does not exist.

Others met on the way are what the models do, and the properties say where they
leave room for them:

1. `AddTraces` waits for the writer after all when a Close queues behind a
   control call that waits for room with the read lock held (storage.go:393; the
   comment at 390-391 says it drops instead). It ends when the writer drains.
2. A clear cut short between `spans` and `trace_summaries` (storage.go:1365)
   leaves a summary that resent spans are added to; design/duckdb-storage.md
   lines 271-273 say a restart or resend cannot inflate one. In `SignalStore`
   such traces are `torn`, and only there may a summary differ.
3. The size trim deletes tombstones up to the end of the oldest day
   (storage.go:1340), also one that was refreshed that day; the same document,
   lines 280-281, gives them a full retention period.
4. The lock is probed by taking it (spawn_unix.go:169): two probes at once see
   each other and take that for a daemon (daemon.go:142-143 says held means
   alive).
5. In a fixed window a late point arms the debounce of the aggregate, and a
   delivery outside the window within two seconds disarms it without arming it
   again (use-metric-aggregate-series.ts:154; 148-150 says it must invalidate).
   `SeriesCatchUp` is therefore about live windows. Nor does a refetch that joins
   the very first request (use-metric-aggregate-series.ts:132-160), or a view that
   comes back to a key whose request is still under way, bring what was delivered
   since that request was read: the aggregate lacks it until another delivery.
   `SeriesCatchUp` names those points (`missed`) and no others.
6. A log that a page already brought is added again by its delivery
   (telemetry.ts:352, "Every log is a genuinely new row"), and moves the anchor
   of the rows on screen; `RowsStayPut` leaves that step out.
7. A page answer that was overtaken puts back a trace deleted meanwhile, or an
   older count, until the next delivery (telemetry.ts:472): `RowsTrue` and
   `VouchedTrue` name the overtaken rows. The list is not loaded again after a
   reconnect; the open trace and its links are. A trace whose last delivery was
   dropped (hub.go:101-107, 137-141, a full commit queue, no connection) is
   missing from the list, or stale in it, until the next one; and the retention
   sweep, the size trim and the clear (storage.go:1204-1258, 1340, 1365) remove
   traces and spans without a `trace-deletes`, so their rows stay, with the larger
   count (telemetry.ts:229-245), until a page replaces them. `NoHole`, `RowsTrue`
   and `DetailKept` name those traces (`unheard`, `swept`). In the list of logs a
   log ahead of the browser's clock is shown when it is delivered, but a page is
   bounded by that clock (event-time-window.ts:27-31, query_log.go:56) and the
   first page replaces what was there before it (telemetry.ts:478, 543-558): such
   a log disappears with the next visit or change of scope, and no Load more
   finds it. `EverythingReachable` names it (`paged`), with the logs whose
   delivery was dropped after the first page and those the server deleted.
8. A change of a linked trace that is announced while the answer with the link
   is on its way is not noticed (use-span-links.ts:69); the poll finds it within
   30 seconds. The same holds for a change between upgrade and registration, for
   one whose notification a full queue or buffer drops (hub.go:137-141, 101-107),
   and for a list that mounts again while the request of its predecessor is in
   flight, which it joins however old the answer is. The comment at
   use-telemetry-query-updates.ts:8 counts on the poll for missed notifications;
   `StaleIsNoticed` names them all, and `EventuallyFresh` shows the poll at work.
9. `buildTree` leaves out spans whose parents go round in a circle
   (span-tree.ts:44). Ancestors that arrive below a collapsed branch hide the
   span that is selected already. Spans newer than the summary may lie outside
   the timeline and have no bar. `mergeTrace` takes the earlier start and the
   longer duration each on its own (telemetry.ts:242-244): when a sweep, the size
   trim or the clear has deleted the first spans, a row from 0 to 15 merged with
   a summary from 10 to 20 stays 0 to 15, and a span at 18 has no bar with the
   whole trace in view, although telemetry.ts:225-228 has merging "always retain
   the complete observed time range". `ZoomShowsTheSpans` says that for traces of
   which nothing was deleted (`swept`).
10. Changing the scope during Load more slides the new scope
    (use-load-older-rows.ts:39); a late log that is hidden above the window and
    that a page brings to light is passed unmounted; and rows roll out of a live
    window while a page joins. `SlideIsContiguous` leaves these out. Rows the
    cap evicts after the cursor passed them cannot be reached again; initial
    rows age out of a live window while rows loaded below them stay.
11. An odd quote in the search text (log-search.ts:67), or a field without a
    value such as `body:` (log-search.ts:82), makes all of the search plain text:
    the filters beside it are looked for as words. The word `AND` is searched for
    in a text on its own and dropped from one that has a filter beside it
    (log-search.ts:101-102). A typed `k:~""` is written into the URL as `k:`
    (log-search.ts:115), which reads back as no filter (log-query-state.ts:16-17).
    `QueryRoundTrips` says which searches these are (`Separable`, `words`,
    `Holdable`) and that there are no others.
12. `navigateToTrace` carries the remembered link and span tab along
    (use-signal-route.ts:185); a searched metric that is not in the buffer opens
    nothing (use-signal-route.ts:149); a removed trace is not left when one of
    its spans is the route (App.tsx:19).
13. The initial load drops live points it overtook from the buffer, and the
    point count may count a point twice; more live points than the buffer holds
    leave a gap in the chart until the next fetch; the first partial bucket is
    in the tiles and not in a live chart; when the cap evicts metric groups the
    result depends on the batch. `PointsComplete`, `SummaryMatchesChart` and
    `BatchingIsInvisible` say so in their conditions.
14. The root of a trace is chosen by its duration in nanoseconds when a span
    arrives (trace_summary.go:94-101) and by an INTERVAL, which counts
    microseconds, when a sweep rebuilds the summary (trace_summary.go:373-381):
    a sweep may put another root in front of the longest one, shorter by less
    than two microseconds, and only a root longer than that one replaces it
    afterwards. `DerivedTablesMatch` asks for the longest until a sweep has
    rebuilt the summary, and for a nearly longest from then on; in the run three
    roots tie at the resolution of the interval and not below it.

## 5. What is proved

Every theorem holds for every value of the constants that the assumption of its
module admits; those assumptions say that sizes are naturals, that queues and
pages hold something, that windows are windows, that what is missing from a URL
is no number, and that sets of rows that are counted are finite. A theorem about
a recursive function of the model (`RowsAt`, `Merged`, `BatchesIn`,
`dispatchQueue`, `Keep`) is proved by induction on the length of its argument,
and one about a fold over a set by adding an element, in first order: the set of
lengths for which the claim holds contains 0 and every successor. Each module
that needs it proves that such a set is all of `Nat` (`InductiveSet`,
`LeastNumber`) from the library's fact that a well-founded order has minimal
elements.

| Theorem | Property | Inductive invariant |
|---|---|---|
| WritePipelineProofs `NeverSendOnClosed` | `NoSendOnClosed` | `LockInv` |
| `CloseDrainsEverything` | `CloseDrains` | `DrainInv` |
| `SyncIsABarrier` | `SyncIsBarrier` | `BarrierInv` |
| `PipelineImplementsStream` | safety of `ImplementsCommitStream` | `StreamInv` |
| SocketProofs `NeverUsesClosedChannel` | `OpenWhileRegistered` | `RegisterInv` |
| `StreamsComplete` | `StreamComplete` | `StreamInv` |
| `TabHasOneSocket` | `OneSocket` | `SocketInv` |
| `OldDataIsNoticed` | `StaleIsNoticed` | `NoticeInv` |
| SignalStoreProofs `TombstonesExclude` | `TombstoneExcludes` | `RowsInHand`, `TombInv` |
| `SpansAreUnique` | `NoDuplicateSpans` | `StoredOnce` |
| `DerivedTables` | `DerivedTablesMatch` | `StoredOnce`, `IndexesMatch`, `SpansTyped`, `SummariesTrue` |
| `DimensionsAreSound` | `DimensionsSound` | `SeqsTyped`, `DimsInv` |
| `TrimsDelete` | `TrimDeletes` | `RowsInHand`, `TimesTyped` |
| DaemonControlProofs `DaemonIsVisible` | `RunningIsVisible` | `DaemonInv` |
| SearchProofs `QuestionsAreScheduled` | `NothingForgotten` | itself |
| `RowsAreVouched` | `VouchedTrue` | `SearchInv` |
| `TabsComeBack`, `WindowsKeepTheirWidth` | `TabRestores`, `WidthSurvives` | `MemoryInv` |
| TraceListProofs `NothingIsSkipped`, `RowsAreTrue` | `NoHole`, `RowsTrue` | `ListInv` |
| `DetailIsKept` | `DetailKept` | `ListInv`, `DeletesLast` |
| LogListProofs `NothingIsMissed` | `EverythingReachable` | `ReachInv` |
| `NoRowIsPassed`, `WindowKeepsItsRows` | `SlideIsContiguous`, `RowsStayPut` | `Settled` |
| MetricViewProofs `AggregateCatchesUp` | `SeriesCatchUp` | `ViewTyped`, `CatchInv` |

*Pipeline.* `NoSendOnClosed` needs the types of program counters and the fact
that a caller past the closed check is a reader of the lock (`Readers` is
defined by them), so `CloseLocked` is not enabled; `CallOK` gives the kind of
the message a sender puts in the queue. That nothing accepted is left when
Close returns comes from knowing where it was before: `DrainInv` adds
`WriterKeeps` (accepted batches are written, in hand, or in the queue; the
writer leaves only a closed and empty queue), `DeliveryKeeps` (dispatched events
are delivered, in the batch, pushed back, or in the channel) and `CloserKeeps`
(what each join has seen). The barrier is a statement about order, and ids are
the order: `QueueOrdered` says they grow along both channels, `PastWriter` that
whatever the writer handed on is older than what it holds, but for the barrier
job it waits for, `ReachedIsClear` that a barrier the delivery goroutine has
reached has nothing undelivered before it, and `SyncWaits` ties a waiting caller
to that barrier. The refinement maps every step of the goroutines to a step of
`CommitStream` or to none; `JobsInv` gives the shape of a delivery (more than
one job only of metrics), `CountInv` that the ids stay within those the stream
has room for.

*Hub.* Whoever is in the map has an open `send` channel, so `dispatch` and the
shutdown of `Run` never send on, or close, a closed one; `AddClient` must know
that the client in hand was never closed, which is `OnceRegistered`: a handler
registers its connection once. For `StreamComplete`, the messages from the first
one after its registration are each with the client, in the queue, or among
those its full buffer dropped, and the queue is newer than the stream.

*Store.* What `writeTraces` has in hand between its statements is a part of the
batch (`RowsInHand`), and holds no trace with a tombstone (`TombInv`): the filter
and the insert are separate statements, and only the writer writes tombstones.
A span is stored once because the traces that are looked up are those with a
summary, and a summary outlives its spans in every partial state (`LookedUp`),
also half way through a clear, whose order `Cleared` records. `DimsInv` follows
the resources of a batch from its upserts, over the list still to be upserted
and the snapshot of the metrics transaction, into the facts; the cache is a
sequence of rows that exist. `DerivedTablesMatch` says that merging spans into a
summary one by one, as they arrive, gives what the SQL gives from the stored
spans. `RebuildIs` opens the SQL into counts, extremes and the two first rows, and
`RebuiltRoot` bounds what the two truncations can do to the root's order;
`MergeOne` shows that a merge adds one span to each of them, `FirstIs` that an
order has one first row; `MergedLoop` goes through the batch, of which no span
is merged twice nor was stored before. Only a clear
takes spans and summaries apart, so the claim rests while one is under way or
was cut short. `TrimDeletes` rests on the instants being bounded, so
that the minimum the trim starts from is the time of a fact.

*Daemon.* While commands come one after the other (`~overlapped`), a daemon whose
parent has not been told has a start that waits for it (`Awaited`), none is
started beside one that is up (`Alone`), nobody touches its file between rename
and lock (`OwnFile`), and what a command found out about a daemon that is up
stays true until it acts on it (`Known`). `Visible` follows from all of these
together and from none alone.

*Socket.* `SocketInv` makes socket, status and what each subscriber heard of it
agree, and an answer no older than what it replaces. `StaleIsNoticed` speaks of
the newest change that matters; not inductive, because the data decides what
matters: the answer that brings a link makes an earlier change matter.
`AllNoticed` says it of every change not yet seen.

*Search.* An answer is right about the ids whose version is the one it was asked
with (`AnswersTrue`), a page about those no delivery overtook (`PageTrue`), and
versions never go back (`Versions`).

*List.* The feed: the newest message about a trace, wherever it is on its way,
says how the trace is, unless a later one was lost or the trace was swept
(`FeedInv`), and a delete is the last word (`DeletesLast`). `Excused` collects
what the list cannot know: what is on its way, unheard or swept.
From this the rows after a dispatch are computed by induction on its messages
(`Good`, `DispatchRows`). Rows, a page, a lookup and the cache each hold what was
once true and, unless marked as overtaken, still is or is about to be corrected
(`RowsInv`, `AnswerTrue`, `LookupInv`). `AnswerComplete` says down to where an
answer under way misses no trace but those that came since, `Joins` that Load
more asks from no deeper than the session has loaded; `NoHole` needs both, and
in turn says what a page that is asked for next may leave out.

*Logs.* What is delivered to a session reaches the buffer and stays (`Heard`); the
first page takes the place only of rows that were there before the session
(`FirstPage`), and those are the pages' to bring, as is a delivery that was
dropped. A page holds all there is in its scope, or
says that there is more below its last row; the ranks of the rows in the server's
order tell which (`PageOfRows`). From there `ReachInv` follows what was loaded
down to a cursor. It speaks of a list the cap has not cut (`~cut`), as the
property does. For the window of rows, `Settled` says that every step ends with
its render, so that another render moves nothing. What a page or a delivery does
to the list keeps the order of the rows that stay (`Embeds`, `KeepPlaces`): the
gaps between them only grow, and a slide of at most `slideStep` rows stays within
what was mounted; a delivery that puts rows before the old ones moves anchor and
window by as many.

*Metrics.* An entry of the cache that belongs to the open view owes the points
delivered (`Owes`): while a refetch is due it need only have been asked for; once
none is, its request, or without one its data, has them all, but for what a
joined request had not read (`missed`). A request that the
view starts reads what is stored now, a render that brings points sets the timer,
and no other render of the same key and window takes it away. A live window is
open above, which is why a key with the same bounds is still live (`ViewTyped`).

*Places.* The router's memory is what each tab showed last (`MemoryInv`: the
ghost `shown` equals `destinations`, and `seen` is the window of `eventSearch`),
and everything it may go to, the history included, is a place whose search names
a window. Writing a window into a search and reading it again gives that window
and leaves text and filters (`WindowWritten`). With that a tab's place follows
from `setActiveTab` alone, and the width from arithmetic on windows that are
never empty (`WidthKept`).

Only model-checked:

* liveness and fairness, with them the progress part of `ImplementsCommitStream`,
  `CallsReturn`, `ConnectionsEnd`, `CommandsEnd`, `EventuallyFresh`,
  `EventuallyConnected`, `QuestionsEnd` and `SelectedIsShown`: the prover has no
  rule for them here;
* `TraceView`, whose `buildTree` is a RECURSIVE operator;
* of `MetricView` what `addMetrics`, the sorting and the buckets of `MetricSeries`
  compute, folds over sequences and sets: `BatchingIsInvisible`, `PointsComplete`,
  `SummaryMatchesChart`;
* of `LogList` `QueryRoundTrips`, which is about what a parser computes for every
  text, and of `Browse` `EditHitsItsTerm`, which counts what a `SelectSeq` leaves:
  the prover cannot open either.

## 6. What is not modelled, and why

* DuckDB itself: a transaction is atomic, an autocommitted statement is
  durable, a checkpoint changes nothing that a reader sees.
* Conversion, hashing and most queries: pure functions of rows. A hash is its
  resource; collisions are not modelled.
* Collector, HTTP routing, GraphQL resolvers, configuration, templates: no state
  of their own that another part races with. Broadcast is stateless; the runtime
  is a fixed order of stops, and the hub and the pipeline allow theirs at any
  moment.
* In the daemon: Windows, `start --foreground` (it writes no metadata), and the
  temp file two daemons that start at once would share.
* Commands that overlap may lose a daemon's metadata (`start` and `stop` remove
  whatever is at the path). `RunningIsVisible` is therefore about commands
  given one after the other.
* In the browser: TanStack Query and Router and the history are external and
  modelled from their use; React's rendering is one step of the action that
  causes it. Left out: badges and totals, server info, filter suggestions, the
  metric list's search, the matcher of structured trace searches beside the
  server's answer, pages of span links, percentiles of histograms, negative
  durations, the catalogue of conventions, formatting, colours, pixels.

## 7. Plan

1. `Browse`: `EditHitsItsTerm`, with the filters as a recursive function like
   `Keep`.
2. `MetricView`: `PointsComplete` without the buckets, which needs facts about
   sorting and about the fold of `addMetrics`.
3. Models still worth having: the metric list's search, and the lifecycle of the
   runtime around pipeline and hub.
