---- MODULE TraceList ----
(***************************************************************************)
(* The traces tab: the bounded row buffer of stores/telemetry.ts, which    *)
(* four sources write: live deliveries through the flush window of         *)
(* useWebSocket, pages of useSignalListPage, the focused lookup of         *)
(* useTraceById and the span snapshots of useTraceSpans.  Every write is   *)
(* one synchronous callback; messages and answers overtake each other.     *)
(*                                                                         *)
(* A trace is its start time, so the buffer's order is that of the ids; a  *)
(* summary is its span count, of which mergeTrace takes the larger.  The   *)
(* counters of the header's badges are left out.                           *)
(***************************************************************************)
EXTENDS Integers, Sequences, SequencesExt, FiniteSets

CONSTANTS
    Ids,          \* traces: positive start times
    Stored,       \* traces the server holds when the tab opens
    Opened,       \* traces a link can select
    Scopes,       \* window starts the user can choose; 0 is "all"
    Default,      \* the window at the start: DEFAULT_EVENT_TIME_WINDOW
    Cap,          \* bufferCapsAtom.traceCap
    PageSize,     \* SIGNAL_PAGE_SIZE
    MaxSpans,     \* bound: spans of a trace
    MaxEvents     \* bound: commits, sweeps, sessions, selections, failed requests

ASSUME TraceListAssumption ==
    /\ Ids \subseteq Nat \ {0} /\ IsFiniteSet(Ids) /\ Ids # {}
    /\ {Stored, Opened} \subseteq SUBSET Ids
    /\ Scopes \subseteq Nat /\ Default \in Scopes
    /\ Cap \in Nat \ {0} /\ PageSize \in Nat \ {0}
    /\ MaxSpans \in Nat \ {0}
    /\ MaxEvents \in Nat

None == 0
Unloaded == 1 + CHOOSE t \in Ids : \A u \in Ids : u <= t
Idle == [phase |-> "idle"]

VARIABLES
    db, gone,               \* the server: span counts; traces over the limit
    wire,                   \* deliveries on their way, in commit order
    rows, loadedOlder,      \* tracesAtom, loadedOlderTraceIdsAtom
    queue, timer,           \* queueRef; whether timerRef is set
    scope, page, after, hasMore,    \* the infinite query of the list
    focus, found, lookup,   \* the selected trace, ["trace", id], its request
    detail,                 \* an answered span snapshot
    events,
    \* history: how far down the session has loaded; rows cut by the cap; rows
    \* last written by an answer that a delivery had overtaken; traces whose
    \* last delivery did not come through; traces that lost spans silently
    floor, evicted, late, unheard, swept

serverVars == <<db, gone, unheard, swept>>
listVars == <<rows, loadedOlder, evicted, late>>
queryVars == <<scope, page, after, hasMore, floor>>
focusVars == <<focus, found, lookup, detail>>
vars == <<serverVars, wire, listVars, queue, timer, queryVars, focusVars,
          events>>

Live == {t \in Ids : db[t] > 0} \ gone

\* newestTraceStartFirst and the slice at the cap.
Newest(S, n) == {t \in S : Cardinality({u \in S : u > t}) < n}

\* What the user and the network do is bounded.
Event == events < MaxEvents /\ events' = events + 1

Keep(f, S) == [t \in DOMAIN f \cap S |-> f[t]]

\* A page without an answer: what the request was made with.
Ask(initial, cursor) ==
    [phase |-> "asked", initial |-> initial, cursor |-> cursor, before |-> DOMAIN rows]

\* The other signals' deliveries share the flush window: one may be open.
Init ==
    /\ db = [t \in Ids |-> IF t \in Stored THEN 1 ELSE 0] /\ gone = {} /\ wire = <<>>
    /\ rows = <<>> /\ loadedOlder = {} /\ queue = <<>> /\ timer \in BOOLEAN
    /\ scope = Default
    /\ page = [phase |-> "asked", initial |-> TRUE, cursor |-> None, before |-> {}]
    /\ after = None /\ hasMore = FALSE
    /\ focus = None /\ found = <<>> /\ lookup = Idle /\ detail = Idle
    /\ events = 0
    /\ floor = Unloaded /\ evicted = {} /\ late = {} /\ unheard = {} /\ swept = {}

----
(* The server commits, then delivers.                                      *)

\* A delivery is lost when the commit queue, the queue of the hub or the buffer
\* of the client is full, and while there is no connection.
Announce(m) ==
    \/ wire' = Append(wire, m) /\ unheard' = unheard \ {m.id}
    \/ wire' = wire /\ unheard' = unheard \cup {m.id}

Commit(t) ==
    /\ Event
    /\ t \notin gone /\ db[t] < MaxSpans
    /\ db' = [db EXCEPT ![t] = @ + 1]
    /\ Announce([type |-> "traces", id |-> t, count |-> db[t] + 1])
    /\ UNCHANGED <<gone, swept, listVars, queue, timer, queryVars, focusVars>>

Exceeds(t) ==
    /\ Event
    /\ t \in Live
    /\ gone' = gone \cup {t}
    /\ Announce([type |-> "trace-deletes", id |-> t, count |-> 0])
    /\ UNCHANGED <<db, swept, listVars, queue, timer, queryVars, focusVars>>

\* The retention sweep, the size trim or a clear takes spans of a trace, or its
\* tombstone, and tells nobody.
Sweep(t) ==
    /\ Event
    /\ \E n \in 0..MaxSpans :
         /\ n < db[t] /\ (t \in gone => n = 0)
         /\ db' = [db EXCEPT ![t] = n]
    /\ gone' = gone \ {t} /\ swept' = swept \cup {t}
    /\ UNCHANGED <<unheard, wire, listVars, queue, timer, queryVars, focusVars>>

----
(* The row buffer.                                                         *)

\* A delivery is a summary: it carries no spans.
normalizeTrace(m) == [count |-> m.count, spans |-> 0]

\* The spans a row has are a prefix of the trace's: their union is the longer.
mergeSpans(existing, incoming) == IF incoming > existing THEN incoming ELSE existing

\* The larger count wins; a row that learns nothing is left as it is.
mergeTrace(row, incoming) ==
    [count |-> IF incoming.count > row.count THEN incoming.count ELSE row.count,
     spans |-> mergeSpans(row.spans, incoming.spans)]

\* One item of addTraces: merged into its row, or pushed.
addTrace(acc, m) ==
    [t \in DOMAIN acc \cup {m.id} |->
        IF t # m.id THEN acc[t]
        ELSE IF t \in DOMAIN acc THEN mergeTrace(acc[t], normalizeTrace(m))
        ELSE normalizeTrace(m)]

removeTrace(acc, m) == Keep(acc, Ids \ {m.id})

\* One message of a run.
dispatchItem(acc, m) ==
    IF m.type = "traces" THEN addTrace(acc, m) ELSE removeTrace(acc, m)

\* addTraces cuts its working array once, when the run is over.
endRun(acc, m) ==
    IF m.type = "traces" THEN Keep(acc, Newest(DOMAIN acc, Cap)) ELSE acc

\* The messages in the order of arrival; a run ends where the type changes.
dispatchQueue(q) ==
    LET upTo[n \in 0..Len(q)] ==
            IF n = 0 THEN rows
            ELSE IF n > 1 /\ q[n - 1].type # q[n].type
                   THEN dispatchItem(endRun(upTo[n - 1], q[n - 1]), q[n])
            ELSE dispatchItem(upTo[n - 1], q[n])
    IN  IF q = <<>> THEN rows ELSE endRun(upTo[Len(q)], q[Len(q)])

\* What the dispatch of q does around the rows: the traces removed leave the
\* detail route, and an answer already taken is now older than the buffer.
Dispatch(q) ==
    LET ids == {q[i].id : i \in DOMAIN q}
        removed == {q[i].id : i \in {j \in DOMAIN q : q[j].type = "trace-deletes"}}
    IN  /\ rows' = dispatchQueue(q)
        /\ evicted' = (evicted \cup DOMAIN rows \cup ids) \ (DOMAIN rows' \cup removed)
        /\ late' = late \ ids
        /\ page' = IF page.phase \in {"probing", "answered"}
                     THEN [page EXCEPT !.overtaken = @ \cup ids] ELSE page
        /\ lookup' = IF focus \in removed THEN Idle
                     ELSE IF lookup.phase = "answered" /\ focus \in ids
                       THEN [lookup EXCEPT !.overtaken = TRUE]
                     ELSE lookup
        /\ focus' = IF focus \in removed THEN None ELSE focus
        /\ detail' = IF focus \in removed THEN Idle ELSE detail
        /\ found' = [t \in DOMAIN found |->
                        IF t \in ids THEN [found[t] EXCEPT !.overtaken = TRUE] ELSE found[t]]

\* onMessage: the first delivery after an idle interval is applied at once
\* and opens the flush window; the next ones wait for its tick.
onMessage ==
    /\ wire # <<>>
    /\ wire' = Tail(wire)
    /\ IF timer
         THEN /\ queue' = Append(queue, Head(wire))
              /\ UNCHANGED <<timer, rows, evicted, late, page, focusVars>>
         ELSE /\ timer' = TRUE
              /\ Dispatch(<<Head(wire)>>)
              /\ UNCHANGED queue
    /\ UNCHANGED <<serverVars, loadedOlder, scope, after, hasMore, floor,
                   events>>

\* Bug: the queue is grouped by type, deletes first.
tickByType ==
    /\ timer
    /\ queue' = <<>>
    /\ timer' = (queue # <<>>)
    /\ Dispatch(SelectSeq(queue, LAMBDA m : m.type = "trace-deletes")
                  \o SelectSeq(queue, LAMBDA m : m.type = "traces"))
    /\ UNCHANGED <<serverVars, wire, loadedOlder, scope, after, hasMore, floor,
                   events>>

tick ==
    /\ timer
    /\ queue' = <<>>
    /\ timer' = (queue # <<>>)
    /\ Dispatch(queue)
    /\ UNCHANGED <<serverVars, wire, loadedOlder, scope, after, hasMore, floor,
                   events>>

----
(* The pages.                                                              *)

\* The server's page: the newest rows of [from, to) older than the cursor.
InBounds(from, to, cursor) ==
    {t \in Live : t >= from /\ (to = None \/ t < to) /\ (cursor = None \/ t < cursor)}

\* A row of a page: the summary fields of the query, no spans.
toTraceData(t) == [count |-> db[t], spans |-> 0]

beyondWindow == ~page.initial /\ scope # None

\* fetchPage: Load more leaves the window's start behind; without a cursor it
\* starts just below it.
fetchPage ==
    /\ page.phase = "asked"
    /\ LET S == InBounds(IF beyondWindow THEN None ELSE scope,
                         IF beyondWindow /\ page.cursor = None THEN scope ELSE None,
                         page.cursor)
           items == Newest(S, PageSize)
           more == items # S
       IN  page' = [phase |-> IF page.initial /\ ~more /\ scope # None
                                THEN "probing" ELSE "answered",
                    initial |-> page.initial, before |-> page.before,
                    items |-> [t \in items |-> toTraceData(t)],
                    more |-> more, older |-> FALSE, overtaken |-> {},
                    end |-> IF items = {} THEN None
                            ELSE CHOOSE t \in items : \A u \in items : t <= u]
    /\ UNCHANGED <<serverVars, wire, listVars, queue, timer, scope, after, hasMore,
                   floor, focusVars, events>>

\* hasItemsBefore: an answer, or an error that counts as yes.
hasItemsBefore ==
    /\ page.phase = "probing"
    /\ \/ /\ page' = [page EXCEPT !.phase = "answered",
                                  !.older = InBounds(None, scope, None) # {}]
          /\ UNCHANGED events
       \/ /\ Event
          /\ page' = [page EXCEPT !.phase = "answered", !.older = TRUE]
    /\ UNCHANGED <<serverVars, wire, listVars, queue, timer, scope, after, hasMore,
                   floor, focusVars>>

\* Bug: a page brings its own empty span list.
pageRowBare(t) == page.items[t]

\* A page's row keeps the span snapshot of the row it replaces.
pageRow(t) ==
    IF t \in DOMAIN rows THEN [page.items[t] EXCEPT !.spans = rows[t].spans]
    ELSE page.items[t]

\* Bug: the rows that came while the request was out are replaced as well.
liveItemsNone(before) == {}

liveItems(before) == DOMAIN rows \ before

\* The rows S become those of the buffer, cut at the cap.
Publish(new, written) ==
    /\ rows' = Keep(new, Newest(DOMAIN new, Cap))
    /\ evicted' = (evicted \cup DOMAIN new) \ DOMAIN rows'
    /\ late' = (late \ (written \ page.overtaken)) \cup (written \cap page.overtaken)

\* replaceTracePage: rows delivered since the request stay and win.
replaceTracePage ==
    /\ page.phase = "answered" /\ page.initial
    /\ LET kept == liveItems(page.before)
           written == DOMAIN page.items \ kept
       IN  Publish([t \in kept \cup written |->
                       IF t \in kept THEN rows[t] ELSE pageRow(t)], written)
    /\ loadedOlder' = {}
    /\ floor' = IF page.more THEN page.end ELSE scope
    /\ after' = page.end /\ hasMore' = (page.more \/ page.older)
    /\ page' = Idle
    /\ UNCHANGED <<serverVars, wire, queue, timer, scope, focusVars, events>>

\* appendTraces: the page's new rows join; a row already there stays.
appendTraces ==
    /\ page.phase = "answered" /\ ~page.initial
    /\ LET written == DOMAIN page.items \ DOMAIN rows
       IN  Publish([t \in DOMAIN rows \cup written |->
                       IF t \in written THEN page.items[t] ELSE rows[t]], written)
    /\ loadedOlder' = loadedOlder \cup DOMAIN page.items
    /\ floor' = IF page.more THEN page.end ELSE None
    /\ after' = page.end /\ hasMore' = page.more
    /\ page' = Idle
    /\ UNCHANGED <<serverVars, wire, queue, timer, scope, focusVars, events>>

loadMore ==
    /\ page.phase = "idle" /\ hasMore
    /\ page' = Ask(FALSE, after)
    /\ UNCHANGED <<serverVars, wire, listVars, queue, timer, scope, after, hasMore,
                   floor, focusVars, events>>

pageFails ==
    /\ page.phase = "asked"
    /\ Event
    /\ page' = Idle
    /\ UNCHANGED <<serverVars, wire, listVars, queue, timer, scope, after, hasMore,
                   floor, focusVars>>

\* A new window, or the tab mounted again: the request in flight is aborted
\* and a session starts from the newest page.
newSession(s) ==
    /\ Event
    /\ scope' = s
    /\ page' = Ask(TRUE, None)
    /\ after' = None /\ hasMore' = FALSE
    /\ UNCHANGED <<serverVars, wire, listVars, queue, timer, floor, focusVars>>

----
(* The selected trace.                                                     *)

\* selectTrace and navigateToTrace; None goes back to the list.
selectTrace(t) ==
    /\ t # focus
    /\ Event
    /\ focus' = t /\ lookup' = Idle /\ detail' = Idle
    /\ UNCHANGED <<serverVars, wire, listVars, queue, timer, queryVars, found>>

selectedTraceMissing == focus # None /\ focus \notin DOMAIN rows

\* useTraceById asks while the selected trace has no row: when nothing, or
\* nothing fresh, is cached.
askTrace ==
    /\ selectedTraceMissing /\ lookup.phase = "idle"
    /\ lookup' = [phase |-> "asked"]
    /\ UNCHANGED <<serverVars, wire, listVars, queue, timer, queryVars, focus, found,
                   detail, events>>

\* loadTrace: the whole trace, or null; an error is shown until Retry.
loadTrace ==
    /\ lookup.phase = "asked"
    /\ \/ /\ lookup' = [phase |-> "answered", overtaken |-> FALSE,
                        count |-> IF focus \in Live THEN db[focus] ELSE 0]
          /\ UNCHANGED events
       \/ /\ Event
          /\ lookup' = [phase |-> "error"]
    /\ UNCHANGED <<serverVars, wire, listVars, queue, timer, queryVars, focus, found,
                   detail>>

\* Bug: the buffer is cut blindly, the requested row first of all.
keptBesideBlind(t) == Newest(DOMAIN rows \cup {t}, Cap)

\* The rows that stay when t is inserted: all, or the newest others.
keptBeside(t) ==
    IF Cardinality(DOMAIN rows) < Cap THEN DOMAIN rows \cup {t}
    ELSE Newest(DOMAIN rows, Cap - 1) \cup {t}

\* The focused query asks for the spans as well.
toFullTraceData(d) == [count |-> d.count, spans |-> d.count]

\* cacheTrace with the data d, for a selected trace without a row.
cacheTrace(d) ==
    LET new == [t \in DOMAIN rows \cup {focus} |->
                   IF t = focus THEN toFullTraceData(d) ELSE rows[t]]
    IN  /\ rows' = Keep(new, keptBeside(focus))
        /\ evicted' = (evicted \cup DOMAIN new) \ DOMAIN rows'
        /\ late' = IF d.overtaken THEN late \cup {focus} ELSE late \ {focus}

\* The answer arrives, and the effect that writes it into the buffer runs.
settle ==
    /\ lookup.phase = "answered"
    /\ LET d == [count |-> lookup.count, overtaken |-> lookup.overtaken]
       IN  IF d.count = 0
             THEN lookup' = [phase |-> "not-found"] /\ UNCHANGED <<found, rows, evicted, late>>
             ELSE /\ lookup' = Idle
                  /\ found' = [t \in DOMAIN found \cup {focus} |->
                                  IF t = focus THEN d ELSE found[t]]
                  /\ IF selectedTraceMissing THEN cacheTrace(d)
                                             ELSE UNCHANGED <<rows, evicted, late>>
    /\ UNCHANGED <<serverVars, wire, loadedOlder, queue, timer, queryVars, focus, detail,
                   events>>

\* A cached answer that is still fresh is written without a request.
useCached ==
    /\ selectedTraceMissing /\ lookup.phase = "idle" /\ focus \in DOMAIN found
    /\ cacheTrace(found[focus])
    /\ UNCHANGED <<serverVars, wire, loadedOlder, queue, timer, queryVars, focusVars,
                   events>>

retryLookup ==
    /\ lookup.phase = "error" /\ selectedTraceMissing
    /\ lookup' = [phase |-> "asked"]
    /\ UNCHANGED <<serverVars, wire, listVars, queue, timer, queryVars, focus, found,
                   detail, events>>

\* A row that is there again disables the lookup and hides its status.
rowIsBack ==
    /\ lookup.phase \in {"error", "not-found"} /\ ~selectedTraceMissing
    /\ lookup' = Idle
    /\ UNCHANGED <<serverVars, wire, listVars, queue, timer, queryVars, focus, found,
                   detail, events>>

\* useTraceSpans: an answer to the selected row's span query, and the effect
\* that writes it, if the row is still there.  An answer that changes nothing
\* is left out.
loadSpans ==
    /\ focus \in DOMAIN rows /\ detail.phase = "idle"
    /\ LET spans == IF focus \in Live THEN db[focus] ELSE 0
       IN  /\ spans # rows[focus].spans
           /\ detail' = [phase |-> "answered", spans |-> spans]
    /\ UNCHANGED <<serverVars, wire, listVars, queue, timer, queryVars, focus, found,
                   lookup, events>>

replaceTraceSpans ==
    /\ detail.phase = "answered"
    /\ rows' = [t \in DOMAIN rows |->
                   IF t = focus THEN [rows[t] EXCEPT !.spans = detail.spans] ELSE rows[t]]
    /\ detail' = Idle
    /\ UNCHANGED <<serverVars, wire, loadedOlder, evicted, late, queue, timer, queryVars,
                   focus, found, lookup, events>>

Server == \E t \in Ids : Commit(t) \/ Exceeds(t) \/ Sweep(t)
Feed == onMessage \/ tick
Paging ==
    \/ fetchPage \/ hasItemsBefore \/ replaceTracePage \/ appendTraces
    \/ loadMore \/ pageFails \/ \E s \in Scopes : newSession(s)
Selection ==
    \/ \E t \in Opened \cup {None} : selectTrace(t)
    \/ askTrace \/ loadTrace \/ settle \/ useCached \/ retryLookup \/ rowIsBack
    \/ loadSpans \/ replaceTraceSpans

Next == Server \/ Feed \/ Paging \/ Selection

Spec == Init /\ [][Next]_vars

\* Timers fire, deliveries arrive, requests end and effects run; the user
\* and the server owe nothing.
Browser ==
    \/ Feed \/ fetchPage \/ hasItemsBefore \/ replaceTracePage \/ appendTraces
    \/ askTrace \/ loadTrace \/ settle \/ useCached

FairSpec == Spec /\ WF_vars(Browser)

----
Row == [count : 1..MaxSpans, spans : 0..MaxSpans]

OnItsWay(t) == \E m \in Range(wire) \cup Range(queue) : m.id = t

\* replacePage, append and the flush window leave no hole: every trace the
\* server holds down to where the session has loaded has a row, unless its
\* delivery is on its way or the cap took it.  Not so a trace whose last
\* delivery was lost, nor one that comes back after the server dropped spans of
\* it silently: the page may have been asked for before.
NoHole ==
    \A t \in Live \ (unheard \cup swept) : t >= floor =>
        t \in DOMAIN rows \/ OnItsWay(t) \/ t \in evicted

\* dispatchQueue, mergeTrace and removeTrace: a row shows what the server
\* holds and a deleted trace has none, unless a delivery about it is still to
\* come or an answer overtaken by a delivery wrote it.  Nothing corrects a row
\* whose last delivery was lost until the next one, nor one whose trace was
\* swept, trimmed or cleared: no message says so, and the larger count wins.
RowsTrue ==
    \A t \in DOMAIN rows \ (late \cup unheard \cup swept) :
        OnItsWay(t) \/ (t \notin gone /\ rows[t].count = db[t])

Overflows == Cardinality(DOMAIN rows \cup {queue[i].id : i \in DOMAIN queue}) > Cap

\* replaceTracePage, mergeTrace and append keep the last detail snapshot: only
\* the span query takes a row's spans away while the row stays, or a flush
\* that overflows the cap and delivers the row it cut again.  A trace that is
\* deleted, loses its tombstone and comes back within one flush is left out.
DetailKept ==
    [][\A t \in (DOMAIN rows \cap DOMAIN rows') \ swept :
          rows'[t].spans < rows[t].spans => replaceTraceSpans \/ (tick /\ Overflows)]_vars

Shown(t) == t \in DOMAIN rows

\* useTraceById and cacheTrace: a selected trace the server holds is shown in
\* the end, whatever the cap and the burst of deliveries, unless the lookup
\* answers otherwise or the user moves on.
SelectedIsShown ==
    \A t \in Opened :
        (focus = t /\ t \in Live) ~>
            (Shown(t) \/ focus # t \/ t \in gone \/ lookup.phase \in {"error", "not-found"})
====
