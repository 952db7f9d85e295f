---- MODULE LogList ----
(***************************************************************************)
(* The logs tab: the buffer of stores/telemetry.ts that deliveries and     *)
(* pages write, the filter of stores/filters.ts over it, the window of     *)
(* rows that useRenderWindow mounts and that Load more and deliveries      *)
(* move, and the query of text and filters that scopes it all.             *)
(*                                                                         *)
(* The server commits the logs of Feed in order and delivers them in that  *)
(* order, but for those whose delivery the hub drops; a log is its place   *)
(* in Feed, which also breaks ties of its time.  A log's time may be ahead *)
(* of the browser's clock.  The server's search is the same grammar.       *)
(* Every action ends with the render it causes, which settles how many     *)
(* rows are above the window.                                              *)
(***************************************************************************)
EXTENDS SearchTerms

CONSTANTS
    Feed,         \* logs: [t |-> time, log |-> key -> value]
    Stored,       \* how many of them the server holds at the start
    Windows,      \* time windows the user can choose
    Default,      \* the one at the start
    Clocks,       \* times the browser's clock may show
    Typed,        \* texts the user types into the search box
    Cap,          \* bufferCapsAtom.logCap
    PageSize,     \* SIGNAL_PAGE_SIZE
    RenderMax,    \* renderWindowMaxAtom
    MaxFilters,   \* bound: filters of a query
    MaxEvents     \* bound: scope changes, visits, failed requests, dropped deliveries
                  \* and sweeps

\* A fixed window ends after it starts: eventWindowFromSearch refuses others.
ASSUME LogListAssumption ==
    /\ Feed \in Seq(Range(Feed)) /\ \A i \in DOMAIN Feed : Feed[i].t \in Nat
    /\ Stored \in 1..Len(Feed) /\ Default \in Windows
    /\ Windows \subseteq [mode : {"fixed"}, from : Nat, to : Nat] \cup [mode : {"live"}, range : Nat]
    /\ \A w \in Windows : w.mode = "fixed" => w.from < w.to
    /\ {Cap, PageSize, RenderMax} \subseteq Nat \ {0}
    /\ Clocks \subseteq Nat /\ {MaxFilters, MaxEvents} \subseteq Nat

None == 0
NoTime == -1
Idle == [phase |-> "idle"]
NoQuery == [text |-> <<>>, filters |-> <<>>]

VARIABLES
    committed, delivered,        \* how much of Feed was stored; was delivered, or dropped
    swept,                       \* what the server deleted of it
    logs, matched, older,        \* logsAtom, serverMatchedLogIdsAtom, loadedOlderLogIdsAtom
    listWindow,                  \* logListWindowAtom
    window, query,               \* of the URL
    hits,                        \* the logs the search of the query matches
    bounds, after, hasMore,      \* the session of the infinite query
    page,                        \* its request in flight
    anchor, lastK, pendingSlide, \* the render window
    events,
    \* history: logs stored when the session's first page was read, or 0; those
    \* that no delivery brings to the session; rows were cut by the cap in it
    base, unheard, cut

bufferVars == <<logs, matched, older, listWindow, cut>>
scopeVars == <<window, query, hits>>
sessionVars == <<bounds, after, hasMore, base, unheard>>
viewVars == <<anchor, lastK, pendingSlide>>
vars == <<committed, delivered, swept, bufferVars, scopeVars, sessionVars, page, viewVars, events>>

Event == events < MaxEvents /\ events' = events + 1

T(i) == Feed[i].t
NewestOf(ids) ==
    IF ids = {} THEN 0 ELSE T(CHOOSE i \in ids : \A j \in ids : T(j) <= T(i))
Smaller(a, b) == IF a < b THEN a ELSE b

\* The loop of a filter, which keeps the elements in S.
Keep(s, S) ==
    LET upTo[n \in 0..Len(s)] ==
            IF n = 0 THEN <<>>
            ELSE IF s[n] \in S THEN Append(upTo[n - 1], s[n])
            ELSE upTo[n - 1]
    IN  upTo[Len(s)]

----
(* The query.                                                              *)

\* What is sent and matched: the text, then the enabled filters.
Search(q) ==
    join(SelectSeq(<<q.text>> \o [i \in DOMAIN q.filters |-> serializeLogTerm(q.filters[i])],
                   LAMBDA s : s # <<>>))

Hits(q) ==
    LET parsed == parseLogSearch(Search(q))
    IN  {i \in DOMAIN Feed : createLogSearchMatcher(parsed, Feed[i].log)}

\* What the URL holds of a query, and what is read from it.
filterQuerySearch(q) ==
    [q |-> q.text, filter |-> [i \in DOMAIN q.filters |-> serializeLogTerm(q.filters[i])]]

readFilterQuery(search) ==
    LET parsed == [i \in DOMAIN search.filter |-> parseLogSearch(search.filter[i])]
        valid == SelectSeq(parsed, LAMBDA p : p.plain = <<>> /\ Len(p.terms) = 1)
    IN  [text |-> search.q, filters |-> [i \in DOMAIN valid |-> valid[i].terms[1]]]

navigate(q) == readFilterQuery(filterQuerySearch(q))

setText(q, typed) ==
    LET parsed == parseLogSearch(typed)
    IN  navigate([text |-> parsed.plain, filters |-> q.filters \o parsed.terms])

\* A filter that says the same as one of the query is not added again.
addQueryFilter(q, term) ==
    IF \E i \in DOMAIN q.filters : serializeLogTerm(q.filters[i]) = serializeLogTerm(term) THEN q
    ELSE navigate([q EXCEPT !.filters = Append(@, term)])

Searching(q) == q # NoQuery

----
(* The rows and the window over them.                                      *)

eventWindowBounds(w, now) ==
    IF w.mode = "fixed" THEN [from |-> w.from, to |-> w.to]
    ELSE [from |-> IF w.range = 0 THEN NoTime ELSE now - w.range, to |-> now]

\* A live range rolls with the newest row of the buffer, a fixed one stays.
InWindow(newest, w, i) ==
    IF w.mode = "fixed" THEN w.from <= T(i) /\ T(i) < w.to
    ELSE w.range = 0 \/ T(i) >= newest - w.range

\* Rows paged in beyond the window stay, unless a search is on; a search keeps
\* what the server or the same grammar here says matches.
createFilteredLogs(b, q, found) ==
    LET newest == NewestOf(Range(b.logs))
    IN  Keep(b.logs, {i \in Range(b.logs) :
            IF Searching(q) THEN InWindow(newest, b.listWindow, i) /\ i \in b.matched \cup found
            ELSE InWindow(newest, b.listWindow, i) \/ i \in b.older})

Buffer == [logs |-> logs, matched |-> matched, older |-> older, listWindow |-> listWindow]
Items == createFilteredLogs(Buffer, query, hits)

maxK(items) == IF Len(items) > RenderMax THEN Len(items) - RenderMax ELSE 0

\* Bug: once away from the head, the window keeps its number of rows above.
resolveOnce(items, a, k) ==
    LET at == {i \in DOMAIN items : items[i] = a}
    IN  IF a = None THEN 0
        ELSE Smaller(IF at = {} \/ k > 0 THEN k ELSE (CHOOSE i \in at : TRUE) - 1, maxK(items))

\* The rows above the window: found by the row it is anchored to, or about
\* where that row was.
resolve(items, a, k) ==
    LET at == {i \in DOMAIN items : items[i] = a}
        first == CHOOSE i \in at : \A j \in at : i <= j
    IN  IF a = None THEN 0
        ELSE Smaller(IF at = {} THEN k ELSE first - 1, maxK(items))

\* Bug: a page, however few rows are mounted.
slideStepPage == PageSize

slideStep == Smaller(PageSize, RenderMax)

\* The row that slideOlder anchors the window to.
slideOlder(items, k) ==
    LET nextK == Smaller(k + slideStep, maxK(items))
    IN  IF nextK < Len(items) THEN items[nextK + 1] ELSE None

\* A render with the rows items and the anchor a, from position k.
Show(items, a, k) == anchor' = a /\ lastK' = resolve(items, a, k)

\* A render of the same anchor in which loadingMore may have fallen: a slide
\* that waits for it happens now.
ShowLoaded(items) ==
    LET k == resolve(items, anchor, lastK)
    IN  /\ IF pendingSlide THEN Show(items, slideOlder(items, k), k) ELSE Show(items, anchor, lastK)
        /\ pendingSlide' = FALSE

\* The buffer becomes b, cut at the cap.
Write(b) ==
    /\ logs' = SubSeq(b.logs, 1, Smaller(Len(b.logs), Cap))
    /\ matched' = b.matched /\ older' = b.older /\ listWindow' = b.listWindow
    /\ cut' = (cut \/ Len(b.logs) > Cap)

Cut(b) == [b EXCEPT !.logs = SubSeq(@, 1, Smaller(Len(@), Cap))]

----
(* Deliveries.                                                             *)

Commit ==
    /\ committed < Len(Feed)
    /\ committed' = committed + 1
    /\ UNCHANGED <<delivered, swept, bufferVars, scopeVars, sessionVars, page, viewVars, events>>

\* The next delivery meets a full queue or buffer, or no connection.
Drop ==
    /\ delivered < committed
    /\ Event
    /\ delivered' = delivered + 1 /\ unheard' = unheard \cup {delivered + 1}
    /\ UNCHANGED <<committed, swept, bufferVars, scopeVars, bounds, after, hasMore, base, page,
                   viewVars>>

\* The retention sweep and the size trim delete what is before a cutoff; the
\* browser is not told.
Sweep(cutoff) ==
    /\ Event
    /\ swept' = swept \cup {i \in 1..committed : T(i) < cutoff}
    /\ swept' # swept
    /\ UNCHANGED <<committed, delivered, bufferVars, scopeVars, sessionVars, page, viewVars>>

\* A flush: the batch in front of the rows, the last to arrive first.
addLogs(n) ==
    LET batch == [i \in 1..(n - delivered) |-> n - i + 1]
        b == [Buffer EXCEPT !.logs = batch \o @]
    IN  /\ delivered' = n
        /\ Write(b)
        /\ Show(createFilteredLogs(Cut(b), query, hits), anchor, lastK)
        /\ UNCHANGED <<committed, swept, scopeVars, sessionVars, page, pendingSlide, events>>

----
(* Pages.                                                                  *)

\* Newest first, the later of two of the same time before the earlier.
Before(i, j) == T(i) > T(j) \/ (T(i) = T(j) /\ i > j)

InOrder(S) ==
    [k \in 1..Cardinality(S) |-> CHOOSE i \in S : Cardinality({j \in S : Before(j, i)}) = k - 1]

\* The server's rows of [from, to) after the cursor.
InBounds(from, to, cursor) ==
    {i \in ((1..committed) \ swept) \cap (IF Searching(query) THEN hits ELSE DOMAIN Feed) :
        /\ from = NoTime \/ T(i) >= from
        /\ T(i) < to
        /\ cursor = None \/ Before(cursor, i)}

loadOlderBeyondWindow == ~Searching(query)

beyondWindow == ~page.initial /\ loadOlderBeyondWindow /\ bounds.from # NoTime

\* Bug: a window without a further page has nothing below it.
hasOlderNever(more, probed) == FALSE

\* hasLogsBefore, asked only of a first page that is the last one.
hasOlder(more, probed) ==
    page.initial /\ ~more /\ loadOlderBeyondWindow /\ bounds.from # NoTime /\ probed

\* A page is read; an error of the probe counts as yes.
fetchPage ==
    /\ page.phase = "asked"
    /\ LET S == InBounds(IF beyondWindow THEN NoTime ELSE bounds.from,
                         IF beyondWindow /\ page.after = None THEN bounds.from ELSE bounds.to,
                         page.after)
           all == InOrder(S)
           items == SubSeq(all, 1, Smaller(Len(all), PageSize))
           more == Len(all) > PageSize
           answer(probed) == [phase |-> "answered", initial |-> page.initial,
                              before |-> page.before, items |-> items, at |-> committed,
                              more |-> more \/ hasOlder(more, probed)]
       IN  \/ /\ page' = answer(InBounds(NoTime, bounds.from, None) # {})
              /\ UNCHANGED events
           \/ /\ hasOlder(more, TRUE)
              /\ Event
              /\ page' = answer(TRUE)
    /\ UNCHANGED <<committed, delivered, swept, bufferVars, scopeVars, sessionVars, viewVars>>

endCursor == IF page.items = <<>> THEN None ELSE Last(page.items)

\* The first page replaces the rows, those delivered since its request excepted.
replaceLogPage ==
    /\ page.phase = "answered" /\ page.initial
    /\ LET live == Keep(logs, Range(logs) \ page.before)
           b == [logs |-> live \o Keep(page.items, Range(page.items) \ Range(live)),
                 matched |-> Range(page.items), older |-> {}, listWindow |-> window]
       IN  /\ Write(b)
           /\ ShowLoaded(createFilteredLogs(Cut(b), query, hits))
    /\ after' = endCursor /\ hasMore' = page.more /\ base' = page.at
    /\ page' = Idle
    /\ UNCHANGED <<committed, delivered, swept, scopeVars, bounds, unheard, events>>

\* A further page joins at the end; only browsing marks its rows as loaded
\* from beyond the window.
appendLogs ==
    /\ page.phase = "answered" /\ ~page.initial
    /\ LET ids == Range(page.items)
           b == [Buffer EXCEPT !.logs = @ \o Keep(page.items, ids \ Range(logs)),
                               !.matched = @ \cup ids,
                               !.older = IF Searching(query) THEN @ ELSE @ \cup ids]
       IN  /\ Write(b)
           /\ ShowLoaded(createFilteredLogs(Cut(b), query, hits))
    /\ after' = endCursor /\ hasMore' = page.more
    /\ page' = Idle
    /\ UNCHANGED <<committed, delivered, swept, scopeVars, bounds, base, unheard, events>>

\* The first page of a session is not asked for again: retry is off.
pageFails ==
    /\ page.phase = "asked"
    /\ Event
    /\ page' = Idle
    /\ ShowLoaded(Items)
    /\ UNCHANGED <<committed, delivered, swept, bufferVars, scopeVars, sessionVars>>

----
(* The user.                                                               *)

olderCount(items) == Len(items) - Smaller(Len(items), lastK + RenderMax)
loadingMore == page.phase # "idle" /\ ~page.initial

Ask(initial, cursor) ==
    [phase |-> "asked", initial |-> initial, after |-> cursor, before |-> Range(logs)]

\* Load more over rows that are there, or for the next page.
loadMoreSlides ==
    /\ ~loadingMore
    /\ LET items == Items
       IN  olderCount(items) > 0 /\ Show(items, slideOlder(items, lastK), lastK)
    /\ UNCHANGED <<committed, delivered, swept, bufferVars, scopeVars, sessionVars, page,
                   pendingSlide, events>>

loadMoreFetches ==
    /\ ~loadingMore /\ hasMore /\ olderCount(Items) = 0
    /\ pendingSlide' = TRUE
    /\ page' = Ask(FALSE, after)
    /\ UNCHANGED <<committed, delivered, swept, bufferVars, scopeVars, sessionVars, anchor, lastK,
                   events>>

backToLatest ==
    /\ lastK > 0
    /\ Show(Items, None, lastK)
    /\ UNCHANGED <<committed, delivered, swept, bufferVars, scopeVars, sessionVars, page,
                   pendingSlide, events>>

\* A session from the newest page, under bounds resolved now.
Begin(w, q) ==
    /\ window' = w /\ query' = q /\ hits' = IF q = query THEN hits ELSE Hits(q)
    /\ \E now \in Clocks : bounds' = eventWindowBounds(w, now)
    /\ after' = None /\ hasMore' = FALSE /\ base' = 0
    /\ page' = Ask(TRUE, None)
    /\ unheard' = 1..delivered \cup Range(logs) /\ cut' = FALSE
    /\ UNCHANGED <<committed, delivered, swept, logs, matched, older, listWindow>>

\* A new request key while the list is mounted: the window goes back to the
\* head, but a slide that waited for the request given up still happens.
setScope(w, q) ==
    /\ w # window \/ q # query
    /\ Event
    /\ Begin(w, q)
    /\ LET items == createFilteredLogs(Buffer, q, hits')
           k == resolve(items, anchor, 0)
       IN  IF pendingSlide THEN Show(items, slideOlder(items, k), k) ELSE Show(items, None, 0)
    /\ pendingSlide' = FALSE

\* The tab is left and visited again: the list's own state is gone.
revisit(w) ==
    /\ Event
    /\ Begin(w, query)
    /\ anchor' = None /\ lastK' = 0 /\ pendingSlide' = FALSE

submit(typed) ==
    LET q == setText(query, typed)
    IN  Len(q.filters) <= MaxFilters /\ setScope(window, q)

clearFilters == query.filters # <<>> /\ setScope(window, [query EXCEPT !.filters = <<>>])

\* "Filter by" a value of a log in the list.
filterBy(i, key) ==
    LET term == draftTerm(valueToFilterDraft(key, logTermValue(Feed[i].log, [key |-> key])))
        q == addQueryFilter(query, term)
    IN  Len(q.filters) <= MaxFilters /\ setScope(window, q)

\* The editor of a filter, applied as it was opened.
applyUnchanged(term) == draftTerm(filterDraft(term))

----
Init ==
    /\ committed = Stored /\ delivered = Stored /\ swept = {} /\ unheard = 1..Stored
    /\ logs = <<>> /\ matched = {} /\ older = {} /\ listWindow = Default
    /\ window = Default /\ query = NoQuery /\ hits = DOMAIN Feed
    /\ \E now \in Clocks : bounds = eventWindowBounds(Default, now)
    /\ after = None /\ hasMore = FALSE
    /\ page = Ask(TRUE, None)
    /\ anchor = None /\ lastK = 0 /\ pendingSlide = FALSE
    /\ events = 0 /\ base = 0 /\ cut = FALSE

Live ==
    \/ Commit \/ Drop
    \/ \E i \in DOMAIN Feed : Sweep(T(i))
    \/ \E n \in (delivered + 1)..committed : addLogs(n)
Paging == fetchPage \/ replaceLogPage \/ appendLogs \/ pageFails
User ==
    \/ loadMoreSlides \/ loadMoreFetches \/ backToLatest
    \/ \E w \in Windows : setScope(w, query) \/ revisit(w)
    \/ clearFilters
    \/ /\ events < MaxEvents
       /\ \/ \E typed \in Typed : submit(typed)
          \/ \E i \in Range(Items), key \in Fields \cup Attributes : filterBy(i, key)

Next == Live \/ Paging \/ User

Spec == Init /\ [][Next]_vars

----
Above(items, k) == {items[i] : i \in 1..Smaller(k, Len(items))}
Visible(items, k) == SubSeq(items, k + 1, Smaller(Len(items), k + RenderMax))

\* The rows after a step.
NextItems ==
    createFilteredLogs([logs |-> logs', matched |-> matched', older |-> older',
                        listWindow |-> listWindow'], query', hits')

\* slideOlder: Load more never moves past a row that was there and not mounted;
\* what is above the window afterwards was above it or in it before, as long as
\* the row it is anchored to is there.  A page may bring to light a row that is
\* in the buffer above the window, such as a late log from before its time; it
\* may also make rows roll out of a live window, which this leaves out.
SlideIsContiguous ==
    [][lastK' > lastK /\ <<delivered, window, query, base>>' = <<delivered, window, query, base>>
           /\ anchor \in Range(Items) \cup {None} /\ Range(Items) \subseteq Range(NextItems)
         => LET items == NextItems
            IN  Above(items, lastK') \cap Range(Items) \subseteq Above(Items, lastK + RenderMax)]_vars

\* useRenderWindow's anchor: a delivery leaves the rows of a window that was
\* moved away from the head as they are.  It may not when it takes rows away,
\* when the anchor is gone, or when it delivers a log that a page brought.
RowsStayPut ==
    [][delivered' # delivered /\ lastK > 0
         => LET before == Items
                items == NextItems
            IN  anchor \in Range(before) /\ IsSuffix(before, items)
                    /\ (delivered + 1)..delivered' \cap Range(before) = {}
                  => Visible(items, lastK') = Visible(before, lastK)]_vars

\* useSignalListPage and createFilteredLogsAtom: a list with no more to load
\* shows every log of its window that the search matches and that was delivered
\* to it or that the server had for its pages, and, when browsing, all that was
\* stored before the window's start.  What only the pages could bring is left
\* out when it is ahead of the clock they were bounded by.
EverythingReachable ==
    page.phase = "idle" /\ base > 0 /\ ~hasMore /\ ~cut =>
        LET shown == Range(Items)
            paged(i) == i <= base /\ T(i) < bounds.to /\ i \notin swept
        IN  /\ \A i \in 1..delivered :
                  InWindow(NewestOf(Range(logs)), window, i) /\ T(i) >= bounds.from
                      /\ (Searching(query) => i \in hits) /\ (i \in unheard => paged(i))
                    => i \in shown
            /\ ~Searching(query) =>
                  \A i \in (1..base) \ swept : T(i) < bounds.from => i \in shown

\* The words of a text, and whether it is one that filters can stand beside:
\* its quotes are closed and none of its words is a term without a value.
words(text) == SelectSeq(tokenize(text).tokens, LAMBDA t : t # <<"AND">>)
Separable(text) ==
    LET split == tokenize(text)
    IN  ~split.open /\ \A t \in Range(split.tokens) : IsTerm(t) => parseTerm(t) # <<>>

\* What a text says of filters that the URL can hold: a term that is quoted or
\* has a value.
Holdable(terms) == SelectSeq(terms, LAMBDA t : t.quoted \/ t.value # <<>>)

\* serializeLogTerm, parseLogSearch and the filter editor: the search sent for
\* a query says its text and its filters, or its text swallows them; what is
\* typed adds to the filters in the URL all that it can hold; and a filter that
\* is opened in the editor and applied unchanged still matches the same logs.
QueryRoundTrips ==
    [][query' # query =>
          /\ parseLogSearch(Search(query')) =
               IF query'.filters = <<>> \/ ~Separable(query'.text)
               THEN [plain |-> Search(query'), terms |-> <<>>]
               ELSE [plain |-> join(words(query'.text)), terms |-> query'.filters]
          /\ \A typed \in Typed :
               setText(query, typed).filters
                  = query.filters \o Holdable(parseLogSearch(typed).terms)
          /\ \A k \in DOMAIN query'.filters :
               LET term == query'.filters[k]
               IN  filterDraftError(filterDraft(term)) \/
                   \A i \in DOMAIN Feed :
                       LET value == logTermValue(Feed[i].log, term)
                       IN  createTermMatcher(applyUnchanged(term), value)
                              = createTermMatcher(term, value)]_vars

====
