---- MODULE Browse ----
(***************************************************************************)
(* Where the user is: the router's location, whose search holds the text,  *)
(* the filters and the time window of the tab shown; the browser history;  *)
(* what the router remembers of each tab; and the two editors that hold    *)
(* state beside the URL, the search box and the filter editor.             *)
(*                                                                         *)
(* A range is its width, a filter term is a model value and stands for its *)
(* serialized form; the term "trace_id is t" is t itself.                  *)
(***************************************************************************)
EXTENDS Integers, Sequences, SequencesExt, FiniteSets

CONSTANTS
    Traces,       \* trace ids
    Terms,        \* filter terms; a trace id is the term that asks for it
    Junk,         \* a filter value in a shared URL that is no single term
    Texts,        \* plain search texts
    Ranges,       \* widths of the live ranges; 0 is "all"
    Default,      \* DEFAULT_CHART_TIME_RANGE
    Now, LogTime, \* the clock, and the time of the log that can be selected
    Undefined,    \* a search key that is not there
    MaxEvents     \* bound: things the user does

ASSUME BrowseAssumption ==
    /\ Traces \subseteq Terms /\ Junk \notin Terms
    /\ Ranges \subseteq Nat /\ 0 \in Ranges /\ Default \in Ranges \ {0}
    /\ {Now, LogTime} \subseteq Nat /\ LogTime <= Now
    /\ MaxEvents \in Nat
    /\ Undefined \notin Int

All == 0
None == "none"
Tabs == {"traces", "logs", "metrics"}

VARIABLES
    loc,                       \* the router's location
    past, future,              \* the browser history around it
    destinations, eventSearch, \* the router context's tabHistory
    input,                     \* the search box: plain text and terms typed
    editing,                   \* the id of the filter whose editor is open
    events,
    \* history: the location each tab showed last and the window an event tab
    \* showed last; whether the box was edited since it was last set
    shown, seen, dirty

browseVars == <<loc, past, future, destinations, eventSearch, input, editing, events,
          shown, seen, dirty>>

Event == events < MaxEvents /\ events' = events + 1

Signal(l) ==
    CASE l.at \in {"home", "traces", "trace", "span"} -> "traces"
      [] l.at \in {"logs", "log"} -> "logs"
      [] OTHER -> "metrics"

----
(* The search of a URL.                                                    *)

NoSearch == [q |-> "", range |-> Undefined, from |-> Undefined, to |-> Undefined,
             filter |-> <<>>, disabled |-> <<>>, spanTab |-> None, link |-> None]

\* Bounds that are missing or not in order fall back to the live window.
eventWindowFromSearch(s) ==
    IF s.from # Undefined /\ s.to # Undefined /\ s.from < s.to
    THEN [mode |-> "fixed", from |-> s.from, to |-> s.to]
    ELSE [mode |-> "live", range |-> IF s.range = Undefined THEN Default ELSE s.range]

\* { ...s, ...eventWindowSearch(w) }: every key of a window is set, or unset.
withWindow(s, w) ==
    IF w.mode = "fixed" THEN [s EXCEPT !.from = w.from, !.to = w.to, !.range = Undefined]
    ELSE [s EXCEPT !.from = Undefined, !.to = Undefined,
                   !.range = IF w.range = Default THEN Undefined ELSE w.range]

\* Bug: a filter is known by its place.
filterIdPlace(list, i) == <<None, i>>

\* A filter's id is its value and how many equal ones stand before it.
filterId(list, i) ==
    <<list[i].term, Cardinality({j \in 1..(i - 1) : list[j].term = list[i].term})>>

\* The enabled filters, then the disabled ones; what is no single term is
\* dropped.
readFilters(s) ==
    LET tag(terms, on) == [i \in DOMAIN terms |-> [term |-> terms[i], enabled |-> on]]
        list == SelectSeq(tag(s.filter, TRUE) \o tag(s.disabled, FALSE),
                          LAMBDA f : f.term \in Terms)
    IN  [i \in DOMAIN list |-> [term |-> list[i].term, enabled |-> list[i].enabled,
                                id |-> filterId(list, i)]]

newLogFilter(term) == [term |-> term, enabled |-> TRUE, id |-> <<None, 0>>]

\* { ...s, ...filterQuerySearch({ text, filters }) }
withQuery(s, text, filters) ==
    LET terms(on) == LET kept == SelectSeq(filters, LAMBDA f : f.enabled = on)
                     IN  [i \in DOMAIN kept |-> kept[i].term]
    IN  [s EXCEPT !.q = text, !.filter = terms(TRUE), !.disabled = terms(FALSE)]

\* An equal filter is enabled again, the first one; otherwise a new one comes last.
addQueryFilter(filters, term) ==
    LET equal == {i \in DOMAIN filters : filters[i].term = term}
        first == CHOOSE i \in equal : \A j \in equal : i <= j
    IN  IF equal = {} THEN Append(filters, newLogFilter(term))
        ELSE [filters EXCEPT ![first].enabled = TRUE]

----
(* Navigation.                                                             *)

\* Bug: the metrics tab moves the window of the event tabs.
rememberForAll(l) ==
    /\ destinations' = [destinations EXCEPT ![Signal(l)] = <<l>>]
    /\ eventSearch' = l.search

\* Every route's beforeLoad, of which only the matched leaf remembers.
remember(l) ==
    /\ destinations' = [destinations EXCEPT ![Signal(l)] = <<l>>]
    /\ eventSearch' = IF Signal(l) = "metrics" THEN eventSearch ELSE l.search

\* Which list's toolbar is mounted; the logs keep theirs beside the detail.
Toolbar(l) == IF l.at = "log" THEN "logs"
              ELSE IF l.at \in {"home", "traces", "logs", "metrics"} THEN l.at ELSE None

Typed(text) == [plain |-> text, terms |-> <<>>]

\* What the views do on a new location: a search box that is mounted anew, or
\* whose value changes, shows it; the filter bar leaves with its filters.
Render(l) ==
    /\ IF Toolbar(l) # Toolbar(loc) \/ l.search.q # loc.search.q
         THEN input' = Typed(l.search.q) /\ dirty' = FALSE
         ELSE UNCHANGED <<input, dirty>>
    /\ editing' = IF Toolbar(l) # Toolbar(loc) \/ readFilters(l.search) = <<>>
                    THEN <<>> ELSE editing

Arrive(l) ==
    /\ loc' = l
    /\ remember(l)
    /\ shown' = [shown EXCEPT ![Signal(l)] = <<l>>]
    /\ seen' = IF Signal(l) = "metrics" THEN seen ELSE eventWindowFromSearch(l.search)

\* navigate(): a new entry, unless the URL is the same.
navigate(l) ==
    /\ Arrive(l)
    /\ past' = IF l = loc THEN past ELSE Append(past, loc)
    /\ future' = IF l = loc THEN future ELSE <<>>

Go(l) == navigate(l) /\ Render(l)

back ==
    /\ Event
    /\ past # <<>>
    /\ Arrive(Last(past)) /\ Render(Last(past))
    /\ past' = Front(past) /\ future' = <<loc>> \o future

forward ==
    /\ Event
    /\ future # <<>>
    /\ Arrive(Head(future)) /\ Render(Head(future))
    /\ past' = Append(past, loc) /\ future' = Tail(future)

\* The tab's last location, under the window the event tabs share.
setActiveTab(tab) ==
    LET l == IF destinations[tab] = <<>> THEN [at |-> tab, id |-> None, search |-> NoSearch]
             ELSE destinations[tab][1]
    IN  /\ Event
        /\ tab # Signal(loc)
        /\ Go(IF tab = "metrics" THEN l
              ELSE [l EXCEPT !.search = withWindow(@, eventWindowFromSearch(eventSearch))])

Here(search) == [loc EXCEPT !.search = search]

Unlinked(s) == [s EXCEPT !.spanTab = None, !.link = None]

\* The lists' rows and the close buttons of the details.
selectTrace(t) == Event /\ Signal(loc) = "traces" /\ loc.at \in {"home", "traces"}
                  /\ Go([at |-> "trace", id |-> t, search |-> Unlinked(loc.search)])
closeTrace == Event /\ loc.at \in {"trace", "span"}
              /\ Go([at |-> "traces", id |-> None, search |-> Unlinked(loc.search)])
selectSpan(tab) ==
    /\ Event /\ loc.at \in {"trace", "span"}
    /\ Go([loc EXCEPT !.at = "span", !.search.link = None,
                      !.search.spanTab = IF tab = None THEN @ ELSE tab])
closeSpan == Event /\ loc.at = "span"
             /\ Go([loc EXCEPT !.at = "trace", !.search = Unlinked(@)])
selectSpanTab(tab) == Event /\ loc.at = "span"
                      /\ Go(Here([loc.search EXCEPT !.spanTab = tab, !.link = None]))
selectLog == Event /\ loc.at = "logs" /\ Go([loc EXCEPT !.at = "log", !.id = "l"])
closeLog == Event /\ loc.at = "log" /\ Go([loc EXCEPT !.at = "logs", !.id = None])
selectMetric == Event /\ loc.at = "metrics" /\ Go([loc EXCEPT !.at = "metric", !.id = "m"])
closeMetric == Event /\ loc.at = "metric" /\ Go([loc EXCEPT !.at = "metrics", !.id = None])

\* The link dialog: opened over the Links tab, closed without an entry.
openLink == Event /\ loc.at = "span" /\ loc.search.spanTab # None
            /\ Go(Here([loc.search EXCEPT !.link = "link"]))
followLink(t) == Event /\ loc.search.link # None
                 /\ Go([at |-> "span", id |-> t, search |-> Unlinked(loc.search)])
closeLink ==
    /\ Event /\ loc.search.link # None
    /\ LET l == Here([loc.search EXCEPT !.link = None])
       IN  Arrive(l) /\ Render(l)
    /\ UNCHANGED <<past, future>>

\* A deleted trace leaves its page, unless a span or a link is open on it.
traceRemoved(t) ==
    /\ Event
    /\ loc.at = "trace" /\ loc.id = t /\ loc.search.link = None
    /\ Go([loc EXCEPT !.at = "traces", !.id = None])

Remembered(tab) == IF destinations[tab] = <<>> THEN NoSearch ELSE destinations[tab][1].search

navigateToTrace(t) ==
    /\ Event /\ Signal(loc) = "logs"
    /\ Go([at |-> "trace", id |-> t,
           search |-> withWindow(Remembered("traces"), eventWindowFromSearch(loc.search))])

navigateToLogs ==
    /\ Event /\ loc.at \in {"trace", "span"}
    /\ LET previous == Remembered("logs")
           query == withQuery(previous, previous.q,
                              addQueryFilter(readFilters(previous), loc.id))
       IN  Go([at |-> "logs", id |-> None,
               search |-> withWindow(query, eventWindowFromSearch(loc.search))])

----
(* The time window.                                                        *)

eventWindowWidth(w) ==
    IF w.mode = "fixed" THEN w.to - w.from ELSE IF w.range = All THEN Default ELSE w.range

\* The range a window is as wide as; Undefined for a custom one.
eventWindowRange(w) ==
    IF w.mode = "live" THEN w.range
    ELSE IF eventWindowWidth(w) \in Ranges \ {All} THEN eventWindowWidth(w) ELSE Undefined

eventWindowBounds(w) ==
    IF w.mode = "fixed" THEN <<w.from, w.to>> ELSE <<Now - eventWindowWidth(w), Now>>

shiftEventWindow(w, direction) ==
    LET width == eventWindowWidth(w)
        bounds == eventWindowBounds(w)
    IN  [mode |-> "fixed", from |-> bounds[1] + direction * width,
                           to |-> bounds[2] + direction * width]

\* Bug: half of the width on either side, an odd one loses its rest.
eventWindowAroundHalves(time, w) ==
    LET half == eventWindowWidth(w) \div 2
    IN  [mode |-> "fixed", from |-> time - half, to |-> time + half]

\* Centred on a time, but not past the clock when the source is live.
eventWindowAround(time, w) ==
    LET width == eventWindowWidth(w)
        before == width \div 2
        to == time + width - before
    IN  IF w.mode = "live" /\ time <= Now /\ to > Now
        THEN [mode |-> "fixed", from |-> Now - width, to |-> Now]
        ELSE [mode |-> "fixed", from |-> time - before, to |-> to]

Window == eventWindowFromSearch(loc.search)

\* The toolbar's controls are on the lists, the metric's on its detail.
HasWindowControls == Toolbar(loc) \in {"home", "traces", "logs"} \/ loc.at = "metric"

SetWindow(w) == Event /\ HasWindowControls /\ Go(Here(withWindow(loc.search, w)))

selectRange(r) == r # eventWindowRange(Window) /\ SetWindow([mode |-> "live", range |-> r])
previousWindow == eventWindowRange(Window) # All /\ SetWindow(shiftEventWindow(Window, -1))
nextWindow == /\ Window.mode = "fixed" /\ eventWindowRange(Window) # All
              /\ SetWindow(shiftEventWindow(Window, 1))
goLive ==
    /\ Window.mode = "fixed"
    /\ LET r == eventWindowRange(Window)
       IN  SetWindow([mode |-> "live", range |-> IF r = Undefined THEN Default ELSE r])

\* The chart's brush on a metric.
brush == loc.at = "metric" /\ SetWindow([mode |-> "fixed", from |-> Now - 1, to |-> Now])

\* The log's neighbours: a search of nothing but a window.
showSurroundingLogs ==
    /\ Event /\ loc.at = "log"
    /\ Go(Here(withWindow(NoSearch, eventWindowAround(LogTime, Window))))

----
(* Text and filters.                                                       *)

Filters == readFilters(loc.search)

SetFilters(filters) == Go(Here(withQuery(loc.search, loc.search.q, filters)))

type(t) ==
    /\ Event /\ Toolbar(loc) # None
    /\ t # input
    /\ input' = t /\ dirty' = TRUE
    /\ UNCHANGED <<loc, past, future, destinations, eventSearch, editing, shown, seen>>

submitted(plain) == Typed(plain)

\* Enter, and the clear button: the terms typed become filters and the box
\* keeps the plain text.
setQueryText(t) ==
    LET l == Here(withQuery(loc.search, t.plain,
                            Filters \o [i \in DOMAIN t.terms |-> newLogFilter(t.terms[i])]))
    IN  /\ navigate(l)
        /\ input' = submitted(t.plain) /\ dirty' = FALSE
        /\ editing' = IF readFilters(l.search) = <<>> THEN <<>> ELSE editing

submit == Event /\ Toolbar(loc) # None /\ setQueryText(input)

clearText == Event /\ Toolbar(loc) # None /\ input # Typed("") /\ setQueryText(Typed(""))

\* Add filter, and "Filter by" in a detail.
addFilter(term) == Event /\ Toolbar(loc) # None /\ SetFilters(Append(Filters, newLogFilter(term)))
filterBy(term) == Event /\ loc.at \in {"span", "log", "metric"}
                  /\ SetFilters(addQueryFilter(Filters, term))

FilterIds == {Filters[i].id : i \in DOMAIN Filters}

toggleFilter(id) ==
    /\ Event /\ Toolbar(loc) # None /\ id \in FilterIds
    /\ SetFilters([i \in DOMAIN Filters |->
                      IF Filters[i].id = id THEN [Filters[i] EXCEPT !.enabled = ~@]
                      ELSE Filters[i]])

removeFilter(id) ==
    /\ Event /\ Toolbar(loc) # None /\ id \in FilterIds
    /\ SetFilters(SelectSeq(Filters, LAMBDA f : f.id # id))

clearFilters == Event /\ Toolbar(loc) # None /\ Filters # <<>> /\ SetFilters(<<>>)

\* The editor opens on a filter, and shows as long as one has its id.
openEditor(i) ==
    /\ Event /\ Toolbar(loc) # None /\ i \in DOMAIN Filters
    /\ editing' = <<Filters[i].id, Filters[i].term>>
    /\ UNCHANGED <<loc, past, future, destinations, eventSearch, input, shown, seen, dirty>>

EditorShows == editing # <<>> /\ editing[1] \in FilterIds

applyEdit(term) ==
    /\ Event /\ EditorShows
    /\ LET l == Here(withQuery(loc.search, loc.search.q,
                        [i \in DOMAIN Filters |->
                           IF Filters[i].id = editing[1] THEN [Filters[i] EXCEPT !.term = term]
                           ELSE Filters[i]]))
       IN  navigate(l)
    /\ editing' = <<>>
    /\ UNCHANGED <<input, dirty>>

cancelEdit ==
    /\ EditorShows /\ editing' = <<>>
    /\ UNCHANGED <<loc, past, future, destinations, eventSearch, input, events, shown, seen,
                   dirty>>

----
\* A shared URL: a plain one, one with filters of every kind, one with bounds
\* that are out of order, one of a span's links in a fixed window.
Links ==
    LET t == CHOOSE t \in Traces : TRUE
        text == CHOOSE x \in Texts : TRUE
    IN  {[at |-> "home", id |-> None, search |-> NoSearch],
         [at |-> "logs", id |-> None,
          search |-> [NoSearch EXCEPT !.filter = <<t, Junk>>, !.disabled = <<t>>, !.q = text]],
         [at |-> "metrics", id |-> None,
          search |-> [NoSearch EXCEPT !.from = Now, !.to = Now - 1, !.range = All]],
         [at |-> "span", id |-> t,
          search |-> [NoSearch EXCEPT !.from = Now - Default, !.to = Now, !.spanTab = "links",
                                      !.disabled = <<t>>]]}

BrowseInit ==
    /\ loc \in Links
    /\ past = <<>> /\ future = <<>>
    /\ destinations = [tab \in Tabs |-> IF tab = Signal(loc) THEN <<loc>> ELSE <<>>]
    /\ eventSearch = IF Signal(loc) = "metrics" THEN NoSearch ELSE loc.search
    /\ input = Typed(loc.search.q) /\ editing = <<>>
    /\ events = 0
    /\ shown = destinations
    /\ seen = eventWindowFromSearch(eventSearch) /\ dirty = FALSE

History == back \/ forward
Tab == \E tab \in Tabs : setActiveTab(tab)
Select ==
    \/ \E t \in Traces : selectTrace(t) \/ followLink(t) \/ traceRemoved(t) \/ navigateToTrace(t)
    \/ \E tab \in {None, "links"} : selectSpan(tab) \/ selectSpanTab(tab)
    \/ closeTrace \/ closeSpan \/ selectLog \/ closeLog \/ selectMetric \/ closeMetric
    \/ openLink \/ closeLink \/ navigateToLogs
Windows ==
    \/ \E r \in Ranges : selectRange(r)
    \/ previousWindow \/ nextWindow \/ goLive \/ brush \/ showSurroundingLogs
Query ==
    \/ \E x \in Texts, terms \in {<<>>} \cup {<<term>> : term \in Terms} :
          type([plain |-> x, terms |-> terms])
    \/ submit \/ clearText \/ clearFilters \/ cancelEdit
    \/ \E term \in Terms : addFilter(term) \/ filterBy(term) \/ applyEdit(term)
    \/ \E id \in FilterIds : toggleFilter(id) \/ removeFilter(id)
    \/ \E i \in DOMAIN Filters : openEditor(i)

BrowseNext == History \/ Tab \/ Select \/ Windows \/ Query

BrowseSpec == BrowseInit /\ [][BrowseNext]_browseVars

----
Place(l) == <<l.at, l.id, l.search.q, l.search.spanTab, l.search.link>>

\* setActiveTab and remember: a tab comes back where it was, with its own text
\* and filters; the event tabs under the window one of them showed last, the
\* metrics under their own.
TabRestores ==
    [][\A tab \in Tabs : setActiveTab(tab) =>
          /\ shown[tab] # <<>> =>
               /\ Place(loc') = Place(shown[tab][1])
               /\ readFilters(loc'.search) = readFilters(shown[tab][1].search)
          /\ eventWindowFromSearch(loc'.search) =
               IF tab # "metrics" THEN seen
               ELSE IF shown[tab] = <<>> THEN [mode |-> "live", range |-> Default]
               ELSE eventWindowFromSearch(shown[tab][1].search)]_browseVars

\* How many filters of a search say this.
Count(s, term, on) ==
    Len(SelectSeq(readFilters(s), LAMBDA f : f.term = term /\ f.enabled = on))
Total(s, term) == Count(s, term, TRUE) + Count(s, term, FALSE)

\* The editor and readFilterQuery's ids: an edit replaces one filter, with the
\* term the editor was opened on, whatever Back and the other buttons did to
\* the list in between.
EditHitsItsTerm ==
    [][\A term \in Terms : applyEdit(term) =>
          \A u \in Terms :
              Total(loc'.search, u) = Total(loc.search, u)
                  + (IF u = term THEN 1 ELSE 0) - (IF u = editing[2] THEN 1 ELSE 0)]_browseVars

\* shiftEventWindow and eventWindowAround keep a window's width, so that Live
\* goes back to the range it came from.
WidthSurvives ==
    [][previousWindow \/ nextWindow \/ showSurroundingLogs =>
          LET before == eventWindowRange(Window)
          IN  eventWindowRange(eventWindowFromSearch(loc'.search)) =
                IF before = All THEN Default ELSE before]_browseVars
====
