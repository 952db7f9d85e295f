---- MODULE TraceSearch ----
(***************************************************************************)
(* A searched traces list: which rows the server has vouched for.  A page  *)
(* of results vouches for its rows; useLiveTraceSearch asks again about    *)
(* every row a delivery has changed, in batches, with a version per id.    *)
(* Requests of a search that was left keep running and are told apart by   *)
(* the closure they belong to.                                             *)
(*                                                                         *)
(* Of a trace only what the searches see of it is kept: the set of         *)
(* searches it matches now.                                                *)
(***************************************************************************)
EXTENDS Integers, Sequences, SequencesExt, FiniteSets

CONSTANTS
    Ids,         \* traces
    Searches,    \* non-empty search texts
    First,       \* the search the list is opened with
    BatchMax,    \* ids asked about in one request
    MaxDelay,    \* bound: the retry delay, in units of the first one
    MaxUpdates,  \* bound: updates at the server
    MaxSearches, \* bound: searches submitted
    MaxFaults    \* bound: failed requests

ASSUME TraceSearchAssumption ==
    /\ First \in Searches
    /\ BatchMax \in Nat \ {0} /\ MaxDelay \in Nat \ {0}
    /\ {MaxUpdates, MaxSearches, MaxFaults} \subseteq Nat

NoPage == [phase |-> "idle"]

VARIABLES
    truth,        \* the server: id |-> the searches it matches
    wire,         \* deliveries on their way
    rows, matched,          \* ids of tracesAtom; serverMatchedTraceIdsAtom
    search, session,        \* the submitted search, and which one it is
    page,                   \* the request for its first page
    pending, version, timer, running, retryDelay,   \* the effect's closure
    flight,       \* MatchingTraceIds requests, those of left sessions too
    updates, faults,
    \* history: rows a page vouched for, or not, with an answer that a
    \* delivery had overtaken
    late

effectVars == <<pending, version, timer, running, retryDelay>>
vars == <<truth, wire, rows, matched, search, session, page, effectVars, flight,
          updates, faults, late>>

Matching(s) == {t \in Ids : s \in truth[t]}

\* The effect of a new search: a closure of its own.
Fresh ==
    /\ pending' = <<>> /\ version' = 0 /\ timer' = FALSE /\ running' = FALSE
    /\ retryDelay' = 1

Init ==
    /\ wire = <<>> /\ rows = {} /\ matched = {}
    /\ search = First /\ session = 1
    /\ truth = [t \in Ids |-> {search}]
    /\ page = [phase |-> "asked", before |-> {}]
    /\ pending = <<>> /\ version = 0 /\ timer = FALSE /\ running = FALSE /\ retryDelay = 1
    /\ flight = {} /\ updates = 0 /\ faults = 0 /\ late = {}

----
\* A commit at the server changes what a trace matches, and is delivered.
Update(t, S) ==
    /\ updates < MaxUpdates /\ updates' = updates + 1
    /\ S # truth[t]
    /\ truth' = [truth EXCEPT ![t] = S]
    /\ wire' = Append(wire, t)
    /\ UNCHANGED <<rows, matched, search, session, page, effectVars, flight, faults, late>>

\* schedule(), after the closure's variables were set to these.
schedules(pend, run, tim) == tim \/ (~run /\ pend # <<>>)

\* addTraces sets liveTraceBatchAtom, which the effect is subscribed to.
addTrace ==
    /\ wire # <<>>
    /\ LET t == Head(wire)
       IN  /\ rows' = rows \cup {t}
           /\ pending' = [u \in DOMAIN pending \cup {t} |->
                             IF u = t THEN version + 1 ELSE pending[u]]
           /\ version' = version + 1
           /\ late' = late \ {t}
           /\ page' = IF page.phase = "answered"
                        THEN [page EXCEPT !.overtaken = @ \cup {t}] ELSE page
    /\ wire' = Tail(wire)
    /\ timer' = schedules(pending', running, timer)
    /\ UNCHANGED <<truth, matched, search, session, running, retryDelay, flight,
                   updates, faults>>

\* removeTrace, or the cap: the row leaves, what is pending about it stays.
dropRow(t) ==
    /\ t \in rows /\ rows' = rows \ {t}
    /\ UNCHANGED <<truth, wire, matched, search, session, page, effectVars, flight,
                   updates, faults, late>>

\* run(): rows that left the buffer are forgotten and a batch is asked about.
\* With nothing left to ask there is no request.
run ==
    /\ timer
    /\ LET kept == [t \in DOMAIN pending \cap rows |-> pending[t]]
       IN  /\ pending' = kept
           /\ IF kept = <<>>
                THEN timer' = FALSE /\ UNCHANGED <<running, flight>>
                ELSE /\ timer' = FALSE /\ running' = TRUE
                     /\ \E B \in SUBSET DOMAIN kept :
                          /\ B # {} /\ Cardinality(B) <= BatchMax
                          /\ B = DOMAIN kept \/ Cardinality(B) = BatchMax
                          /\ flight' = flight \cup
                               {[session |-> session, search |-> search, done |-> FALSE,
                                 batch |-> [t \in B |-> kept[t]], answer |-> {}]}
    /\ UNCHANGED <<truth, wire, rows, matched, search, session, page, version, retryDelay,
                   updates, faults, late>>

\* The server answers a request with the ids that match now.
matchingTraceIds(r) ==
    /\ r \in flight /\ ~r.done
    /\ flight' = (flight \ {r}) \cup
         {[r EXCEPT !.done = TRUE, !.answer = DOMAIN r.batch \cap Matching(r.search)]}
    /\ UNCHANGED <<truth, wire, rows, matched, search, session, page, effectVars,
                   updates, faults, late>>

\* Bug: an answer counts for the newer update as well.
currentAny(batch) == DOMAIN batch

\* The ids that no delivery has changed since the batch was made.
current(batch) ==
    {t \in DOMAIN batch : t \in DOMAIN pending /\ pending[t] = batch[t]}

disposed(r) == r.session # session

\* Bug: an answered question is not taken off the list.
remainingAll(ids) == DOMAIN pending

remaining(ids) == DOMAIN pending \ ids

\* The answer of the running closure: each id still current is vouched for,
\* or not, and no longer pending.
applyMatches(r) ==
    LET ids == current(r.batch)
    IN  /\ matched' = (matched \ ids) \cup (ids \cap r.answer)
        /\ pending' = [t \in remaining(ids) |-> pending[t]]
        /\ running' = FALSE /\ retryDelay' = 1
        /\ timer' = schedules(pending', FALSE, timer)
        /\ UNCHANGED version

resolves(r) ==
    /\ r \in flight /\ r.done
    /\ flight' = flight \ {r}
    /\ IF disposed(r) THEN UNCHANGED <<matched, effectVars>> ELSE applyMatches(r)
    /\ UNCHANGED <<truth, wire, rows, search, session, page, updates, faults, late>>

\* Bug: after an error nothing is scheduled.
reschedulesNot(pend) == FALSE

reschedules(pend) == schedules(pend, FALSE, FALSE)

slower == IF 2 * retryDelay > MaxDelay THEN MaxDelay ELSE 2 * retryDelay

rejects(r) ==
    /\ faults < MaxFaults /\ faults' = faults + 1
    /\ r \in flight
    /\ flight' = flight \ {r}
    /\ IF disposed(r)
         THEN UNCHANGED effectVars
         ELSE /\ retryDelay' = slower
              /\ running' = FALSE /\ timer' = reschedules(pending)
              /\ UNCHANGED <<pending, version>>
    /\ UNCHANGED <<truth, wire, rows, matched, search, session, page, updates, late>>

----
\* The first page of the search, taken at the server and published later: it
\* replaces the rows of before the request and the whole matched set.
fetchPage ==
    /\ page.phase = "asked"
    /\ page' = [phase |-> "answered", before |-> page.before,
                items |-> Matching(search), overtaken |-> {}]
    /\ UNCHANGED <<truth, wire, rows, matched, search, session, effectVars, flight,
                   updates, faults, late>>

replacePage ==
    /\ page.phase = "answered"
    /\ rows' = (rows \ page.before) \cup page.items
    /\ matched' = page.items
    /\ late' = {t \in page.overtaken : t \notin DOMAIN pending}
    /\ page' = NoPage
    /\ UNCHANGED <<truth, wire, search, session, effectVars, flight, updates, faults>>

pageFails ==
    /\ page.phase = "asked"
    /\ faults < MaxFaults /\ faults' = faults + 1
    /\ page' = [phase |-> "failed"]
    /\ UNCHANGED <<truth, wire, rows, matched, search, session, effectVars, flight,
                   updates, late>>

\* Another search: the page request is aborted, the effect is set up again.
setText(s) ==
    /\ session < MaxSearches /\ s # search
    /\ search' = s /\ session' = session + 1
    /\ page' = [phase |-> "asked", before |-> rows]
    /\ Fresh
    /\ UNCHANGED <<truth, wire, rows, matched, flight, updates, faults, late>>

Closure == run \/ \E r \in flight : matchingTraceIds(r) \/ resolves(r)

Next ==
    \/ \E t \in Ids, S \in SUBSET Searches : Update(t, S)
    \/ addTrace \/ (\E t \in Ids : dropRow(t))
    \/ Closure \/ (\E r \in flight : rejects(r))
    \/ fetchPage \/ replacePage \/ pageFails
    \/ \E s \in Searches : setText(s)

Spec == Init /\ [][Next]_vars

\* Deliveries arrive, timers fire and requests end.
FairSpec == Spec /\ WF_vars(addTrace) /\ WF_vars(Closure) /\ WF_vars(fetchPage \/ replacePage)

----
Published == page.phase = "idle"

\* "Version each ID so a response cannot vouch for a newer update": a row of
\* the published search is vouched for exactly when it matches, unless a
\* question about it is still open or a page overtaken by a delivery spoke
\* last.
VouchedTrue ==
    Published =>
        \A t \in rows \ late :
            t \in DOMAIN pending \/ t \in Range(wire)
                \/ (t \in matched <=> t \in Matching(search))

\* schedule: an id with an open question is always on its way to an answer;
\* no order of deliveries, answers and errors leaves it behind.
NothingForgotten == pending # <<>> => timer \/ running

\* Every open question is answered in the end, errors and newer deliveries
\* notwithstanding.
QuestionsEnd == \A t \in Ids : t \in DOMAIN pending ~> t \notin DOMAIN pending
====
