---- MODULE SearchProofs ----
(***************************************************************************)
(* Theorems about what the user looks for.  TraceSearch: which rows the    *)
(* server has vouched for, for every set of traces and searches, every     *)
(* size of a batch and every bound on updates, searches and faults.        *)
(* Browse: what the page's search says, for every set of traces, terms,    *)
(* texts and ranges, whatever the clock.                                   *)
(***************************************************************************)
EXTENDS TraceSearch, Browse, SequenceTheorems, TLAPS

----
(* An open question has a timer or a running request.                       *)

\* No order of deliveries, answers and errors leaves an id without a timer or
\* a request that will come back to it: schedule is called wherever either of
\* them ends.
THEOREM QuestionsAreScheduled == Spec => []NothingForgotten
  <1>1. Init => NothingForgotten
    BY DEF Init, NothingForgotten
  <1>2. NothingForgotten /\ [Next]_vars => NothingForgotten'
    <2> SUFFICES ASSUME NothingForgotten, [Next]_vars PROVE NothingForgotten'
      OBVIOUS
    <2> USE DEF NothingForgotten
    <2>1. ASSUME UNCHANGED effectVars PROVE NothingForgotten'
      BY <2>1 DEF effectVars
    <2>2. ASSUME timer' = schedules(pending', running', timer) PROVE NothingForgotten'
      BY <2>2 DEF schedules
    <2>3. CASE addTrace
      BY <2>2, <2>3 DEF addTrace
    <2>4. CASE run
      BY <2>4 DEF run
    <2>5. ASSUME NEW r \in flight, resolves(r) PROVE NothingForgotten'
      BY <2>1, <2>2, <2>5 DEF resolves, applyMatches
    <2>6. ASSUME NEW r \in flight, rejects(r) PROVE NothingForgotten'
      BY <2>1, <2>6 DEF rejects, reschedules, schedules
    <2>7. ASSUME NEW s \in Searches, setText(s) PROVE NothingForgotten'
      BY <2>7 DEF setText, Fresh
    <2>8. ASSUME NEW t \in Ids, NEW S, Update(t, S) PROVE NothingForgotten'
      BY <2>1, <2>8 DEF Update
    <2>9. ASSUME NEW t \in Ids, dropRow(t) PROVE NothingForgotten'
      BY <2>1, <2>9 DEF dropRow
    <2>10. ASSUME NEW r \in flight, matchingTraceIds(r) PROVE NothingForgotten'
      BY <2>1, <2>10 DEF matchingTraceIds
    <2>11. CASE fetchPage \/ replacePage \/ pageFails
      BY <2>1, <2>11 DEF fetchPage, replacePage, pageFails
    <2>12. CASE UNCHANGED vars
      BY <2>1, <2>12 DEF vars
    <2>13. QED
      BY <2>3, <2>4, <2>5, <2>6, <2>7, <2>8, <2>9, <2>10, <2>11, <2>12 DEF Next, Closure
  <1>3. QED
    BY <1>1, <1>2, PTL DEF Spec

----
(* What is vouched for is true.                                             *)

Batches == UNION {[B -> Nat] : B \in SUBSET Ids}
Requests == [session : Nat, search : Searches, done : BOOLEAN, batch : Batches,
             answer : SUBSET Ids]
Answered == [phase : {"answered"}, before : SUBSET Ids, items : SUBSET Ids,
             overtaken : SUBSET Ids]

SearchTyped ==
    /\ truth \in [Ids -> SUBSET Searches]
    /\ wire \in Seq(Ids)
    /\ rows \subseteq Ids
    /\ search \in Searches /\ session \in Nat
    /\ pending \in Batches /\ version \in Nat
    /\ flight \subseteq Requests
    /\ page.phase = "answered" => page \in Answered
    /\ page.phase = "asked" => page.before \subseteq Ids

\* A delivery about t is on its way.
Coming(t) == \E i \in 1..Len(wire) : wire[i] = t

Matches(t) == search \in truth[t]

\* Versions grow, within a session, and a request belongs to a session.
Versions ==
    /\ \A t \in DOMAIN pending : pending[t] <= version
    /\ \A r \in flight :
          /\ r.session <= session
          /\ r.session = session => r.search = search /\ \A t \in DOMAIN r.batch : r.batch[t] <= version

\* An answered request is right about the ids no delivery has changed since.
AnswersTrue ==
    \A r \in flight : r.session = session /\ r.done =>
        \A t \in DOMAIN r.batch :
            t \in DOMAIN pending /\ pending[t] = r.batch[t] =>
                Coming(t) \/ (t \in r.answer <=> Matches(t))

\* An answered page is right about every trace no delivery has overtaken.
PageTrue ==
    page.phase = "answered" =>
        \A t \in Ids : t \in page.overtaken \/ Coming(t) \/ (t \in page.items <=> Matches(t))

RowsVouched ==
    Published =>
        \A t \in rows \ late :
            t \in DOMAIN pending \/ Coming(t) \/ (t \in matched <=> Matches(t))

SearchInv == SearchTyped /\ Versions /\ AnswersTrue /\ PageTrue /\ RowsVouched

\* A search starts with its first page asked for.
LEMMA SearchInit == Init => SearchInv
  <1> SUFFICES ASSUME Init PROVE SearchInv
    OBVIOUS
  <1>1. <<>> \in Batches
    <2>1. <<>> \in [{} -> Nat]
      OBVIOUS
    <2>2. QED
      BY <2>1 DEF Batches
  <1>2. DOMAIN pending = {}
    BY DEF Init
  <1>3. page.phase = "asked" /\ page.before = {}
    BY DEF Init
  <1>4. SearchTyped
    BY <1>1, <1>3, TraceSearchAssumption DEF Init, SearchTyped
  <1>5. QED
    BY <1>2, <1>3, <1>4 DEF Init, SearchInv, Versions, AnswersTrue, PageTrue, RowsVouched, Published

\* Where the deliveries are after the wire has moved.
LEMMA WireMoves ==
  ASSUME wire \in Seq(Ids)
  PROVE  /\ \A t \in Ids : wire' = Append(wire, t) =>
               wire' \in Seq(Ids) /\ Coming(t)' /\ \A u : Coming(u) => Coming(u)'
         /\ wire # <<>> /\ wire' = Tail(wire) =>
               /\ wire' \in Seq(Ids) /\ Head(wire) \in Ids
               /\ \A u : Coming(u) => u = Head(wire) \/ Coming(u)'
  <1>1. ASSUME NEW t \in Ids, wire' = Append(wire, t)
        PROVE  wire' \in Seq(Ids) /\ Coming(t)' /\ \A u : Coming(u) => Coming(u)'
    <2>1. /\ wire' \in Seq(Ids) /\ Len(wire) \in Nat /\ Len(wire') = Len(wire) + 1
          /\ wire'[Len(wire) + 1] = t /\ \A i \in 1..Len(wire) : wire'[i] = wire[i]
      BY <1>1, AppendProperties
    <2>2. QED
      BY <2>1 DEF Coming
  <1>2. ASSUME wire # <<>>, wire' = Tail(wire)
        PROVE  /\ wire' \in Seq(Ids) /\ Head(wire) \in Ids
               /\ \A u : Coming(u) => u = Head(wire) \/ Coming(u)'
    <2>1. /\ wire' \in Seq(Ids) /\ Head(wire) \in Ids /\ Head(wire) = wire[1]
          /\ Len(wire) \in Nat /\ Len(wire') = Len(wire) - 1
          /\ \A i \in 1..Len(wire') : wire'[i] = wire[i + 1]
      BY <1>2, HeadTailProperties
    <2>2. ASSUME NEW i \in 1..Len(wire), i # 1 PROVE \E j \in 1..Len(wire') : wire'[j] = wire[i]
      <3>1. i - 1 \in 1..Len(wire') /\ wire'[i - 1] = wire[i]
        BY <2>1, <2>2
      <3>2. QED
        BY <3>1
    <2>3. QED
      BY <2>1, <2>2 DEF Coming
  <1>3. QED
    BY <1>1, <1>2

\* Where nothing the invariant speaks of changes it is kept.
LEMMA SearchStutter ==
  SearchInv /\ UNCHANGED <<truth, wire, rows, matched, search, session, page, pending, version, flight, late>>
    => SearchInv'
  BY DEF SearchInv, SearchTyped, Versions, AnswersTrue, PageTrue, RowsVouched, Published, Coming, Matches

\* A trace that changes at the server is on its way from then on.
LEMMA UpdateKeeps ==
  ASSUME SearchInv, NEW t \in Ids, NEW S \in SUBSET Searches, Update(t, S)
  PROVE  SearchInv'
  <1>1. /\ wire' \in Seq(Ids) /\ Coming(t)' /\ \A u : Coming(u) => Coming(u)'
    BY WireMoves DEF SearchInv, SearchTyped, Update
  <1>2. \A u \in Ids : u # t => (Matches(u) <=> Matches(u)')
    BY DEF Matches, Update, SearchInv, SearchTyped
  <1>3. /\ UNCHANGED <<rows, matched, search, session, page, pending, version, flight, late>>
    BY DEF Update, effectVars
  <1>4. SearchTyped'
    BY <1>1, <1>3 DEF SearchInv, SearchTyped, Update
  <1>5. Versions'
    BY <1>3 DEF SearchInv, Versions
  <1>6. \A r \in flight : DOMAIN r.batch \subseteq Ids
    BY DEF SearchInv, SearchTyped, Requests, Batches
  <1>7. AnswersTrue'
    BY <1>1, <1>2, <1>3, <1>6 DEF SearchInv, AnswersTrue
  <1>8. PageTrue'
    BY <1>1, <1>2, <1>3 DEF SearchInv, PageTrue
  <1>9. RowsVouched'
    BY <1>1, <1>2, <1>3 DEF SearchInv, SearchTyped, RowsVouched, Published
  <1>10. QED
    BY <1>4, <1>5, <1>7, <1>8, <1>9 DEF SearchInv

\* A delivered trace becomes an open question with a version no request has.
LEMMA AddTraceKeeps == SearchInv /\ addTrace => SearchInv'
  <1> SUFFICES ASSUME SearchInv, addTrace PROVE SearchInv'
    OBVIOUS
  <1> DEFINE t == Head(wire)
  <1>1. /\ wire' \in Seq(Ids) /\ t \in Ids
        /\ \A u : Coming(u) => u = t \/ Coming(u)'
    BY WireMoves DEF SearchInv, SearchTyped, addTrace
  <1>2. /\ rows' = rows \cup {t} /\ version' = version + 1 /\ late' = late \ {t}
        /\ pending' = [u \in DOMAIN pending \cup {t} |-> IF u = t THEN version + 1 ELSE pending[u]]
        /\ page' = IF page.phase = "answered"
                     THEN [page EXCEPT !.overtaken = @ \cup {t}] ELSE page
        /\ UNCHANGED <<truth, matched, search, session, flight>>
    BY DEF addTrace
  <1> HIDE DEF t
  <1>3. /\ DOMAIN pending' = DOMAIN pending \cup {t} /\ pending'[t] = version + 1
        /\ \A u \in DOMAIN pending : u # t => pending'[u] = pending[u]
    BY <1>2
  <1>4. version \in Nat /\ DOMAIN pending \in SUBSET Ids /\ pending \in [DOMAIN pending -> Nat]
    BY DEF SearchInv, SearchTyped, Batches
  <1>5. pending' \in Batches
    <2>1. \A u \in DOMAIN pending' : pending'[u] \in Nat
      BY <1>3, <1>4
    <2>2. pending' \in [DOMAIN pending' -> Nat]
      BY <1>2, <2>1
    <2>3. QED
      BY <1>1, <1>3, <1>4, <2>2 DEF Batches
  <1>6. /\ page'.phase = page.phase
        /\ page.phase # "answered" => page' = page
        /\ page.phase = "answered" =>
             page'.items = page.items /\ page'.overtaken = page.overtaken \cup {t} /\ page' \in Answered
    BY <1>1, <1>2 DEF SearchInv, SearchTyped, Answered
  <1>7. SearchTyped'
    BY <1>1, <1>2, <1>4, <1>5, <1>6 DEF SearchInv, SearchTyped
  <1>8. Versions'
    <2>1. \A u \in DOMAIN pending' : pending'[u] <= version'
      BY <1>2, <1>3, <1>4 DEF SearchInv, Versions
    <2>2. ASSUME NEW r \in flight, r.session = session, NEW u \in DOMAIN r.batch
          PROVE  r.batch[u] <= version'
      <3>1. r.batch[u] \in Nat /\ r.batch[u] <= version
        BY <2>2 DEF SearchInv, SearchTyped, Requests, Batches, Versions
      <3>2. QED
        BY <1>2, <1>4, <3>1
    <2>3. QED
      BY <1>2, <2>1, <2>2 DEF SearchInv, Versions
  <1>9. AnswersTrue'
    <2>1. ASSUME NEW r \in flight, r.session = session, t \in DOMAIN r.batch PROVE pending'[t] # r.batch[t]
      <3>1. r.batch[t] \in Nat /\ r.batch[t] <= version
        BY <2>1 DEF SearchInv, SearchTyped, Requests, Batches, Versions
      <3>2. QED
        BY <1>3, <1>4, <3>1
    <2>2. \A u : Matches(u)' = Matches(u)
      BY <1>2 DEF Matches
    <2>3. ASSUME NEW r \in flight, r.session = session, r.done, NEW u \in DOMAIN r.batch,
                 u \in DOMAIN pending', pending'[u] = r.batch[u]
          PROVE  Coming(u)' \/ (u \in r.answer <=> Matches(u))
      <3>1. u # t /\ u \in DOMAIN pending /\ pending[u] = r.batch[u]
        BY <1>3, <2>1, <2>3
      <3>2. QED
        BY <1>1, <2>3, <3>1 DEF SearchInv, AnswersTrue
    <2>4. QED
      BY <1>2, <2>2, <2>3 DEF AnswersTrue
  <1>10. PageTrue'
    BY <1>1, <1>2, <1>6 DEF SearchInv, PageTrue, Matches
  <1>11. RowsVouched'
    BY <1>1, <1>2, <1>3, <1>6 DEF SearchInv, RowsVouched, Published, Matches
  <1>12. QED
    BY <1>7, <1>8, <1>9, <1>10, <1>11 DEF SearchInv

\* A request is made from the open questions, which lose only what left the
\* buffer.
LEMMA RunKeeps == SearchInv /\ run => SearchInv'
  <1> SUFFICES ASSUME SearchInv, run PROVE SearchInv'
    OBVIOUS
  <1>1. /\ pending' = [t \in DOMAIN pending \cap rows |-> pending[t]]
        /\ UNCHANGED <<truth, wire, rows, matched, search, session, page, version, late>>
    BY DEF run
  <1>2. version \in Nat /\ DOMAIN pending \in SUBSET Ids /\ pending \in [DOMAIN pending -> Nat]
    BY DEF SearchInv, SearchTyped, Batches
  <1>3. pending' \in Batches
    <2>1. pending' \in [DOMAIN pending \cap rows -> Nat]
      BY <1>1, <1>2
    <2>2. QED
      BY <1>2, <2>1 DEF Batches
  <1>4. /\ DOMAIN pending' = DOMAIN pending \cap rows
        /\ \A t \in DOMAIN pending' : pending'[t] = pending[t]
    BY <1>1
  <1>5. \A r \in flight' \ flight :
          /\ r \in Requests /\ r.session = session /\ r.search = search /\ r.done = FALSE
          /\ \A t \in DOMAIN r.batch : r.batch[t] <= version
    <2>1. CASE flight' = flight
      BY <2>1
    <2>2. CASE flight' # flight
      <3>1. PICK B \in SUBSET DOMAIN pending' :
              flight' = flight \cup {[session |-> session, search |-> search, done |-> FALSE,
                                      batch |-> [t \in B |-> pending'[t]], answer |-> {}]}
        BY <2>2 DEF run
      <3>2. [t \in B |-> pending'[t]] \in Batches
        <4>1. [t \in B |-> pending'[t]] \in [B -> Nat]
          BY <1>2, <1>4
        <4>2. QED
          BY <1>2, <1>4, <4>1 DEF Batches
      <3>3. \A t \in B : pending'[t] <= version
        BY <1>4 DEF SearchInv, Versions
      <3> DEFINE q == [session |-> session, search |-> search, done |-> FALSE,
                       batch |-> [t \in B |-> pending'[t]], answer |-> {}]
      <3>4. q \in Requests
        BY <3>2 DEF SearchInv, SearchTyped, Requests
      <3>5. /\ q.session = session /\ q.search = search /\ q.done = FALSE
            /\ q.batch = [t \in B |-> pending'[t]]
        OBVIOUS
      <3>6. \A t \in DOMAIN q.batch : q.batch[t] <= version
        BY <3>3, <3>5
      <3>7. \A r \in flight' \ flight : r = q
        BY <3>1
      <3> HIDE DEF q
      <3>8. QED
        BY <3>4, <3>5, <3>6, <3>7
    <2>3. QED
      BY <2>1, <2>2
  <1>6. SearchTyped'
    BY <1>1, <1>3, <1>5 DEF SearchInv, SearchTyped
  <1>7. Versions'
    <2>1. \A t \in DOMAIN pending' : pending'[t] <= version'
      BY <1>1, <1>4 DEF SearchInv, Versions
    <2>2. ASSUME NEW r \in flight'
          PROVE  /\ r.session <= session
                 /\ r.session = session =>
                      r.search = search /\ \A t \in DOMAIN r.batch : r.batch[t] <= version
      BY <1>5 DEF SearchInv, Versions, SearchTyped
    <2>3. QED
      BY <1>1, <2>1, <2>2 DEF Versions
  <1>8. AnswersTrue'
    BY <1>1, <1>4, <1>5 DEF SearchInv, AnswersTrue, Coming, Matches
  <1>9. PageTrue'
    BY <1>1 DEF SearchInv, PageTrue, Coming, Matches
  <1>10. RowsVouched'
    BY <1>1, <1>4 DEF SearchInv, RowsVouched, Published, Coming, Matches
  <1>11. QED
    BY <1>6, <1>7, <1>8, <1>9, <1>10 DEF SearchInv

\* The server answers with what is true now.
LEMMA AnswerKeeps ==
  ASSUME SearchInv, NEW r \in flight, matchingTraceIds(r)
  PROVE  SearchInv'
  <1> DEFINE q == [r EXCEPT !.done = TRUE, !.answer = DOMAIN r.batch \cap Matching(r.search)]
  <1>1. /\ flight' = (flight \ {r}) \cup {q}
        /\ UNCHANGED <<truth, wire, rows, matched, search, session, page, pending, version, late>>
    BY DEF matchingTraceIds, effectVars
  <1>2. r \in Requests /\ DOMAIN r.batch \subseteq Ids
    BY DEF SearchInv, SearchTyped, Requests, Batches
  <1>3. /\ q.session = r.session /\ q.search = r.search /\ q.batch = r.batch
        /\ q.answer = DOMAIN r.batch \cap Matching(r.search)
        /\ q \in Requests
    BY <1>2 DEF Requests
  <1> HIDE DEF q
  <1>4. SearchTyped'
    BY <1>1, <1>3 DEF SearchInv, SearchTyped
  <1>5. Versions'
    BY <1>1, <1>3 DEF SearchInv, Versions
  <1>6. AnswersTrue'
    <2>1. ASSUME q.session = session, NEW t \in DOMAIN q.batch PROVE t \in q.answer <=> Matches(t)
      <3>1. r.search = search
        BY <1>3, <2>1 DEF SearchInv, Versions
      <3>2. QED
        BY <1>2, <1>3, <2>1, <3>1 DEF Matching, Matches
    <2>2. \A t : Matches(t)' = Matches(t) /\ Coming(t)' = Coming(t)
      BY <1>1 DEF Matches, Coming
    <2>3. QED
      BY <1>1, <2>1, <2>2 DEF SearchInv, AnswersTrue
  <1>7. PageTrue' /\ RowsVouched'
    BY <1>1 DEF SearchInv, PageTrue, RowsVouched, Published, Coming, Matches
  <1>8. QED
    BY <1>4, <1>5, <1>6, <1>7 DEF SearchInv

\* An answer settles the ids that are still current; nothing it settles has
\* changed at the server without a delivery that is still to come.
LEMMA ResolvesKeeps ==
  ASSUME SearchInv, NEW r \in flight, resolves(r)
  PROVE  SearchInv'
  <1>1. /\ flight' = flight \ {r}
        /\ UNCHANGED <<truth, wire, rows, search, session, page, late>>
        /\ r.done
    BY DEF resolves
  <1>2. \A t : Matches(t)' = Matches(t) /\ Coming(t)' = Coming(t)
    BY <1>1 DEF Matches, Coming
  <1>3. CASE disposed(r)
    <2>1. UNCHANGED <<matched, pending, version>>
      BY <1>3 DEF resolves, effectVars
    <2>2. QED
      BY <1>1, <1>2, <2>1 DEF SearchInv, SearchTyped, Versions, AnswersTrue, PageTrue, RowsVouched, Published
  <1>4. CASE ~disposed(r)
    <2> DEFINE ids == current(r.batch)
    <2>1. /\ matched' = (matched \ ids) \cup (ids \cap r.answer)
          /\ pending' = [t \in DOMAIN pending \ ids |-> pending[t]]
          /\ version' = version
      BY <1>4 DEF resolves, applyMatches, remaining
    <2>2. \A t \in ids : t \in DOMAIN r.batch /\ t \in DOMAIN pending /\ pending[t] = r.batch[t]
      BY DEF current
    <2> HIDE DEF ids
    <2>3. \A t \in ids : Coming(t) \/ (t \in r.answer <=> Matches(t))
      BY <1>1, <1>4, <2>2 DEF SearchInv, AnswersTrue, disposed
    <2>4. /\ DOMAIN pending' = DOMAIN pending \ ids
          /\ \A t \in DOMAIN pending' : pending'[t] = pending[t]
      BY <2>1
    <2>5. pending' \in Batches
      <3>1. pending \in [DOMAIN pending -> Nat] /\ DOMAIN pending \in SUBSET Ids
        BY DEF SearchInv, SearchTyped, Batches
      <3>2. pending' \in [DOMAIN pending \ ids -> Nat]
        BY <2>1, <3>1
      <3>3. QED
        BY <3>1, <3>2 DEF Batches
    <2>6. SearchTyped'
      BY <1>1, <2>1, <2>5 DEF SearchInv, SearchTyped
    <2>7. Versions'
      BY <1>1, <2>1, <2>4 DEF SearchInv, Versions
    <2>8. AnswersTrue'
      BY <1>1, <1>2, <2>4 DEF SearchInv, AnswersTrue
    <2>9. PageTrue'
      BY <1>1, <1>2 DEF SearchInv, PageTrue
    <2>10. RowsVouched'
      BY <1>1, <1>2, <2>1, <2>3, <2>4 DEF SearchInv, RowsVouched, Published
    <2>11. QED
      BY <2>6, <2>7, <2>8, <2>9, <2>10 DEF SearchInv
  <1>5. QED
    BY <1>3, <1>4

\* A failed request only leaves.
LEMMA RejectsKeeps ==
  ASSUME SearchInv, NEW r \in flight, rejects(r)
  PROVE  SearchInv'
  <1>1. /\ flight' \subseteq flight
        /\ UNCHANGED <<truth, wire, rows, matched, search, session, page, pending, version, late>>
    BY DEF rejects, effectVars
  <1>2. \A t : Matches(t)' = Matches(t) /\ Coming(t)' = Coming(t)
    BY <1>1 DEF Matches, Coming
  <1>3. QED
    BY <1>1, <1>2 DEF SearchInv, SearchTyped, Versions, AnswersTrue, PageTrue, RowsVouched, Published

\* The page of results: true when it is taken, and overtaken where it is not
\* when it is published.
LEMMA PageKeeps == SearchInv /\ (fetchPage \/ replacePage \/ pageFails) => SearchInv'
  <1> SUFFICES ASSUME SearchInv, fetchPage \/ replacePage \/ pageFails PROVE SearchInv'
    OBVIOUS
  <1>1. UNCHANGED <<truth, wire, search, session, pending, version, flight>>
    BY DEF fetchPage, replacePage, pageFails, effectVars
  <1>2. \A t : Matches(t)' = Matches(t) /\ Coming(t)' = Coming(t)
    BY <1>1 DEF Matches, Coming
  <1>3. Versions' /\ AnswersTrue'
    BY <1>1, <1>2 DEF SearchInv, Versions, AnswersTrue
  <1>4. CASE fetchPage
    <2>1. /\ page' = [phase |-> "answered", before |-> page.before, items |-> Matching(search), overtaken |-> {}]
          /\ UNCHANGED <<rows, matched, late>> /\ page.before \subseteq Ids
      BY <1>4 DEF fetchPage, SearchInv, SearchTyped
    <2>2. page'.phase = "answered" /\ page'.items = Matching(search) /\ page' \in Answered
      BY <2>1 DEF Answered, Matching
    <2>3. SearchTyped'
      BY <1>1, <2>1, <2>2 DEF SearchInv, SearchTyped
    <2>4. PageTrue' /\ RowsVouched'
      BY <1>2, <2>2 DEF PageTrue, RowsVouched, Published, Matching, Matches
    <2>5. QED
      BY <1>3, <2>3, <2>4 DEF SearchInv
  <1>5. CASE replacePage
    <2>1. /\ rows' = (rows \ page.before) \cup page.items /\ matched' = page.items
          /\ late' = {t \in page.overtaken : t \notin DOMAIN pending}
          /\ page' = NoPage /\ page.phase = "answered"
      BY <1>5 DEF replacePage
    <2>2. page'.phase = "idle"
      BY <2>1 DEF NoPage
    <2>3. page.items \subseteq Ids
      BY <2>1 DEF SearchInv, SearchTyped, Answered
    <2>4. SearchTyped'
      BY <1>1, <2>1, <2>2, <2>3 DEF SearchInv, SearchTyped
    <2>5. RowsVouched'
      <3>1. ASSUME NEW t \in rows' \ late'
            PROVE  t \in DOMAIN pending \/ Coming(t) \/ (t \in page.items <=> Matches(t))
        <4>1. t \in Ids
          BY <2>4, <3>1 DEF SearchTyped
        <4>2. QED
          BY <2>1, <3>1, <4>1 DEF SearchInv, PageTrue
      <3>2. QED
        BY <1>1, <1>2, <2>1, <3>1 DEF RowsVouched
    <2>6. PageTrue'
      BY <2>2 DEF PageTrue
    <2>7. QED
      BY <1>3, <2>4, <2>5, <2>6 DEF SearchInv
  <1>6. CASE pageFails
    <2>1. page' = [phase |-> "failed"] /\ UNCHANGED <<rows, matched, late>>
      BY <1>6 DEF pageFails
    <2>2. page'.phase = "failed"
      BY <2>1
    <2>3. QED
      BY <1>1, <1>3, <2>1, <2>2 DEF SearchInv, SearchTyped, PageTrue, RowsVouched, Published
  <1>7. QED
    BY <1>4, <1>5, <1>6

\* A new search starts with nothing asked and no request of its own.
LEMMA SetTextKeeps ==
  ASSUME SearchInv, NEW s \in Searches, setText(s)
  PROVE  SearchInv'
  <1>1. /\ search' = s /\ session' = session + 1
        /\ page' = [phase |-> "asked", before |-> rows]
        /\ pending' = <<>> /\ version' = 0
        /\ UNCHANGED <<truth, wire, rows, matched, flight, late>>
    BY DEF setText, Fresh
  <1>2. page'.phase = "asked" /\ page'.before = rows
    BY <1>1
  <1>3. pending' \in Batches /\ DOMAIN pending' = {}
    <2>1. <<>> \in [{} -> Nat] /\ DOMAIN <<>> = {}
      OBVIOUS
    <2>2. QED
      BY <1>1, <2>1 DEF Batches
  <1>4. session \in Nat /\ rows \subseteq Ids
    BY DEF SearchInv, SearchTyped
  <1>5. SearchTyped'
    BY <1>1, <1>2, <1>3, <1>4 DEF SearchInv, SearchTyped
  <1>6. \A r \in flight : r.session \in Nat /\ r.session <= session
    BY DEF SearchInv, SearchTyped, Versions, Requests
  <1>7. \A r \in flight : r.session <= session' /\ r.session # session'
    BY <1>1, <1>4, <1>6
  <1>8. Versions' /\ AnswersTrue'
    BY <1>1, <1>3, <1>7 DEF Versions, AnswersTrue
  <1>9. PageTrue' /\ RowsVouched'
    BY <1>2 DEF PageTrue, RowsVouched, Published
  <1>10. QED
    BY <1>5, <1>8, <1>9 DEF SearchInv

\* Every callback keeps the versions of the questions right.
LEMMA SearchNext == SearchInv /\ [Next]_vars => SearchInv'
  <1> SUFFICES ASSUME SearchInv, [Next]_vars PROVE SearchInv'
    OBVIOUS
  <1>1. ASSUME NEW t \in Ids, NEW S \in SUBSET Searches, Update(t, S) PROVE SearchInv'
    BY <1>1, UpdateKeeps
  <1>2. ASSUME NEW t \in Ids, dropRow(t) PROVE SearchInv'
    <2>1. rows' \subseteq rows
          /\ UNCHANGED <<truth, wire, matched, search, session, page, pending, version, flight, late>>
      BY <1>2 DEF dropRow, effectVars
    <2>2. \A u : Matches(u)' = Matches(u) /\ Coming(u)' = Coming(u)
      BY <2>1 DEF Matches, Coming
    <2>3. QED
      BY <2>1, <2>2 DEF SearchInv, SearchTyped, Versions, AnswersTrue, PageTrue, RowsVouched, Published
  <1>3. ASSUME NEW r \in flight, matchingTraceIds(r) \/ resolves(r) \/ rejects(r) PROVE SearchInv'
    BY <1>3, AnswerKeeps, ResolvesKeeps, RejectsKeeps
  <1>4. CASE addTrace \/ run \/ fetchPage \/ replacePage \/ pageFails
    BY <1>4, AddTraceKeeps, RunKeeps, PageKeeps
  <1>5. ASSUME NEW s \in Searches, setText(s) PROVE SearchInv'
    BY <1>5, SetTextKeeps
  <1>6. CASE UNCHANGED vars
    BY <1>6, SearchStutter DEF vars, effectVars
  <1>7. QED
    BY <1>1, <1>2, <1>3, <1>4, <1>5, <1>6 DEF Next, Closure

\* "Version each ID so a response cannot vouch for a newer update": in any
\* interleaving of commits, deliveries, answers, failures, pages and new
\* searches, a row of the published search is marked a match exactly when it
\* is one, unless its question is open, its delivery is on the way, or a page
\* that the delivery had overtaken spoke last.
THEOREM RowsAreVouched == Spec => []VouchedTrue
  <1>1. Init => SearchInv
    BY SearchInit
  <1>2. SearchInv /\ [Next]_vars => SearchInv'
    BY SearchNext
  <1>3. SearchInv => VouchedTrue
    <2> SUFFICES ASSUME SearchInv, Published, NEW t \in rows \ late
                 PROVE  t \in DOMAIN pending \/ t \in Range(wire) \/ (t \in matched <=> t \in Matching(search))
      BY DEF VouchedTrue
    <2>1. t \in Ids
      BY DEF SearchInv, SearchTyped
    <2>2. Matches(t) <=> t \in Matching(search)
      BY <2>1 DEF Matches, Matching
    <2>3. Coming(t) => t \in Range(wire)
      <3>1. DOMAIN wire = 1..Len(wire)
        BY DEF SearchInv, SearchTyped
      <3>2. QED
        BY <3>1 DEF Coming, Range
    <2>4. QED
      BY <2>2, <2>3 DEF SearchInv, RowsVouched
  <1>4. QED
    BY <1>1, <1>2, <1>3, PTL DEF Spec

----
(* A location and its window.                                              *)

SearchKeys == {"q", "range", "from", "to", "filter", "disabled", "spanTab", "link"}
IsSearch(s) == /\ SearchKeys \subseteq DOMAIN s
               /\ s.range \in Ranges \cup {Undefined}
               /\ s.from \in Int \cup {Undefined} /\ s.to \in Int \cup {Undefined}
IsPlace(l) == {"at", "id", "search"} \subseteq DOMAIN l /\ IsSearch(l.search)

FixedWindows == {w \in [mode : {"fixed"}, from : Int, to : Int] : w.from < w.to}
EventWindows == FixedWindows \cup [mode : {"live"}, range : Ranges]

\* Every search names a window.
LEMMA WindowTyped ==
  ASSUME NEW s, IsSearch(s)
  PROVE  eventWindowFromSearch(s) \in EventWindows
  BY BrowseAssumption DEF eventWindowFromSearch, EventWindows, FixedWindows, IsSearch

\* A window written into a search is the one it names; the rest stays.
LEMMA WindowWritten ==
  ASSUME NEW s, IsSearch(s), NEW w \in EventWindows
  PROVE  /\ IsSearch(withWindow(s, w)) /\ eventWindowFromSearch(withWindow(s, w)) = w
         /\ \A k \in {"q", "filter", "disabled", "spanTab", "link"} : withWindow(s, w)[k] = s[k]
  <1>1. Default \in Ranges /\ Ranges \subseteq Int /\ Undefined \notin Int
    BY BrowseAssumption
  <1>2. CASE w \in FixedWindows
    <2>1. PICK x : x = withWindow(s, w)
      OBVIOUS
    <2>2. x = [s EXCEPT !.from = w.from, !.to = w.to, !.range = Undefined]
      BY <1>2, <2>1 DEF withWindow, FixedWindows
    <2>3. /\ DOMAIN x = DOMAIN s /\ x.from = w.from /\ x.to = w.to /\ x.range = Undefined
          /\ \A k \in {"q", "filter", "disabled", "spanTab", "link"} : x[k] = s[k]
      BY <2>2 DEF IsSearch, SearchKeys
    <2>4. IsSearch(x)
      BY <1>2, <2>3 DEF IsSearch, FixedWindows
    <2>5. eventWindowFromSearch(x) = w
      BY <1>1, <1>2, <2>3 DEF eventWindowFromSearch, FixedWindows
    <2>6. QED
      BY <2>1, <2>3, <2>4, <2>5
  <1>3. CASE w \in [mode : {"live"}, range : Ranges]
    <2>1. PICK x, r : x = withWindow(s, w) /\ r = (IF w.range = Default THEN Undefined ELSE w.range)
      OBVIOUS
    <2>2. x = [s EXCEPT !.from = Undefined, !.to = Undefined, !.range = r]
      BY <1>3, <2>1 DEF withWindow
    <2>3. /\ DOMAIN x = DOMAIN s /\ x.from = Undefined /\ x.to = Undefined /\ x.range = r
          /\ \A k \in {"q", "filter", "disabled", "spanTab", "link"} : x[k] = s[k]
      BY <2>2 DEF IsSearch, SearchKeys
    <2>4. IsSearch(x)
      BY <1>3, <2>1, <2>3 DEF IsSearch
    <2>5. eventWindowFromSearch(x) = w
      BY <1>1, <1>3, <2>1, <2>3 DEF eventWindowFromSearch
    <2>6. QED
      BY <2>1, <2>3, <2>4, <2>5
  <1>4. QED
    BY <1>2, <1>3 DEF EventWindows

\* New text and filters leave the window.
LEMMA QueryWritten ==
  ASSUME NEW s, IsSearch(s), NEW text, NEW filters
  PROVE  IsSearch(withQuery(s, text, filters))
  <1>1. \E a, b : withQuery(s, text, filters) = [s EXCEPT !.q = text, !.filter = a, !.disabled = b]
    BY DEF withQuery
  <1>2. QED
    BY <1>1 DEF IsSearch, SearchKeys

\* The empty search, and one without tab and link.
LEMMA SearchShapes ==
  ASSUME NEW s, IsSearch(s)
  PROVE  /\ IsSearch(NoSearch) /\ IsSearch(Unlinked(s))
         /\ \A x : IsSearch([s EXCEPT !.link = x]) /\ IsSearch([s EXCEPT !.spanTab = x])
  BY DEF IsSearch, SearchKeys, NoSearch, Unlinked

\* A search with another value under one of its keys.
LEMMA SearchKeyWritten ==
  ASSUME NEW s, IsSearch(s)
  PROVE  /\ \A x : /\ IsSearch([s EXCEPT !.q = x])
                    /\ IsSearch([s EXCEPT !.filter = x]) /\ IsSearch([s EXCEPT !.disabled = x])
                    /\ IsSearch([s EXCEPT !.spanTab = x]) /\ IsSearch([s EXCEPT !.link = x])
         /\ \A x \in Int : IsSearch([s EXCEPT !.from = x]) /\ IsSearch([s EXCEPT !.to = x])
         /\ \A x \in Ranges : IsSearch([s EXCEPT !.range = x])
  BY DEF IsSearch, SearchKeys

\* What the filters of a search are read from.
LEMMA FiltersRead ==
  ASSUME NEW s, NEW u, s.filter = u.filter, s.disabled = u.disabled
  PROVE  readFilters(s) = readFilters(u)
  BY DEF readFilters

----
(* The memory of the tabs.                                                 *)

\* What the router remembers of the tabs is what they showed last, and all it
\* may go to are places.
MemoryInv ==
    /\ destinations = shown /\ DOMAIN shown = Tabs
    /\ \A tab \in Tabs : shown[tab] # <<>> => IsPlace(shown[tab][1])
    /\ IsSearch(eventSearch) /\ seen = eventWindowFromSearch(eventSearch)
    /\ IsPlace(loc)
    /\ \E S : past \in Seq(S) /\ future \in Seq(S) /\ \A l \in S : IsPlace(l)

\* A shared URL is a place.
LEMMA MemoryInit == BrowseInit => MemoryInv
  <1>1. SUFFICES ASSUME BrowseInit PROVE MemoryInv
    OBVIOUS
  <1>2. IsPlace(loc)
    <2>1. All \in Ranges /\ Now \in Int /\ Now - 1 \in Int /\ Now - Default \in Int
      BY BrowseAssumption DEF All
    <2>2. IsSearch(NoSearch)
      BY DEF IsSearch, SearchKeys, NoSearch
    <2>3. PICK t, x : /\ t = (CHOOSE trace \in Traces : TRUE)
                      /\ x = (CHOOSE text \in Texts : TRUE)
      OBVIOUS
    <2>4. IsSearch([NoSearch EXCEPT !.filter = <<t, Junk>>, !.disabled = <<t>>, !.q = x])
      BY <2>2, SearchKeyWritten
    <2>5. IsSearch([NoSearch EXCEPT !.from = Now, !.to = Now - 1, !.range = All])
      BY <2>1, <2>2, SearchKeyWritten
    <2>6. IsSearch([NoSearch EXCEPT !.from = Now - Default, !.to = Now, !.spanTab = "links",
                                    !.disabled = <<t>>])
      BY <2>1, <2>2, SearchKeyWritten
    <2>7. loc \in Links
      BY <1>1 DEF BrowseInit
    <2>8. \A at, id, s : IsSearch(s) => IsPlace([at |-> at, id |-> id, search |-> s])
      BY DEF IsPlace
    <2>9. QED
      BY <2>2, <2>3, <2>4, <2>5, <2>6, <2>7, <2>8 DEF Links
  <1>3. DOMAIN shown = Tabs /\ destinations = shown
    BY <1>1 DEF BrowseInit
  <1>4. \A tab \in Tabs : shown[tab] # <<>> => IsPlace(shown[tab][1])
    BY <1>1, <1>2 DEF BrowseInit
  <1>5. IsSearch(eventSearch) /\ seen = eventWindowFromSearch(eventSearch)
    <2>1. IsSearch(NoSearch) /\ IsSearch(loc.search)
      BY <1>2, SearchShapes DEF IsPlace
    <2>2. QED
      BY <1>1, <2>1 DEF BrowseInit
  <1>6. past \in Seq({}) /\ future \in Seq({})
    BY <1>1 DEF BrowseInit
  <1>7. QED
    BY <1>2, <1>3, <1>4, <1>5, <1>6 DEF MemoryInv

\* To arrive somewhere is to remember it.
LEMMA ArriveKeeps ==
  ASSUME MemoryInv, NEW l, IsPlace(l), Arrive(l),
         \E S : past' \in Seq(S) /\ future' \in Seq(S) /\ \A p \in S : IsPlace(p)
  PROVE  MemoryInv'
  <1>1. PICK t \in Tabs : t = Signal(l)
    BY DEF Signal, Tabs
  <1>2. shown' = [shown EXCEPT ![t] = <<l>>] /\ destinations' = shown'
    BY <1>1 DEF Arrive, remember, MemoryInv
  <1>3. DOMAIN shown' = Tabs
    BY <1>2 DEF MemoryInv
  <1>4. ASSUME NEW tab \in Tabs, shown'[tab] # <<>> PROVE IsPlace(shown'[tab][1])
    <2>1. shown'[tab] = IF tab = t THEN <<l>> ELSE shown[tab]
      BY <1>2 DEF MemoryInv
    <2>2. QED
      BY <1>4, <2>1 DEF MemoryInv
  <1>5. IsSearch(eventSearch') /\ seen' = eventWindowFromSearch(eventSearch')
    <2>1. CASE t = "metrics"
      <3>1. eventSearch' = eventSearch /\ seen' = seen
        BY <1>1, <2>1 DEF Arrive, remember
      <3>2. QED
        BY <3>1 DEF MemoryInv
    <2>2. CASE t # "metrics"
      <3>1. eventSearch' = l.search /\ seen' = eventWindowFromSearch(l.search)
        BY <1>1, <2>2 DEF Arrive, remember
      <3>2. QED
        BY <3>1 DEF IsPlace
    <2>3. QED
      BY <2>1, <2>2
  <1>6. IsPlace(loc')
    BY DEF Arrive
  <1>7. QED
    BY <1>2, <1>3, <1>4, <1>5, <1>6 DEF MemoryInv

\* A new entry of the history is a place.
LEMMA NavigateKeeps ==
  ASSUME MemoryInv, NEW l, IsPlace(l), navigate(l)
  PROVE  MemoryInv'
  <1>1. PICK S : past \in Seq(S) /\ future \in Seq(S) /\ \A p \in S : IsPlace(p)
    BY DEF MemoryInv
  <1>2. PICK Q : Q = S \cup {loc}
    OBVIOUS
  <1>3. past \in Seq(Q) /\ future \in Seq(Q) /\ loc \in Q /\ \A p \in Q : IsPlace(p)
    BY <1>1, <1>2 DEF MemoryInv
  <1>4. Append(past, loc) \in Seq(Q) /\ <<>> \in Seq(Q)
    BY <1>3
  <1>5. past' \in Seq(Q) /\ future' \in Seq(Q)
    BY <1>3, <1>4 DEF navigate
  <1>6. Arrive(l)
    BY DEF navigate
  <1>7. QED
    BY <1>3, <1>5, <1>6, ArriveKeeps

\* Back and forward go to places.
LEMMA HistoryKeeps ==
  ASSUME MemoryInv, History
  PROVE  MemoryInv'
  <1>1. PICK S : past \in Seq(S) /\ future \in Seq(S) /\ \A p \in S : IsPlace(p)
    BY DEF MemoryInv
  <1>2. PICK Q : Q = S \cup {loc}
    OBVIOUS
  <1>3. past \in Seq(Q) /\ future \in Seq(Q) /\ loc \in Q /\ \A p \in Q : IsPlace(p)
    BY <1>1, <1>2 DEF MemoryInv
  <1>4. CASE back
    <2>1. past # <<>> /\ Arrive(Last(past)) /\ past' = Front(past) /\ future' = <<loc>> \o future
      BY <1>4 DEF back
    <2>2. past' \in Seq(Q) /\ Last(past) \in Q
      BY <1>3, <2>1 DEF Front, Last
    <2>3. future' \in Seq(Q)
      BY <1>3, <2>1
    <2>4. QED
      BY <1>3, <2>1, <2>2, <2>3, ArriveKeeps
  <1>5. CASE forward
    <2>1. /\ future # <<>> /\ Arrive(Head(future))
          /\ past' = Append(past, loc) /\ future' = Tail(future)
      BY <1>5 DEF forward
    <2>2. future' \in Seq(Q) /\ Head(future) \in Q /\ past' \in Seq(Q)
      BY <1>3, <2>1
    <2>3. QED
      BY <1>3, <2>1, <2>2, ArriveKeeps
  <1>6. QED
    BY <1>4, <1>5 DEF History

\* A place under another search is one, and so is one by another name.
LEMMA PlaceShapes ==
  ASSUME NEW l, IsPlace(l), NEW s, IsSearch(s), NEW x, NEW y
  PROVE  /\ IsPlace([l EXCEPT !.search = s])
         /\ IsPlace([at |-> x, id |-> y, search |-> s])
         /\ IsPlace([l EXCEPT !.at = x, !.id = y])
         /\ IsPlace([l EXCEPT !.at = x, !.search = s])
  BY DEF IsPlace

\* The page under another search.
LEMMA HerePlace ==
  ASSUME IsPlace(loc), NEW s, IsSearch(s)
  PROVE  IsPlace(Here(s)) /\ Here(s).search = s
  BY DEF IsPlace, Here

\* A tab is a place under a window.
LEMMA TabPlace ==
  ASSUME MemoryInv, NEW tab \in Tabs, setActiveTab(tab),
         NEW l, l = IF destinations[tab] = <<>> THEN [at |-> tab, id |-> None, search |-> NoSearch]
                    ELSE destinations[tab][1]
  PROVE  /\ IsPlace(l)
         /\ navigate(IF tab = "metrics" THEN l
                     ELSE [l EXCEPT !.search = withWindow(l.search, eventWindowFromSearch(eventSearch))])
  <1>1. IsSearch(NoSearch)
    BY SearchShapes DEF MemoryInv
  <1>2. IsPlace(l)
    BY <1>1 DEF MemoryInv, IsPlace
  <1>3. QED
    BY <1>2 DEF setActiveTab, Go

\* A tab that is shown is remembered.
LEMMA TabKeeps ==
  ASSUME MemoryInv, NEW tab \in Tabs, setActiveTab(tab)
  PROVE  MemoryInv'
  <1>1. PICK l : l = IF destinations[tab] = <<>> THEN [at |-> tab, id |-> None, search |-> NoSearch]
                     ELSE destinations[tab][1]
    OBVIOUS
  <1>2. PICK s : s = withWindow(l.search, eventWindowFromSearch(eventSearch))
    OBVIOUS
  <1>3. IsPlace(l) /\ navigate(IF tab = "metrics" THEN l ELSE [l EXCEPT !.search = s])
    BY <1>1, <1>2, TabPlace
  <1>4. IsSearch(s)
    BY <1>2, <1>3, WindowTyped, WindowWritten DEF IsPlace, MemoryInv
  <1>5. IsPlace([l EXCEPT !.search = s])
    BY <1>3, <1>4, PlaceShapes
  <1>6. QED
    BY <1>3, <1>5, NavigateKeeps

\* Rows, details, links and buttons go to places.
LEMMA SelectKeeps ==
  ASSUME MemoryInv, Select
  PROVE  MemoryInv'
  <1>1. IsPlace(loc) /\ IsSearch(loc.search) /\ IsSearch(Unlinked(loc.search))
    BY SearchShapes DEF MemoryInv, IsPlace
  <1>2. ASSUME NEW l, IsPlace(l), Go(l) PROVE MemoryInv'
    BY <1>2, NavigateKeeps DEF Go
  <1>3. ASSUME NEW t, selectTrace(t) \/ followLink(t) \/ closeTrace PROVE MemoryInv'
    BY <1>1, <1>2, <1>3, PlaceShapes DEF selectTrace, followLink, closeTrace
  <1>4. ASSUME NEW t, traceRemoved(t) \/ selectLog \/ closeLog \/ selectMetric \/ closeMetric
        PROVE  MemoryInv'
    BY <1>1, <1>2, <1>4, PlaceShapes DEF traceRemoved, selectLog, closeLog, selectMetric, closeMetric
  <1>5. ASSUME NEW tab, selectSpan(tab) PROVE MemoryInv'
    <2>1. PICK x : x = IF tab = None THEN loc.search.spanTab ELSE tab
      OBVIOUS
    <2>2. PICK s : s = [[loc.search EXCEPT !.link = None] EXCEPT !.spanTab = x]
      OBVIOUS
    <2>3. IsSearch(s)
      BY <1>1, <2>2, SearchKeyWritten
    <2>4. Go([loc EXCEPT !.at = "span", !.search.link = None,
                         !.search.spanTab = IF tab = None THEN @ ELSE tab])
      BY <1>5 DEF selectSpan
    <2>5. PICK l : l = [loc EXCEPT !.at = "span", !.search.link = None,
                                   !.search.spanTab = IF tab = None THEN @ ELSE tab]
      OBVIOUS
    <2>6. DOMAIN l = DOMAIN loc /\ l.search = s
      BY <1>1, <2>1, <2>2, <2>5 DEF IsPlace, IsSearch, SearchKeys
    <2>7. IsPlace(l)
      BY <1>1, <2>3, <2>6 DEF IsPlace
    <2>8. QED
      BY <1>2, <2>4, <2>5, <2>7
  <1>6. ASSUME NEW tab, closeSpan \/ selectSpanTab(tab) \/ openLink PROVE MemoryInv'
    <2>1. \A x, y : IsSearch([loc.search EXCEPT !.spanTab = x, !.link = y])
      BY <1>1, SearchKeyWritten
    <2>2. \A y : IsSearch([loc.search EXCEPT !.link = y])
      BY <1>1, SearchKeyWritten
    <2>3. CASE closeSpan
      BY <1>1, <1>2, <2>3, PlaceShapes DEF closeSpan, Unlinked
    <2>4. CASE selectSpanTab(tab)
      BY <1>1, <1>2, <2>1, <2>4, PlaceShapes DEF selectSpanTab, Here
    <2>5. CASE openLink
      BY <1>1, <1>2, <2>2, <2>5, PlaceShapes DEF openLink, Here
    <2>6. QED
      BY <1>6, <2>3, <2>4, <2>5
  <1>7. CASE closeLink
    <2>1. PICK l : l = Here([loc.search EXCEPT !.link = None])
      OBVIOUS
    <2>2. IsSearch([loc.search EXCEPT !.link = None])
      BY <1>1, SearchKeyWritten
    <2>3. IsPlace(l)
      BY <1>1, <2>1, <2>2, PlaceShapes DEF Here
    <2>4. Arrive(l) /\ past' = past /\ future' = future
      BY <1>7, <2>1 DEF closeLink
    <2>5. QED
      BY <2>3, <2>4, ArriveKeeps DEF MemoryInv
  <1>8. ASSUME NEW t, navigateToTrace(t) \/ navigateToLogs PROVE MemoryInv'
    <2>1. \A tab \in Tabs : IsSearch(Remembered(tab))
      BY SearchShapes DEF Remembered, MemoryInv, IsPlace
    <2>2. PICK w \in EventWindows : w = eventWindowFromSearch(loc.search)
      BY <1>1, WindowTyped
    <2>3. CASE navigateToTrace(t)
      <3>1. IsSearch(withWindow(Remembered("traces"), w))
        BY <2>1, <2>2, WindowWritten DEF Tabs
      <3>2. Go([at |-> "trace", id |-> t, search |-> withWindow(Remembered("traces"), w)])
        BY <2>2, <2>3 DEF navigateToTrace
      <3>3. QED
        BY <1>1, <1>2, <3>1, <3>2, PlaceShapes
    <2>4. CASE navigateToLogs
      <3>1. PICK query : /\ query = withQuery(Remembered("logs"), Remembered("logs").q,
                                      addQueryFilter(readFilters(Remembered("logs")), loc.id))
                         /\ IsSearch(query)
        BY <2>1, QueryWritten DEF Tabs
      <3>2. IsSearch(withWindow(query, w))
        BY <2>2, <3>1, WindowWritten
      <3>3. Go([at |-> "logs", id |-> None, search |-> withWindow(query, w)])
        BY <2>2, <2>4, <3>1 DEF navigateToLogs
      <3>4. QED
        BY <1>1, <1>2, <3>2, <3>3, PlaceShapes
    <2>5. QED
      BY <1>8, <2>3, <2>4
  <1>9. QED
    BY <1>3, <1>4, <1>5, <1>6, <1>7, <1>8 DEF Select

----
(* Windows.                                                                *)

\* The width of a window is positive.
LEMMA WidthPositive ==
  ASSUME NEW w \in EventWindows
  PROVE  /\ eventWindowWidth(w) \in Nat \ {0}
         /\ w.mode = "live" => w.range \in Ranges
         /\ w.mode = "fixed" <=> w \in FixedWindows
         /\ eventWindowBounds(w)[1] \in Int /\ eventWindowBounds(w)[2] \in Int
         /\ eventWindowBounds(w)[2] = eventWindowBounds(w)[1] + eventWindowWidth(w)
  <1>1. Default \in Nat \ {0} /\ Ranges \subseteq Nat /\ Now \in Nat
    BY BrowseAssumption
  <1>2. CASE w \in FixedWindows
    <2>1. PICK a \in Int, b \in Int : a = w.from /\ b = w.to /\ a < b /\ w.mode = "fixed"
      BY <1>2 DEF FixedWindows
    <2>2. eventWindowWidth(w) = b - a /\ eventWindowBounds(w) = <<a, b>>
      BY <2>1 DEF eventWindowWidth, eventWindowBounds
    <2>3. QED
      BY <1>2, <2>1, <2>2
  <1>3. CASE w \notin FixedWindows
    <2>1. w.mode = "live" /\ w.range \in Ranges
      BY <1>3 DEF EventWindows
    <2>2. PICK n \in Nat \ {0} : n = eventWindowWidth(w)
      BY <1>1, <2>1 DEF eventWindowWidth, All
    <2>3. eventWindowBounds(w) = <<Now - n, Now>>
      BY <2>1, <2>2 DEF eventWindowBounds
    <2>4. QED
      BY <1>1, <1>3, <2>1, <2>2, <2>3
  <1>4. QED
    BY <1>2, <1>3

\* A shifted window and one around a time are as wide as the one they are
\* made from.
LEMMA WidthKept ==
  ASSUME NEW w \in EventWindows
  PROVE  /\ \A d \in {1, -1} :
               /\ shiftEventWindow(w, d) \in FixedWindows
               /\ eventWindowWidth(shiftEventWindow(w, d)) = eventWindowWidth(w)
         /\ \A time \in Nat :
               /\ eventWindowAround(time, w) \in FixedWindows
               /\ eventWindowWidth(eventWindowAround(time, w)) = eventWindowWidth(w)
  <1>1. PICK n \in Nat \ {0} : n = eventWindowWidth(w)
    BY WidthPositive
  <1>2. PICK a \in Int, b \in Int : /\ a = eventWindowBounds(w)[1] /\ b = eventWindowBounds(w)[2]
                                    /\ b = a + n
    BY <1>1, WidthPositive
  <1>3. ASSUME NEW x \in Int, NEW y \in Int, y = x + n
        PROVE  /\ [mode |-> "fixed", from |-> x, to |-> y] \in FixedWindows
               /\ eventWindowWidth([mode |-> "fixed", from |-> x, to |-> y]) = n
    <2>1. x < y /\ y - x = n
      BY <1>3
    <2>2. QED
      BY <2>1 DEF FixedWindows, eventWindowWidth
  <1>4. ASSUME NEW d \in {1, -1}
        PROVE  /\ shiftEventWindow(w, d) \in FixedWindows
               /\ eventWindowWidth(shiftEventWindow(w, d)) = n
    <2>1. PICK x \in Int, y \in Int : x = a + d * n /\ y = b + d * n /\ y = x + n
      BY <1>2
    <2>2. shiftEventWindow(w, d) = [mode |-> "fixed", from |-> x, to |-> y]
      BY <1>1, <1>2, <2>1 DEF shiftEventWindow
    <2>3. QED
      BY <1>3, <2>1, <2>2
  <1>5. ASSUME NEW time \in Nat
        PROVE  /\ eventWindowAround(time, w) \in FixedWindows
               /\ eventWindowWidth(eventWindowAround(time, w)) = n
    <2>1. Now \in Nat
      BY BrowseAssumption
    <2>2. PICK h \in Int : h = n \div 2
      OBVIOUS
    <2>3. PICK x \in Int, y \in Int : x = time - h /\ y = time + n - h /\ y = x + n
      OBVIOUS
    <2>4. PICK z \in Int : z = Now - n /\ Now = z + n
      BY <2>1
    <2>5. \/ eventWindowAround(time, w) = [mode |-> "fixed", from |-> z, to |-> Now]
          \/ eventWindowAround(time, w) = [mode |-> "fixed", from |-> x, to |-> y]
      BY <1>1, <2>2, <2>3, <2>4 DEF eventWindowAround
    <2>6. QED
      BY <1>3, <2>1, <2>3, <2>4, <2>5
  <1>6. QED
    BY <1>1, <1>4, <1>5

\* The window of the page.
LEMMA PageWindow ==
  ASSUME MemoryInv
  PROVE  Window \in EventWindows /\ IsSearch(loc.search)
  BY WindowTyped DEF MemoryInv, IsPlace, Window

\* A window is set by writing it into the page's search.
LEMMA SetWindowKeeps ==
  ASSUME MemoryInv, NEW w \in EventWindows, SetWindow(w)
  PROVE  MemoryInv' /\ eventWindowFromSearch(loc'.search) = w
  <1>1. PICK s : s = withWindow(loc.search, w)
    OBVIOUS
  <1>2. IsSearch(s) /\ eventWindowFromSearch(s) = w /\ IsPlace(loc)
    BY <1>1, WindowWritten DEF MemoryInv, IsPlace
  <1>3. PICK l : l = Here(s) /\ IsPlace(l) /\ l.search = s
    BY <1>2, HerePlace
  <1>4. navigate(l)
    BY <1>1, <1>3 DEF SetWindow, Go
  <1>5. loc' = l
    BY <1>4 DEF navigate, Arrive
  <1>6. QED
    BY <1>2, <1>3, <1>4, <1>5, NavigateKeeps

\* The neighbours of a log, in a window as wide as the page's.
LEMMA SurroundingKeeps ==
  ASSUME MemoryInv, showSurroundingLogs
  PROVE  MemoryInv' /\ eventWindowFromSearch(loc'.search) = eventWindowAround(LogTime, Window)
  <1>1. PICK w \in EventWindows : w = eventWindowAround(LogTime, Window)
    <2>1. LogTime \in Nat
      BY BrowseAssumption
    <2>2. eventWindowAround(LogTime, Window) \in FixedWindows
      BY <2>1, PageWindow, WidthKept
    <2>3. QED
      BY <2>2 DEF EventWindows
  <1>2. PICK s : s = withWindow(NoSearch, w)
    OBVIOUS
  <1>3. IsSearch(s) /\ eventWindowFromSearch(s) = w
    BY <1>2, PageWindow, SearchShapes, WindowWritten
  <1>4. PICK l : l = Here(s) /\ IsPlace(l) /\ l.search = s
    BY <1>3, HerePlace DEF MemoryInv
  <1>5. navigate(l)
    BY <1>1, <1>2, <1>4 DEF showSurroundingLogs, Go
  <1>6. loc' = l
    BY <1>5 DEF navigate, Arrive
  <1>7. QED
    BY <1>1, <1>3, <1>4, <1>5, <1>6, NavigateKeeps

\* The window controls set windows.
LEMMA WindowsKeep ==
  ASSUME MemoryInv, Windows
  PROVE  MemoryInv'
  <1>1. Default \in Ranges /\ Now \in Nat
    BY BrowseAssumption
  <1>2. \A r \in Ranges : [mode |-> "live", range |-> r] \in EventWindows
    BY DEF EventWindows
  <1>3. CASE \E r \in Ranges : selectRange(r)
    BY <1>2, <1>3, SetWindowKeeps DEF selectRange
  <1>4. CASE previousWindow \/ nextWindow
    <2>1. PICK d \in {1, -1} : SetWindow(shiftEventWindow(Window, d))
      BY <1>4 DEF previousWindow, nextWindow
    <2>2. shiftEventWindow(Window, d) \in EventWindows
      BY PageWindow, WidthKept DEF EventWindows
    <2>3. QED
      BY <2>1, <2>2, SetWindowKeeps
  <1>5. CASE goLive
    <2>1. PICK r : r = eventWindowRange(Window)
      OBVIOUS
    <2>2. PICK x : x = (IF r = Undefined THEN Default ELSE r)
      OBVIOUS
    <2>3. r \in Ranges \cup {Undefined}
      BY <2>1, PageWindow, WidthPositive DEF eventWindowRange
    <2>4. x \in Ranges
      BY <1>1, <2>2, <2>3
    <2>5. SetWindow([mode |-> "live", range |-> x])
      BY <1>5, <2>1, <2>2 DEF goLive
    <2>6. QED
      BY <1>2, <2>4, <2>5, SetWindowKeeps
  <1>6. CASE brush
    <2>1. Now - 1 \in Int /\ Now - 1 < Now
      BY <1>1
    <2>2. [mode |-> "fixed", from |-> Now - 1, to |-> Now] \in EventWindows
      BY <1>1, <2>1 DEF EventWindows, FixedWindows
    <2>3. QED
      BY <1>6, <2>2, SetWindowKeeps DEF brush
  <1>7. QED
    BY <1>3, <1>4, <1>5, <1>6, SurroundingKeeps DEF Windows

----
(* Text and filters.                                                       *)

\* What the box, the filter bar and the editor write into the search keeps
\* its window.
LEMMA QueryKeeps ==
  ASSUME MemoryInv, Query
  PROVE  MemoryInv'
  <1>1. IsPlace(loc) /\ IsSearch(loc.search)
    BY DEF MemoryInv, IsPlace
  <1>2. ASSUME NEW text, NEW filters PROVE IsPlace(Here(withQuery(loc.search, text, filters)))
    BY <1>1, QueryWritten, HerePlace
  <1>3. ASSUME NEW text, NEW filters, navigate(Here(withQuery(loc.search, text, filters)))
        PROVE  MemoryInv'
    BY <1>2, <1>3, NavigateKeeps
  <1>4. ASSUME NEW filters, SetFilters(filters) PROVE MemoryInv'
    BY <1>3, <1>4 DEF SetFilters, Go
  <1>5. ASSUME NEW t, setQueryText(t) PROVE MemoryInv'
    BY <1>3, <1>5 DEF setQueryText
  <1>6. ASSUME UNCHANGED <<loc, past, future, destinations, eventSearch, shown, seen>>
        PROVE  MemoryInv'
    BY <1>6 DEF MemoryInv
  <1>7. ASSUME NEW t, type(t) PROVE MemoryInv'
    BY <1>6, <1>7 DEF type
  <1>8. CASE submit \/ clearText \/ clearFilters \/ cancelEdit
    BY <1>4, <1>5, <1>6, <1>8 DEF submit, clearText, clearFilters, cancelEdit
  <1>9. ASSUME NEW term, addFilter(term) \/ filterBy(term) PROVE MemoryInv'
    BY <1>4, <1>9 DEF addFilter, filterBy
  <1>10. ASSUME NEW term, applyEdit(term) PROVE MemoryInv'
    BY <1>3, <1>10 DEF applyEdit
  <1>11. ASSUME NEW id, toggleFilter(id) \/ removeFilter(id) PROVE MemoryInv'
    <2>1. CASE toggleFilter(id)
      BY <1>4, <2>1 DEF toggleFilter
    <2>2. CASE removeFilter(id)
      BY <1>4, <2>2 DEF removeFilter
    <2>3. QED
      BY <1>11, <2>1, <2>2
  <1>12. ASSUME NEW i, openEditor(i) PROVE MemoryInv'
    BY <1>6, <1>12 DEF openEditor
  <1>13. QED
    BY <1>7, <1>8, <1>9, <1>10, <1>11, <1>12 DEF Query

\* Every step keeps the memory.
LEMMA MemoryNext == MemoryInv /\ [BrowseNext]_browseVars => MemoryInv'
  <1>1. SUFFICES ASSUME MemoryInv, [BrowseNext]_browseVars PROVE MemoryInv'
    OBVIOUS
  <1>2. CASE browseVars' = browseVars
    BY <1>1, <1>2 DEF browseVars, MemoryInv
  <1>3. CASE Tab
    BY <1>1, <1>3, TabKeeps DEF Tab
  <1>4. QED
    BY <1>1, <1>2, <1>3, HistoryKeeps, SelectKeeps, WindowsKeep, QueryKeeps DEF BrowseNext

----
(* The theorems.                                                           *)

\* One step of TabRestores.
LEMMA TabStep ==
  ASSUME MemoryInv, NEW tab \in Tabs, setActiveTab(tab)
  PROVE  /\ shown[tab] # <<>> =>
              /\ Place(loc') = Place(shown[tab][1])
              /\ readFilters(loc'.search) = readFilters(shown[tab][1].search)
         /\ eventWindowFromSearch(loc'.search) =
              IF tab # "metrics" THEN seen
              ELSE IF shown[tab] = <<>> THEN [mode |-> "live", range |-> Default]
              ELSE eventWindowFromSearch(shown[tab][1].search)
  <1>1. PICK l : l = IF destinations[tab] = <<>> THEN [at |-> tab, id |-> None, search |-> NoSearch]
                     ELSE destinations[tab][1]
    OBVIOUS
  <1>2. PICK w : w = eventWindowFromSearch(eventSearch)
    OBVIOUS
  <1>3. PICK s : s = withWindow(l.search, w)
    OBVIOUS
  <1>4. IsPlace(l) /\ navigate(IF tab = "metrics" THEN l ELSE [l EXCEPT !.search = s])
    BY <1>1, <1>2, <1>3, TabPlace
  <1>5. w \in EventWindows /\ w = seen /\ destinations = shown
    BY <1>2, WindowTyped DEF MemoryInv
  <1>6. shown[tab] # <<>> => l = shown[tab][1]
    BY <1>1, <1>5
  <1>7. CASE tab = "metrics"
    <2>1. loc' = l
      BY <1>4, <1>7 DEF navigate, Arrive
    <2>2. ASSUME shown[tab] = <<>>
          PROVE  eventWindowFromSearch(l.search) = [mode |-> "live", range |-> Default]
      <3>1. l.search = NoSearch
        BY <1>1, <1>5, <2>2
      <3>2. NoSearch.from = Undefined /\ NoSearch.range = Undefined
        BY DEF NoSearch
      <3>3. eventWindowFromSearch(NoSearch) = [mode |-> "live", range |-> Default]
        BY <3>2, Zenon DEF eventWindowFromSearch
      <3>4. QED
        BY <3>1, <3>3
    <2>3. QED
      BY <1>6, <1>7, <2>1, <2>2
  <1>8. CASE tab # "metrics"
    <2>1. PICK k : k = [l EXCEPT !.search = s]
      OBVIOUS
    <2>2. loc' = k
      BY <1>4, <1>8, <2>1 DEF navigate, Arrive
    <2>3. k.search = s /\ k.at = l.at /\ k.id = l.id
      BY <1>4, <2>1 DEF IsPlace
    <2>4. /\ eventWindowFromSearch(s) = w
          /\ s.q = l.search.q /\ s.filter = l.search.filter /\ s.disabled = l.search.disabled
          /\ s.spanTab = l.search.spanTab /\ s.link = l.search.link
      BY <1>3, <1>4, <1>5, WindowWritten DEF IsPlace
    <2>5. readFilters(s) = readFilters(l.search)
      BY <2>4, FiltersRead
    <2>6. Place(k) = Place(l)
      BY <2>3, <2>4 DEF Place
    <2>7. QED
      BY <1>5, <1>6, <1>8, <2>2, <2>3, <2>4, <2>5, <2>6
  <1>9. QED
    BY <1>7, <1>8

\* setActiveTab and remember: a tab comes back where it was, with its own text
\* and filters; the event tabs under the window one of them showed last, the
\* metrics under their own, after any visit and for every set of windows.
THEOREM TabsComeBack == BrowseSpec => TabRestores
  <1>1. BrowseSpec => []MemoryInv
    BY MemoryInit, MemoryNext, PTL DEF BrowseSpec
  <1>2. MemoryInv =>
          [\A tab \in Tabs : setActiveTab(tab) =>
             /\ shown[tab] # <<>> =>
                  /\ Place(loc') = Place(shown[tab][1])
                  /\ readFilters(loc'.search) = readFilters(shown[tab][1].search)
             /\ eventWindowFromSearch(loc'.search) =
                  IF tab # "metrics" THEN seen
                  ELSE IF shown[tab] = <<>> THEN [mode |-> "live", range |-> Default]
                  ELSE eventWindowFromSearch(shown[tab][1].search)]_browseVars
    BY TabStep
  <1>3. QED
    BY <1>1, <1>2, PTL DEF TabRestores

\* One step of WidthSurvives.
LEMMA WidthStep ==
  ASSUME MemoryInv, previousWindow \/ nextWindow \/ showSurroundingLogs
  PROVE  eventWindowRange(eventWindowFromSearch(loc'.search)) =
           IF eventWindowRange(Window) = All THEN Default ELSE eventWindowRange(Window)
  <1>1. Window \in EventWindows
    BY PageWindow
  <1>2. PICK v : v = eventWindowFromSearch(loc'.search)
    OBVIOUS
  <1>3. v \in FixedWindows /\ eventWindowWidth(v) = eventWindowWidth(Window)
    <2>1. CASE previousWindow \/ nextWindow
      <3>1. PICK d \in {1, -1} : SetWindow(shiftEventWindow(Window, d))
        BY <2>1 DEF previousWindow, nextWindow
      <3>2. shiftEventWindow(Window, d) \in EventWindows
        BY <1>1, WidthKept DEF EventWindows
      <3>3. v = shiftEventWindow(Window, d)
        BY <1>2, <3>1, <3>2, SetWindowKeeps
      <3>4. QED
        BY <1>1, <3>3, WidthKept
    <2>2. CASE showSurroundingLogs
      <3>1. v = eventWindowAround(LogTime, Window)
        BY <1>2, <2>2, SurroundingKeeps
      <3>2. LogTime \in Nat
        BY BrowseAssumption
      <3>3. QED
        BY <1>1, <3>1, <3>2, WidthKept
    <2>3. QED
      BY <2>1, <2>2
  <1>4. PICK w \in EventWindows : w = Window
    BY <1>1
  <1>5. eventWindowRange(v) = IF eventWindowRange(w) = All THEN Default ELSE eventWindowRange(w)
    <2>1. PICK n \in Nat \ {0} : n = eventWindowWidth(w) /\ n = eventWindowWidth(v)
      BY <1>3, <1>4, WidthPositive
    <2>2. Default \in Ranges \ {All} /\ Undefined # All /\ All = 0
      BY BrowseAssumption DEF All
    <2>3. eventWindowRange(v) = IF n \in Ranges \ {All} THEN n ELSE Undefined
      BY <1>3, <2>1 DEF eventWindowRange, FixedWindows
    <2>4. CASE w.mode = "live"
      <3>1. w.range \in Ranges /\ eventWindowRange(w) = w.range
        BY <2>4, WidthPositive DEF eventWindowRange
      <3>2. n = IF w.range = All THEN Default ELSE w.range
        BY <2>1, <2>4 DEF eventWindowWidth
      <3>3. QED
        BY <2>2, <2>3, <3>1, <3>2
    <2>5. CASE w.mode # "live"
      <3>1. eventWindowRange(w) = IF n \in Ranges \ {All} THEN n ELSE Undefined
        BY <2>1, <2>5 DEF eventWindowRange
      <3>2. QED
        BY <2>2, <2>3, <3>1
    <2>6. QED
      BY <2>4, <2>5
  <1>6. QED
    BY <1>2, <1>4, <1>5

\* shiftEventWindow and eventWindowAround keep a window's width, so that Live
\* goes back to the range it came from, for every clock and set of ranges.
THEOREM WindowsKeepTheirWidth == BrowseSpec => WidthSurvives
  <1>1. BrowseSpec => []MemoryInv
    BY MemoryInit, MemoryNext, PTL DEF BrowseSpec
  <1>2. MemoryInv =>
          [previousWindow \/ nextWindow \/ showSurroundingLogs =>
             LET before == eventWindowRange(Window)
             IN  eventWindowRange(eventWindowFromSearch(loc'.search)) =
                   IF before = All THEN Default ELSE before]_browseVars
    BY WidthStep
  <1>3. QED
    BY <1>1, <1>2, PTL DEF WidthSurvives
====
