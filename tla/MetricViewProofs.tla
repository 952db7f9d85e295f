---- MODULE MetricViewProofs ----
(***************************************************************************)
(* Theorems about MetricView, for every history, windows and caps: in live *)
(* mode a stale aggregate is about to be asked for again, but for what a   *)
(* joined request had not read.                                            *)
(***************************************************************************)
EXTENDS MetricView, SequenceTheorems, TLAPS

----
(* The invariant.                                                          *)

LogPoint == [m : Others \cup {"m"}, t : Nat, a : Nat]
Answers == {<<>>} \cup {<<r>> : r \in [ids : SUBSET Nat, upTo : Nat]}
Entries == [data : Answers, error : BOOLEAN, req : Answers]
CacheTyped(c) == \A key \in DOMAIN c : c[key] \in Entries

ViewTyped ==
    /\ log \in Seq(LogPoint) /\ wire \in Seq(Nat)
    /\ window \in Windows
    /\ CacheTyped(series)
    \* The bounds of a live window are open above.
    /\ mounted => (window.mode = "live" <=> bounds.to = Undefined)

\* What the view has to show.
Wanted == {i \in delivered : InBounds(log[i], bounds)}

\* The entry e is about to have the points want, or, while a refetch is due,
\* is asked for at all.
Owes(e, want, due) ==
    /\ e.req # <<>> \/ e.data # <<>> \/ e.error
    /\ ~due => /\ e.req # <<>> => want \subseteq e.req[1].ids
               /\ e.req = <<>> /\ ~e.error => want \subseteq e.data[1].ids

CatchInv ==
    window.mode = "live" /\ enabled => Owes(Entry(series, seriesKey), Wanted \ missed, timer)

----
(* The cache.                                                              *)

\* A put changes one entry.
LEMMA PutEntry ==
  ASSUME NEW c, NEW key, NEW e
  PROVE  /\ Entry(Put(c, key, e), key) = e
         /\ \A other : other # key => Entry(Put(c, key, e), other) = Entry(c, other)
         /\ CacheTyped(c) /\ e \in Entries => CacheTyped(Put(c, key, e))
  <1> DEFINE p == Put(c, key, e)
  <1>1. /\ DOMAIN p = {key} \cup DOMAIN c
        /\ p[key] = e /\ \A x \in DOMAIN c : x # key => p[x] = c[x]
    BY DEF Put
  <1> HIDE DEF p
  <1>2. Entry(p, key) = e
    BY <1>1 DEF Entry
  <1>3. ASSUME NEW other, other # key PROVE Entry(p, other) = Entry(c, other)
    BY <1>1, <1>3 DEF Entry
  <1>4. CacheTyped(c) /\ e \in Entries => CacheTyped(p)
    BY <1>1 DEF CacheTyped
  <1>5. QED
    BY <1>2, <1>3, <1>4 DEF p

\* Every entry is typed, one that is not there too.
LEMMA EntryTyped ==
  ASSUME NEW c, CacheTyped(c), NEW key
  PROVE  Entry(c, key) \in Entries
  BY DEF CacheTyped, Entry, NoEntry, Entries, Answers

\* An asked entry has the answer to come, and an error only with older data.
LEMMA AskedEntry ==
  ASSUME NEW e \in Entries, NEW r \in [ids : SUBSET Nat, upTo : Nat]
  PROVE  ask(e, r) \in Entries /\ ask(e, r).req = <<r>>
  <1>1. <<r>> \in Answers
    BY DEF Answers
  <1>2. QED
    BY <1>1 DEF ask, Entries

\* A settled one has the answer or the error.
LEMMA SettledEntry ==
  ASSUME NEW e \in Entries, NEW ok \in BOOLEAN
  PROVE  /\ settle(e, ok) \in Entries /\ settle(e, ok).req = <<>>
         /\ IF ok THEN settle(e, ok).data = e.req /\ ~settle(e, ok).error
            ELSE settle(e, ok).error
  <1>1. <<>> \in Answers /\ e.req \in Answers
    BY DEF Answers, Entries
  <1>2. QED
    BY <1>1 DEF settle, Entries

----
(* A render.                                                               *)

\* What a read answers is typed and has what is wanted of it.
LEMMA ReadTyped ==
  ASSUME ViewTyped, NEW b
  PROVE  /\ Read(b) \in [ids : SUBSET Nat, upTo : Nat]
         /\ {i \in delivered : InBounds(log[i], b)} \subseteq Read(b).ids
  <1>1. Len(log) \in Nat /\ DOMAIN log \subseteq Nat
    BY DEF ViewTyped
  <1>2. QED
    BY <1>1 DEF Read, delivered

\* The bounds of a window are open above if it is live.
LEMMA BoundsOpen ==
  ASSUME NEW w \in Windows, NEW clock
  PROVE  w.mode = "live" <=> queryBounds(w, clock).to = Undefined
  BY MetricViewAssumption DEF queryBounds, Undefined

\* What every render leaves typed.
LEMMA RenderTyped ==
  ASSUME ViewTyped, NEW pc, NEW sc, CacheTyped(sc), NEW due, NEW left, NEW fresh,
         Render(pc, sc, due, left, fresh), window' \in Windows
  PROVE  /\ CacheTyped(series')
         /\ mounted' => (window'.mode = "live" <=> bounds'.to = Undefined)
  <1>1. CacheTyped(series')
    <2>1. PICK k, b : k = seriesKey' /\ b = bounds'
      OBVIOUS
    <2>2. series' = sc \/ series' = fetchOptionally(sc, k, Read(b))
      BY <2>1 DEF Render
    <2>3. CacheTyped(fetchOptionally(sc, k, Read(b)))
      <3>1. ask(Entry(sc, k), Read(b)) \in Entries
        BY EntryTyped, ReadTyped, AskedEntry
      <3>2. CacheTyped(Put(sc, k, ask(Entry(sc, k), Read(b))))
        BY <3>1, PutEntry
      <3>3. QED
        BY <3>2 DEF fetchOptionally
    <2>4. QED
      BY <2>2, <2>3
  <1>2. ASSUME mounted' PROVE window'.mode = "live" <=> bounds'.to = Undefined
    <2>1. bounds' = (IF ~mounted \/ window' # window THEN queryBounds(window', now') ELSE bounds)
      BY <1>2 DEF Render
    <2>2. CASE ~mounted \/ window' # window
      <3>1. PICK w, clock : w = window' /\ clock = now' /\ w \in Windows
        OBVIOUS
      <3>2. QED
        BY <2>1, <2>2, <3>1, BoundsOpen
    <2>3. CASE ~(~mounted \/ window' # window)
      BY <2>1, <2>3 DEF ViewTyped
    <2>4. QED
      BY <2>2, <2>3
  <1>3. QED
    BY <1>1, <1>2

\* A render keeps what the view owes, when the change that caused it did.
LEMMA RenderOwes ==
  ASSUME ViewTyped, NEW pc, NEW sc, CacheTyped(sc), NEW due, NEW left,
         NEW fresh, Render(pc, sc, due, left, fresh), window' \in Windows,
         log' = log, hook' = hook, ~fresh => delivered' \subseteq delivered,
         window.mode = "live" /\ enabled => Owes(Entry(sc, seriesKey), Wanted \ left, due)
  PROVE  CatchInv'
  <1>1. SUFFICES ASSUME window'.mode = "live", enabled'
                 PROVE  Owes(Entry(series', seriesKey'), Wanted' \ missed', timer')
    BY DEF CatchInv
  <1>2. PICK k, b : k = seriesKey' /\ b = bounds'
    OBVIOUS
  <1>3. Wanted' \subseteq Read(b).ids
    BY <1>2 DEF Wanted, delivered, Read
  <1>4. CASE ~enabled \/ seriesKey' # seriesKey
    <2>1. /\ series' = fetchOptionally(sc, k, Read(b))
          /\ missed' = IF Entry(sc, k).req # <<>> THEN unread(Entry(sc, k), delivered') ELSE {}
      BY <1>1, <1>2, <1>4 DEF Render
    <2>2. CASE Entry(sc, k).req = <<>>
      <3>1. PICK e : e = ask(Entry(sc, k), Read(b))
        OBVIOUS
      <3>2. e.req = <<Read(b)>>
        BY <3>1, EntryTyped, ReadTyped, AskedEntry
      <3>3. Entry(series', k) = e
        BY <2>1, <2>2, <3>1, PutEntry DEF fetchOptionally
      <3>4. Owes(e, Wanted' \ missed', timer')
        BY <1>3, <3>2 DEF Owes
      <3>5. QED
        BY <1>2, <3>3, <3>4
    <2>3. CASE Entry(sc, k).req # <<>>
      <3>1. PICK e : e = Entry(sc, k)
        OBVIOUS
      <3>2. series' = sc /\ missed' = delivered' \ e.req[1].ids /\ e.req # <<>>
        BY <2>1, <2>3, <3>1 DEF fetchOptionally, unread
      <3>3. Wanted' \ missed' \subseteq e.req[1].ids
        BY <3>2 DEF Wanted
      <3>4. Owes(e, Wanted' \ missed', timer')
        BY <3>2, <3>3 DEF Owes
      <3>5. QED
        BY <1>2, <3>1, <3>2, <3>4
    <2>4. QED
      BY <2>2, <2>3
  <1>5. CASE enabled /\ seriesKey' = seriesKey
    <2>1. mounted /\ mounted'
      BY <1>1, <1>5 DEF enabled
    <2>2. /\ series' = sc /\ missed' = left
          /\ timer' = IF effectDeps(fresh) THEN isRelevant(fresh, ToSet(dataPoints') \ ToSet(dataPoints))
                      ELSE due
      BY <1>5, <2>1 DEF Render
    <2>3. bounds' = bounds /\ facet' = facet /\ (hook = "aggregate" => window' = window)
      BY <1>5 DEF seriesKey
    <2>4. window.mode = "live"
      BY <1>1, <2>1, <2>3, RenderTyped DEF ViewTyped
    <2>5. Owes(Entry(sc, k), Wanted \ left, due)
      BY <1>1, <1>2, <1>5, <2>2, <2>4
    <2>6. CASE fresh
      <3>1. effectDeps(fresh) /\ isRelevant(fresh, ToSet(dataPoints') \ ToSet(dataPoints))
        BY <1>1, <2>6 DEF effectDeps, isRelevant, enabled
      <3>2. timer'
        BY <2>2, <3>1
      <3>3. QED
        BY <1>2, <2>2, <2>5, <3>2 DEF Owes
    <2>7. CASE ~fresh
      <3>1. ~effectDeps(fresh)
        BY <1>1, <2>3, <2>4, <2>7 DEF effectDeps
      <3>2. timer' = due
        BY <2>2, <3>1
      <3>3. Wanted' \subseteq Wanted
        BY <2>3, <2>7 DEF Wanted
      <3>4. QED
        BY <1>2, <2>2, <2>5, <3>2, <3>3 DEF Owes
    <2>8. QED
      BY <2>6, <2>7
  <1>6. QED
    BY <1>4, <1>5

----
(* Deliveries.                                                             *)

\* The first k of s and the others.
LEMMA SplitAt ==
  ASSUME NEW s \in Seq(Nat), NEW k \in 1..Len(s)
  PROVE  /\ SubSeq(s, k + 1, Len(s)) \in Seq(Nat)
         /\ ToSet(s) \subseteq ToSet(SubSeq(s, 1, k)) \cup ToSet(SubSeq(s, k + 1, Len(s)))
  <1>1. PICK n \in Nat : n = Len(s) /\ k <= n
    OBVIOUS
  <1> DEFINE x == SubSeq(s, 1, k)
             y == SubSeq(s, k + 1, n)
  <1>2. \A i \in 1..n : s[i] \in Nat
    BY <1>1
  <1>3. /\ x \in Seq(Nat) /\ Len(x) = (IF 1 <= k THEN k - 1 + 1 ELSE 0)
        /\ \A i \in 1..(k - 1 + 1) : x[i] = s[1 + i - 1]
    <2>1. \A i \in 1..k : s[i] \in Nat
      BY <1>1, <1>2
    <2>2. 1 \in Int /\ k \in Int
      OBVIOUS
    <2>3. QED
      BY <2>1, <2>2, SubSeqProperties
  <1>4. /\ y \in Seq(Nat) /\ Len(y) = (IF k + 1 <= n THEN n - (k + 1) + 1 ELSE 0)
        /\ \A i \in 1..(n - (k + 1) + 1) : y[i] = s[k + 1 + i - 1]
    <2>1. \A i \in (k + 1)..n : s[i] \in Nat
      BY <1>1, <1>2
    <2>2. k + 1 \in Int /\ n \in Int
      BY <1>1
    <2>3. QED
      BY <2>1, <2>2, SubSeqProperties
  <1> HIDE DEF x, y
  <1>5. DOMAIN x = 1..k /\ \A i \in 1..k : x[i] = s[i]
    BY <1>3
  <1>6. DOMAIN y = 1..(n - k) /\ \A i \in 1..(n - k) : y[i] = s[k + i]
    <2>1. n - (k + 1) + 1 = n - k /\ Len(y) = n - k
      BY <1>1, <1>4
    <2>2. \A i \in 1..(n - k) : k + 1 + i - 1 = k + i
      BY <1>1
    <2>3. QED
      BY <1>4, <2>1, <2>2
  <1>7. ASSUME NEW i \in 1..n PROVE s[i] \in ToSet(x) \cup ToSet(y)
    <2>1. CASE i <= k
      <3>1. i \in DOMAIN x /\ x[i] = s[i]
        BY <1>5, <2>1
      <3>2. QED
        BY <3>1 DEF ToSet
    <2>2. CASE ~(i <= k)
      <3>1. PICK j \in 1..(n - k) : i = k + j
        <4>1. i - k \in 1..(n - k) /\ i = k + (i - k)
          BY <1>1, <2>2
        <4>2. QED
          BY <4>1
      <3>2. j \in DOMAIN y /\ y[j] = s[i]
        BY <1>6, <3>1
      <3>3. QED
        BY <3>2 DEF ToSet
    <2>3. QED
      BY <2>1, <2>2
  <1>8. ToSet(s) \subseteq ToSet(x) \cup ToSet(y)
    <2>1. DOMAIN s = 1..n
      BY <1>1
    <2>2. \A v \in ToSet(s) : \E i \in 1..n : v = s[i]
      BY <2>1 DEF ToSet
    <2>3. QED
      BY <1>7, <2>2
  <1>9. QED
    BY <1>1, <1>4, <1>8 DEF x, y

\* The deliveries of a flush bring points of "m" or leave those delivered.
LEMMA FlushBrings ==
  ASSUME ViewTyped, NEW k \in 1..MaxCommits, Flush(k)
  PROVE  /\ wire' \in Seq(Nat)
         /\ ~(\E i \in ToSet(SubSeq(wire, 1, k)) : log[i].m = "m") => delivered' \subseteq delivered
  <1>1. /\ k \in 1..Len(wire) /\ wire \in Seq(Nat) /\ log' = log
        /\ wire' = SubSeq(wire, k + 1, Len(wire))
    BY MetricViewAssumption DEF Flush, ViewTyped
  <1>2. wire' \in Seq(Nat) /\ ToSet(wire) \subseteq ToSet(SubSeq(wire, 1, k)) \cup ToSet(wire')
    BY <1>1, SplitAt
  <1>3. QED
    BY <1>1, <1>2 DEF delivered

\* A commit is on the wire before it is delivered.
LEMMA CommitBrings ==
  ASSUME ViewTyped, NEW p \in Arrivals, Commit(p)
  PROVE  /\ log' \in Seq(LogPoint) /\ wire' \in Seq(Nat)
         /\ delivered' \subseteq delivered /\ \A i \in DOMAIN log : log'[i] = log[i]
  <1>1. /\ log \in Seq(LogPoint) /\ wire \in Seq(Nat) /\ p \in LogPoint
        /\ log' = Append(log, p) /\ wire' = Append(wire, Len(log) + 1)
    BY MetricViewAssumption DEF ViewTyped, Arrivals, LogPoint, Commit, Unset
  <1>2. PICK n \in Nat, m \in Nat : n = Len(log) /\ m = Len(wire)
    BY <1>1
  <1>3. log' \in Seq(LogPoint) /\ DOMAIN log = 1..n /\ DOMAIN log' = 1..(n + 1)
        /\ \A i \in 1..n : log'[i] = log[i]
    BY <1>1, <1>2, AppendProperties
  <1>4. wire' \in Seq(Nat) /\ DOMAIN wire = 1..m /\ DOMAIN wire' = 1..(m + 1)
        /\ wire'[m + 1] = n + 1 /\ \A i \in 1..m : wire'[i] = wire[i]
    BY <1>1, <1>2, AppendProperties
  <1>5. ToSet(wire) \cup {n + 1} \subseteq ToSet(wire')
    <2>1. \A i \in 1..m : i \in 1..(m + 1)
      OBVIOUS
    <2>2. m + 1 \in 1..(m + 1)
      OBVIOUS
    <2>3. QED
      BY <1>4, <2>1, <2>2 DEF ToSet
  <1>6. \A i \in 1..(n + 1) : i = n + 1 \/ i \in 1..n
    OBVIOUS
  <1>7. delivered' \subseteq delivered
    BY <1>3, <1>5, <1>6 DEF delivered
  <1>8. QED
    BY <1>3, <1>4, <1>7

----
(* Steps.                                                                  *)

\* The cache of no query.
LEMMA EmptyTyped == CacheTyped(<<>>)
  BY DEF CacheTyped

\* The invariant holds at first.
LEMMA CatchInit == Init => ViewTyped /\ CatchInv
  <1>1. SUFFICES ASSUME Init PROVE ViewTyped /\ CatchInv
    OBVIOUS
  <1>2. ~mounted /\ ~enabled
    BY <1>1 DEF Init, mounted, enabled
  <1>3. log \in Seq(LogPoint) /\ wire \in Seq(Nat) /\ window \in Windows
    BY <1>1, MetricViewAssumption DEF Init, LogPoint
  <1>4. CacheTyped(series)
    BY <1>1, EmptyTyped DEF Init
  <1>5. QED
    BY <1>2, <1>3, <1>4 DEF ViewTyped, CatchInv

\* Every action but a commit is a change and its render.
LEMMA StepRenders ==
  ASSUME ViewTyped, CatchInv, NEW pc, NEW sc, CacheTyped(sc), NEW due, NEW left, NEW fresh,
         Render(pc, sc, due, left, fresh), window' \in Windows,
         log' = log, hook' = hook, wire' \in Seq(Nat), ~fresh => delivered' \subseteq delivered,
         window.mode = "live" /\ enabled => Owes(Entry(sc, seriesKey), Wanted \ left, due)
  PROVE  ViewTyped' /\ CatchInv'
  <1>1. CatchInv'
    BY RenderOwes
  <1>2. CacheTyped(series') /\ (mounted' => (window'.mode = "live" <=> bounds'.to = Undefined))
    BY RenderTyped
  <1>3. log' \in Seq(LogPoint)
    BY DEF ViewTyped
  <1>4. QED
    BY <1>1, <1>2, <1>3 DEF ViewTyped

\* What stays delivered when neither log nor wire changes.
LEMMA NothingDelivered ==
  ASSUME log' = log, wire' = wire, ViewTyped
  PROVE  wire' \in Seq(Nat) /\ delivered' \subseteq delivered
  BY DEF delivered, ViewTyped

\* A stored point disturbs nothing: it is not delivered yet.
LEMMA CommitKeeps ==
  ASSUME ViewTyped, CatchInv, NEW p \in Arrivals, Commit(p)
  PROVE  ViewTyped' /\ CatchInv'
  <1>1. /\ log' \in Seq(LogPoint) /\ wire' \in Seq(Nat)
        /\ delivered' \subseteq delivered /\ \A i \in DOMAIN log : log'[i] = log[i]
    BY CommitBrings
  <1>2. /\ metrics' = metrics /\ open' = open /\ window' = window /\ facet' = facet
        /\ bounds' = bounds /\ series' = series /\ timer' = timer /\ missed' = missed
        /\ hook' = hook
    BY DEF Commit, client
  <1>3. /\ mounted' <=> mounted
        /\ enabled' <=> enabled
        /\ seriesKey' = seriesKey
    BY <1>2 DEF mounted, enabled, seriesKey, Lookup
  <1>4. Wanted' \subseteq Wanted
    BY <1>1, <1>2 DEF Wanted, delivered
  <1>5. ViewTyped'
    BY <1>1, <1>2, <1>3 DEF ViewTyped
  <1>6. CatchInv'
    <2>1. SUFFICES ASSUME window.mode = "live", enabled
                   PROVE  Owes(Entry(series, seriesKey), Wanted' \ missed, timer)
      BY <1>2, <1>3 DEF CatchInv
    <2>2. Owes(Entry(series, seriesKey), Wanted \ missed, timer)
      BY <2>1 DEF CatchInv
    <2>3. Wanted' \ missed \subseteq Wanted \ missed
      BY <1>4
    <2>4. QED
      BY <2>2, <2>3 DEF Owes
  <1>7. QED
    BY <1>5, <1>6

\* The answer to a request that was enough is enough.
LEMMA AnswerKeeps ==
  ASSUME ViewTyped, CatchInv, NEW key \in DOMAIN series, NEW ok \in BOOLEAN,
         AnswerSeries(key, ok)
  PROVE  ViewTyped' /\ CatchInv'
  <1>1. PICK e : e = series[key]
    OBVIOUS
  <1>2. PICK sc : sc = Put(series, key, settle(e, ok))
    OBVIOUS
  <1>3. /\ Render(points, sc, timer, missed, FALSE)
        /\ log' = log /\ wire' = wire /\ window' = window /\ hook' = hook /\ e.req # <<>>
    BY <1>1, <1>2 DEF AnswerSeries
  <1>4. e \in Entries /\ e = Entry(series, key)
    BY <1>1 DEF ViewTyped, CacheTyped, Entry
  <1>5. PICK s : s = settle(e, ok)
    OBVIOUS
  <1>6. /\ s \in Entries /\ s.req = <<>>
        /\ IF ok THEN s.data = e.req /\ ~s.error ELSE s.error
    BY <1>4, <1>5, SettledEntry
  <1>7. CacheTyped(sc)
    BY <1>2, <1>5, <1>6, PutEntry DEF ViewTyped
  <1>8. ASSUME window.mode = "live", enabled
        PROVE  Owes(Entry(sc, seriesKey), Wanted \ missed, timer)
    <2>1. Owes(Entry(series, seriesKey), Wanted \ missed, timer)
      BY <1>8 DEF CatchInv
    <2>2. CASE seriesKey = key
      <3>1. Entry(sc, seriesKey) = s
        BY <1>2, <1>5, <2>2, PutEntry
      <3>2. Owes(e, Wanted \ missed, timer)
        BY <1>4, <2>1, <2>2
      <3>3. Owes(s, Wanted \ missed, timer)
        BY <1>3, <1>6, <3>2 DEF Owes
      <3>4. QED
        BY <3>1, <3>3
    <2>3. CASE seriesKey # key
      <3>1. Entry(sc, seriesKey) = Entry(series, seriesKey)
        BY <1>2, <2>3, PutEntry
      <3>2. QED
        BY <2>1, <3>1
    <2>4. QED
      BY <2>2, <2>3
  <1>9. QED
    <2>1. window' \in Windows /\ wire' \in Seq(Nat) /\ delivered' \subseteq delivered
      BY <1>3, NothingDelivered DEF ViewTyped
    <2>2. QED
      BY <1>3, <1>7, <1>8, <2>1, StepRenders

\* The refetch reads what is stored now; it joins only the very first request.
LEMMA TimerKeeps ==
  ASSUME ViewTyped, CatchInv, TimerFires
  PROVE  ViewTyped' /\ CatchInv'
  <1>1. PICK k, b, e : k = seriesKey /\ b = bounds /\ e = Entry(series, seriesKey)
    OBVIOUS
  <1>2. PICK sc, left :
            /\ sc = refetch(series, k, Read(b))
            /\ left = IF e.req # <<>> /\ e.data = <<>> THEN unread(e, delivered) ELSE {}
    OBVIOUS
  <1>3. /\ Render(points, sc, FALSE, left, FALSE)
        /\ log' = log /\ wire' = wire /\ window' = window /\ hook' = hook
    BY <1>1, <1>2 DEF TimerFires
  <1>4. e \in Entries /\ e = Entry(series, k) /\ Read(b) \in [ids : SUBSET Nat, upTo : Nat]
    BY <1>1, EntryTyped, ReadTyped DEF ViewTyped
  <1>5. PICK s : s = ask(e, Read(b))
    OBVIOUS
  <1>6. s \in Entries /\ s.req = <<Read(b)>>
    BY <1>4, <1>5, AskedEntry
  <1>7. sc = (IF e.req # <<>> /\ e.data = <<>> THEN series ELSE Put(series, k, s))
    BY <1>2, <1>4, <1>5 DEF refetch
  <1>8. CacheTyped(sc)
    BY <1>6, <1>7, PutEntry DEF ViewTyped
  <1>9. Owes(Entry(sc, seriesKey), Wanted \ left, FALSE)
    <2>1. CASE e.req # <<>> /\ e.data = <<>>
      <3>1. Entry(sc, seriesKey) = e /\ left = delivered \ e.req[1].ids
        BY <1>1, <1>2, <1>7, <2>1 DEF unread
      <3>2. Wanted \ left \subseteq e.req[1].ids
        BY <3>1 DEF Wanted
      <3>3. QED
        BY <2>1, <3>1, <3>2 DEF Owes
    <2>2. CASE ~(e.req # <<>> /\ e.data = <<>>)
      <3>1. Entry(sc, seriesKey) = s
        BY <1>1, <1>7, <2>2, PutEntry
      <3>2. Wanted \subseteq Read(b).ids
        BY <1>1, ReadTyped DEF Wanted
      <3>3. Owes(s, Wanted \ left, FALSE)
        BY <1>6, <3>2 DEF Owes
      <3>4. QED
        BY <3>1, <3>3
    <2>3. QED
      BY <2>1, <2>2
  <1>10. QED
    <2>1. window' \in Windows /\ wire' \in Seq(Nat) /\ delivered' \subseteq delivered
      BY <1>3, NothingDelivered DEF ViewTyped
    <2>2. QED
      BY <1>3, <1>8, <1>9, <2>1, StepRenders

\* The deliveries of a flush, or the first page.
LEMMA BufferKeeps ==
  ASSUME ViewTyped, CatchInv, Deliver \/ Load
  PROVE  ViewTyped' /\ CatchInv'
  <1>1. CacheTyped(series) /\ window \in Windows
    BY DEF ViewTyped
  <1>2. ASSUME NEW fresh, Render(points, series, timer, missed, fresh), window' = window,
               log' = log, hook' = hook, wire' \in Seq(Nat), ~fresh => delivered' \subseteq delivered
        PROVE  ViewTyped' /\ CatchInv'
    BY <1>1, <1>2, StepRenders DEF CatchInv
  <1>3. ASSUME NEW k \in 1..MaxCommits, Flush(k) PROVE ViewTyped' /\ CatchInv'
    <2>1. PICK fresh : fresh = (\E i \in ToSet(SubSeq(wire, 1, k)) : log[i].m = "m")
      OBVIOUS
    <2>2. /\ Render(points, series, timer, missed, fresh)
          /\ window' = window /\ log' = log /\ hook' = hook
      BY <1>3, <2>1 DEF Flush
    <2>3. wire' \in Seq(Nat) /\ (~fresh => delivered' \subseteq delivered)
      BY <1>3, <2>1, FlushBrings
    <2>4. QED
      BY <1>2, <2>2, <2>3
  <1>4. ASSUME NEW n, InitialLoad(n) PROVE ViewTyped' /\ CatchInv'
    <2>1. /\ Render(points, series, timer, missed, TRUE)
          /\ window' = window /\ log' = log /\ wire' = wire /\ hook' = hook
      BY <1>4 DEF InitialLoad
    <2>2. wire' \in Seq(Nat)
      BY <2>1 DEF ViewTyped
    <2>3. QED
      BY <1>2, <2>1, <2>2
  <1>5. QED
    BY <1>3, <1>4 DEF Deliver, Load

\* What the user does: a view that opens or closes has owed nothing, and a
\* new key or window asks.
LEMMA UserKeeps ==
  ASSUME ViewTyped, CatchInv,
         \/ \E forgotten \in BOOLEAN : OpenDetail(forgotten)
         \/ CloseDetail
         \/ \E w \in Windows : SetWindow(w)
         \/ \E f \in {"all", "attr"} : PickFacet(f)
         \/ \E key \in DOMAIN points, ok \in BOOLEAN : AnswerPoints(key, ok)
  PROVE  ViewTyped' /\ CatchInv'
  <1>1. CacheTyped(series) /\ window \in Windows
    BY DEF ViewTyped
  <1>2. ASSUME NEW pc, Render(pc, series, timer, missed, FALSE), window' \in Windows,
               log' = log, wire' = wire, hook' = hook
        PROVE  ViewTyped' /\ CatchInv'
    <2>1. wire' \in Seq(Nat) /\ delivered' \subseteq delivered
      BY <1>2, NothingDelivered
    <2>2. QED
      BY <1>1, <1>2, <2>1, StepRenders DEF CatchInv
  <1>3. ASSUME NEW forgotten \in BOOLEAN, OpenDetail(forgotten) PROVE ViewTyped' /\ CatchInv'
    <2>1. PICK pc, sc : /\ pc = (IF forgotten THEN <<>> ELSE points)
                        /\ sc = (IF forgotten THEN <<>> ELSE series)
      OBVIOUS
    <2>2. /\ Render(pc, sc, FALSE, missed, FALSE) /\ ~open
          /\ window' = window /\ log' = log /\ wire' = wire /\ hook' = hook
      BY <1>3, <2>1 DEF OpenDetail
    <2>3. ~enabled
      BY <2>2 DEF enabled, mounted
    <2>4. CacheTyped(sc)
      BY <1>1, <2>1, EmptyTyped
    <2>5. wire' \in Seq(Nat) /\ delivered' \subseteq delivered
      BY <2>2, NothingDelivered
    <2>6. QED
      BY <1>1, <2>2, <2>3, <2>4, <2>5, StepRenders
  <1>4. ASSUME CloseDetail PROVE ViewTyped' /\ CatchInv'
    <2>1. /\ Render(points, series, FALSE, missed, FALSE) /\ open' = FALSE
          /\ window' = window /\ log' = log /\ wire' = wire
      BY <1>4 DEF CloseDetail
    <2>2. ~mounted' /\ ~enabled'
      BY <2>1 DEF enabled, mounted
    <2>3. CacheTyped(series')
      BY <1>1, <2>1, RenderTyped
    <2>4. ViewTyped'
      BY <1>1, <2>1, <2>2, <2>3 DEF ViewTyped
    <2>5. QED
      BY <2>2, <2>4 DEF CatchInv
  <1>5. ASSUME NEW w \in Windows, SetWindow(w) PROVE ViewTyped' /\ CatchInv'
    BY <1>2, <1>5 DEF SetWindow
  <1>6. ASSUME NEW f, PickFacet(f) PROVE ViewTyped' /\ CatchInv'
    BY <1>1, <1>2, <1>6 DEF PickFacet
  <1>7. ASSUME NEW key, NEW ok, AnswerPoints(key, ok) PROVE ViewTyped' /\ CatchInv'
    <2>1. PICK pc : pc = Put(points, key, settle(points[key], ok))
      OBVIOUS
    <2>2. /\ Render(pc, series, timer, missed, FALSE)
          /\ window' = window /\ log' = log /\ wire' = wire /\ hook' = hook
      BY <1>7, <2>1 DEF AnswerPoints
    <2>3. QED
      BY <1>1, <1>2, <2>2
  <1>8. QED
    BY <1>3, <1>4, <1>5, <1>6, <1>7

\* Every step keeps the invariant.
LEMMA CatchNext == ViewTyped /\ CatchInv /\ [Next]_vars => ViewTyped' /\ CatchInv'
  <1>1. SUFFICES ASSUME ViewTyped, CatchInv, [Next]_vars PROVE ViewTyped' /\ CatchInv'
    OBVIOUS
  <1>2. CASE vars' = vars
    BY <1>1, <1>2 DEF vars, ViewTyped, CatchInv, mounted, enabled, seriesKey, Lookup, Wanted,
                      delivered
  <1>3. ASSUME NEW p \in Arrivals, Commit(p) PROVE ViewTyped' /\ CatchInv'
    BY <1>1, <1>3, CommitKeeps
  <1>4. CASE Deliver \/ Load
    BY <1>1, <1>4, BufferKeeps
  <1>5. ASSUME NEW key \in DOMAIN series, NEW ok \in BOOLEAN, AnswerSeries(key, ok)
        PROVE  ViewTyped' /\ CatchInv'
    BY <1>1, <1>5, AnswerKeeps
  <1>6. CASE TimerFires
    BY <1>1, <1>6, TimerKeeps
  <1>7. QED
    BY <1>1, <1>2, <1>3, <1>4, <1>5, <1>6, UserKeeps DEF Next, Answer

----
(* The theorem.                                                            *)

\* What is owed and not asked for is there.
LEMMA OwedIsThere == CatchInv => SeriesCatchUp
  <1>1. SUFFICES ASSUME CatchInv, window.mode = "live", enabled, ~timer,
                        NEW e, e = Entry(series, seriesKey), e.req = <<>>, ~e.error
                 PROVE  e.data # <<>> /\ Wanted \ missed \subseteq e.data[1].ids
    BY DEF SeriesCatchUp, caughtUp, Wanted
  <1>2. Owes(e, Wanted \ missed, timer)
    BY <1>1 DEF CatchInv
  <1>3. QED
    BY <1>1, <1>2 DEF Owes

\* In live mode a stale aggregate or distribution is about to be asked for
\* again: no later render, key change or overtaken request forgets a delivery
\* the trailing debounce was waiting for, whatever the deliveries, the windows
\* and the order of the answers.  What a joined request had not read is all
\* that stays out until the next delivery.
THEOREM AggregateCatchesUp == Spec => []SeriesCatchUp
  <1>1. Spec => [](ViewTyped /\ CatchInv)
    BY CatchInit, CatchNext, PTL DEF Spec
  <1>2. ViewTyped /\ CatchInv => SeriesCatchUp
    BY OwedIsThere
  <1>3. QED
    BY <1>1, <1>2, PTL
====
