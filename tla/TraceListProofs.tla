---- MODULE TraceListProofs ----
(***************************************************************************)
(* Proofs about TraceList: the list has no hole, and what it shows is true, *)
(* for every history, cap, page size and choice of windows.                *)
(***************************************************************************)
EXTENDS TraceList, SequenceTheorems, FiniteSetTheorems, WellFoundedInduction, TLAPS

----
(* Sets of numbers.                                                        *)

\* A set of naturals that is not empty has a least element.
LEMMA LeastNumber ==
  ASSUME NEW S \in SUBSET Nat, S # {}
  PROVE  \E x \in S : \A y \in S : x <= y
  <1> DEFINE R == OpToRel(<, Nat)
  <1>1. IsWellFoundedOn(R, Nat)
    BY NatLessThanWellFounded, Zenon
  <1>2. \A x, y \in Nat : y < x => <<y, x>> \in R
    BY DEF OpToRel
  <1> HIDE DEF R
  <1>3. \E x \in S : \A y \in S : ~(<<y, x>> \in R)
    BY <1>1, WFMin, Zenon
  <1>4. PICK x \in S : \A y \in S : ~(<<y, x>> \in R)
    BY <1>3, Zenon
  <1>5. ASSUME NEW y \in S PROVE x <= y
    <2>1. x \in Nat /\ y \in Nat
      OBVIOUS
    <2>2. ~(y < x)
      BY <1>2, <1>4, <2>1
    <2>3. QED
      BY <2>1, <2>2
  <1>6. QED
    BY <1>5

\* A set that holds 0 and the successor of each of its elements holds every
\* natural.
LEMMA InductiveSet ==
  ASSUME NEW S, 0 \in S, \A n \in Nat : n \in S => n + 1 \in S
  PROVE  Nat \subseteq S
  <1> DEFINE T == Nat \ S
  <1> SUFFICES ASSUME T # {} PROVE FALSE
    OBVIOUS
  <1>1. PICK x \in T : \A y \in T : x <= y
    BY LeastNumber
  <1>2. x \in Nat /\ x # 0 /\ x \notin S
    OBVIOUS
  <1>3. x - 1 \in Nat /\ x - 1 \notin T
    BY <1>1, <1>2
  <1>4. x - 1 \in S /\ (x - 1) + 1 = x
    BY <1>2, <1>3
  <1>5. QED
    BY <1>2, <1>3, <1>4

----
(* The types and what was once true.                                        *)

Message == [type : {"traces", "trace-deletes"}, id : Ids, count : Nat]

\* The traces the server has ever held.
Known == {t \in Ids : db[t] > 0} \cup swept

Data == [count : Nat, spans : Nat]

\* No more than the server has, unless it took spans away.
Fits(t, count) == t \in swept \/ count <= db[t]

\* What a page, a lookup or the buffer says of a trace was once true.
Once(t, d) == t \in Known /\ Fits(t, d.count)

\* What the list cannot know, or not yet.
Excused(t) == OnItsWay(t) \/ t \in unheard \cup swept

\* A change the server announced is behind no other: the newest message about
\* a trace says how it is, if a later one was not lost.
Word(m) ==
    \/ m.id \in unheard \cup swept
    \/ m.id \in gone /\ m.type = "trace-deletes"
    \/ m.id \notin gone /\ m.type = "traces" /\ m.count = db[m.id]

LastIn(s, i) == \A j \in 1..Len(s) : i < j => s[j].id # s[i].id

About(s, t) == \E i \in 1..Len(s) : s[i].id = t

MessageTrue(m) ==
    IF m.type = "traces" THEN Once(m.id, m) ELSE m.id \in gone \cup swept

FeedInv ==
    /\ db \in [Ids -> Nat] /\ {gone, unheard, swept} \subseteq SUBSET Ids
    /\ wire \in Seq(Message) /\ queue \in Seq(Message)
    /\ ~timer => queue = <<>>
    /\ \A i \in 1..Len(wire) : MessageTrue(wire[i])
    /\ \A i \in 1..Len(queue) : MessageTrue(queue[i])
    /\ \A i \in 1..Len(wire) : LastIn(wire, i) => Word(wire[i])
    /\ \A i \in 1..Len(queue) :
          LastIn(queue, i) /\ ~About(wire, queue[i].id) => Word(queue[i])

\* A row is as the server has the trace, or excused.
Current(t, count) == Excused(t) \/ (t \notin gone /\ count = db[t])

RowsInv ==
    /\ DOMAIN rows \subseteq Known
    /\ rows \in [DOMAIN rows -> Data]
    /\ \A t \in DOMAIN rows : Once(t, rows[t])
    /\ \A t \in DOMAIN rows \ late : Current(t, rows[t].count)

LookupInv ==
    /\ focus \in Ids \cup {None}
    /\ lookup.phase \in {"idle", "asked", "answered", "not-found", "error"}
    /\ lookup.phase # "idle" => focus # None
    /\ lookup.phase = "answered" =>
          /\ lookup.count \in Nat /\ lookup.overtaken \in BOOLEAN
          /\ lookup = [phase |-> "answered", count |-> lookup.count, overtaken |-> lookup.overtaken]
          /\ lookup.count # 0 =>
                /\ Once(focus, lookup)
                /\ ~lookup.overtaken => Current(focus, lookup.count)
    /\ DOMAIN found \subseteq Known
    /\ found \in [DOMAIN found -> [count : Nat, overtaken : BOOLEAN]]
    /\ \A t \in DOMAIN found :
          /\ Once(t, found[t])
          /\ ~found[t].overtaken => Current(t, found[t].count)
    /\ detail.phase \in {"idle", "answered"}
    /\ detail.phase = "answered" => detail.spans \in Nat

\* Where a page without a cursor ends.
Below(cursor) == IF cursor # None THEN cursor ELSE scope

\* Load more goes on where the session has loaded.
Joins(cursor) == Below(cursor) # None /\ floor <= Below(cursor)

Covered(t) == t \in DOMAIN rows \/ Excused(t) \/ t \in evicted

Got == page.phase \in {"probing", "answered"}

ListTyped ==
    /\ scope \in Nat /\ after \in Ids \cup {None} /\ floor \in Nat /\ hasMore \in BOOLEAN
    /\ hasMore => Joins(after)
    /\ page.phase \in {"idle", "asked", "probing", "answered"}

Asked ==
    page.phase = "asked" =>
        /\ page.initial \in BOOLEAN /\ page.before \subseteq Known
        /\ page.initial => page.cursor = None
        /\ ~page.initial => page.cursor \in Ids \cup {None} /\ Joins(page.cursor)

AnswerTyped ==
    Got =>
        /\ DOMAIN page = {"phase", "initial", "before", "items", "more", "older",
                          "overtaken", "end"}
        /\ page.initial \in BOOLEAN /\ page.more \in BOOLEAN /\ page.older \in BOOLEAN
        /\ page.end \in Ids \cup {None} /\ page.before \subseteq Known
        /\ DOMAIN page.items \subseteq Known
        /\ page.items \in [DOMAIN page.items -> Data]
        /\ page.phase = "probing" => page.initial
        /\ page.more => page.end # None
        /\ page.older \/ page.phase = "probing" => scope # None
        /\ page.initial /\ page.end # None => scope <= page.end

AnswerTrue ==
    Got =>
        /\ \A t \in DOMAIN page.items : Once(t, page.items[t])
        /\ \A t \in DOMAIN page.items \ page.overtaken : Current(t, page.items[t].count)

\* Down to where the session will have loaded, an answer leaves out no trace
\* but those that have come since, or were swept.
Reach == IF page.more THEN page.end ELSE IF page.initial THEN scope ELSE None

AnswerComplete ==
    Got => \A t \in Live \ DOMAIN page.items :
              t >= Reach => Covered(t) /\ (page.initial => t \notin page.before \ swept)

PageInv == ListTyped /\ Asked /\ AnswerTyped /\ AnswerTrue /\ AnswerComplete

ListInv == FeedInv /\ RowsInv /\ LookupInv /\ PageInv /\ NoHole

----
(* Deliveries and deletes.                                                 *)

\* The server holds no other traces.
LEMMA KnownIds ==
  ASSUME FeedInv
  PROVE  Known \subseteq Ids
  BY DEF FeedInv, Known

\* What is on its way is on the wire or in the queue.
LEMMA OnTheWay ==
  ASSUME wire \in Seq(Message), queue \in Seq(Message), NEW t
  PROVE  OnItsWay(t) <=> (About(wire, t) \/ About(queue, t))
  BY DEF OnItsWay, About, Range

\* What Append and Tail do to the messages of a sequence.
LEMMA Appended ==
  ASSUME NEW s \in Seq(Message), NEW m \in Message
  PROVE  /\ Append(s, m) \in Seq(Message) /\ Len(s) \in Nat
         /\ Len(Append(s, m)) = Len(s) + 1 /\ Append(s, m)[Len(s) + 1] = m
         /\ \A i \in 1..Len(s) : Append(s, m)[i] = s[i] /\ s[i] \in Message
         /\ \A t : About(Append(s, m), t) <=> (About(s, t) \/ m.id = t)
  <1>1. /\ Append(s, m) \in Seq(Message) /\ Len(s) \in Nat
        /\ Len(Append(s, m)) = Len(s) + 1 /\ Append(s, m)[Len(s) + 1] = m
        /\ \A i \in 1..Len(s) : Append(s, m)[i] = s[i] /\ s[i] \in Message
    OBVIOUS
  <1> DEFINE r == Append(s, m)
             n == Len(s)
  <1>2. /\ n \in Nat /\ Len(r) = n + 1 /\ r[n + 1] = m /\ \A i \in 1..n : r[i] = s[i]
    BY <1>1
  <1> HIDE DEF r, n
  <1>3. \A i : i \in 1..(n + 1) <=> (i \in 1..n \/ i = n + 1)
    BY <1>2
  <1>4. (\A t : (\E i \in 1..Len(r) : r[i].id = t) <=> ((\E i \in 1..n : s[i].id = t) \/ m.id = t))
    BY <1>2, <1>3
  <1>5. \A t : About(r, t) <=> (About(s, t) \/ m.id = t)
    BY <1>4 DEF About, n
  <1>6. QED
    BY <1>1, <1>5 DEF r

\* What Head and Tail leave of the messages of a sequence.
LEMMA Received ==
  ASSUME NEW s \in Seq(Message), s # <<>>
  PROVE  /\ Head(s) \in Message /\ Tail(s) \in Seq(Message) /\ Len(s) \in Nat
         /\ Head(s) = s[1] /\ 1 \in 1..Len(s) /\ Len(Tail(s)) = Len(s) - 1
         /\ \A i \in 1..Len(Tail(s)) : i + 1 \in 1..Len(s) /\ Tail(s)[i] = s[i + 1]
         /\ \A t : About(s, t) <=> (About(Tail(s), t) \/ Head(s).id = t)
  <1>1. /\ Head(s) \in Message /\ Tail(s) \in Seq(Message) /\ Len(s) \in Nat
        /\ Head(s) = s[1] /\ 1 \in 1..Len(s) /\ Len(Tail(s)) = Len(s) - 1
        /\ \A i \in 1..Len(Tail(s)) : i + 1 \in 1..Len(s) /\ Tail(s)[i] = s[i + 1]
    OBVIOUS
  <1> DEFINE r == Tail(s)
             n == Len(s)
  <1>2. /\ n \in Nat \ {0} /\ Len(r) = n - 1 /\ \A i \in 1..(n - 1) : r[i] = s[i + 1]
    BY <1>1
  <1>3. Head(s) = s[1]
    BY <1>1
  <1> HIDE DEF r, n
  <1>4. \A i \in 1..n : i = 1 \/ (i - 1 \in 1..(n - 1) /\ (i - 1) + 1 = i)
    BY <1>2
  <1>5. \A i \in 1..(n - 1) : i + 1 \in 1..n
    BY <1>2
  <1>6. 1 \in 1..n
    BY <1>2
  <1>7. (\A t : (\E i \in 1..n : s[i].id = t) <=> ((\E i \in 1..Len(r) : r[i].id = t) \/ s[1].id = t))
    <2>1. ASSUME NEW i \in 1..n, i # 1 PROVE \E j \in 1..(n - 1) : r[j] = s[i]
      <3>1. i - 1 \in 1..(n - 1) /\ (i - 1) + 1 = i
        BY <1>4, <2>1
      <3>2. r[i - 1] = s[i]
        BY <1>2, <3>1
      <3>3. QED
        BY <3>1, <3>2
    <2>2. \A j \in 1..(n - 1) : r[j] = s[j + 1] /\ j + 1 \in 1..n
      BY <1>2, <1>5
    <2>3. QED
      BY <1>2, <1>6, <2>1, <2>2, Zenon
  <1>8. \A t : About(s, t) <=> (About(r, t) \/ Head(s).id = t)
    BY <1>3, <1>7 DEF About, n
  <1>9. QED
    BY <1>1, <1>8 DEF r

\* Where the last message about a trace is.
LEMMA LastAppended ==
  ASSUME NEW s \in Seq(Message), NEW m \in Message, NEW i \in 1..Len(Append(s, m)),
         LastIn(Append(s, m), i)
  PROVE  \/ i = Len(s) + 1 /\ Append(s, m)[i] = m
         \/ i \in 1..Len(s) /\ Append(s, m)[i] = s[i] /\ LastIn(s, i) /\ s[i].id # m.id
  <1> DEFINE r == Append(s, m)
             n == Len(s)
  <1>1. /\ n \in Nat /\ Len(r) = n + 1 /\ r[n + 1] = m /\ \A k \in 1..n : r[k] = s[k]
    BY Appended
  <1>2. i \in 1..Len(r) /\ \A j \in 1..Len(r) : i < j => r[j].id # r[i].id
    BY DEF LastIn
  <1> HIDE DEF r, n
  <1>3. CASE i = n + 1
    BY <1>1, <1>3 DEF r, n
  <1>4. CASE i # n + 1
    <2>1. i \in 1..n /\ n + 1 \in 1..Len(r) /\ i < n + 1 /\ \A j \in 1..n : j \in 1..Len(r)
      BY <1>1, <1>2, <1>4
    <2>2. r[i] = s[i] /\ s[i].id # m.id
      BY <1>1, <1>2, <2>1
    <2>3. \A j \in 1..n : i < j => s[j].id # s[i].id
      BY <1>1, <1>2, <2>1
    <2>4. QED
      BY <2>1, <2>2, <2>3 DEF LastIn, r, n
  <1>5. QED
    BY <1>3, <1>4

\* Where the last message about a trace is, once the first is taken.
LEMMA LastReceived ==
  ASSUME NEW s \in Seq(Message), s # <<>>
  PROVE  /\ \A i \in 1..Len(Tail(s)) : LastIn(Tail(s), i) => LastIn(s, i + 1)
         /\ ~About(Tail(s), Head(s).id) => LastIn(s, 1)
  <1> DEFINE r == Tail(s)
             n == Len(s)
  <1>1. /\ n \in Nat \ {0} /\ Len(r) = n - 1 /\ \A k \in 1..(n - 1) : r[k] = s[k + 1]
    BY Received
  <1>2. Head(s) = s[1]
    BY Received
  <1> HIDE DEF r, n
  <1>3. \A j \in 1..n, i \in Nat : i < j => j = 1 \/ (j - 1 \in 1..(n - 1) /\ (j - 1) + 1 = j)
    BY <1>1
  <1>4. ASSUME NEW i \in 1..(n - 1), \A j \in 1..(n - 1) : i < j => r[j].id # r[i].id,
               NEW j \in 1..n, i + 1 < j
        PROVE  s[j].id # s[i + 1].id
    <2>1. j - 1 \in 1..(n - 1) /\ (j - 1) + 1 = j /\ i < j - 1
      BY <1>1, <1>4
    <2>2. r[j - 1] = s[j] /\ r[i] = s[i + 1]
      BY <1>1, <2>1
    <2>3. QED
      BY <1>4, <2>1, <2>2
  <1>5. \A i \in 1..Len(r) : LastIn(r, i) => LastIn(s, i + 1)
    BY <1>1, <1>4 DEF LastIn, n
  <1>6. ASSUME \A k \in 1..(n - 1) : r[k].id # s[1].id, NEW j \in 1..n, 1 < j PROVE s[j].id # s[1].id
    <2>1. j - 1 \in 1..(n - 1) /\ (j - 1) + 1 = j
      BY <1>1, <1>6
    <2>2. r[j - 1] = s[j]
      BY <1>1, <2>1
    <2>3. QED
      BY <1>6, <2>1, <2>2
  <1>7. ~About(r, Head(s).id) => LastIn(s, 1)
    BY <1>1, <1>2, <1>6 DEF LastIn, About, n
  <1>8. QED
    BY <1>5, <1>7 DEF r

\* The server changes a trace: its message is the last about it, or was lost.
LEMMA ServerFeeds ==
  ASSUME FeedInv, NEW t \in Ids, Commit(t) \/ Exceeds(t) \/ Sweep(t)
  PROVE  /\ db' \in [Ids -> Nat] /\ {gone, unheard, swept}' \subseteq SUBSET Ids
         /\ swept \subseteq swept' /\ queue' = queue /\ timer' = timer
         /\ \A u \in Ids : db[u] \in Nat /\ db'[u] \in Nat
         /\ \A u \in Ids : u # t => /\ db'[u] = db[u] /\ (u \in gone' <=> u \in gone)
                                    /\ (u \in unheard' <=> u \in unheard)
                                    /\ (u \in swept' <=> u \in swept)
         /\ t \in swept' \/ (db[t] <= db'[t] /\ (t \in gone => t \in gone'))
         /\ \/ wire' = wire /\ t \in unheard' \cup swept'
            \/ \E m \in Message : /\ wire' = Append(wire, m) /\ m.id = t /\ t \notin gone
                                  /\ MessageTrue(m)' /\ Word(m)'
  <1>1. /\ db \in [Ids -> Nat] /\ {gone, unheard, swept} \subseteq SUBSET Ids
        /\ wire \in Seq(Message) /\ queue \in Seq(Message)
        /\ gone \subseteq Ids /\ unheard \subseteq Ids /\ swept \subseteq Ids
    BY DEF FeedInv
  <1>2. CASE Commit(t)
    <2> PICK m : m = [type |-> "traces", id |-> t, count |-> db[t] + 1]
      OBVIOUS
    <2>1. /\ t \notin gone /\ gone' = gone /\ db' = [db EXCEPT ![t] = @ + 1]
          /\ swept' = swept /\ queue' = queue /\ timer' = timer /\ Announce(m)
      BY <1>2 DEF Commit
    <2>2. db[t] \in Nat /\ db'[t] = db[t] + 1 /\ \A u \in Ids : u # t => db'[u] = db[u]
      BY <1>1, <2>1
    <2>3. db[t] + 1 \in Nat /\ db[t] + 1 > 0 /\ db[t] <= db[t] + 1 /\ db[t] + 1 <= db[t] + 1
      BY <2>2
    <2>4. m \in Message /\ m.type = "traces" /\ m.id = t /\ m.count = db'[t]
      BY <2>2, <2>3 DEF Message
    <2>5. MessageTrue(m)' /\ Word(m)'
      <3>1. db'[t] > 0 /\ m.count <= db'[t] /\ t \notin gone' /\ m.type # "trace-deletes"
        BY <2>1, <2>2, <2>3, <2>4
      <3>2. Word(m)'
        BY <2>4, <3>1 DEF Word
      <3>3. MessageTrue(m)'
        BY <2>4, <3>1 DEF MessageTrue, Once, Known, Fits
      <3>4. QED
        BY <3>2, <3>3
    <2>6. \/ wire' = wire /\ unheard' = unheard \cup {t}
          \/ wire' = Append(wire, m) /\ unheard' = unheard \ {t}
      BY <2>1, <2>4 DEF Announce
    <2>7. /\ db' \in [Ids -> Nat] /\ {gone, unheard, swept}' \subseteq SUBSET Ids
          /\ \A u \in Ids : db[u] \in Nat /\ db'[u] \in Nat
      BY <1>1, <2>1, <2>3, <2>6
    <2>8. \A u \in Ids : u # t => (u \in unheard' <=> u \in unheard)
      BY <2>6
    <2>9. \/ wire' = wire /\ t \in unheard' \cup swept'
          \/ \E x \in Message : /\ wire' = Append(wire, x) /\ x.id = t /\ t \notin gone
                                /\ MessageTrue(x)' /\ Word(x)'
      BY <2>1, <2>4, <2>5, <2>6
    <2>10. db[t] <= db'[t]
      BY <2>2, <2>3
    <2>11. QED
      BY <2>1, <2>2, <2>7, <2>8, <2>9, <2>10
  <1>3. CASE Exceeds(t)
    <2> DEFINE m == [type |-> "trace-deletes", id |-> t, count |-> 0]
    <2>1. /\ t \notin gone /\ gone' = gone \cup {t} /\ db' = db
          /\ swept' = swept /\ queue' = queue /\ timer' = timer /\ Announce(m)
      BY <1>3 DEF Exceeds, Live
    <2>2. m \in Message /\ m.type = "trace-deletes" /\ m.id = t
      BY DEF Message
    <2> HIDE DEF m
    <2>3. MessageTrue(m)' /\ Word(m)'
      BY <2>1, <2>2 DEF MessageTrue, Word
    <2>4. \/ wire' = wire /\ unheard' = unheard \cup {t}
          \/ wire' = Append(wire, m) /\ unheard' = unheard \ {t}
      BY <2>1, <2>2 DEF Announce
    <2>5. \A u \in Ids : db[u] \in Nat /\ db[u] <= db[u]
      BY <1>1
    <2>6. QED
      BY <1>1, <2>1, <2>2, <2>3, <2>4, <2>5
  <1>4. CASE Sweep(t)
    <2>1. PICK n \in 0..MaxSpans : db' = [db EXCEPT ![t] = n]
      BY <1>4 DEF Sweep
    <2>2. /\ gone' = gone \ {t} /\ swept' = swept \cup {t} /\ unheard' = unheard
          /\ wire' = wire /\ queue' = queue /\ timer' = timer
      BY <1>4 DEF Sweep
    <2>3. n \in Nat
      BY TraceListAssumption
    <2>4. db' \in [Ids -> Nat] /\ \A u \in Ids : u # t => db'[u] = db[u]
      BY <1>1, <2>1, <2>3
    <2>5. QED
      BY <1>1, <2>2, <2>4
  <1>5. QED
    BY <1>2, <1>3, <1>4

\* What a dispatch of q takes from the way: messages that are true, of which
\* the last about a trace says how it is, if nothing about it is still to come.
Takes(q) ==
    /\ q \in Seq(Message)
    /\ \A i \in 1..Len(q) : MessageTrue(q[i])
    /\ \A t : OnItsWay(t) => OnItsWay(t)' \/ About(q, t)
    /\ \A i \in 1..Len(q), t \in Ids :
          LastIn(q, i) /\ q[i].id = t /\ ~OnItsWay(t)' => Word(q[i])

\* A message is received and waits, or a batch of them is dispatched.
LEMMA FeedMoves ==
  ASSUME FeedInv, onMessage \/ tick
  PROVE  /\ FeedInv'
         /\ UNCHANGED <<serverVars, scope, after, hasMore, floor>>
         /\ \/ /\ UNCHANGED <<rows, evicted, late, page, focusVars>>
               /\ \A t : OnItsWay(t) => OnItsWay(t)'
            \/ \E q : Takes(q) /\ Dispatch(q)
  <1>1. /\ db \in [Ids -> Nat] /\ {gone, unheard, swept} \subseteq SUBSET Ids
        /\ wire \in Seq(Message) /\ queue \in Seq(Message)
        /\ db' = db /\ gone' = gone /\ unheard' = unheard /\ swept' = swept
        /\ UNCHANGED <<serverVars, scope, after, hasMore, floor>>
    BY DEF FeedInv, onMessage, tick, serverVars
  <1>2. \A m : (Word(m) <=> Word(m)') /\ (MessageTrue(m) <=> MessageTrue(m)')
    BY <1>1 DEF Word, MessageTrue, Known, Once, Fits
  <1>3. ASSUME wire' \in Seq(Message), queue' \in Seq(Message), NEW t
        PROVE  OnItsWay(t)' <=> (About(wire', t) \/ About(queue', t))
    BY <1>3 DEF OnItsWay, About, Range
  <1>4. /\ \A i \in 1..Len(wire) : MessageTrue(wire[i]) /\ (LastIn(wire, i) => Word(wire[i]))
        /\ \A i \in 1..Len(queue) : /\ MessageTrue(queue[i])
                                    /\ LastIn(queue, i) /\ ~About(wire, queue[i].id) => Word(queue[i])
        /\ ~timer => queue = <<>>
    BY DEF FeedInv
  <1>5. ASSUME wire' \in Seq(Message), queue' \in Seq(Message), ~timer' => queue' = <<>>,
               \A i \in 1..Len(wire') : MessageTrue(wire'[i]) /\ (LastIn(wire', i) => Word(wire'[i])),
               \A i \in 1..Len(queue') : /\ MessageTrue(queue'[i])
                                         /\ LastIn(queue', i) /\ ~About(wire', queue'[i].id) => Word(queue'[i])
        PROVE  FeedInv'
    <2>1. \A i \in 1..Len(wire') : MessageTrue(wire[i])' /\ (LastIn(wire, i)' => Word(wire[i])')
      BY <1>2, <1>5 DEF LastIn
    <2>2. \A i \in 1..Len(queue') :
             /\ MessageTrue(queue[i])'
             /\ (LastIn(queue, i) /\ ~About(wire, queue[i].id))' => Word(queue[i])'
      BY <1>2, <1>5 DEF LastIn, About
    <2>3. QED
      BY <1>1, <1>5, <2>1, <2>2 DEF FeedInv
  <1>6. ASSUME wire # <<>>
        PROVE  /\ Tail(wire) \in Seq(Message)
               /\ \A i \in 1..Len(Tail(wire)) :
                     MessageTrue(Tail(wire)[i]) /\ (LastIn(Tail(wire), i) => Word(Tail(wire)[i]))
    <2>1. /\ Tail(wire) \in Seq(Message)
          /\ \A i \in 1..Len(Tail(wire)) : i + 1 \in 1..Len(wire) /\ Tail(wire)[i] = wire[i + 1]
      BY <1>1, <1>6, Received
    <2>2. \A i \in 1..Len(Tail(wire)) : LastIn(Tail(wire), i) => LastIn(wire, i + 1)
      BY <1>1, <1>6, LastReceived
    <2>3. QED
      BY <1>4, <2>1, <2>2
  <1>7. CASE tick
    <2>1. queue' = <<>> /\ wire' = wire /\ Dispatch(queue)
      BY <1>7 DEF tick
    <2>2. Len(<<>>) = 0 /\ <<>> \in Seq(Message) /\ \A i \in 1..0 : FALSE
      OBVIOUS
    <2>3. FeedInv'
      BY <1>1, <1>4, <1>5, <2>1, <2>2
    <2>4. \A t : OnItsWay(t)' <=> About(wire, t)
      BY <1>1, <1>3, <2>1, <2>2 DEF About
    <2>5. Takes(queue)
      <3>1. \A t : OnItsWay(t) => OnItsWay(t)' \/ About(queue, t)
        BY <1>1, <2>4, OnTheWay
      <3>2. ASSUME NEW i \in 1..Len(queue), NEW t \in Ids, LastIn(queue, i), queue[i].id = t,
                   ~OnItsWay(t)'
            PROVE  Word(queue[i])
        <4>1. ~About(wire, queue[i].id)
          BY <2>4, <3>2
        <4>2. QED
          BY <1>4, <3>2, <4>1
      <3>3. QED
        BY <1>1, <1>4, <3>1, <3>2 DEF Takes
    <2>6. QED
      BY <1>1, <2>1, <2>3, <2>5
  <1>8. CASE onMessage /\ timer
    <2>1. /\ wire # <<>> /\ wire' = Tail(wire) /\ queue' = Append(queue, Head(wire)) /\ timer'
          /\ UNCHANGED <<rows, evicted, late, page, focusVars>>
      BY <1>8 DEF onMessage
    <2> DEFINE h == Head(wire)
    <2>2. /\ h \in Message /\ h = wire[1] /\ 1 \in 1..Len(wire)
          /\ \A t : About(wire, t) <=> (About(Tail(wire), t) \/ h.id = t)
      BY <1>1, <2>1, Received
    <2>3. ~About(Tail(wire), h.id) => LastIn(wire, 1)
      BY <1>1, <2>1, LastReceived
    <2>4. MessageTrue(h) /\ (~About(Tail(wire), h.id) => Word(h))
      BY <1>4, <2>2, <2>3
    <2> HIDE DEF h
    <2>5. /\ Append(queue, h) \in Seq(Message) /\ Len(queue) \in Nat
          /\ Len(Append(queue, h)) = Len(queue) + 1 /\ Append(queue, h)[Len(queue) + 1] = h
          /\ \A i \in 1..Len(queue) : Append(queue, h)[i] = queue[i] /\ queue[i] \in Message
          /\ \A t : About(Append(queue, h), t) <=> (About(queue, t) \/ h.id = t)
      BY <1>1, <2>2, Appended
    <2>6. ASSUME NEW i \in 1..Len(Append(queue, h)) PROVE MessageTrue(Append(queue, h)[i])
      <3>1. i \in 1..Len(queue) \/ i = Len(queue) + 1
        BY <2>5
      <3>2. QED
        BY <1>4, <2>4, <2>5, <3>1
    <2>7. ASSUME NEW i \in 1..Len(Append(queue, h)), LastIn(Append(queue, h), i),
                 ~About(Tail(wire), Append(queue, h)[i].id)
          PROVE  Word(Append(queue, h)[i])
      <3>1. CASE Append(queue, h)[i] = h
        BY <2>4, <2>7, <3>1
      <3>2. CASE /\ i \in 1..Len(queue) /\ Append(queue, h)[i] = queue[i]
                 /\ LastIn(queue, i) /\ queue[i].id # h.id
        BY <1>4, <2>2, <2>7, <3>2
      <3>3. QED
        BY <1>1, <2>2, <2>7, <3>1, <3>2, LastAppended
    <2>8. FeedInv'
      BY <1>5, <1>6, <2>1, <2>5, <2>6, <2>7 DEF h
    <2>9. \A t : OnItsWay(t) => OnItsWay(t)'
      <3>1. wire' = Tail(wire) /\ queue' = Append(queue, h)
        BY <2>1 DEF h
      <3>2. \A t : OnItsWay(t)' <=> (About(Tail(wire), t) \/ About(Append(queue, h), t))
        BY <1>3, <1>6, <2>1, <2>5, <3>1
      <3>3. QED
        BY <1>1, <2>2, <2>5, <3>2, OnTheWay
    <2>10. QED
      BY <1>1, <2>1, <2>8, <2>9
  <1>9. CASE onMessage /\ ~timer
    <2>1. wire # <<>> /\ wire' = Tail(wire) /\ queue' = queue /\ timer' /\ Dispatch(<<Head(wire)>>)
      BY <1>9 DEF onMessage
    <2>2. queue = <<>> /\ Len(<<>>) = 0 /\ <<>> \in Seq(Message) /\ \A i \in 1..0 : FALSE
      BY <1>4, <1>9
    <2> DEFINE h == Head(wire)
               q == <<h>>
    <2>3. /\ h \in Message /\ h = wire[1] /\ 1 \in 1..Len(wire)
          /\ \A t : About(wire, t) <=> (About(Tail(wire), t) \/ h.id = t)
      BY <1>1, <2>1, Received
    <2>4. ~About(Tail(wire), h.id) => LastIn(wire, 1)
      BY <1>1, <2>1, LastReceived
    <2>5. MessageTrue(h) /\ (~About(Tail(wire), h.id) => Word(h))
      BY <1>4, <2>3, <2>4
    <2>6. Dispatch(q)
      BY <2>1
    <2> HIDE DEF h
    <2>7. q \in Seq(Message) /\ Len(q) = 1 /\ q[1] = h /\ \A i \in 1..1 : i = 1
      BY <2>3
    <2> HIDE DEF q
    <2>8. FeedInv'
      BY <1>5, <1>6, <2>1, <2>2
    <2>9. \A t : OnItsWay(t)' <=> About(Tail(wire), t)
      BY <1>3, <1>6, <2>1, <2>2 DEF About
    <2>10. \A t : About(q, t) <=> h.id = t
      BY <2>7 DEF About
    <2>11. \A t : OnItsWay(t) <=> About(wire, t)
      BY <1>1, <2>2, OnTheWay DEF About
    <2>12. Takes(q)
      <3>1. \A t : OnItsWay(t) => OnItsWay(t)' \/ About(q, t)
        BY <2>3, <2>9, <2>10, <2>11
      <3>2. ASSUME NEW i \in 1..Len(q), NEW t \in Ids, q[i].id = t, ~OnItsWay(t)' PROVE Word(q[i])
        <4>1. q[i] = h
          BY <2>7, <3>2
        <4>2. ~About(Tail(wire), h.id)
          BY <2>9, <3>2, <4>1
        <4>3. QED
          BY <2>5, <4>1, <4>2
      <3>3. \A i \in 1..Len(q) : MessageTrue(q[i])
        BY <2>5, <2>7
      <3>4. QED
        BY <2>7, <3>1, <3>2, <3>3 DEF Takes
    <2>13. QED
      BY <1>1, <2>6, <2>8, <2>12
  <1>10. QED
    BY <1>7, <1>8, <1>9

----
(* The rows after a dispatch: what the last message about each one says.    *)

\* One turn of the loop in dispatchQueue, and the values it goes through from
\* the rows r.
Turn(f, q, n) ==
    IF n > 1 /\ q[n - 1].type # q[n].type
      THEN dispatchItem(endRun(f[n - 1], q[n - 1]), q[n])
    ELSE dispatchItem(f[n - 1], q[n])

Loop(f, r, q, m) == f = [n \in 0..m |-> IF n = 0 THEN r ELSE Turn(f, q, n)]

\* The function that dispatchQueue chooses exists: by induction on its length.
LEMMA LoopExists ==
  ASSUME NEW r, NEW q, NEW m \in Nat
  PROVE  \E f : Loop(f, r, q, m)
  <1> DEFINE S == {n \in Nat : \E f : Loop(f, r, q, n)}
  <1>1. 0 \in S
    <2>1. Loop([k \in 0..0 |-> r], r, q, 0)
      BY DEF Loop
    <2>2. QED
      BY <2>1
  <1>2. ASSUME NEW n \in Nat, n \in S PROVE n + 1 \in S
    <2>1. PICK f : Loop(f, r, q, n)
      BY <1>2
    <2> DEFINE g == [k \in 0..(n + 1) |-> IF k = n + 1 THEN Turn(f, q, n + 1) ELSE f[k]]
    <2>2. /\ \A k \in 0..n : g[k] = f[k] /\ k # n + 1
          /\ g[n + 1] = Turn(f, q, n + 1)
          /\ g = [k \in 0..(n + 1) |-> g[k]]
      OBVIOUS
    <2>3. \A k \in 0..n : f[k] = IF k = 0 THEN r ELSE Turn(f, q, k)
      BY <2>1 DEF Loop
    <2> HIDE DEF g
    <2>4. \A k \in 0..(n + 1) : k # 0 => Turn(g, q, k) = Turn(f, q, k)
      <3>1. ASSUME NEW k \in 0..(n + 1), k # 0 PROVE g[k - 1] = f[k - 1]
        <4>1. k - 1 \in 0..n
          BY <3>1
        <4>2. QED
          BY <2>2, <4>1
      <3>2. QED
        BY <3>1 DEF Turn
    <2>5. ASSUME NEW k \in 0..(n + 1) PROVE g[k] = IF k = 0 THEN r ELSE Turn(g, q, k)
      <3>1. CASE k = n + 1
        BY <2>2, <2>4, <3>1
      <3>2. CASE k # n + 1
        <4>1. k \in 0..n
          BY <3>2
        <4>2. QED
          BY <2>2, <2>3, <2>4, <4>1
      <3>3. QED
        BY <3>1, <3>2
    <2>6. Loop(g, r, q, n + 1)
      BY <2>2, <2>5 DEF Loop
    <2>7. QED
      BY <2>6
  <1> HIDE DEF S
  <1>3. m \in S
    BY <1>1, <1>2, InductiveSet
  <1>4. QED
    BY <1>3 DEF S

\* dispatchQueue is where the loop ends, cut if the last run added rows.
LEMMA DispatchLoop ==
  ASSUME NEW q \in Seq(Message), q # <<>>
  PROVE  \E f : /\ dispatchQueue(q) = endRun(f[Len(q)], q[Len(q)]) /\ f[0] = rows
                /\ \A n \in 1..Len(q) : f[n] = Turn(f, q, n)
  <1> DEFINE f == CHOOSE g : g = [n \in 0..Len(q) |->
                       IF n = 0 THEN rows
                       ELSE IF n > 1 /\ q[n - 1].type # q[n].type
                              THEN dispatchItem(endRun(g[n - 1], q[n - 1]), q[n])
                       ELSE dispatchItem(g[n - 1], q[n])]
  <1>1. Len(q) \in Nat
    OBVIOUS
  <1>2. f = [n \in 0..Len(q) |-> IF n = 0 THEN rows
                                 ELSE IF n > 1 /\ q[n - 1].type # q[n].type
                                        THEN dispatchItem(endRun(f[n - 1], q[n - 1]), q[n])
                                 ELSE dispatchItem(f[n - 1], q[n])]
    <2>1. PICK h : Loop(h, rows, q, Len(q))
      BY <1>1, LoopExists
    <2>2. \E g : g = [n \in 0..Len(q) |-> IF n = 0 THEN rows
                                 ELSE IF n > 1 /\ q[n - 1].type # q[n].type
                                        THEN dispatchItem(endRun(g[n - 1], q[n - 1]), q[n])
                                 ELSE dispatchItem(g[n - 1], q[n])]
      BY <2>1, Zenon DEF Loop, Turn
    <2>3. QED
      BY <2>2
  <1>3. dispatchQueue(q) = endRun(f[Len(q)], q[Len(q)])
    BY DEF dispatchQueue
  <1> HIDE DEF f
  <1>4. f[0] = rows
    BY <1>1, <1>2
  <1>5. ASSUME NEW n \in 1..Len(q) PROVE f[n] = Turn(f, q, n)
    <2>1. n \in 0..Len(q) /\ n # 0
      BY <1>1
    <2>2. f[n] = IF n > 1 /\ q[n - 1].type # q[n].type
                   THEN dispatchItem(endRun(f[n - 1], q[n - 1]), q[n])
                 ELSE dispatchItem(f[n - 1], q[n])
      BY <1>2, <2>1, Zenon
    <2>3. QED
      BY <2>2 DEF Turn
  <1>6. QED
    BY <1>3, <1>4, <1>5

\* After n messages a row is the one there was, if none was about it; if not,
\* the last one was a delivery, and the row knows what it brought.
Told(t, d, q, n) ==
    /\ Fits(t, d.count)
    /\ \/ t \in DOMAIN rows /\ d = rows[t] /\ \A i \in 1..n : q[i].id # t
       \/ \E i \in 1..n : /\ q[i].id = t /\ q[i].type = "traces" /\ q[i].count <= d.count
                          /\ \A j \in 1..n : i < j => q[j].id # t

Good(acc, q, n) ==
    /\ DOMAIN acc \subseteq Known
    /\ acc \in [DOMAIN acc -> Data]
    /\ \A t \in DOMAIN acc : Told(t, acc[t], q, n)

\* Cutting rows leaves the others as they are.
LEMMA KeepGood ==
  ASSUME NEW acc, NEW q, NEW n, Good(acc, q, n), NEW S
  PROVE  Good(Keep(acc, S), q, n)
  BY DEF Good, Keep

\* One more message.
LEMMA ItemGood ==
  ASSUME db \in [Ids -> Nat], NEW q \in Seq(Message), NEW n \in 1..Len(q), MessageTrue(q[n]),
         NEW acc, Good(acc, q, n - 1)
  PROVE  Good(dispatchItem(acc, q[n]), q, n)
  <1>1. /\ q[n] \in Message /\ Len(q) \in Nat /\ n \in Nat
        /\ q[n].id \in Ids /\ q[n].type \in {"traces", "trace-deletes"} /\ q[n].count \in Nat
    <2>1. q[n] \in Message /\ Len(q) \in Nat /\ n \in Nat
      OBVIOUS
    <2>2. QED
      BY <2>1 DEF Message
  <1>2. \A i \in 1..n : i = n \/ (i \in 1..(n - 1) /\ i < n)
    BY <1>1
  <1>3. \A i \in 1..(n - 1) : i \in 1..n
    BY <1>1
  <1>4. ASSUME NEW t, NEW d, t # q[n].id, Told(t, d, q, n - 1) PROVE Told(t, d, q, n)
    <2>1. CASE t \in DOMAIN rows /\ d = rows[t] /\ \A i \in 1..(n - 1) : q[i].id # t
      BY <1>2, <1>4, <2>1 DEF Told
    <2>2. ASSUME NEW i \in 1..(n - 1), q[i].id = t, q[i].type = "traces", q[i].count <= d.count,
                 \A j \in 1..(n - 1) : i < j => q[j].id # t
          PROVE  Told(t, d, q, n)
      <3>1. \A j \in 1..n : i < j => q[j].id # t
        BY <1>2, <1>4, <2>2
      <3>2. QED
        BY <1>3, <1>4, <2>2, <3>1 DEF Told
    <2>3. QED
      BY <1>4, <2>1, <2>2 DEF Told
  <1>5. CASE q[n].type = "trace-deletes"
    <2>1. dispatchItem(acc, q[n]) = [t \in DOMAIN acc \cap (Ids \ {q[n].id}) |-> acc[t]]
      BY <1>5 DEF dispatchItem, removeTrace, Keep
    <2> DEFINE r == [t \in DOMAIN acc \cap (Ids \ {q[n].id}) |-> acc[t]]
    <2>2. /\ DOMAIN r \subseteq Known /\ r \in [DOMAIN r -> Data]
          /\ \A t \in DOMAIN r : r[t] = acc[t] /\ t \in DOMAIN acc /\ t # q[n].id
      BY DEF Good
    <2> HIDE DEF r
    <2>3. \A t \in DOMAIN r : Told(t, r[t], q, n)
      BY <1>4, <2>2 DEF Good
    <2>4. QED
      BY <2>1, <2>2, <2>3 DEF Good, r
  <1>6. CASE q[n].type = "traces"
    <2> DEFINE m == q[n]
               r == addTrace(acc, m)
    <2>1. /\ m.id \in Ids /\ m.count \in Nat /\ Fits(m.id, m.count) /\ m.id \in Known
          /\ db[m.id] \in Nat
      BY <1>1, <1>6 DEF MessageTrue, Once
    <2>2. DOMAIN r = DOMAIN acc \cup {m.id} /\ r = [t \in DOMAIN r |-> r[t]]
      BY DEF addTrace
    <2>3. \A t \in DOMAIN acc : t # m.id => r[t] = acc[t]
      <3> SUFFICES ASSUME NEW t \in DOMAIN acc, t # m.id PROVE r[t] = acc[t]
        OBVIOUS
      <3> HIDE DEF m
      <3>1. t \in DOMAIN acc \cup {m.id}
        OBVIOUS
      <3>2. QED
        BY <3>1, Zenon DEF addTrace
    <2>4. r[m.id] \in Data /\ m.count <= r[m.id].count /\ Fits(m.id, r[m.id].count)
      <3>1. CASE m.id \notin DOMAIN acc
        <4>1. r[m.id] = [count |-> m.count, spans |-> 0]
          BY <3>1 DEF addTrace, normalizeTrace
        <4>2. QED
          BY <2>1, <4>1 DEF Data
      <3>2. CASE m.id \in DOMAIN acc
        <4>1. r[m.id] = mergeTrace(acc[m.id], [count |-> m.count, spans |-> 0])
          BY <3>2 DEF addTrace, normalizeTrace
        <4> DEFINE a == acc[m.id]
        <4>2. a \in Data /\ Fits(m.id, a.count) /\ a.count \in Nat /\ a.spans \in Nat
          BY <3>2 DEF Good, Told, Data
        <4>3. r[m.id] = [count |-> IF m.count > a.count THEN m.count ELSE a.count,
                         spans |-> IF 0 > a.spans THEN 0 ELSE a.spans]
          BY <4>1 DEF mergeTrace, mergeSpans
        <4> HIDE DEF a, r, m
        <4>4. r[m.id].count = (IF m.count > a.count THEN m.count ELSE a.count)
          BY <4>3
        <4>5. r[m.id] \in Data
          BY <2>1, <4>2, <4>3 DEF Data
        <4>6. QED
          BY <2>1, <4>2, <4>4, <4>5
      <3>3. QED
        BY <3>1, <3>2
    <2>5. dispatchItem(acc, q[n]) = r
      BY <1>6 DEF dispatchItem
    <2> HIDE DEF r
    <2>6. DOMAIN r \subseteq Known /\ r \in [DOMAIN r -> Data]
      <3>1. \A t \in DOMAIN r : r[t] \in Data
        BY <2>2, <2>3, <2>4 DEF Good
      <3>2. QED
        BY <2>1, <2>2, <3>1 DEF Good
    <2>7. Told(m.id, r[m.id], q, n)
      <3>1. \A j \in 1..n : ~(n < j)
        BY <1>1
      <3>2. QED
        BY <1>1, <1>6, <2>4, <3>1 DEF Told
    <2>8. ASSUME NEW t \in DOMAIN r PROVE Told(t, r[t], q, n)
      <3>1. CASE t = m.id
        BY <2>7, <3>1
      <3>2. CASE t # m.id
        BY <1>4, <2>2, <2>3, <3>2 DEF Good
      <3>3. QED
        BY <3>1, <3>2
    <2>9. QED
      BY <2>5, <2>6, <2>8 DEF Good
  <1>7. QED
    BY <1>1, <1>5, <1>6

\* The rows after a dispatch, by induction on the messages.
LEMMA DispatchRows ==
  ASSUME FeedInv, RowsInv, NEW q \in Seq(Message), \A i \in 1..Len(q) : MessageTrue(q[i])
  PROVE  Good(dispatchQueue(q), q, Len(q))
  <1>1. db \in [Ids -> Nat] /\ Len(q) \in Nat
    BY DEF FeedInv
  <1>2. Good(rows, q, 0)
    <2>1. \A i \in 1..0 : FALSE
      OBVIOUS
    <2>2. QED
      BY <2>1 DEF Good, Told, RowsInv, Once
  <1>3. CASE q = <<>>
    BY <1>2, <1>3 DEF dispatchQueue
  <1>4. CASE q # <<>>
    <2>1. PICK f : /\ dispatchQueue(q) = endRun(f[Len(q)], q[Len(q)]) /\ f[0] = rows
                   /\ \A n \in 1..Len(q) : f[n] = Turn(f, q, n)
      BY <1>4, DispatchLoop
    <2> DEFINE S == {n \in Nat : n <= Len(q) => Good(f[n], q, n)}
    <2>2. 0 \in S
      BY <1>2, <2>1
    <2>3. ASSUME NEW n \in Nat, n \in S PROVE n + 1 \in S
      <3> SUFFICES ASSUME n + 1 <= Len(q) PROVE Good(f[n + 1], q, n + 1)
        OBVIOUS
      <3>1. n + 1 \in 1..Len(q) /\ n <= Len(q) /\ (n + 1) - 1 = n
        BY <1>1
      <3>2. Good(f[n], q, n)
        BY <2>3, <3>1
      <3>3. Good(endRun(f[n], q[n]), q, n)
        BY <3>2, KeepGood DEF endRun
      <3>4. f[n + 1] = dispatchItem(endRun(f[n], q[n]), q[n + 1]) \/ f[n + 1] = dispatchItem(f[n], q[n + 1])
        BY <2>1, <3>1 DEF Turn
      <3>5. \A acc : Good(acc, q, n) => Good(dispatchItem(acc, q[n + 1]), q, n + 1)
        BY <1>1, <3>1, ItemGood
      <3>6. QED
        BY <3>2, <3>3, <3>4, <3>5
    <2> HIDE DEF S
    <2>4. Len(q) \in S
      BY <1>1, <2>2, <2>3, InductiveSet
    <2>5. Good(f[Len(q)], q, Len(q))
      BY <1>1, <2>4 DEF S
    <2>6. QED
      BY <2>1, <2>5, KeepGood DEF endRun
  <1>5. QED
    BY <1>3, <1>4

----
(* A dispatch, as every part of the list sees it.                          *)

\* What is known to be current stays so, but for what the messages are about,
\* and no live trace is left without its row, its message or its eviction.
LEMMA Dispatched ==
  ASSUME FeedInv, RowsInv, NEW q, Takes(q), Dispatch(q), UNCHANGED serverVars
  PROVE  /\ RowsInv'
         /\ \A t, c : Current(t, c) /\ ~About(q, t) => Current(t, c)'
         /\ \A t \in Live : Covered(t) => Covered(t)'
  <1> DEFINE ids == {q[i].id : i \in DOMAIN q}
             removed == {q[i].id : i \in {j \in DOMAIN q : q[j].type = "trace-deletes"}}
  <1>1. /\ q \in Seq(Message) /\ \A i \in 1..Len(q) : MessageTrue(q[i])
        /\ DOMAIN q = 1..Len(q) /\ db \in [Ids -> Nat]
        /\ db' = db /\ gone' = gone /\ unheard' = unheard /\ swept' = swept
    BY DEF Takes, FeedInv, serverVars
  <1>2. /\ rows' = dispatchQueue(q) /\ late' = late \ ids
        /\ evicted' = (evicted \cup DOMAIN rows \cup ids) \ (DOMAIN rows' \cup removed)
    BY DEF Dispatch
  <1>3. \A t : About(q, t) <=> t \in ids
    BY <1>1 DEF About
  <1>4. removed \subseteq gone \cup swept
    <2>1. \A i \in 1..Len(q) : q[i].type = "trace-deletes" => q[i].id \in gone \cup swept
      BY <1>1 DEF MessageTrue
    <2>2. QED
      BY <1>1, <2>1
  <1>5. \A t : Excused(t) => Excused(t)' \/ t \in ids
    BY <1>1, <1>3 DEF Takes, Excused
  <1> HIDE DEF ids, removed
  <1>6. \A t, c : Current(t, c) /\ ~About(q, t) => Current(t, c)'
    BY <1>1, <1>3, <1>5 DEF Current
  <1>7. \A t \in Live : Covered(t) => Covered(t)'
    BY <1>1, <1>2, <1>4, <1>5 DEF Covered, Live, Excused
  <1>8. Good(rows', q, Len(q))
    BY <1>1, <1>2, DispatchRows
  <1>9. Known' = Known
    BY <1>1 DEF Known
  <1>10. \A t \in DOMAIN rows' : rows'[t].count \in Nat /\ t \in Ids /\ db[t] \in Nat
    <2>1. Known \subseteq Ids
      BY DEF Known, FeedInv
    <2>2. QED
      BY <1>1, <1>8, <2>1 DEF Good, Data
  <1>11. ASSUME NEW t \in DOMAIN rows' \ late' PROVE Current(t, rows[t].count)'
    <2>1. Told(t, rows'[t], q, Len(q))
      BY <1>8 DEF Good
    <2>2. CASE t \in DOMAIN rows /\ rows'[t] = rows[t] /\ \A i \in 1..Len(q) : q[i].id # t
      <3>1. ~About(q, t) /\ t \notin late
        BY <1>1, <1>2, <1>3, <2>2 DEF About
      <3>2. Current(t, rows[t].count)
        BY <2>2, <3>1 DEF RowsInv
      <3>3. \A c : Current(t, c) => Current(t, c)'
        BY <1>6, <3>1
      <3>4. PICK c : c = rows[t].count /\ c = rows'[t].count
        BY <2>2
      <3>5. Current(t, c)'
        BY <3>2, <3>3, <3>4
      <3>6. QED
        BY <3>4, <3>5 DEF Current
    <2>3. ASSUME NEW i \in 1..Len(q), q[i].id = t, q[i].type = "traces",
                 q[i].count <= rows'[t].count, \A j \in 1..Len(q) : i < j => q[j].id # t
          PROVE  Current(t, rows[t].count)'
      <3>1. LastIn(q, i) /\ t \in Ids
        BY <1>10, <2>3 DEF LastIn
      <3>2. CASE Excused(t)'
        BY <3>2 DEF Current
      <3>3. CASE ~Excused(t)'
        <4>1. Word(q[i]) /\ t \notin unheard \cup swept
          BY <1>1, <2>3, <3>1, <3>3 DEF Takes, Excused
        <4>2. t \notin gone /\ q[i].count = db[t]
          BY <2>3, <4>1 DEF Word
        <4>3. rows'[t].count <= db[t] /\ rows'[t].count \in Nat /\ db[t] \in Nat
          BY <1>10, <2>1, <4>1 DEF Told, Fits
        <4>4. rows'[t].count = db[t]
          BY <2>3, <4>2, <4>3
        <4>5. QED
          BY <1>1, <4>2, <4>4 DEF Current
      <3>4. QED
        BY <3>2, <3>3
    <2>4. QED
      BY <2>1, <2>2, <2>3 DEF Told
  <1>12. RowsInv'
    <2>1. \A t \in DOMAIN rows' : Once(t, rows[t])'
      BY <1>1, <1>8, <1>9 DEF Good, Told, Once, Fits
    <2>2. QED
      BY <1>8, <1>9, <1>11, <2>1 DEF RowsInv, Good
  <1>13. QED
    BY <1>6, <1>7, <1>12

----
(* Steps that leave a part of the list alone.                              *)

\* What was true of a known trace stays true; a trace that comes to be live is
\* new, and on its way or excused, or it has been swept.
Advances ==
    /\ Known \subseteq Known'
    /\ \A u \in Known, c \in Nat : /\ Fits(u, c) => Fits(u, c)'
                                   /\ Current(u, c) => Current(u, c)'
    /\ \A u : Excused(u) => Excused(u)'
    /\ swept \subseteq swept'
    /\ \A u \in Live' : u \in Live \/ u \in swept' \/ (Excused(u)' /\ u \notin Known)

Same == UNCHANGED <<serverVars, wire, queue>>

\* Whoever has heard of a trace other than t is told nothing new of it; of t,
\* a message is on its way, or the list is excused.
LEMMA FeedsAdvance ==
  ASSUME NEW t \in Ids, Known \subseteq Known', Known \subseteq Ids, swept \subseteq swept',
         \A u \in Ids, c \in Nat : Fits(u, c) => Fits(u, c)',
         \A u : OnItsWay(u) => OnItsWay(u)', Excused(t)',
         {unheard, swept} \subseteq SUBSET Ids, t \in swept' \/ (db[t] <= db'[t] /\ (t \in gone => t \in gone')),
         \A u \in Ids : u # t => /\ db'[u] = db[u] /\ (u \in gone' <=> u \in gone)
                                 /\ (u \in unheard' <=> u \in unheard)
                                 /\ (u \in swept' <=> u \in swept)
  PROVE  Advances
  <1>1. \A u : Excused(u) => Excused(u)'
    BY DEF Excused
  <1>2. \A u \in Known, c \in Nat : /\ Fits(u, c) => Fits(u, c)'
                                    /\ Current(u, c) => Current(u, c)'
    BY <1>1 DEF Current
  <1>3. ASSUME NEW u \in Live' PROVE u \in Live \/ u \in swept' \/ (Excused(u)' /\ u \notin Known)
    <2>1. u \in Ids /\ db'[u] > 0 /\ u \notin gone'
      BY <1>3 DEF Live
    <2>2. QED
      BY <2>1 DEF Live, Known
  <1>4. QED
    BY <1>1, <1>2, <1>3 DEF Advances

\* What the server's change means to the messages on their way, and to those
\* who have heard of other traces.
LEMMA ServerAdvances ==
  ASSUME FeedInv, Server
  PROVE  FeedInv' /\ Advances
  <1>1. PICK t \in Ids : Commit(t) \/ Exceeds(t) \/ Sweep(t)
    BY DEF Server
  <1>2. /\ db \in [Ids -> Nat] /\ {gone, unheard, swept} \subseteq SUBSET Ids
        /\ wire \in Seq(Message) /\ queue \in Seq(Message)
        /\ ~timer => queue = <<>>
        /\ \A i \in 1..Len(wire) : MessageTrue(wire[i]) /\ (LastIn(wire, i) => Word(wire[i]))
        /\ \A i \in 1..Len(queue) : /\ MessageTrue(queue[i])
                                    /\ LastIn(queue, i) /\ ~About(wire, queue[i].id) => Word(queue[i])
    BY DEF FeedInv
  <1>3. /\ db' \in [Ids -> Nat] /\ {gone, unheard, swept}' \subseteq SUBSET Ids
        /\ swept \subseteq swept' /\ queue' = queue /\ timer' = timer
        /\ \A u \in Ids : db[u] \in Nat /\ db'[u] \in Nat
        /\ \A u \in Ids : u # t => /\ db'[u] = db[u] /\ (u \in gone' <=> u \in gone)
                                   /\ (u \in unheard' <=> u \in unheard)
                                   /\ (u \in swept' <=> u \in swept)
        /\ t \in swept' \/ (db[t] <= db'[t] /\ (t \in gone => t \in gone'))
        /\ \/ wire' = wire /\ t \in unheard' \cup swept'
           \/ \E m \in Message : /\ wire' = Append(wire, m) /\ m.id = t /\ t \notin gone
                                 /\ MessageTrue(m)' /\ Word(m)'
    BY <1>1, ServerFeeds
  <1>4. /\ Known \subseteq Known' /\ Known \subseteq Ids
    <2>1. Known \subseteq Ids
      BY <1>2 DEF Known
    <2>2. ASSUME NEW u \in Known PROVE u \in Known'
      <3>1. u \in Ids /\ (u \in swept \/ db[u] > 0)
        BY <2>1 DEF Known
      <3>2. CASE u \in swept
        BY <1>3, <3>2 DEF Known
      <3>3. CASE db[u] > 0
        <4>1. db[u] \in Nat /\ db'[u] \in Nat /\ (u \in swept' \/ db[u] <= db'[u])
          BY <1>3, <3>1
        <4>2. u \in swept' \/ db'[u] > 0
          BY <3>3, <4>1
        <4>3. QED
          BY <3>1, <4>2 DEF Known
      <3>4. QED
        BY <3>1, <3>2, <3>3
    <2>3. QED
      BY <2>1, <2>2
  <1>5. \A u \in Ids, c \in Nat : Fits(u, c) => Fits(u, c)'
    <2> TAKE u \in Ids, c \in Nat
    <2>1. db[u] \in Nat /\ db'[u] \in Nat /\ (db[u] <= db'[u] \/ u \in swept')
      BY <1>3
    <2>2. QED
      BY <1>3, <2>1 DEF Fits
  <1>6. \A x \in Message : MessageTrue(x) => MessageTrue(x)'
    <2> SUFFICES ASSUME NEW x \in Message, MessageTrue(x) PROVE MessageTrue(x)'
      OBVIOUS
    <2>1. x.id \in Ids /\ x.count \in Nat
      BY DEF Message
    <2>2. Once(x.id, x) => Once(x.id, x)'
      BY <1>4, <1>5, <2>1 DEF Once
    <2>3. x.id \in gone \cup swept => x.id \in gone' \cup swept'
      BY <1>3, <2>1
    <2>4. QED
      BY <2>2, <2>3 DEF MessageTrue
  <1>7. \A x \in Message : x.id # t => (Word(x) => Word(x)')
    <2> SUFFICES ASSUME NEW x \in Message, x.id # t, Word(x) PROVE Word(x)'
      OBVIOUS
    <2>1. x.id \in Ids
      BY DEF Message
    <2>2. QED
      BY <1>3, <2>1 DEF Word
  <1>8. CASE wire' = wire /\ t \in unheard' \cup swept'
    <2>1. \A x : x.id = t => Word(x)'
      BY <1>8 DEF Word
    <2>2. \A x \in Message : Word(x) => Word(x)'
      BY <1>7, <2>1
    <2>3. /\ \A i \in 1..Len(wire) : wire[i] \in Message
          /\ \A i \in 1..Len(queue) : queue[i] \in Message
      BY <1>2
    <2>4. \A i \in 1..Len(wire') : MessageTrue(wire[i])' /\ (LastIn(wire, i)' => Word(wire[i])')
      BY <1>2, <1>6, <1>8, <2>2, <2>3 DEF LastIn
    <2>5. \A i \in 1..Len(queue') :
             /\ MessageTrue(queue[i])'
             /\ (LastIn(queue, i) /\ ~About(wire, queue[i].id))' => Word(queue[i])'
      BY <1>2, <1>3, <1>6, <1>8, <2>2, <2>3 DEF LastIn, About
    <2>6. FeedInv'
      BY <1>2, <1>3, <1>8, <2>4, <2>5 DEF FeedInv
    <2>7. \A u : OnItsWay(u) => OnItsWay(u)'
      BY <1>3, <1>8 DEF OnItsWay
    <2>8. Excused(t)'
      BY <1>8 DEF Excused
    <2>9. QED
      BY <1>1, <1>2, <1>3, <1>4, <1>5, <2>6, <2>7, <2>8, FeedsAdvance
  <1>9. ASSUME NEW m \in Message, wire' = Append(wire, m), m.id = t, MessageTrue(m)', Word(m)'
        PROVE  FeedInv' /\ Advances
    <2>1. /\ wire' \in Seq(Message) /\ Len(wire) \in Nat /\ Len(wire') = Len(wire) + 1
          /\ wire'[Len(wire) + 1] = m
          /\ \A i \in 1..Len(wire) : wire'[i] = wire[i] /\ wire[i] \in Message
          /\ \A u : About(wire', u) <=> (About(wire, u) \/ m.id = u)
      BY <1>2, <1>9, Appended
    <2>2. \A i \in 1..Len(queue) : queue[i] \in Message
      BY <1>2
    <2>3. ASSUME NEW i \in 1..Len(wire') PROVE MessageTrue(wire[i])' /\ (LastIn(wire, i)' => Word(wire[i])')
      <3>1. i \in 1..Len(wire) \/ i = Len(wire) + 1
        BY <2>1
      <3>2. MessageTrue(wire[i])'
        BY <1>2, <1>6, <1>9, <2>1, <3>1
      <3>3. ASSUME LastIn(wire', i) PROVE Word(wire[i])'
        <4>1. CASE wire'[i] = m
          BY <1>9, <4>1
        <4>2. CASE i \in 1..Len(wire) /\ wire'[i] = wire[i] /\ LastIn(wire, i) /\ wire[i].id # m.id
          <5>1. Word(wire[i]) /\ wire[i] \in Message
            BY <1>2, <2>1, <4>2
          <5>2. QED
            BY <1>7, <1>9, <4>2, <5>1
        <4>3. QED
          BY <1>2, <1>9, <3>3, <4>1, <4>2, LastAppended
      <3>4. LastIn(wire, i)' => LastIn(wire', i)
        BY DEF LastIn
      <3>5. QED
        BY <3>2, <3>3, <3>4
    <2>4. ASSUME NEW i \in 1..Len(queue)
          PROVE  /\ MessageTrue(queue[i])'
                 /\ (LastIn(queue, i) /\ ~About(wire, queue[i].id))' => Word(queue[i])'
      <3>1. MessageTrue(queue[i])'
        BY <1>2, <1>3, <1>6, <2>2
      <3>2. ASSUME LastIn(queue, i)', ~About(wire, queue[i].id)' PROVE Word(queue[i])'
        <4>1. LastIn(queue, i) /\ ~About(wire', queue[i].id)
          BY <1>3, <3>2 DEF LastIn, About
        <4>2. ~About(wire, queue[i].id) /\ queue[i].id # t
          BY <1>9, <2>1, <4>1
        <4>3. Word(queue[i])
          BY <1>2, <4>1, <4>2
        <4>4. QED
          BY <1>3, <1>7, <2>2, <4>2, <4>3
      <3>3. QED
        BY <3>1, <3>2
    <2>5. FeedInv'
      BY <1>2, <1>3, <2>1, <2>3, <2>4 DEF FeedInv
    <2>6. \A u : OnItsWay(u)' <=> (About(wire', u) \/ About(queue, u))
      <3> TAKE u
      <3>1. wire' \in Seq(Message) /\ queue' \in Seq(Message) /\ queue' = queue
        BY <1>2, <1>3, <2>1
      <3>2. OnItsWay(u)' <=> (About(wire', u) \/ About(queue', u))
        BY <3>1 DEF OnItsWay, About, Range
      <3>3. QED
        BY <3>1, <3>2
    <2>7. \A u : OnItsWay(u) => OnItsWay(u)'
      BY <1>2, <2>1, <2>6, OnTheWay
    <2>8. Excused(t)'
      BY <1>9, <2>1, <2>6 DEF Excused
    <2>9. QED
      BY <1>1, <1>2, <1>3, <1>4, <1>5, <2>5, <2>7, <2>8, FeedsAdvance
  <1>10. QED
    BY <1>3, <1>8, <1>9

\* When neither server nor messages move, what was true stays true.
LEMMA SameAdvances ==
  ASSUME Same
  PROVE  /\ Advances /\ Known' = Known /\ Live' = Live
         /\ \A t : Excused(t) <=> Excused(t)'
         /\ \A t, c : Current(t, c) <=> Current(t, c)'
         /\ \A t, d : Once(t, d) <=> Once(t, d)'
         /\ FeedInv /\ timer' = timer => FeedInv'
  <1> USE DEF Same, serverVars
  <1>1. Known' = Known /\ Live' = Live /\ \A t, c : Fits(t, c) <=> Fits(t, c)'
    BY DEF Known, Live, Fits
  <1>2. \A t : Excused(t) <=> Excused(t)'
    BY DEF OnItsWay, Range, Excused
  <1>3. \A t, c : Current(t, c) <=> Current(t, c)'
    BY <1>2 DEF Current
  <1>4. Advances
    BY <1>1, <1>2, <1>3 DEF Advances
  <1>5. ASSUME FeedInv, timer' = timer PROVE FeedInv'
    <2>1. \A m : (Word(m) <=> Word(m)') /\ (MessageTrue(m) <=> MessageTrue(m)')
      BY <1>1 DEF Word, MessageTrue, Once
    <2>2. QED
      BY <1>5, <2>1 DEF FeedInv, LastIn, About
  <1>6. \A t, d : Once(t, d) <=> Once(t, d)'
    BY <1>1 DEF Once
  <1>7. QED
    BY <1>1, <1>2, <1>3, <1>4, <1>5, <1>6

\* A row that nobody touches stays as true as it was.
LEMMA RowsStay ==
  ASSUME RowsInv, Advances, UNCHANGED <<rows, late>>
  PROVE  RowsInv'
  <1>1. \A t \in DOMAIN rows : rows[t].count \in Nat /\ t \in Known
    BY DEF RowsInv, Data
  <1>2. \A t \in DOMAIN rows' : Once(t, rows[t])'
    BY <1>1 DEF RowsInv, Advances, Once
  <1>3. ASSUME NEW t \in DOMAIN rows' \ late' PROVE Current(t, rows[t].count)'
    <2>1. PICK c \in Nat : c = rows[t].count /\ c = rows'[t].count
      BY <1>1, <1>3
    <2>2. Current(t, c)
      BY <1>3, <2>1 DEF RowsInv
    <2>3. Current(t, c)'
      BY <1>1, <1>3, <2>2 DEF Advances
    <2>4. QED
      BY <2>1, <2>3 DEF Current
  <1>4. QED
    BY <1>2, <1>3 DEF RowsInv, Advances

\* So does the answer of a lookup, and what is cached of it.
LEMMA LookupStays ==
  ASSUME LookupInv, Advances, UNCHANGED focusVars
  PROVE  LookupInv'
  <1>1. UNCHANGED focus /\ UNCHANGED found /\ UNCHANGED lookup /\ UNCHANGED detail
    BY DEF focusVars
  <1>2. ASSUME NEW t, NEW d, Once(t, d), d.count \in Nat
        PROVE  Once(t, d)' /\ (Current(t, d.count) => \A c : c = d.count => Current(t, c)')
    BY <1>2 DEF Advances, Once
  <1>3. \A t \in DOMAIN found : found[t].count \in Nat
    BY DEF LookupInv
  <1>4. \A t \in DOMAIN found' : Once(t, found[t])' /\ (~found'[t].overtaken => Current(t, found[t].count)')
    <2> SUFFICES ASSUME NEW t \in DOMAIN found'
                 PROVE  Once(t, found[t])' /\ (~found'[t].overtaken => Current(t, found[t].count)')
      OBVIOUS
    <2>1. t \in DOMAIN found /\ found'[t] = found[t]
      BY <1>1
    <2>2. Once(t, found[t]) /\ (~found[t].overtaken => Current(t, found[t].count))
      BY <2>1 DEF LookupInv
    <2>3. PICK d : d = found[t] /\ d = found'[t]
      BY <2>1
    <2>4. Once(t, d)' /\ (Current(t, d.count) => \A c : c = d.count => Current(t, c)')
      BY <1>2, <1>3, <2>1, <2>2, <2>3
    <2>5. QED
      BY <2>1, <2>2, <2>3, <2>4 DEF Once, Current
  <1>5. ASSUME lookup.phase = "answered", lookup.count # 0
        PROVE  Once(focus, lookup)' /\ (~lookup'.overtaken => Current(focus, lookup.count)')
    <2>1. Once(focus, lookup) /\ lookup.count \in Nat /\ (~lookup.overtaken => Current(focus, lookup.count))
      BY <1>5 DEF LookupInv
    <2>2. PICK t, d : t = focus /\ d = lookup /\ t = focus' /\ d = lookup'
      BY <1>1
    <2>3. Once(t, d)' /\ (Current(t, d.count) => \A c : c = d.count => Current(t, c)')
      BY <1>2, <2>1, <2>2
    <2>4. QED
      BY <2>1, <2>2, <2>3 DEF Once, Current, Fits
  <1>6. DOMAIN found' \subseteq Known'
    BY <1>1 DEF LookupInv, Advances
  <1>7. QED
    BY <1>1, <1>4, <1>5, <1>6 DEF LookupInv

\* A page, asked or answered, stays as true and as complete as it was.
LEMMA PageStays ==
  ASSUME PageInv, Advances, UNCHANGED <<scope, page, after, hasMore, floor>>,
         \A t \in Live : Covered(t) => Covered(t)'
  PROVE  PageInv'
  <1>1. /\ UNCHANGED scope /\ UNCHANGED page /\ UNCHANGED after /\ UNCHANGED hasMore /\ UNCHANGED floor
        /\ Got' = Got /\ Reach' = Reach
    BY DEF Got, Reach
  <1>2. ListTyped' /\ Asked' /\ AnswerTyped'
    <2>1. \A c : Joins(c)' <=> Joins(c)
      BY <1>1 DEF Joins, Below
    <2>2. Known \subseteq Known'
      BY DEF Advances
    <2>3. ListTyped'
      BY <1>1, <2>1 DEF PageInv, ListTyped, Joins, Below
    <2>4. Asked'
      BY <1>1, <2>1, <2>2 DEF PageInv, Asked, Joins, Below
    <2>5. AnswerTyped'
      BY <1>1, <2>2 DEF PageInv, AnswerTyped
    <2>6. QED
      BY <2>3, <2>4, <2>5
  <1>3. ASSUME Got PROVE AnswerTrue'
    <2>1. \A t \in DOMAIN page.items : t \in Known /\ page.items[t].count \in Nat
      BY <1>3 DEF PageInv, AnswerTyped, Data
    <2>2. \A t \in DOMAIN page.items : Once(t, page.items[t])'
      BY <1>1, <1>3, <2>1 DEF PageInv, AnswerTrue, Once, Advances
    <2>3. ASSUME NEW t \in DOMAIN page.items \ page.overtaken PROVE Current(t, page.items[t].count)'
      <3>1. PICK c \in Nat : c = page.items[t].count /\ c = page'.items[t].count
        BY <1>1, <2>1, <2>3
      <3>2. Current(t, c) /\ t \in Known
        BY <1>3, <2>1, <2>3, <3>1 DEF PageInv, AnswerTrue
      <3>3. Current(t, c)'
        BY <3>2 DEF Advances
      <3>4. QED
        BY <3>1, <3>3 DEF Current
    <2>4. QED
      BY <1>1, <2>2, <2>3 DEF AnswerTrue
  <1>4. ASSUME Got PROVE AnswerComplete'
    <2> SUFFICES ASSUME NEW t \in Live', t \notin DOMAIN page.items, t >= Reach
                 PROVE  Covered(t)' /\ (page.initial => t \notin page.before \ swept')
      BY <1>1, <1>4 DEF AnswerComplete
    <2>1. CASE t \in Live
      BY <1>4, <2>1 DEF PageInv, AnswerComplete, Advances
    <2>2. CASE Excused(t)' /\ t \notin Known
      BY <1>4, <2>2 DEF PageInv, AnswerTyped, Covered
    <2>3. CASE t \in swept'
      BY <2>3 DEF Covered, Excused
    <2>4. QED
      BY <2>1, <2>2, <2>3 DEF Advances
  <1>5. QED
    BY <1>1, <1>2, <1>3, <1>4 DEF PageInv, AnswerTrue, AnswerComplete

\* Nothing that was covered is left behind above the floor.
LEMMA HoleStays ==
  ASSUME NoHole, Advances, UNCHANGED floor, \A t \in Live : Covered(t) => Covered(t)'
  PROVE  NoHole'
  <1> SUFFICES ASSUME NEW t \in Live', t >= floor PROVE Covered(t)'
    BY DEF NoHole, Covered, Excused
  <1>1. CASE t \in Live
    BY <1>1 DEF NoHole, Covered, Excused
  <1>2. CASE t \in swept' \/ Excused(t)'
    BY <1>2 DEF Covered, Excused
  <1>3. QED
    BY <1>1, <1>2 DEF Advances

----
(* A dispatch overtakes answers: they are marked.                          *)

\* The answer about a trace the batch is about is marked, a removed trace left.
LEMMA LookupDispatched ==
  ASSUME FeedInv, RowsInv, LookupInv, NEW q, Takes(q), Dispatch(q), UNCHANGED serverVars
  PROVE  LookupInv'
  <1> DEFINE ids == {q[i].id : i \in DOMAIN q}
             removed == {q[i].id : i \in {j \in DOMAIN q : q[j].type = "trace-deletes"}}
  <1>1. /\ lookup' = IF focus \in removed THEN Idle
                     ELSE IF lookup.phase = "answered" /\ focus \in ids
                       THEN [lookup EXCEPT !.overtaken = TRUE]
                     ELSE lookup
        /\ focus' = IF focus \in removed THEN None ELSE focus
        /\ detail' = IF focus \in removed THEN Idle ELSE detail
        /\ found' = [t \in DOMAIN found |->
                        IF t \in ids THEN [found[t] EXCEPT !.overtaken = TRUE] ELSE found[t]]
    BY DEF Dispatch
  <1>2. \A t : About(q, t) <=> t \in ids
    BY DEF Takes, About
  <1>3. \A t, c : Current(t, c) /\ t \notin ids => Current(t, c)'
    BY <1>2, Dispatched
  <1>4. Known' = Known /\ (\A t, d : Once(t, d)' <=> Once(t, d)) /\ \A t, c : Fits(t, c)' <=> Fits(t, c)
    BY DEF Known, Once, Fits, serverVars
  <1> HIDE DEF ids, removed
  <1>5. ASSUME NEW t \in DOMAIN found
        PROVE  /\ found'[t] \in [count : Nat, overtaken : BOOLEAN]
               /\ Once(t, found'[t]) /\ (~found'[t].overtaken => Current(t, found[t].count)')
    <2>1. found[t] \in [count : Nat, overtaken : BOOLEAN]
      BY DEF LookupInv
    <2>2. Once(t, found[t]) /\ (~found[t].overtaken => Current(t, found[t].count))
      BY DEF LookupInv
    <2>3. CASE t \in ids
      <3>1. found'[t] = [found[t] EXCEPT !.overtaken = TRUE]
        BY <1>1, <2>3
      <3>2. found'[t].count = found[t].count /\ found'[t].overtaken
            /\ found'[t] \in [count : Nat, overtaken : BOOLEAN]
        BY <2>1, <3>1
      <3>3. QED
        BY <2>2, <3>2 DEF Once
    <2>4. CASE t \notin ids
      <3>1. found'[t] = found[t]
        BY <1>1, <2>4
      <3>2. PICK c : c = found[t].count /\ c = found'[t].count
        BY <3>1
      <3>3. ~found'[t].overtaken => Current(t, c)'
        BY <1>3, <2>2, <2>4, <3>1, <3>2
      <3>4. QED
        BY <2>1, <2>2, <3>1, <3>2, <3>3 DEF Current
    <2>5. QED
      BY <2>3, <2>4
  <1>6. /\ DOMAIN found' \subseteq Known' /\ found' \in [DOMAIN found' -> [count : Nat, overtaken : BOOLEAN]]
        /\ \A t \in DOMAIN found' : /\ Once(t, found[t])'
                                    /\ ~found'[t].overtaken => Current(t, found[t].count)'
    <2>1. DOMAIN found' = DOMAIN found
      BY <1>1
    <2>2. found' = [t \in DOMAIN found' |-> found'[t]]
      BY <1>1
    <2>3. found' \in [DOMAIN found' -> [count : Nat, overtaken : BOOLEAN]]
      BY <1>5, <2>1, <2>2
    <2>4. \A t \in DOMAIN found' : Once(t, found[t])'
      BY <1>4, <1>5, <2>1 DEF Once
    <2>5. QED
      BY <1>4, <1>5, <2>1, <2>3, <2>4 DEF LookupInv
  <1>7. CASE focus \in removed
    <2>1. lookup' = [phase |-> "idle"] /\ focus' = None /\ detail' = [phase |-> "idle"]
      BY <1>1, <1>7 DEF Idle
    <2>2. QED
      BY <1>6, <2>1 DEF LookupInv
  <1>8. CASE focus \notin removed /\ lookup.phase = "answered" /\ focus \in ids
    <2>1. lookup' = [lookup EXCEPT !.overtaken = TRUE] /\ focus' = focus /\ detail' = detail
      BY <1>1, <1>8
    <2>2. /\ lookup = [phase |-> "answered", count |-> lookup.count, overtaken |-> lookup.overtaken]
          /\ lookup.count \in Nat /\ (lookup.count # 0 => Once(focus, lookup))
      BY <1>8 DEF LookupInv
    <2>3. lookup' = [phase |-> "answered", count |-> lookup.count, overtaken |-> TRUE]
      <3>1. PICK c, o : /\ lookup = [phase |-> "answered", count |-> c, overtaken |-> o]
                        /\ c = lookup.count
        BY <2>2
      <3>2. lookup' = [phase |-> "answered", count |-> c, overtaken |-> TRUE]
        BY <2>1, <3>1
      <3>3. QED
        BY <3>1, <3>2
    <2>4. lookup'.phase = "answered" /\ lookup'.count = lookup.count /\ lookup'.overtaken = TRUE
      BY <2>3
    <2>5. lookup.count # 0 => Once(focus, lookup)'
      BY <1>4, <2>1, <2>2, <2>4 DEF Once
    <2>6. QED
      BY <1>6, <1>8, <2>1, <2>2, <2>3, <2>4, <2>5 DEF LookupInv
  <1>9. CASE focus \notin removed /\ ~(lookup.phase = "answered" /\ focus \in ids)
    <2>1. lookup' = lookup /\ focus' = focus /\ detail' = detail
      BY <1>1, <1>9
    <2>2. ASSUME lookup.phase = "answered", lookup.count # 0
          PROVE  Once(focus, lookup)' /\ (~lookup.overtaken => Current(focus, lookup.count)')
      <3>1. Once(focus, lookup) /\ (~lookup.overtaken => Current(focus, lookup.count)) /\ focus \notin ids
        BY <1>9, <2>2 DEF LookupInv
      <3>2. PICK t, c : t = focus /\ c = lookup.count /\ t = focus' /\ c = lookup'.count
        BY <2>1
      <3>3. ~lookup.overtaken => Current(t, c)'
        BY <1>3, <3>1, <3>2
      <3>4. Once(focus, lookup)'
        BY <1>4, <2>1, <3>1 DEF Once
      <3>5. QED
        BY <3>2, <3>3, <3>4 DEF Current
    <2>3. QED
      BY <1>6, <2>1, <2>2 DEF LookupInv
  <1>10. QED
    BY <1>7, <1>8, <1>9

\* The page's items the batch is about are marked.
LEMMA PageDispatched ==
  ASSUME FeedInv, RowsInv, PageInv, NEW q, Takes(q), Dispatch(q),
         UNCHANGED <<serverVars, scope, after, hasMore, floor>>
  PROVE  PageInv'
  <1> DEFINE ids == {q[i].id : i \in DOMAIN q}
  <1>1. page' = IF page.phase \in {"probing", "answered"}
                  THEN [page EXCEPT !.overtaken = @ \cup ids] ELSE page
    BY DEF Dispatch
  <1>2. \A t : About(q, t) <=> t \in ids
    BY DEF Takes, About
  <1>3. /\ \A t, c : Current(t, c) /\ t \notin ids => Current(t, c)'
        /\ \A t \in Live : Covered(t) => Covered(t)'
    BY <1>2, Dispatched
  <1>4. /\ Known' = Known /\ Live' = Live /\ swept' = swept
        /\ (\A t, d : Once(t, d)' <=> Once(t, d)) /\ (\A t, c : Fits(t, c)' <=> Fits(t, c))
        /\ \A c : Joins(c)' <=> Joins(c)
    BY DEF Known, Live, Once, Fits, Joins, Below, serverVars
  <1> HIDE DEF ids
  <1>5. CASE ~Got
    <2>1. page' = page /\ ~Got'
      BY <1>1, <1>5 DEF Got
    <2>2. QED
      BY <1>4, <1>5, <2>1 DEF PageInv, ListTyped, Asked, AnswerTyped, AnswerTrue, AnswerComplete,
                              Joins, Below
  <1>6. CASE Got
    <2>1. /\ DOMAIN page = {"phase", "initial", "before", "items", "more", "older", "overtaken", "end"}
          /\ page' = [page EXCEPT !.overtaken = @ \cup ids]
      BY <1>1, <1>6 DEF Got, PageInv, AnswerTyped
    <2>2. /\ DOMAIN page' = DOMAIN page /\ page'.overtaken = page.overtaken \cup ids
          /\ page'.phase = page.phase /\ page'.initial = page.initial /\ page'.before = page.before
          /\ page'.items = page.items /\ page'.more = page.more /\ page'.older = page.older
          /\ page'.end = page.end
      BY <2>1
    <2>3. ListTyped' /\ Asked'
      BY <1>4, <1>6, <2>2 DEF PageInv, ListTyped, Asked, Got, Joins, Below
    <2>4. AnswerTyped'
      BY <1>4, <1>6, <2>2 DEF PageInv, AnswerTyped, Got
    <2>5. AnswerTrue'
      <3>1. ASSUME NEW t \in DOMAIN page.items, t \notin page'.overtaken PROVE Current(t, page.items[t].count)'
        <4>1. PICK c : c = page.items[t].count /\ c = page'.items[t].count
          BY <2>2
        <4>2. Current(t, c) /\ t \notin ids
          BY <1>6, <2>2, <3>1, <4>1 DEF PageInv, AnswerTrue
        <4>3. Current(t, c)'
          BY <1>3, <4>2
        <4>4. QED
          BY <4>1, <4>3 DEF Current
      <3>2. \A t \in DOMAIN page.items : Once(t, page.items[t])'
        BY <1>4, <1>6, <2>2 DEF PageInv, AnswerTrue, Once
      <3>3. QED
        BY <2>2, <3>1, <3>2 DEF AnswerTrue
    <2>6. AnswerComplete'
      <3>1. Reach' = Reach
        BY <2>2 DEF Reach
      <3>2. QED
        BY <1>3, <1>4, <1>6, <2>2, <3>1 DEF PageInv, AnswerComplete
    <2>7. QED
      BY <2>3, <2>4, <2>5, <2>6 DEF PageInv
  <1>7. QED
    BY <1>5, <1>6

----
(* The newest rows of a page, and of the buffer.                           *)

\* Traces are finitely many: there is a newest one.
LEMMA NewestOne ==
  ASSUME NEW S \in SUBSET Ids, S # {}
  PROVE  \E m \in S : \A u \in S : u <= m
  <1> DEFINE newer(t) == {u \in S : u > t}
             counts == {Cardinality(newer(t)) : t \in S}
  <1>1. IsFiniteSet(S) /\ S \subseteq Nat
    BY TraceListAssumption, FS_Subset
  <1>2. \A t : IsFiniteSet(newer(t)) /\ Cardinality(newer(t)) \in Nat
    BY <1>1, FS_Subset, FS_CardinalityType
  <1>3. counts \in SUBSET Nat /\ counts # {}
    BY <1>2
  <1>4. PICK c \in counts : \A d \in counts : c <= d
    BY <1>3, LeastNumber
  <1>5. PICK m \in S : c = Cardinality(newer(m))
    OBVIOUS
  <1>6. ASSUME NEW u \in S, u > m PROVE FALSE
    <2>1. newer(u) \subseteq newer(m) /\ u \in newer(m) /\ u \notin newer(u)
      <3>1. u \in Nat /\ m \in Nat /\ \A v \in S : v \in Nat
        BY <1>1, <1>6
      <3>2. ~(u > u) /\ \A v \in S : v > u => v > m
        BY <1>6, <3>1
      <3>3. QED
        BY <1>6, <3>2
    <2>2. Cardinality(newer(u)) < Cardinality(newer(m))
      <3> HIDE DEF newer
      <3>1. /\ Cardinality(newer(u)) <= Cardinality(newer(m))
            /\ Cardinality(newer(u)) # Cardinality(newer(m))
        BY <1>2, <2>1, FS_Subset
      <3>2. QED
        BY <1>2, <3>1
    <2>3. Cardinality(newer(m)) <= Cardinality(newer(u))
      BY <1>4, <1>5, <1>6
    <2>4. QED
      BY <1>2, <2>2, <2>3
  <1>7. QED
    BY <1>1, <1>6

\* The newest n of S are of S, hold its newest, and with a trace every newer.
LEMMA NewestOf ==
  ASSUME NEW S \in SUBSET Ids, NEW n \in Nat \ {0}
  PROVE  /\ Newest(S, n) \subseteq S /\ (S # {} => Newest(S, n) # {})
         /\ \A t \in Newest(S, n), u \in S : t <= u => u \in Newest(S, n)
  <1> DEFINE newer(t) == {u \in S : u > t}
  <1>1. IsFiniteSet(S) /\ S \subseteq Nat
    BY TraceListAssumption, FS_Subset
  <1>2. \A t : IsFiniteSet(newer(t)) /\ Cardinality(newer(t)) \in Nat
    BY <1>1, FS_Subset, FS_CardinalityType
  <1>3. ASSUME S # {} PROVE Newest(S, n) # {}
    <2>1. PICK m \in S : \A u \in S : u <= m
      BY <1>3, NewestOne
    <2>2. newer(m) = {}
      <3>1. \A u \in S : u \in Nat /\ m \in Nat
        BY <1>1
      <3>2. \A u \in S : ~(u > m)
        BY <2>1, <3>1
      <3>3. QED
        BY <3>2
    <2>3. Cardinality(newer(m)) < n
      BY <2>2, FS_EmptySet
    <2>4. QED
      BY <2>3 DEF Newest
  <1>4. ASSUME NEW t \in Newest(S, n), NEW u \in S, t <= u PROVE u \in Newest(S, n)
    <2>1. t \in S /\ Cardinality(newer(t)) < n
      BY DEF Newest
    <2>2. newer(u) \subseteq newer(t)
      <3>1. u \in Nat /\ t \in Nat /\ \A v \in S : v \in Nat
        BY <1>1, <2>1
      <3>2. \A v \in S : v > u => v > t
        BY <1>4, <3>1
      <3>3. QED
        BY <3>2
    <2>3. Cardinality(newer(u)) <= Cardinality(newer(t))
      <3> HIDE DEF newer
      <3>1. QED
        BY <1>2, <2>2, FS_Subset
    <2>4. Cardinality(newer(u)) < n
      BY <1>2, <2>1, <2>3
    <2>5. QED
      BY <2>4 DEF Newest
  <1>5. Newest(S, n) \subseteq S
    BY DEF Newest
  <1>6. QED
    BY <1>3, <1>4, <1>5

\* The items of a page: all there is, or with everything newer than its end.
LEMMA PageItems ==
  ASSUME NEW S \in SUBSET Ids, NEW items, items = Newest(S, PageSize), NEW end,
         end = IF items = {} THEN None ELSE CHOOSE t \in items : \A u \in items : t <= u
  PROVE  /\ items \subseteq S /\ end \in Ids \cup {None}
         /\ end # None => end \in items
         /\ items # S => end # None
         /\ end # None => \A t \in S : t >= end => t \in items
  <1>1. /\ items \subseteq S /\ (S # {} => items # {})
        /\ \A t \in items, u \in S : t <= u => u \in items
    BY TraceListAssumption, NewestOf
  <1>2. CASE items = {}
    BY <1>1, <1>2
  <1>3. CASE items # {}
    <2>1. items \in SUBSET Nat
      BY <1>1, TraceListAssumption
    <2>2. \E t \in items : \A u \in items : t <= u
      BY <1>3, <2>1, LeastNumber
    <2>3. end \in items
      BY <1>3, <2>2
    <2>4. end # None /\ end \in Nat
      BY <1>1, <2>3, TraceListAssumption DEF None
    <2>5. \A t \in S : t \in Nat
      BY TraceListAssumption
    <2>6. \A t \in S : t >= end => t \in items
      BY <1>1, <2>3, <2>4, <2>5
    <2>7. QED
      BY <1>1, <2>3, <2>4, <2>6
  <1>4. QED
    BY <1>2, <1>3

----
(* Answers written into the buffer.                                        *)

\* Rows that are true are written, those outside S cut: what is written is
\* true, and covered.
LEMMA Written ==
  ASSUME Same, NEW new, NEW S, rows' = Keep(new, S),
         evicted' = (evicted \cup DOMAIN new) \ DOMAIN rows',
         DOMAIN new \subseteq Known,
         \A t \in DOMAIN new : new[t] \in Data /\ Once(t, new[t]),
         \A t \in DOMAIN new \ late' : Current(t, new[t].count)
  PROVE  /\ RowsInv'
         /\ \A t \in DOMAIN new : Covered(t)'
         /\ \A t : Covered(t) /\ (t \in DOMAIN rows => t \in DOMAIN new) => Covered(t)'
  <1>1. /\ DOMAIN rows' = DOMAIN new \cap S /\ rows' = [t \in DOMAIN rows' |-> rows'[t]]
        /\ \A t \in DOMAIN rows' : rows'[t] = new[t] /\ t \in DOMAIN new
    BY DEF Keep
  <1>2. /\ Known' = Known /\ (\A t, c : Current(t, c) <=> Current(t, c)')
        /\ (\A t, d : Once(t, d) <=> Once(t, d)') /\ \A t : Excused(t) <=> Excused(t)'
    BY SameAdvances
  <1>3. RowsInv'
    <2>1. DOMAIN rows' \subseteq Known' /\ rows' \in [DOMAIN rows' -> Data]
      BY <1>1, <1>2
    <2>2. \A t \in DOMAIN rows' : Once(t, rows[t])'
      <3> SUFFICES ASSUME NEW t \in DOMAIN rows' PROVE Once(t, rows[t])'
        OBVIOUS
      <3>1. PICK d : d = new[t] /\ d = rows'[t]
        BY <1>1
      <3>2. Once(t, d)'
        BY <1>1, <1>2, <3>1
      <3>3. QED
        BY <3>1, <3>2 DEF Once
    <2>3. ASSUME NEW t \in DOMAIN rows' \ late' PROVE Current(t, rows[t].count)'
      <3>1. PICK c : c = new[t].count /\ c = rows'[t].count
        BY <1>1
      <3>2. Current(t, c)'
        BY <1>1, <1>2, <3>1
      <3>3. QED
        BY <3>1, <3>2 DEF Current
    <2>4. QED
      BY <2>1, <2>2, <2>3 DEF RowsInv
  <1>4. \A t \in DOMAIN new : Covered(t)'
    BY DEF Covered
  <1>5. \A t : Covered(t) /\ (t \in DOMAIN rows => t \in DOMAIN new) => Covered(t)'
    BY <1>2 DEF Covered
  <1>6. QED
    BY <1>3, <1>4, <1>5

\* A page's answer leaves: what stands for it is where the session goes on.
LEMMA PageTaken ==
  ASSUME PageInv, page.phase = "answered", page' = Idle, UNCHANGED scope,
         after' = page.end, floor' = Reach,
         hasMore' = (page.more \/ (page.initial /\ page.older))
  PROVE  PageInv'
  <1>1. /\ page.initial \in BOOLEAN /\ page.more \in BOOLEAN /\ page.older \in BOOLEAN
        /\ page.end \in Ids \cup {None} /\ (page.more => page.end # None)
        /\ (page.older => scope # None)
        /\ (page.initial /\ page.end # None => scope <= page.end)
    BY DEF PageInv, AnswerTyped, Got
  <1>2. scope \in Nat /\ Ids \subseteq Nat \ {0} /\ page.end \in Nat
    <2>1. scope \in Nat
      BY DEF PageInv, ListTyped
    <2>2. Ids \subseteq Nat \ {0}
      BY TraceListAssumption
    <2>3. page.end \in Nat
      <3>1. \A e \in Ids \cup {None} : e \in Nat
        BY <2>2 DEF None
      <3>2. QED
        BY <1>1, <3>1, Zenon
    <2>4. QED
      BY <2>1, <2>2, <2>3
  <1>3. Reach \in Nat
    BY <1>1, <1>2 DEF Reach, None
  <1>4. hasMore' => Joins(after)'
    <2>1. CASE page.more
      BY <1>1, <1>2, <2>1 DEF Joins, Below, Reach
    <2>2. CASE ~page.more /\ page.initial /\ page.older
      BY <1>1, <1>2, <2>2 DEF Joins, Below, Reach
    <2>3. QED
      BY <1>1, <2>1, <2>2
  <1>5. page'.phase = "idle"
    BY DEF Idle
  <1>6. ListTyped'
    BY <1>1, <1>2, <1>3, <1>4, <1>5 DEF ListTyped
  <1>7. Asked' /\ AnswerTyped' /\ AnswerTrue' /\ AnswerComplete'
    BY <1>5 DEF Asked, AnswerTyped, AnswerTrue, AnswerComplete, Got
  <1>8. QED
    BY <1>6, <1>7 DEF PageInv

\* replaceTracePage: the rows that came since the request, and the page's.
LEMMA Replaced ==
  ASSUME RowsInv, PageInv, replaceTracePage
  PROVE  RowsInv' /\ PageInv' /\ NoHole'
  <1> DEFINE kept == liveItems(page.before)
             written == DOMAIN page.items \ kept
             new == [t \in kept \cup written |-> IF t \in kept THEN rows[t] ELSE pageRow(t)]
  <1>1. /\ page.phase = "answered" /\ page.initial /\ Publish(new, written)
        /\ Same /\ timer' = timer /\ page' = Idle /\ UNCHANGED scope
        /\ after' = page.end /\ hasMore' = (page.more \/ page.older)
        /\ floor' = IF page.more THEN page.end ELSE scope
    BY DEF replaceTracePage, Same, serverVars
  <1>2. Got /\ floor' = Reach
    BY <1>1 DEF Got, Reach
  <1>3. /\ DOMAIN new = kept \cup written /\ kept \subseteq DOMAIN rows
        /\ \A t \in kept : new[t] = rows[t]
        /\ \A t \in written : new[t] = pageRow(t) /\ t \in DOMAIN page.items /\ t \notin kept
    BY DEF liveItems
  <1>4. /\ rows' = Keep(new, Newest(DOMAIN new, Cap))
        /\ evicted' = (evicted \cup DOMAIN new) \ DOMAIN rows'
        /\ late' = (late \ (written \ page.overtaken)) \cup (written \cap page.overtaken)
    BY <1>1 DEF Publish
  <1>5. \A t \in DOMAIN page.items \cup DOMAIN rows : t \notin page.before => t \in kept \cup written
    BY DEF liveItems
  <1>6. DOMAIN page.items \subseteq kept \cup written
    OBVIOUS
  <1>7. \A t \in written : /\ t \in Known /\ pageRow(t) \in Data
                           /\ pageRow(t).count = page.items[t].count /\ Once(t, pageRow(t))
    <2> SUFFICES ASSUME NEW t \in written
                 PROVE  /\ t \in Known /\ pageRow(t) \in Data
                        /\ pageRow(t).count = page.items[t].count /\ Once(t, pageRow(t))
      OBVIOUS
    <2>1. page.items[t] \in Data /\ t \in Known /\ Once(t, page.items[t])
      BY <1>2, <1>3 DEF PageInv, AnswerTyped, AnswerTrue
    <2>2. pageRow(t) \in Data /\ pageRow(t).count = page.items[t].count
      <3>1. CASE t \in DOMAIN rows
        <4>1. rows[t].spans \in Nat
          BY <3>1 DEF RowsInv, Data
        <4>2. QED
          BY <2>1, <3>1, <4>1 DEF pageRow, Data
      <3>2. CASE t \notin DOMAIN rows
        BY <2>1, <3>2 DEF pageRow
      <3>3. QED
        BY <3>1, <3>2
    <2>3. QED
      BY <2>1, <2>2 DEF Once
  <1> HIDE DEF kept, written, new
  <1>8. DOMAIN new \subseteq Known
    BY <1>3, <1>7 DEF RowsInv
  <1>9. \A t \in DOMAIN new : new[t] \in Data /\ Once(t, new[t])
    BY <1>3, <1>7 DEF RowsInv
  <1>10. ASSUME NEW t \in DOMAIN new \ late' PROVE Current(t, new[t].count)
    <2>1. CASE t \in kept
      BY <1>3, <1>4, <1>10, <2>1 DEF RowsInv
    <2>2. CASE t \in written
      BY <1>2, <1>3, <1>4, <1>7, <1>10, <2>2 DEF PageInv, AnswerTrue
    <2>3. QED
      BY <1>3, <1>10, <2>1, <2>2
  <1>11. /\ RowsInv'
         /\ \A t \in DOMAIN new : Covered(t)'
         /\ \A t : Covered(t) /\ (t \in DOMAIN rows => t \in DOMAIN new) => Covered(t)'
    BY <1>1, <1>4, <1>8, <1>9, <1>10, Written
  <1>12. PageInv'
    <2>1. page.more \in BOOLEAN /\ page.older \in BOOLEAN
      BY <1>2 DEF PageInv, AnswerTyped
    <2>2. hasMore' = (page.more \/ (page.initial /\ page.older))
      BY <1>1, <2>1
    <2>3. QED
      BY <1>1, <1>2, <2>2, PageTaken
  <1>13. NoHole'
    <2> SUFFICES ASSUME NEW t \in Live', t >= floor' PROVE Covered(t)'
      BY DEF NoHole, Covered, Excused
    <2>1. t \in Live
      BY <1>1, SameAdvances
    <2>2. CASE t \in DOMAIN page.items
      BY <1>3, <1>6, <1>11, <2>2
    <2>3. CASE t \notin DOMAIN page.items
      <3>1. Covered(t) /\ (t \notin page.before \/ t \in swept)
        BY <1>1, <1>2, <2>1, <2>3 DEF PageInv, AnswerComplete
      <3>2. CASE t \in swept
        BY <1>1, <3>2 DEF Covered, Excused, Same, serverVars
      <3>3. CASE t \notin page.before
        BY <1>3, <1>5, <1>11, <3>1, <3>3
      <3>4. QED
        BY <3>1, <3>2, <3>3
    <2>4. QED
      BY <2>2, <2>3
  <1>14. QED
    BY <1>11, <1>12, <1>13

\* appendTraces: the rows there are, and the page's new ones.
LEMMA AppendedPage ==
  ASSUME RowsInv, PageInv, appendTraces
  PROVE  RowsInv' /\ PageInv' /\ NoHole'
  <1> DEFINE written == DOMAIN page.items \ DOMAIN rows
             new == [t \in DOMAIN rows \cup written |-> IF t \in written THEN page.items[t] ELSE rows[t]]
  <1>1. /\ page.phase = "answered" /\ ~page.initial /\ Publish(new, written)
        /\ Same /\ timer' = timer /\ page' = Idle /\ UNCHANGED scope
        /\ after' = page.end /\ hasMore' = page.more
        /\ floor' = IF page.more THEN page.end ELSE None
    BY DEF appendTraces, Same, serverVars
  <1>2. Got /\ floor' = Reach
    BY <1>1 DEF Got, Reach
  <1>3. /\ DOMAIN new = DOMAIN rows \cup written /\ DOMAIN page.items \subseteq DOMAIN new
        /\ \A t \in written : new[t] = page.items[t] /\ t \in DOMAIN page.items
        /\ \A t \in DOMAIN rows : new[t] = rows[t] /\ t \notin written
    OBVIOUS
  <1>4. /\ rows' = Keep(new, Newest(DOMAIN new, Cap))
        /\ evicted' = (evicted \cup DOMAIN new) \ DOMAIN rows'
        /\ late' = (late \ (written \ page.overtaken)) \cup (written \cap page.overtaken)
    BY <1>1 DEF Publish
  <1> HIDE DEF written, new
  <1>5. \A t \in written : t \in Known /\ page.items[t] \in Data /\ Once(t, page.items[t])
    BY <1>2, <1>3 DEF PageInv, AnswerTyped, AnswerTrue
  <1>6. DOMAIN new \subseteq Known /\ \A t \in DOMAIN new : new[t] \in Data /\ Once(t, new[t])
    BY <1>3, <1>5 DEF RowsInv
  <1>7. ASSUME NEW t \in DOMAIN new \ late' PROVE Current(t, new[t].count)
    <2>1. CASE t \in DOMAIN rows
      BY <1>3, <1>4, <1>7, <2>1 DEF RowsInv
    <2>2. CASE t \in written
      BY <1>2, <1>3, <1>4, <1>7, <2>2 DEF PageInv, AnswerTrue
    <2>3. QED
      BY <1>3, <1>7, <2>1, <2>2
  <1>8. /\ RowsInv'
        /\ \A t \in DOMAIN new : Covered(t)'
        /\ \A t : Covered(t) /\ (t \in DOMAIN rows => t \in DOMAIN new) => Covered(t)'
    BY <1>1, <1>4, <1>6, <1>7, Written
  <1>9. PageInv'
    <2>1. page.more \in BOOLEAN
      BY <1>2 DEF PageInv, AnswerTyped
    <2>2. hasMore' = (page.more \/ (page.initial /\ page.older))
      BY <1>1, <2>1
    <2>3. QED
      BY <1>1, <1>2, <2>2, PageTaken
  <1>10. NoHole'
    <2> SUFFICES ASSUME NEW t \in Live', t >= floor' PROVE Covered(t)'
      BY DEF NoHole, Covered, Excused
    <2>1. t \in Live
      BY <1>1, SameAdvances
    <2>2. CASE t \in DOMAIN page.items
      BY <1>3, <1>8, <2>2
    <2>3. CASE t \notin DOMAIN page.items
      <3>1. Covered(t)
        BY <1>1, <1>2, <2>1, <2>3 DEF PageInv, AnswerComplete
      <3>2. QED
        BY <1>3, <1>8, <3>1
    <2>4. QED
      BY <2>2, <2>3
  <1>11. QED
    BY <1>8, <1>9, <1>10

\* fetchPage: the newest traces below where the session has loaded, or the
\* newest of the window; NoHole vouches for what is above.
LEMMA Fetched ==
  ASSUME FeedInv, PageInv, NoHole, fetchPage
  PROVE  PageInv'
  <1> DEFINE S == InBounds(IF beyondWindow THEN None ELSE scope,
                           IF beyondWindow /\ page.cursor = None THEN scope ELSE None,
                           page.cursor)
             items == Newest(S, PageSize)
             more == items # S
             end == IF items = {} THEN None ELSE CHOOSE t \in items : \A u \in items : t <= u
             phase == IF page.initial /\ ~more /\ scope # None THEN "probing" ELSE "answered"
  <1>1. /\ page.phase = "asked" /\ Same /\ timer' = timer /\ UNCHANGED <<rows, evicted>>
        /\ UNCHANGED scope /\ UNCHANGED after /\ UNCHANGED hasMore /\ UNCHANGED floor
        /\ page' = [phase |-> phase, initial |-> page.initial, before |-> page.before,
                    items |-> [t \in items |-> toTraceData(t)],
                    more |-> more, older |-> FALSE, overtaken |-> {}, end |-> end]
    BY DEF fetchPage, Same, serverVars, listVars
  <1>2. /\ page.initial \in BOOLEAN /\ page.before \subseteq Known
        /\ page.initial => page.cursor = None
        /\ ~page.initial => page.cursor \in Ids \cup {None} /\ Joins(page.cursor)
    BY <1>1 DEF PageInv, Asked
  <1>3. scope \in Nat /\ floor \in Nat
    BY DEF PageInv, ListTyped
  <1>4. Live \subseteq Ids /\ Live \subseteq Known /\ Ids \subseteq Nat \ {0} /\ db \in [Ids -> Nat]
    BY TraceListAssumption DEF Live, Known, FeedInv
  <1>5. S \subseteq Live /\ S \in SUBSET Ids
    BY <1>4 DEF InBounds
  <1>6. /\ items \subseteq S /\ end \in Ids \cup {None}
        /\ end # None => end \in items
        /\ more => end # None
        /\ ~more => items = S
        /\ end # None => \A t \in S : t >= end => t \in items
    <2> HIDE DEF S
    <2>1. QED
      BY <1>5, PageItems
  <1>7. more \in BOOLEAN /\ phase \in {"probing", "answered"} /\ (phase = "probing" => page.initial /\ scope # None)
    OBVIOUS
  <1>8. page.initial => S = {t \in Live : t >= scope}
    BY <1>2 DEF InBounds, beyondWindow, None
  <1>9. ~page.initial => S = {t \in Live : t < Below(page.cursor)}
    <2> SUFFICES ASSUME ~page.initial PROVE S = {t \in Live : t < Below(page.cursor)}
      OBVIOUS
    <2>1. Below(page.cursor) # None /\ page.cursor \in Ids \cup {None}
      BY <1>2 DEF Joins
    <2>2. \A t \in Live : t \in Nat /\ t >= 0
      BY <1>4
    <2>3. CASE page.cursor = None
      BY <2>1, <2>2, <2>3 DEF InBounds, beyondWindow, Below, None
    <2>4. CASE page.cursor # None /\ scope = None
      BY <2>2, <2>4 DEF InBounds, beyondWindow, Below, None
    <2>5. CASE page.cursor # None /\ scope # None
      BY <2>2, <2>5 DEF InBounds, beyondWindow, Below, None
    <2>6. QED
      BY <2>3, <2>4, <2>5
  <1> HIDE DEF S, items, more, end, phase
  <1>10. page.initial /\ end # None => scope <= end
    BY <1>6, <1>8
  <1>11. ASSUME NEW t \in Live \ items,
                t >= (IF more THEN end ELSE IF page.initial THEN scope ELSE None)
         PROVE  Covered(t) /\ ~page.initial
    <2>1. t \in Nat /\ (end # None => end \in Nat)
      BY <1>4, <1>6
    <2>2. more => t >= end /\ end # None /\ t \notin S
      BY <1>6, <1>11
    <2>3. ~more => t \notin S
      BY <1>6, <1>11
    <2>4. t \notin S
      BY <1>7, <2>2, <2>3
    <2>5. ASSUME page.initial PROVE FALSE
      <3>1. t >= scope
        <4>1. CASE more
          BY <1>3, <1>10, <2>1, <2>2, <2>5, <4>1
        <4>2. CASE ~more
          BY <1>11, <2>5, <4>2
        <4>3. QED
          BY <4>1, <4>2
      <3>2. QED
        BY <1>8, <1>11, <2>4, <2>5, <3>1
    <2>6. ~page.initial
      BY <2>5
    <2>7. floor <= Below(page.cursor) /\ Below(page.cursor) \in Nat
      BY <1>2, <1>3, <1>4, <2>6 DEF Joins, Below, None
    <2>8. ~(t < Below(page.cursor))
      BY <1>9, <1>11, <2>4, <2>6
    <2>9. t >= floor
      BY <1>3, <2>1, <2>7, <2>8
    <2>10. QED
      BY <1>11, <2>6, <2>9 DEF NoHole, Covered, Excused
  <1>12. \A t \in items : /\ t \in Known /\ toTraceData(t) \in Data /\ Once(t, toTraceData(t))
                          /\ Current(t, toTraceData(t).count)
    <2>1. \A t \in items : t \in Known /\ t \notin gone /\ db[t] \in Nat /\ db[t] <= db[t]
      BY <1>4, <1>5, <1>6 DEF Live
    <2>2. \A t : toTraceData(t).count = db[t] /\ toTraceData(t).spans = 0
      BY DEF toTraceData
    <2>3. \A t \in items : toTraceData(t) \in Data
      BY <2>1 DEF toTraceData, Data
    <2>4. QED
      BY <2>1, <2>2, <2>3 DEF Once, Current, Fits
  <1>13. /\ page'.phase = phase /\ page'.initial = page.initial /\ page'.before = page.before
         /\ DOMAIN page'.items = items /\ (\A t \in items : page'.items[t] = toTraceData(t))
         /\ page'.items = [t \in DOMAIN page'.items |-> page'.items[t]]
         /\ page'.more = more /\ page'.older = FALSE /\ page'.overtaken = {} /\ page'.end = end
         /\ DOMAIN page' = {"phase", "initial", "before", "items", "more", "older", "overtaken", "end"}
    BY <1>1
  <1>14. /\ Known' = Known /\ Live' = Live /\ (\A t : Covered(t)' <=> Covered(t))
         /\ (\A t, c : Current(t, c) <=> Current(t, c)') /\ \A t, d : Once(t, d) <=> Once(t, d)'
    BY <1>1, SameAdvances DEF Covered
  <1>15. ListTyped' /\ Asked'
    BY <1>1, <1>7, <1>13 DEF PageInv, ListTyped, Joins, Below, Asked
  <1>16. AnswerTyped'
    BY <1>1, <1>2, <1>6, <1>7, <1>10, <1>12, <1>13, <1>14 DEF AnswerTyped
  <1>17. AnswerTrue'
    <2>1. ASSUME NEW t \in items PROVE Current(t, page.items[t].count)'
      <3>1. PICK c : c = toTraceData(t).count /\ c = page'.items[t].count
        BY <1>13
      <3>2. Current(t, c)'
        BY <1>12, <1>14, <3>1
      <3>3. QED
        BY <3>1, <3>2 DEF Current
    <2>2. ASSUME NEW t \in items PROVE Once(t, page.items[t])'
      <3>1. PICK d : d = toTraceData(t) /\ d = page'.items[t]
        BY <1>13
      <3>2. Once(t, d)'
        BY <1>12, <1>14, <3>1
      <3>3. QED
        BY <3>1, <3>2 DEF Once
    <2>3. QED
      BY <1>13, <2>1, <2>2 DEF AnswerTrue
  <1>18. AnswerComplete'
    <2>1. Reach' = IF more THEN end ELSE IF page.initial THEN scope ELSE None
      BY <1>1, <1>13 DEF Reach
    <2>2. QED
      BY <1>11, <1>13, <1>14, <2>1 DEF AnswerComplete
  <1>19. QED
    BY <1>15, <1>16, <1>17, <1>18 DEF PageInv

\* The steps of the session that write no row.
LEMMA SessionMoves ==
  ASSUME FeedInv, RowsInv, PageInv,
         hasItemsBefore \/ loadMore \/ pageFails \/ \E s \in Scopes : newSession(s)
  PROVE  PageInv' /\ Same /\ timer' = timer /\ UNCHANGED <<listVars, focusVars, floor>>
  <1>1. /\ Same /\ timer' = timer /\ UNCHANGED listVars /\ UNCHANGED focusVars /\ UNCHANGED floor
    BY DEF hasItemsBefore, loadMore, pageFails, newSession, Same, serverVars
  <1>2. /\ Known' = Known /\ Live' = Live /\ (\A t : Covered(t)' <=> Covered(t))
        /\ (\A t, c : Current(t, c) <=> Current(t, c)') /\ (\A t, d : Once(t, d) <=> Once(t, d)')
        /\ swept' = swept
    BY <1>1, SameAdvances DEF Covered, listVars, Same, serverVars
  <1>3. CASE hasItemsBefore
    <2>1. /\ page.phase = "probing" /\ UNCHANGED scope /\ UNCHANGED after /\ UNCHANGED hasMore
          /\ \E o \in BOOLEAN : page' = [page EXCEPT !.phase = "answered", !.older = o]
      BY <1>3 DEF hasItemsBefore
    <2>2. PICK o \in BOOLEAN : page' = [page EXCEPT !.phase = "answered", !.older = o]
      BY <2>1
    <2>3. /\ Got /\ page.initial /\ scope # None
          /\ DOMAIN page = {"phase", "initial", "before", "items", "more", "older", "overtaken", "end"}
      BY <2>1 DEF Got, PageInv, AnswerTyped
    <2>4. /\ DOMAIN page' = DOMAIN page /\ page'.phase = "answered" /\ page'.older = o
          /\ page'.overtaken = page.overtaken /\ page'.initial = page.initial
          /\ page'.before = page.before /\ page'.items = page.items /\ page'.more = page.more
          /\ page'.end = page.end
      BY <2>2, <2>3
    <2>5. ListTyped' /\ Asked'
      BY <1>1, <2>1, <2>4 DEF PageInv, ListTyped, Asked, Joins, Below
    <2>6. AnswerTyped'
      BY <1>2, <2>1, <2>3, <2>4 DEF PageInv, AnswerTyped
    <2>7. AnswerTrue'
      <3>1. ASSUME NEW t \in DOMAIN page.items \ page.overtaken PROVE Current(t, page.items[t].count)'
        <4>1. PICK c : c = page.items[t].count /\ c = page'.items[t].count
          BY <2>4
        <4>2. Current(t, c)
          BY <2>3, <3>1, <4>1 DEF PageInv, AnswerTrue
        <4>3. Current(t, c)'
          BY <1>2, <4>2
        <4>4. QED
          BY <4>1, <4>3 DEF Current
      <3>2. ASSUME NEW t \in DOMAIN page.items PROVE Once(t, page.items[t])'
        <4>1. PICK d : d = page.items[t] /\ d = page'.items[t]
          BY <2>4
        <4>2. Once(t, d)'
          BY <1>2, <2>3, <3>2, <4>1 DEF PageInv, AnswerTrue
        <4>3. QED
          BY <4>1, <4>2 DEF Once
      <3>3. QED
        BY <2>4, <3>1, <3>2 DEF AnswerTrue
    <2>8. AnswerComplete'
      <3>1. Reach' = Reach
        BY <2>1, <2>4 DEF Reach
      <3>2. QED
        BY <1>2, <2>3, <2>4, <3>1 DEF PageInv, AnswerComplete
    <2>9. QED
      BY <1>1, <2>5, <2>6, <2>7, <2>8 DEF PageInv
  <1>4. CASE loadMore
    <2>1. /\ hasMore /\ page' = Ask(FALSE, after)
          /\ UNCHANGED scope /\ UNCHANGED after /\ UNCHANGED hasMore
      BY <1>4 DEF loadMore
    <2>2. page'.phase = "asked" /\ page'.initial = FALSE /\ page'.cursor = after /\ page'.before = DOMAIN rows
      BY <2>1 DEF Ask
    <2>3. ListTyped'
      BY <1>1, <2>1, <2>2 DEF PageInv, ListTyped, Joins, Below
    <2>4. Asked'
      BY <1>1, <1>2, <2>1, <2>2 DEF PageInv, ListTyped, RowsInv, Asked, Joins, Below
    <2>5. AnswerTyped' /\ AnswerTrue' /\ AnswerComplete'
      BY <2>2 DEF AnswerTyped, AnswerTrue, AnswerComplete, Got
    <2>6. QED
      BY <1>1, <2>3, <2>4, <2>5 DEF PageInv
  <1>5. CASE pageFails
    <2>1. page'.phase = "idle" /\ UNCHANGED scope /\ UNCHANGED after /\ UNCHANGED hasMore
      BY <1>5 DEF pageFails, Idle
    <2>2. ListTyped'
      BY <1>1, <2>1 DEF PageInv, ListTyped, Joins, Below
    <2>3. Asked' /\ AnswerTyped' /\ AnswerTrue' /\ AnswerComplete'
      BY <2>1 DEF Asked, AnswerTyped, AnswerTrue, AnswerComplete, Got
    <2>4. QED
      BY <1>1, <2>2, <2>3 DEF PageInv
  <1>6. CASE \E s \in Scopes : newSession(s)
    <2>1. /\ scope' \in Scopes /\ page' = Ask(TRUE, None) /\ after' = None /\ hasMore' = FALSE
      BY <1>6 DEF newSession
    <2>2. page'.phase = "asked" /\ page'.initial = TRUE /\ page'.cursor = None /\ page'.before = DOMAIN rows
      BY <2>1 DEF Ask
    <2>3. scope' \in Nat /\ floor' \in Nat
      BY <1>1, <2>1, TraceListAssumption DEF PageInv, ListTyped
    <2>4. ListTyped'
      BY <2>1, <2>2, <2>3 DEF ListTyped
    <2>5. Asked'
      BY <1>2, <2>2 DEF RowsInv, Asked
    <2>6. AnswerTyped' /\ AnswerTrue' /\ AnswerComplete'
      BY <2>2 DEF AnswerTyped, AnswerTrue, AnswerComplete, Got
    <2>7. QED
      BY <1>1, <2>4, <2>5, <2>6 DEF PageInv
  <1>7. QED
    BY <1>3, <1>4, <1>5, <1>6

----
(* The selected trace.                                                     *)

\* cacheTrace: the answer is written as true as it was, and nothing is lost
\* without being counted as cut.
LEMMA Cached ==
  ASSUME RowsInv, Same, NEW d, cacheTrace(d), focus \in Known, Once(focus, d), d.count \in Nat,
         ~d.overtaken => Current(focus, d.count)
  PROVE  RowsInv' /\ \A t : Covered(t) => Covered(t)'
  <1> DEFINE new == [t \in DOMAIN rows \cup {focus} |->
                        IF t = focus THEN toFullTraceData(d) ELSE rows[t]]
  <1>1. /\ rows' = Keep(new, keptBeside(focus))
        /\ evicted' = (evicted \cup DOMAIN new) \ DOMAIN rows'
        /\ late' = IF d.overtaken THEN late \cup {focus} ELSE late \ {focus}
    BY DEF cacheTrace
  <1>2. /\ DOMAIN new = DOMAIN rows \cup {focus} /\ new[focus] = [count |-> d.count, spans |-> d.count]
        /\ \A t \in DOMAIN rows : t # focus => new[t] = rows[t]
    BY DEF toFullTraceData
  <1> HIDE DEF new
  <1>3. new[focus] \in Data /\ new[focus].count = d.count
    BY <1>2 DEF Data
  <1>4. DOMAIN new \subseteq Known
    BY <1>2 DEF RowsInv
  <1>5. \A t \in DOMAIN new : new[t] \in Data /\ Once(t, new[t])
    BY <1>2, <1>3 DEF RowsInv, Once
  <1>6. ASSUME NEW t \in DOMAIN new \ late' PROVE Current(t, new[t].count)
    <2>1. CASE t = focus
      BY <1>1, <1>3, <1>6, <2>1
    <2>2. CASE t # focus
      <3>1. t \in DOMAIN rows \ late /\ new[t] = rows[t]
        BY <1>1, <1>2, <1>6, <2>2
      <3>2. QED
        BY <3>1 DEF RowsInv
    <2>3. QED
      BY <2>1, <2>2
  <1>7. QED
    BY <1>1, <1>2, <1>4, <1>5, <1>6, Written

\* The steps of the lookup that write no row.
LEMMA LookupMoves ==
  ASSUME FeedInv, LookupInv,
         \/ \E t \in Opened \cup {None} : selectTrace(t)
         \/ askTrace \/ loadTrace \/ retryLookup \/ rowIsBack \/ loadSpans
  PROVE  LookupInv' /\ Same /\ timer' = timer /\ UNCHANGED listVars /\ UNCHANGED queryVars
  <1>1. Same /\ timer' = timer /\ UNCHANGED listVars /\ UNCHANGED queryVars /\ UNCHANGED found
    BY DEF selectTrace, askTrace, loadTrace, retryLookup, rowIsBack, loadSpans, Same, serverVars
  <1>2. /\ Known' = Known /\ (\A t, d : Once(t, d) <=> Once(t, d)')
        /\ \A t, c : Current(t, c) <=> Current(t, c)'
    BY <1>1, SameAdvances
  <1>3. /\ DOMAIN found' \subseteq Known'
        /\ found' \in [DOMAIN found' -> [count : Nat, overtaken : BOOLEAN]]
        /\ \A t \in DOMAIN found' : /\ Once(t, found[t])'
                                    /\ ~found'[t].overtaken => Current(t, found[t].count)'
    <2>1. ASSUME NEW t \in DOMAIN found
          PROVE  Once(t, found[t])' /\ (~found[t].overtaken => Current(t, found[t].count)')
      <3>1. PICK d : d = found[t] /\ d = found'[t]
        BY <1>1
      <3>2. Once(t, d) /\ (~d.overtaken => Current(t, d.count))
        BY <2>1, <3>1 DEF LookupInv
      <3>3. Once(t, d)' /\ (~d.overtaken => Current(t, d.count)')
        BY <1>2, <3>2
      <3>4. QED
        BY <3>1, <3>3 DEF Once, Current
    <2>2. QED
      BY <1>1, <1>2, <2>1 DEF LookupInv
  <1>4. CASE \E t \in Opened \cup {None} : selectTrace(t)
    <2>1. focus' \in Opened \cup {None} /\ lookup' = Idle /\ detail' = Idle
      BY <1>4 DEF selectTrace
    <2>2. focus' \in Ids \cup {None} /\ lookup'.phase = "idle" /\ detail'.phase = "idle"
      BY <2>1, TraceListAssumption DEF Idle
    <2>3. QED
      BY <1>1, <1>3, <2>2 DEF LookupInv
  <1>5. CASE askTrace \/ retryLookup
    <2>1. lookup'.phase = "asked" /\ focus' = focus /\ focus # None /\ detail' = detail
      BY <1>5 DEF askTrace, retryLookup, selectedTraceMissing
    <2>2. QED
      BY <1>1, <1>3, <2>1 DEF LookupInv
  <1>6. CASE rowIsBack
    <2>1. lookup'.phase = "idle" /\ focus' = focus /\ detail' = detail
      BY <1>6 DEF rowIsBack, Idle
    <2>2. QED
      BY <1>1, <1>3, <2>1 DEF LookupInv
  <1>7. CASE loadTrace
    <2>1. focus' = focus /\ detail' = detail /\ focus # None
      BY <1>7 DEF loadTrace, LookupInv
    <2>2. CASE lookup' = [phase |-> "error"]
      BY <1>1, <1>3, <2>1, <2>2 DEF LookupInv
    <2>3. CASE lookup' = [phase |-> "answered", overtaken |-> FALSE,
                          count |-> IF focus \in Live THEN db[focus] ELSE 0]
      <3>1. db \in [Ids -> Nat] /\ focus \in Ids
        BY <2>1 DEF FeedInv, LookupInv
      <3>2. PICK c : c = IF focus \in Live THEN db[focus] ELSE 0
        OBVIOUS
      <3>3. c \in Nat /\ (c # 0 => focus \in Known /\ focus \notin gone /\ c = db[focus] /\ c <= db[focus])
        BY <3>1, <3>2 DEF Live, Known
      <3>4. /\ lookup' = [phase |-> "answered", count |-> c, overtaken |-> FALSE]
            /\ lookup'.phase = "answered" /\ lookup'.count = c /\ lookup'.overtaken = FALSE
        BY <2>3, <3>2
      <3>5. c # 0 => Once(focus, lookup)' /\ Current(focus, lookup.count)'
        <4> SUFFICES ASSUME c # 0 PROVE Once(focus, lookup)' /\ Current(focus, lookup.count)'
          OBVIOUS
        <4>1. PICK t, d : /\ t = focus /\ t = focus' /\ d = [phase |-> "answered", count |-> c, overtaken |-> FALSE]
                          /\ d = lookup' /\ d.count = c
          BY <2>1, <3>4
        <4>2. Once(t, d) /\ Current(t, c)
          BY <3>3, <4>1 DEF Once, Current, Fits
        <4>3. Once(t, d)' /\ Current(t, c)'
          BY <1>2, <4>2
        <4>4. QED
          BY <4>1, <4>3 DEF Once, Current
      <3>6. QED
        BY <1>1, <1>3, <2>1, <3>3, <3>4, <3>5 DEF LookupInv
    <2>4. QED
      BY <1>7, <2>2, <2>3 DEF loadTrace
  <1>8. CASE loadSpans
    <2>1. /\ focus' = focus /\ lookup' = lookup /\ detail'.phase = "answered"
          /\ detail'.spans = IF focus \in Live THEN db[focus] ELSE 0
      BY <1>8 DEF loadSpans
    <2>2. detail'.spans \in Nat
      BY <2>1 DEF FeedInv, Live
    <2>3. ASSUME lookup.phase = "answered", lookup.count # 0
          PROVE  Once(focus, lookup)' /\ (~lookup.overtaken => Current(focus, lookup.count)')
      <3>1. PICK t, d : t = focus /\ d = lookup /\ t = focus' /\ d = lookup'
        BY <2>1
      <3>2. Once(t, d) /\ (~d.overtaken => Current(t, d.count))
        BY <2>3, <3>1 DEF LookupInv
      <3>3. QED
        BY <1>2, <3>1, <3>2 DEF Once, Current
    <2>4. QED
      BY <1>1, <1>3, <2>1, <2>2, <2>3 DEF LookupInv
  <1>9. QED
    BY <1>1, <1>4, <1>5, <1>6, <1>7, <1>8

\* What is cached stays as true, and so does the answer under way, when the
\* server and the messages stay as they are.
LEMMA FoundStays ==
  ASSUME LookupInv, Same, UNCHANGED found
  PROVE  /\ DOMAIN found' \subseteq Known'
         /\ found' \in [DOMAIN found' -> [count : Nat, overtaken : BOOLEAN]]
         /\ \A t \in DOMAIN found' : /\ Once(t, found[t])'
                                     /\ ~found'[t].overtaken => Current(t, found[t].count)'
         /\ lookup' = lookup /\ focus' = focus /\ lookup.phase = "answered" /\ lookup.count # 0 =>
               Once(focus, lookup)' /\ (~lookup.overtaken => Current(focus, lookup.count)')
  <1>1. /\ Known' = Known /\ (\A t, d : Once(t, d) <=> Once(t, d)')
        /\ \A t, c : Current(t, c) <=> Current(t, c)'
    BY SameAdvances
  <1>2. ASSUME NEW t \in DOMAIN found
        PROVE  Once(t, found[t])' /\ (~found[t].overtaken => Current(t, found[t].count)')
    <2>1. PICK d : d = found[t] /\ d = found'[t]
      OBVIOUS
    <2>2. Once(t, d) /\ (~d.overtaken => Current(t, d.count))
      BY <1>2, <2>1 DEF LookupInv
    <2>3. Once(t, d)' /\ (~d.overtaken => Current(t, d.count)')
      BY <1>1, <2>2
    <2>4. QED
      BY <2>1, <2>3 DEF Once, Current
  <1>3. ASSUME lookup' = lookup, focus' = focus, lookup.phase = "answered", lookup.count # 0
        PROVE  Once(focus, lookup)' /\ (~lookup.overtaken => Current(focus, lookup.count)')
    <2>1. PICK t, d : t = focus /\ d = lookup /\ t = focus' /\ d = lookup'
      BY <1>3
    <2>2. Once(t, d) /\ (~d.overtaken => Current(t, d.count))
      BY <1>3, <2>1 DEF LookupInv
    <2>3. QED
      BY <1>1, <2>1, <2>2 DEF Once, Current
  <1>4. QED
    BY <1>1, <1>2, <1>3 DEF LookupInv

\* The steps of the lookup that write the selected trace's row.
LEMMA LookupWrites ==
  ASSUME RowsInv, LookupInv, settle \/ useCached
  PROVE  /\ RowsInv' /\ LookupInv' /\ Same /\ timer' = timer /\ UNCHANGED queryVars
         /\ \A t : Covered(t) => Covered(t)'
  <1>1. Same /\ timer' = timer /\ UNCHANGED queryVars /\ focus' = focus /\ detail' = detail
    BY DEF settle, useCached, Same, serverVars, focusVars
  <1>2. /\ Known' = Known /\ (\A t, d : Once(t, d) <=> Once(t, d)') /\ Advances
        /\ (\A t, c : Current(t, c) <=> Current(t, c)')
        /\ \A t : Excused(t) <=> Excused(t)'
    BY <1>1, SameAdvances
  <1>3. ASSUME UNCHANGED <<rows, evicted, late>> PROVE RowsInv' /\ \A t : Covered(t) => Covered(t)'
    BY <1>2, <1>3, RowsStay DEF Covered
  <1>4. CASE useCached
    <2>1. focus \in DOMAIN found /\ cacheTrace(found[focus]) /\ UNCHANGED focusVars
      BY <1>4 DEF useCached
    <2>2. /\ focus \in Known /\ Once(focus, found[focus]) /\ found[focus].count \in Nat
          /\ ~found[focus].overtaken => Current(focus, found[focus].count)
      BY <2>1 DEF LookupInv
    <2>3. RowsInv' /\ \A t : Covered(t) => Covered(t)'
      BY <1>1, <2>1, <2>2, Cached
    <2>4. LookupInv'
      BY <1>2, <2>1, LookupStays
    <2>5. QED
      BY <1>1, <2>3, <2>4
  <1>5. CASE settle /\ lookup.count = 0
    <2>1. lookup' = [phase |-> "not-found"] /\ found' = found /\ UNCHANGED <<rows, evicted, late>>
      BY <1>5 DEF settle
    <2>2. lookup'.phase = "not-found" /\ focus # None
      BY <1>5, <2>1 DEF settle, LookupInv
    <2>3. LookupInv'
      BY <1>1, <2>1, <2>2, FoundStays DEF LookupInv
    <2>4. QED
      BY <1>1, <1>3, <2>1, <2>3
  <1>6. CASE settle /\ lookup.count # 0
    <2> DEFINE d == [count |-> lookup.count, overtaken |-> lookup.overtaken]
    <2>1. /\ lookup.phase = "answered" /\ lookup' = Idle
          /\ found' = [t \in DOMAIN found \cup {focus} |-> IF t = focus THEN d ELSE found[t]]
          /\ cacheTrace(d) \/ UNCHANGED <<rows, evicted, late>>
      BY <1>6 DEF settle
    <2>2. /\ lookup.count \in Nat /\ lookup.overtaken \in BOOLEAN /\ Once(focus, lookup)
          /\ ~lookup.overtaken => Current(focus, lookup.count)
      BY <1>6, <2>1 DEF LookupInv
    <2>3. /\ d \in [count : Nat, overtaken : BOOLEAN] /\ d.count = lookup.count
          /\ d.overtaken = lookup.overtaken
      BY <2>2
    <2>4. focus \in Known /\ Once(focus, d) /\ d.count \in Nat /\ (~d.overtaken => Current(focus, d.count))
      BY <2>2, <2>3 DEF Once
    <2> HIDE DEF d
    <2>5. RowsInv' /\ \A t : Covered(t) => Covered(t)'
      <3>1. CASE cacheTrace(d)
        BY <1>1, <2>4, <3>1, Cached
      <3>2. QED
        BY <1>3, <2>1, <3>1
    <2>6. ASSUME NEW t \in DOMAIN found'
          PROVE  /\ t \in Known /\ found'[t] \in [count : Nat, overtaken : BOOLEAN]
                 /\ Once(t, found[t])' /\ (~found'[t].overtaken => Current(t, found[t].count)')
      <3>1. PICK e : e = found'[t]
        OBVIOUS
      <3>2. e \in [count : Nat, overtaken : BOOLEAN] /\ Once(t, e) /\ (~e.overtaken => Current(t, e.count))
        <4>1. CASE t = focus
          BY <2>1, <2>3, <2>4, <3>1, <4>1
        <4>2. CASE t # focus
          <5>1. t \in DOMAIN found /\ e = found[t]
            BY <2>1, <2>6, <3>1, <4>2
          <5>2. QED
            BY <5>1 DEF LookupInv
        <4>3. QED
          BY <4>1, <4>2
      <3>3. Once(t, e)' /\ (~e.overtaken => Current(t, e.count)')
        BY <1>2, <3>2
      <3>4. QED
        BY <3>1, <3>2, <3>3 DEF Once, Current
    <2>7. found' \in [DOMAIN found' -> [count : Nat, overtaken : BOOLEAN]] /\ DOMAIN found' \subseteq Known'
      <3>1. found' = [t \in DOMAIN found' |-> found'[t]]
        BY <2>1
      <3>2. QED
        BY <1>2, <2>6, <3>1
    <2>8. lookup'.phase = "idle"
      BY <2>1 DEF Idle
    <2>9. LookupInv'
      BY <1>1, <2>6, <2>7, <2>8 DEF LookupInv
    <2>10. QED
      BY <1>1, <2>5, <2>9
  <1>7. QED
    BY <1>4, <1>5, <1>6

\* replaceTraceSpans: only the spans of the selected row change.
LEMMA SpansWritten ==
  ASSUME RowsInv, LookupInv, replaceTraceSpans
  PROVE  /\ RowsInv' /\ LookupInv' /\ Same /\ timer' = timer /\ UNCHANGED queryVars
         /\ \A t : Covered(t) => Covered(t)'
  <1>1. /\ Same /\ timer' = timer /\ UNCHANGED queryVars /\ UNCHANGED <<focus, found, lookup, evicted, late>>
        /\ detail.phase = "answered" /\ detail' = Idle
        /\ rows' = [t \in DOMAIN rows |->
                      IF t = focus THEN [rows[t] EXCEPT !.spans = detail.spans] ELSE rows[t]]
    BY DEF replaceTraceSpans, Same, serverVars
  <1>2. /\ Known' = Known /\ (\A t, d : Once(t, d) <=> Once(t, d)')
        /\ (\A t, c : Current(t, c) <=> Current(t, c)') /\ \A t : Excused(t) <=> Excused(t)'
    BY <1>1, SameAdvances
  <1>3. detail.spans \in Nat
    BY <1>1 DEF LookupInv
  <1>4. ASSUME NEW t \in DOMAIN rows
        PROVE  rows'[t] \in Data /\ rows'[t].count = rows[t].count
    BY <1>1, <1>3 DEF RowsInv, Data
  <1>5. /\ DOMAIN rows' = DOMAIN rows /\ rows' = [t \in DOMAIN rows' |-> rows'[t]]
        /\ \A t : Covered(t) => Covered(t)'
    BY <1>1, <1>2 DEF Covered
  <1>6. DOMAIN rows' \subseteq Known' /\ rows' \in [DOMAIN rows' -> Data]
    BY <1>2, <1>4, <1>5 DEF RowsInv
  <1>7. \A t \in DOMAIN rows' : Once(t, rows[t])'
    BY <1>1, <1>2, <1>4, <1>5 DEF RowsInv, Once, Same
  <1>8. ASSUME NEW t \in DOMAIN rows' \ late' PROVE Current(t, rows[t].count)'
    <2>1. PICK c : c = rows[t].count /\ c = rows'[t].count
      BY <1>4, <1>5, <1>8
    <2>2. Current(t, c)
      BY <1>1, <1>5, <1>8, <2>1 DEF RowsInv
    <2>3. Current(t, c)'
      BY <1>2, <2>2
    <2>4. QED
      BY <2>1, <2>3 DEF Current
  <1>9. RowsInv'
    BY <1>6, <1>7, <1>8 DEF RowsInv
  <1>10. detail'.phase = "idle"
    BY <1>1 DEF Idle
  <1>11. LookupInv'
    BY <1>1, <1>10, FoundStays DEF LookupInv
  <1>12. QED
    BY <1>1, <1>5, <1>9, <1>11

----
(* Every step, and the theorems.                                           *)

\* At the start nothing is loaded: the floor is above every trace.
LEMMA ListInit ==
  ASSUME Init
  PROVE  ListInv
  <1>1. /\ db = [t \in Ids |-> IF t \in Stored THEN 1 ELSE 0] /\ gone = {} /\ wire = <<>>
        /\ rows = <<>> /\ queue = <<>> /\ timer \in BOOLEAN /\ scope = Default
        /\ page = [phase |-> "asked", initial |-> TRUE, cursor |-> None, before |-> {}]
        /\ after = None /\ hasMore = FALSE
        /\ focus = None /\ found = <<>> /\ lookup = [phase |-> "idle"] /\ detail = [phase |-> "idle"]
        /\ floor = Unloaded /\ evicted = {} /\ late = {} /\ unheard = {} /\ swept = {}
    BY DEF Init, Idle
  <1>2. FeedInv
    <2>1. db \in [Ids -> Nat] /\ \A i \in 1..0 : FALSE
      BY <1>1
    <2>2. QED
      BY <1>1, <2>1 DEF FeedInv
  <1>3. DOMAIN rows = {} /\ DOMAIN found = {}
    BY <1>1
  <1>4. rows = [t \in DOMAIN rows |-> rows[t]] /\ found = [t \in DOMAIN found |-> found[t]]
    BY <1>1
  <1>5. RowsInv
    BY <1>3, <1>4 DEF RowsInv
  <1>6. LookupInv
    BY <1>1, <1>3, <1>4 DEF LookupInv
  <1>7. PICK m \in Ids : \A u \in Ids : u <= m
    BY NewestOne, TraceListAssumption
  <1>8. PICK n \in Ids : Unloaded = 1 + n /\ \A u \in Ids : u <= n
    BY <1>7 DEF Unloaded
  <1>9. Unloaded \in Nat /\ \A t \in Ids : ~(t >= Unloaded)
    BY <1>8, TraceListAssumption
  <1>10. NoHole
    BY <1>1, <1>9 DEF NoHole, Live
  <1>11. page.phase = "asked" /\ page.initial = TRUE /\ page.cursor = None /\ page.before = {}
    BY <1>1
  <1>12. scope \in Nat
    BY <1>1, TraceListAssumption
  <1>13. PageInv
    BY <1>1, <1>9, <1>11, <1>12
       DEF PageInv, ListTyped, Asked, AnswerTyped, AnswerTrue, AnswerComplete, Got
  <1>14. QED
    BY <1>2, <1>5, <1>6, <1>10, <1>13 DEF ListInv

\* The server commits or deletes; a message is received, or a batch dispatched.
LEMMA FeedInvStep ==
  ASSUME ListInv, Server \/ Feed
  PROVE  ListInv'
  <1>1. FeedInv /\ RowsInv /\ LookupInv /\ PageInv /\ NoHole
    BY DEF ListInv
  <1>2. CASE Server
    <2>1. UNCHANGED <<rows, evicted, late>> /\ UNCHANGED focusVars /\ UNCHANGED floor
          /\ UNCHANGED <<scope, page, after, hasMore, floor>>
      BY <1>2 DEF Server, Commit, Exceeds, Sweep, listVars, queryVars, focusVars
    <2>2. FeedInv' /\ Advances
      BY <1>1, <1>2, ServerAdvances
    <2>3. \A t \in Live : Covered(t) => Covered(t)'
      BY <2>1, <2>2 DEF Advances, Covered
    <2>4. QED
      BY <1>1, <2>1, <2>2, <2>3, RowsStay, LookupStays, PageStays, HoleStays DEF ListInv
  <1>3. CASE Feed
    <2>1. /\ FeedInv' /\ UNCHANGED <<serverVars, scope, after, hasMore, floor>>
          /\ UNCHANGED serverVars /\ UNCHANGED floor
          /\ \/ UNCHANGED <<rows, evicted, late, page, focusVars>> /\ \A t : OnItsWay(t) => OnItsWay(t)'
             \/ \E q : Takes(q) /\ Dispatch(q)
      BY <1>1, <1>3, FeedMoves DEF Feed
    <2>2. CASE UNCHANGED <<rows, evicted, late, page, focusVars>> /\ \A t : OnItsWay(t) => OnItsWay(t)'
      <3>1. Known' = Known /\ Live' = Live
        BY <2>1 DEF Known, Live, serverVars
      <3>2. /\ \A t : Excused(t) => Excused(t)'
            /\ \A t, c : (Current(t, c) => Current(t, c)') /\ (Fits(t, c) => Fits(t, c)')
        BY <2>1, <2>2 DEF Excused, Current, Fits, serverVars
      <3>3. Advances
        BY <2>1, <3>1, <3>2 DEF Advances, serverVars
      <3>4. \A t \in Live : Covered(t) => Covered(t)'
        BY <2>2, <3>2 DEF Covered
      <3>5. UNCHANGED focusVars /\ UNCHANGED <<scope, page, after, hasMore, floor>>
        BY <2>1, <2>2
      <3>6. QED
        BY <1>1, <2>1, <2>2, <3>3, <3>4, <3>5, RowsStay, LookupStays, PageStays, HoleStays DEF ListInv
    <2>3. ASSUME NEW q, Takes(q), Dispatch(q) PROVE ListInv'
      <3>1. RowsInv' /\ \A t \in Live : Covered(t) => Covered(t)'
        BY <1>1, <2>1, <2>3, Dispatched
      <3>2. LookupInv' /\ PageInv'
        BY <1>1, <2>1, <2>3, LookupDispatched, PageDispatched
      <3>3. Live' = Live
        BY <2>1 DEF Live, serverVars
      <3>4. NoHole'
        BY <1>1, <2>1, <3>1, <3>3 DEF NoHole, Covered, Excused, serverVars
      <3>5. QED
        BY <2>1, <3>1, <3>2, <3>4 DEF ListInv
    <2>4. QED
      BY <2>1, <2>2, <2>3
  <1>4. QED
    BY <1>2, <1>3

\* A page is fetched, fails, is written, or the session goes on or anew.
LEMMA PagingInvStep ==
  ASSUME ListInv, Paging
  PROVE  ListInv'
  <1>1. FeedInv /\ RowsInv /\ LookupInv /\ PageInv /\ NoHole
    BY DEF ListInv
  <1>2. CASE fetchPage
    <2>1. Same /\ timer' = timer /\ UNCHANGED <<rows, evicted, late>> /\ UNCHANGED focusVars /\ UNCHANGED floor
      BY <1>2 DEF fetchPage, Same, serverVars, listVars
    <2>2. Advances /\ FeedInv' /\ \A t \in Live : Covered(t) => Covered(t)'
      BY <1>1, <2>1, SameAdvances DEF Covered
    <2>3. PageInv'
      BY <1>1, <1>2, Fetched
    <2>4. QED
      BY <1>1, <2>1, <2>2, <2>3, RowsStay, LookupStays, HoleStays DEF ListInv
  <1>3. CASE replaceTracePage \/ appendTraces
    <2>1. Same /\ timer' = timer /\ UNCHANGED focusVars
      BY <1>3 DEF replaceTracePage, appendTraces, Same, serverVars
    <2>2. Advances /\ FeedInv'
      BY <1>1, <2>1, SameAdvances
    <2>3. RowsInv' /\ PageInv' /\ NoHole'
      BY <1>1, <1>3, Replaced, AppendedPage
    <2>4. QED
      BY <1>1, <2>1, <2>2, <2>3, LookupStays DEF ListInv
  <1>4. CASE hasItemsBefore \/ loadMore \/ pageFails \/ \E s \in Scopes : newSession(s)
    <2>1. PageInv' /\ Same /\ timer' = timer /\ UNCHANGED <<listVars, focusVars, floor>>
      BY <1>1, <1>4, SessionMoves
    <2>2. UNCHANGED <<rows, evicted, late>> /\ UNCHANGED focusVars /\ UNCHANGED floor
      BY <2>1 DEF listVars
    <2>3. Advances /\ FeedInv' /\ \A t \in Live : Covered(t) => Covered(t)'
      BY <1>1, <2>1, <2>2, SameAdvances DEF Covered
    <2>4. QED
      BY <1>1, <2>1, <2>2, <2>3, RowsStay, LookupStays, HoleStays DEF ListInv
  <1>5. QED
    BY <1>2, <1>3, <1>4 DEF Paging

\* The selected trace is asked for, answered, written and shown.
LEMMA SelectionInvStep ==
  ASSUME ListInv, Selection
  PROVE  ListInv'
  <1>1. FeedInv /\ RowsInv /\ LookupInv /\ PageInv /\ NoHole
    BY DEF ListInv
  <1>2. CASE \/ \E t \in Opened \cup {None} : selectTrace(t)
             \/ askTrace \/ loadTrace \/ retryLookup \/ rowIsBack \/ loadSpans
    <2>1. LookupInv' /\ Same /\ timer' = timer /\ UNCHANGED listVars /\ UNCHANGED queryVars
      BY <1>1, <1>2, LookupMoves
    <2>2. UNCHANGED <<rows, evicted, late>> /\ UNCHANGED floor
          /\ UNCHANGED <<scope, page, after, hasMore, floor>>
      BY <2>1 DEF listVars, queryVars
    <2>3. Advances /\ FeedInv' /\ \A t \in Live : Covered(t) => Covered(t)'
      BY <1>1, <2>1, <2>2, SameAdvances DEF Covered
    <2>4. QED
      BY <1>1, <2>1, <2>2, <2>3, RowsStay, PageStays, HoleStays DEF ListInv
  <1>3. CASE settle \/ useCached \/ replaceTraceSpans
    <2>1. /\ RowsInv' /\ LookupInv' /\ Same /\ timer' = timer /\ UNCHANGED queryVars
          /\ \A t : Covered(t) => Covered(t)'
      BY <1>1, <1>3, LookupWrites, SpansWritten
    <2>2. UNCHANGED floor /\ UNCHANGED <<scope, page, after, hasMore, floor>>
      BY <2>1 DEF queryVars
    <2>3. Advances /\ FeedInv'
      BY <1>1, <2>1, SameAdvances
    <2>4. QED
      BY <1>1, <2>1, <2>2, <2>3, PageStays, HoleStays DEF ListInv
  <1>4. QED
    BY <1>2, <1>3 DEF Selection

\* A step of nothing.
LEMMA ListStutters ==
  ASSUME ListInv, UNCHANGED vars
  PROVE  ListInv'
  <1>1. /\ Same /\ timer' = timer /\ UNCHANGED <<rows, evicted, late>> /\ UNCHANGED focusVars
        /\ UNCHANGED floor /\ UNCHANGED <<scope, page, after, hasMore, floor>>
    BY DEF vars, Same, serverVars, listVars, queryVars
  <1>2. FeedInv /\ RowsInv /\ LookupInv /\ PageInv /\ NoHole
    BY DEF ListInv
  <1>3. Advances /\ FeedInv' /\ \A t \in Live : Covered(t) => Covered(t)'
    BY <1>1, <1>2, SameAdvances DEF Covered
  <1>4. QED
    BY <1>1, <1>2, <1>3, RowsStay, LookupStays, PageStays, HoleStays DEF ListInv

\* The invariant of the list: the feed's last word about a trace is true; what
\* rows, answers and cache say was true and, unless overtaken, still is or is
\* about to be corrected; an answer is complete down to where it reaches; and
\* Load more goes on where the session has loaded.
THEOREM ListIsSound == Spec => []ListInv
  <1>1. Init => ListInv
    BY ListInit
  <1>2. ListInv /\ [Next]_vars => ListInv'
    BY FeedInvStep, PagingInvStep, SelectionInvStep, ListStutters DEF Next
  <1>3. QED
    BY <1>1, <1>2, PTL DEF Spec

\* replacePage, append and the flush window leave no hole in the list: every
\* trace the server holds down to where the session has loaded has a row,
\* unless its delivery is on its way or was lost, the cap took it, or the
\* server dropped spans of it silently.
THEOREM NothingIsSkipped == Spec => []NoHole
  <1>1. ListInv => NoHole
    BY DEF ListInv
  <1>2. QED
    BY <1>1, ListIsSound, PTL

\* dispatchQueue, mergeTrace and removeTrace: a row shows what the server
\* holds and a deleted trace has none, unless a delivery about it is still to
\* come or the last one was lost, the trace lost spans silently, or an answer
\* overtaken by a delivery wrote it.
THEOREM RowsAreTrue == Spec => []RowsTrue
  <1>1. ListInv => RowsTrue
    BY DEF ListInv, RowsInv, RowsTrue, Current, Excused
  <1>2. QED
    BY <1>1, ListIsSound, PTL

----
(* The span snapshots in the rows.                                         *)

\* A delete is the last word about its trace, unless the tombstone was swept.
Deletes(m) == m.type = "trace-deletes" /\ m.id \notin swept

DeletesLast ==
    /\ \A i \in 1..Len(wire) : Deletes(wire[i]) => LastIn(wire, i)
    /\ \A i \in 1..Len(queue) :
          Deletes(queue[i]) => LastIn(queue, i) /\ ~About(wire, queue[i].id)

\* A message behind the others: what was last stays so if it is about others.
LEMMA StaysLast ==
  ASSUME NEW s \in Seq(Message), NEW m \in Message, NEW i \in 1..Len(s), LastIn(s, i),
         s[i].id # m.id
  PROVE  LastIn(Append(s, m), i)
  <1>1. /\ Len(s) \in Nat /\ Len(Append(s, m)) = Len(s) + 1 /\ Append(s, m)[Len(s) + 1] = m
        /\ \A j \in 1..Len(s) : Append(s, m)[j] = s[j]
    BY Appended
  <1>2. \A j \in 1..(Len(s) + 1) : j \in 1..Len(s) \/ j = Len(s) + 1
    BY <1>1
  <1>3. QED
    BY <1>1, <1>2 DEF LastIn

\* What is behind the first message is last there if it was last.
LEMMA LastInTail ==
  ASSUME NEW s \in Seq(Message), s # <<>>
  PROVE  /\ \A i \in 1..Len(Tail(s)) : LastIn(s, i + 1) => LastIn(Tail(s), i)
         /\ LastIn(s, 1) => ~About(Tail(s), Head(s).id)
  <1> DEFINE r == Tail(s)
             n == Len(s)
  <1>1. /\ n \in Nat /\ Len(r) = n - 1 /\ Head(s) = s[1]
        /\ \A j \in 1..Len(r) : j + 1 \in 1..n /\ r[j] = s[j + 1]
    BY Received
  <1> HIDE DEF r, n
  <1>2. \A i, j \in 1..Len(r) : (i < j => i + 1 < j + 1) /\ 1 < j + 1
    BY <1>1
  <1>3. \A i \in 1..Len(r) : LastIn(s, i + 1) => LastIn(r, i)
    BY <1>1, <1>2 DEF LastIn, n
  <1>4. LastIn(s, 1) => ~About(r, Head(s).id)
    BY <1>1, <1>2 DEF LastIn, About, n
  <1>5. QED
    BY <1>3, <1>4 DEF r

\* A trace is deleted once and never committed to again, while its tombstone
\* stays.
LEMMA DeletesStayLast ==
  ASSUME FeedInv, DeletesLast, [Next]_vars
  PROVE  DeletesLast'
  <1>1. /\ wire \in Seq(Message) /\ queue \in Seq(Message)
        /\ \A i \in 1..Len(wire) : MessageTrue(wire[i])
        /\ \A i \in 1..Len(queue) : MessageTrue(queue[i])
        /\ ~timer => queue = <<>>
    BY DEF FeedInv
  <1>2. ASSUME UNCHANGED <<wire, queue>>, swept \subseteq swept' PROVE DeletesLast'
    <2>1. \A m : Deletes(m)' => Deletes(m)
      BY <1>2 DEF Deletes
    <2>2. QED
      BY <1>2, <2>1 DEF DeletesLast, LastIn, About, Deletes
  <1>3. ASSUME NEW t \in Ids, t \notin gone, NEW m \in Message, m.id = t, wire' = Append(wire, m),
               queue' = queue, swept \subseteq swept'
        PROVE  DeletesLast'
    <2>1. \A x : Deletes(x)' => Deletes(x)
      BY <1>3 DEF Deletes
    <2>2. wire' = Append(wire, m) /\ m \in Message /\ m.id = t
      BY <1>3
    <2>3. \A i \in 1..Len(wire) : Deletes(wire[i]) => wire[i].id # t
      BY <1>1, <1>3 DEF MessageTrue, Deletes
    <2>4. \A i \in 1..Len(queue) : Deletes(queue[i]) => queue[i].id # t
      BY <1>1, <1>3 DEF MessageTrue, Deletes
    <2>5. /\ Len(wire) \in Nat /\ Len(Append(wire, m)) = Len(wire) + 1
          /\ Append(wire, m)[Len(wire) + 1] = m
          /\ \A j \in 1..Len(wire) : Append(wire, m)[j] = wire[j]
          /\ \A u : About(Append(wire, m), u) <=> (About(wire, u) \/ m.id = u)
      BY <1>1, Appended
    <2>6. ASSUME NEW i \in 1..Len(Append(wire, m)), Deletes(Append(wire, m)[i])
          PROVE  LastIn(Append(wire, m), i)
      <3>1. CASE i = Len(wire) + 1
        <4>1. \A j \in 1..(Len(wire) + 1) : ~(i < j)
          BY <2>5, <3>1
        <4>2. QED
          BY <2>5, <4>1 DEF LastIn
      <3>2. CASE i \in 1..Len(wire)
        BY <1>1, <2>2, <2>3, <2>5, <2>6, <3>2, StaysLast DEF DeletesLast
      <3>3. QED
        BY <2>5, <3>1, <3>2
    <2>7. \A i \in 1..Len(queue) : Deletes(queue[i]) =>
             LastIn(queue, i) /\ ~About(Append(wire, m), queue[i].id)
      BY <2>2, <2>4, <2>5 DEF DeletesLast
    <2>8. /\ \A i \in 1..Len(wire') : Deletes(wire[i])' => Deletes(Append(wire, m)[i])
          /\ \A i \in 1..Len(queue') : Deletes(queue[i])' => Deletes(queue[i])
      BY <1>3, <2>1 DEF Deletes
    <2>9. QED
      BY <1>3, <2>6, <2>7, <2>8 DEF DeletesLast, LastIn, About
  <1>4. CASE tick
    <2>1. queue' = <<>> /\ wire' = wire /\ swept' = swept
      BY <1>4 DEF tick, serverVars
    <2>2. \A i \in 1..Len(queue') : FALSE
      BY <2>1
    <2>3. QED
      BY <2>1, <2>2 DEF DeletesLast, LastIn, Deletes
  <1>5. CASE onMessage
    <2> DEFINE h == Head(wire)
               r == Tail(wire)
    <2>1. /\ wire # <<>> /\ wire' = r /\ queue' = IF timer THEN Append(queue, h) ELSE queue
          /\ swept' = swept
      BY <1>5 DEF onMessage, serverVars
    <2>2. /\ h \in Message /\ h = wire[1] /\ 1 \in 1..Len(wire)
          /\ \A i \in 1..Len(r) : i + 1 \in 1..Len(wire) /\ r[i] = wire[i + 1]
          /\ \A t : About(wire, t) <=> (About(r, t) \/ h.id = t)
      BY <1>1, <2>1, Received
    <2>3. /\ \A i \in 1..Len(r) : LastIn(wire, i + 1) => LastIn(r, i)
          /\ LastIn(wire, 1) => ~About(r, h.id)
      BY <1>1, <2>1, LastInTail
    <2> HIDE DEF h, r
    <2>4. \A i \in 1..Len(r) : Deletes(r[i]) => LastIn(r, i)
      BY <2>2, <2>3 DEF DeletesLast
    <2>5. \A i \in 1..Len(queue) : Deletes(queue[i]) =>
             LastIn(queue, i) /\ ~About(r, queue[i].id) /\ queue[i].id # h.id
      BY <2>2 DEF DeletesLast
    <2>6. CASE timer
      <3>1. /\ Len(queue) \in Nat /\ Len(Append(queue, h)) = Len(queue) + 1
            /\ Append(queue, h)[Len(queue) + 1] = h
            /\ \A j \in 1..Len(queue) : Append(queue, h)[j] = queue[j]
        BY <1>1, <2>2, Appended
      <3>2. ASSUME NEW i \in 1..Len(Append(queue, h)), Deletes(Append(queue, h)[i])
            PROVE  LastIn(Append(queue, h), i) /\ ~About(r, Append(queue, h)[i].id)
        <4>1. CASE i = Len(queue) + 1
          <5>1. \A j \in 1..(Len(queue) + 1) : ~(i < j)
            BY <3>1, <4>1
          <5>2. ~About(r, h.id)
            BY <2>2, <2>3, <3>1, <3>2, <4>1 DEF DeletesLast
          <5>3. QED
            BY <3>1, <4>1, <5>1, <5>2 DEF LastIn
        <4>2. CASE i \in 1..Len(queue)
          BY <1>1, <2>2, <2>5, <3>1, <3>2, <4>2, StaysLast
        <4>3. QED
          BY <3>1, <4>1, <4>2
      <3>3. queue' = Append(queue, h)
        BY <2>1, <2>6
      <3>4. QED
        BY <2>1, <2>4, <3>2, <3>3 DEF DeletesLast, LastIn, About, Deletes
    <2>7. CASE ~timer
      BY <2>1, <2>4, <2>5, <2>7 DEF DeletesLast, LastIn, About, Deletes
    <2>8. QED
      BY <2>6, <2>7
  <1>6. CASE Server
    <2>1. PICK t \in Ids : Commit(t) \/ Exceeds(t) \/ Sweep(t)
      BY <1>6 DEF Server
    <2>2. /\ swept \subseteq swept' /\ queue' = queue
          /\ \/ wire' = wire
             \/ \E m \in Message : wire' = Append(wire, m) /\ m.id = t /\ t \notin gone
      BY <2>1, ServerFeeds
    <2>3. QED
      BY <1>2, <1>3, <2>2
  <1>7. [Next]_vars => Server \/ tick \/ onMessage \/ (UNCHANGED <<wire, queue>> /\ swept' = swept)
    <2>1. UNCHANGED vars => UNCHANGED <<wire, queue>> /\ swept' = swept
      BY DEF vars, serverVars
    <2>2. ASSUME Paging PROVE UNCHANGED <<wire, queue>> /\ swept' = swept
      BY <2>2 DEF Paging, fetchPage, hasItemsBefore, replaceTracePage, appendTraces, loadMore,
                  pageFails, newSession, serverVars
    <2>3. ASSUME Selection PROVE UNCHANGED <<wire, queue>> /\ swept' = swept
      BY <2>3 DEF Selection, selectTrace, askTrace, loadTrace, settle, useCached, retryLookup,
                  rowIsBack, loadSpans, replaceTraceSpans, serverVars
    <2>4. QED
      BY <2>1, <2>2, <2>3 DEF Next, Feed
  <1>8. QED
    BY <1>2, <1>4, <1>5, <1>6, <1>7

\* A buffer below the cap loses no row.
LEMMA BelowTheCap ==
  ASSUME NEW T, IsFiniteSet(T), Cardinality(T) <= Cap, NEW S \in SUBSET T, S \subseteq Ids
  PROVE  Newest(S, Cap) = S
  <1>1. IsFiniteSet(S) /\ Cardinality(S) \in Nat /\ Cardinality(T) \in Nat /\ Cardinality(S) <= Cardinality(T)
    BY FS_Subset, FS_CardinalityType
  <1>2. Cap \in Nat /\ Ids \subseteq Nat
    BY TraceListAssumption
  <1>3. ASSUME NEW t \in S PROVE Cardinality({u \in S : u > t}) < Cap
    <2> DEFINE newer == {u \in S : u > t}
    <2>1. t \in Nat /\ ~(t > t)
      BY <1>2
    <2>2. newer \in SUBSET S /\ newer # S
      BY <2>1
    <2> HIDE DEF newer
    <2>3. Cardinality(newer) \in Nat /\ Cardinality(newer) <= Cardinality(S) /\ Cardinality(newer) # Cardinality(S)
      BY <1>1, <2>2, FS_Subset, FS_CardinalityType
    <2>4. Cardinality(newer) < Cap
      BY <1>1, <1>2, <2>3
    <2>5. QED
      BY <2>4 DEF newer
  <1>4. QED
    BY <1>3 DEF Newest

\* One message: a row it does not delete stays, with at least its spans.
LEMMA ItemKeeps ==
  ASSUME NEW acc, DOMAIN acc \subseteq Ids, \A t \in DOMAIN acc : acc[t] \in Data, NEW m \in Message
  PROVE  LET r == dispatchItem(acc, m)
         IN  /\ DOMAIN r \subseteq DOMAIN acc \cup {m.id}
             /\ \A t \in DOMAIN r : r[t] \in Data
             /\ \A t \in DOMAIN acc \cap DOMAIN r : acc[t].spans <= r[t].spans
             /\ \A t \in DOMAIN acc \ DOMAIN r : m.id = t /\ m.type = "trace-deletes"
  <1> DEFINE r == dispatchItem(acc, m)
  <1>1. m.id \in Ids /\ m.count \in Nat /\ m.type \in {"traces", "trace-deletes"}
    BY DEF Message
  <1>2. \A t \in DOMAIN acc : acc[t].count \in Nat /\ acc[t].spans \in Nat
    BY DEF Data
  <1>3. CASE m.type = "trace-deletes"
    <2>1. r = [t \in DOMAIN acc \cap (Ids \ {m.id}) |-> acc[t]]
      BY <1>3 DEF dispatchItem, removeTrace, Keep
    <2>2. DOMAIN r = DOMAIN acc \ {m.id} /\ \A t \in DOMAIN r : r[t] = acc[t]
      BY <2>1
    <2> HIDE DEF r
    <2>3. QED
      BY <1>2, <1>3, <2>2 DEF r
  <1>4. CASE m.type = "traces"
    <2>1. r = [t \in DOMAIN acc \cup {m.id} |->
                 IF t # m.id THEN acc[t]
                 ELSE IF t \in DOMAIN acc THEN mergeTrace(acc[t], normalizeTrace(m))
                 ELSE normalizeTrace(m)]
      BY <1>4 DEF dispatchItem, addTrace
    <2> HIDE DEF r
    <2>2. /\ DOMAIN r = DOMAIN acc \cup {m.id}
          /\ \A t \in DOMAIN acc : t # m.id => r[t] = acc[t]
          /\ m.id \in DOMAIN acc => r[m.id] = mergeTrace(acc[m.id], normalizeTrace(m))
          /\ m.id \notin DOMAIN acc => r[m.id] = normalizeTrace(m)
      BY <2>1
    <2>3. normalizeTrace(m) = [count |-> m.count, spans |-> 0]
      BY DEF normalizeTrace
    <2>4. m.id \in DOMAIN acc => r[m.id] \in Data /\ r[m.id].spans = acc[m.id].spans
      <3> SUFFICES ASSUME m.id \in DOMAIN acc PROVE r[m.id] \in Data /\ r[m.id].spans = acc[m.id].spans
        OBVIOUS
      <3> DEFINE a == acc[m.id]
      <3>1. r[m.id] = [count |-> IF m.count > a.count THEN m.count ELSE a.count,
                       spans |-> IF 0 > a.spans THEN 0 ELSE a.spans]
        BY <2>2, <2>3 DEF mergeTrace, mergeSpans
      <3>2. a.count \in Nat /\ a.spans \in Nat
        BY <1>2
      <3> HIDE DEF a
      <3>3. r[m.id] = [count |-> IF m.count > a.count THEN m.count ELSE a.count, spans |-> a.spans]
        BY <3>1, <3>2
      <3>4. r[m.id] \in Data /\ r[m.id].spans = a.spans
        BY <1>1, <3>2, <3>3 DEF Data
      <3>5. QED
        BY <3>4 DEF a
    <2>5. m.id \notin DOMAIN acc => r[m.id] \in Data
      BY <1>1, <2>2, <2>3 DEF Data
    <2>6. \A t \in DOMAIN r : r[t] \in Data
      BY <2>2, <2>4, <2>5
    <2>7. \A t \in DOMAIN acc : acc[t].spans <= r[t].spans
      <3> SUFFICES ASSUME NEW t \in DOMAIN acc PROVE acc[t].spans <= r[t].spans
        OBVIOUS
      <3>1. r[t].spans = acc[t].spans
        BY <2>2, <2>4
      <3>2. QED
        BY <1>2, <3>1
    <2>8. QED
      BY <1>4, <2>2, <2>6, <2>7 DEF r
  <1>5. QED
    BY <1>1, <1>3, <1>4

\* A batch that does not overflow the cap: by induction on its messages, a row
\* is there with its spans or was deleted for good.
LEMMA BatchKeeps ==
  ASSUME FeedInv, RowsInv, DeletesLast, ~Overflows,
         NEW t \in DOMAIN rows, t \in DOMAIN dispatchQueue(queue), t \notin swept
  PROVE  rows[t].spans <= dispatchQueue(queue)[t].spans
  <1> DEFINE ids == {queue[i].id : i \in DOMAIN queue}
             all == DOMAIN rows \cup ids
  <1>1. /\ queue \in Seq(Message) /\ Len(queue) \in Nat /\ DOMAIN queue = 1..Len(queue)
        /\ rows[t].spans \in Nat /\ \A u \in DOMAIN rows : rows[u] \in Data
    BY DEF FeedInv, RowsInv, Data
  <1>2. \A i \in 1..Len(queue) : queue[i] \in Message /\ queue[i].id \in Ids /\ queue[i].id \in all
    <2>1. \A i \in 1..Len(queue) : queue[i] \in Message
      BY <1>1
    <2>2. \A i \in 1..Len(queue) : queue[i].id \in Ids
      BY <2>1 DEF Message
    <2>3. QED
      BY <1>1, <2>1, <2>2
  <1>3. all \subseteq Ids /\ IsFiniteSet(all) /\ Cardinality(all) \in Nat
    <2>1. all \subseteq Ids
      BY <1>1, <1>2, KnownIds DEF RowsInv
    <2>2. QED
      BY <2>1, TraceListAssumption, FS_Subset, FS_CardinalityType
  <1>4. Cardinality(all) <= Cap
    BY <1>3, TraceListAssumption DEF Overflows
  <1> HIDE DEF ids, all
  <1>5. CASE queue = <<>>
    BY <1>1, <1>5 DEF dispatchQueue
  <1>6. CASE queue # <<>>
    <2>1. PICK f : /\ dispatchQueue(queue) = endRun(f[Len(queue)], queue[Len(queue)]) /\ f[0] = rows
                   /\ \A n \in 1..Len(queue) : f[n] = Turn(f, queue, n)
      BY <1>1, <1>6, DispatchLoop
    <2> DEFINE Inside(acc) == DOMAIN acc \subseteq all /\ \A u \in DOMAIN acc : acc[u] \in Data
               Held(acc, n) == IF t \in DOMAIN acc THEN rows[t].spans <= acc[t].spans
                               ELSE \E i \in 1..n : queue[i].id = t /\ queue[i].type = "trace-deletes"
               S == {n \in Nat : n <= Len(queue) => Inside(f[n]) /\ Held(f[n], n)}
    <2>2. ASSUME NEW acc, Inside(acc), NEW m
          PROVE  /\ DOMAIN endRun(acc, m) = DOMAIN acc
                 /\ \A u \in DOMAIN acc : endRun(acc, m)[u] = acc[u]
      <3>1. Newest(DOMAIN acc, Cap) = DOMAIN acc
        BY <1>3, <1>4, <2>2, BelowTheCap
      <3>2. QED
        BY <3>1 DEF endRun, Keep
    <2>3. 0 \in S
      BY <1>1, <2>1 DEF all
    <2>4. ASSUME NEW n \in Nat, n \in S, n + 1 <= Len(queue)
          PROVE  Inside(f[n + 1]) /\ Held(f[n + 1], n + 1)
      <3> DEFINE m == queue[n + 1]
      <3>1. n + 1 \in 1..Len(queue) /\ n <= Len(queue) /\ (n + 1) - 1 = n
        BY <1>1, <2>4
      <3>2. Inside(f[n]) /\ Held(f[n], n)
        BY <2>4, <3>1
      <3>3. PICK acc : /\ f[n + 1] = dispatchItem(acc, m) /\ DOMAIN acc = DOMAIN f[n]
                       /\ \A u \in DOMAIN acc : acc[u] = f[n][u]
        <4>1. f[n + 1] = dispatchItem(endRun(f[n], queue[n]), m) \/ f[n + 1] = dispatchItem(f[n], m)
          BY <2>1, <3>1 DEF Turn
        <4>2. QED
          BY <2>2, <3>2, <4>1
      <3>4. Inside(acc) /\ Held(acc, n)
        BY <3>2, <3>3
      <3>5. m \in Message /\ m.id \in all /\ DOMAIN acc \subseteq Ids
        BY <1>2, <1>3, <3>1, <3>4
      <3> DEFINE r == dispatchItem(acc, m)
      <3>6. /\ DOMAIN r \subseteq DOMAIN acc \cup {m.id}
            /\ \A u \in DOMAIN r : r[u] \in Data
            /\ \A u \in DOMAIN acc \cap DOMAIN r : acc[u].spans <= r[u].spans
            /\ \A u \in DOMAIN acc \ DOMAIN r : m.id = u /\ m.type = "trace-deletes"
        BY <3>4, <3>5, ItemKeeps
      <3> HIDE DEF r
      <3>7. Inside(r)
        BY <3>4, <3>5, <3>6
      <3>8. Held(r, n + 1)
        <4>1. \A i \in 1..n : i \in 1..(n + 1) /\ i \in 1..Len(queue) /\ i < n + 1
          BY <1>1, <3>1
        <4>2. CASE t \in DOMAIN acc /\ t \in DOMAIN r
          <5>1. acc[t] \in Data /\ r[t] \in Data /\ rows[t].spans <= acc[t].spans /\ acc[t].spans <= r[t].spans
            BY <3>4, <3>6, <4>2
          <5>2. acc[t].spans \in Nat /\ r[t].spans \in Nat
            BY <5>1 DEF Data
          <5>3. QED
            BY <1>1, <4>2, <5>1, <5>2
        <4>3. CASE t \in DOMAIN acc /\ t \notin DOMAIN r
          <5>1. n + 1 \in 1..(n + 1) /\ queue[n + 1].id = t /\ queue[n + 1].type = "trace-deletes"
            BY <3>6, <4>3
          <5>2. QED
            BY <4>3, <5>1
        <4>4. CASE t \notin DOMAIN acc
          <5>1. PICK i \in 1..n : queue[i].id = t /\ queue[i].type = "trace-deletes"
            BY <3>4, <4>4
          <5>2. LastIn(queue, i)
            BY <4>1, <5>1 DEF DeletesLast, Deletes
          <5>3. m.id # t
            BY <3>1, <4>1, <5>1, <5>2 DEF LastIn
          <5>4. t \notin DOMAIN r
            BY <3>6, <4>4, <5>3
          <5>5. QED
            BY <4>1, <5>1, <5>4
        <4>5. QED
          BY <4>2, <4>3, <4>4
      <3>9. QED
        BY <3>3, <3>7, <3>8 DEF r
    <2> HIDE DEF Inside, Held
    <2>5. \A n \in Nat : n \in S => n + 1 \in S
      BY <2>4
    <2> HIDE DEF S
    <2>6. Len(queue) \in S
      BY <1>1, <2>3, <2>5, InductiveSet
    <2>7. Inside(f[Len(queue)]) /\ Held(f[Len(queue)], Len(queue))
      BY <1>1, <2>6 DEF S
    <2>8. /\ DOMAIN dispatchQueue(queue) = DOMAIN f[Len(queue)]
          /\ \A u \in DOMAIN f[Len(queue)] : dispatchQueue(queue)[u] = f[Len(queue)][u]
      BY <2>1, <2>2, <2>7
    <2>9. QED
      BY <2>7, <2>8 DEF Held
  <1>7. QED
    BY <1>5, <1>6

\* No other step takes a row's spans away.
LEMMA DetailStep ==
  ASSUME ListInv, DeletesLast, [Next]_vars, NEW t \in (DOMAIN rows \cap DOMAIN rows') \ swept,
         ~replaceTraceSpans, ~(tick /\ Overflows)
  PROVE  ~(rows'[t].spans < rows[t].spans)
  <1>1. /\ FeedInv /\ RowsInv /\ PageInv
        /\ rows[t].spans \in Nat /\ \A u \in DOMAIN rows : rows[u] \in Data
    BY DEF ListInv, RowsInv, Data
  <1>2. rows[t].spans <= rows[t].spans /\ ~(rows[t].spans < rows[t].spans)
    BY <1>1
  <1>3. ASSUME NEW new, NEW S, rows' = Keep(new, S) PROVE rows'[t] = new[t]
    BY <1>3 DEF Keep
  <1>4. CASE UNCHANGED rows
    BY <1>2, <1>4
  <1>5. CASE tick
    <2>1. rows' = dispatchQueue(queue)
      BY <1>5 DEF tick, Dispatch
    <2>2. rows[t].spans <= rows'[t].spans /\ rows'[t].spans \in Nat
      <3>1. RowsInv'
        BY <1>1, <1>5, FeedInvStep DEF Feed, ListInv
      <3>2. rows[t].spans <= dispatchQueue(queue)[t].spans
        BY <1>1, <1>5, <2>1, BatchKeeps
      <3>3. QED
        BY <2>1, <3>1, <3>2 DEF RowsInv, Data
    <2>3. QED
      BY <1>1, <2>2
  <1>6. CASE onMessage /\ ~timer
    <2> DEFINE h == Head(wire)
    <2>1. h \in Message /\ rows' = dispatchQueue(<<h>>)
      BY <1>1, <1>6, Received DEF onMessage, Dispatch, FeedInv
    <2> HIDE DEF h
    <2>2. PICK f : dispatchQueue(<<h>>) = endRun(f[1], h) /\ f[1] = dispatchItem(rows, h)
      <3>1. <<h>> \in Seq(Message) /\ <<h>> # <<>> /\ Len(<<h>>) = 1 /\ <<h>>[1] = h /\ 1 \in 1..1
        BY <2>1
      <3>2. PICK f : /\ dispatchQueue(<<h>>) = endRun(f[1], h) /\ f[0] = rows
                     /\ f[1] = Turn(f, <<h>>, 1)
        BY <3>1, DispatchLoop
      <3>3. f[1] = dispatchItem(rows, h)
        BY <3>1, <3>2 DEF Turn
      <3>4. QED
        BY <3>2, <3>3
    <2> DEFINE r == dispatchItem(rows, h)
    <2>3. /\ \A u \in DOMAIN r : r[u] \in Data
          /\ \A u \in DOMAIN rows \cap DOMAIN r : rows[u].spans <= r[u].spans
      <3>1. DOMAIN rows \subseteq Ids
        BY <1>1, KnownIds DEF RowsInv
      <3>2. QED
        BY <1>1, <2>1, <3>1, ItemKeeps
    <2> HIDE DEF r
    <2>4. t \in DOMAIN r /\ rows'[t] = r[t]
      BY <2>1, <2>2 DEF endRun, Keep, r
    <2>5. rows[t].spans <= r[t].spans /\ r[t].spans \in Nat
      BY <2>3, <2>4 DEF Data
    <2>6. QED
      BY <1>1, <2>4, <2>5
  <1>7. CASE onMessage /\ timer
    BY <1>4, <1>7 DEF onMessage
  <1>8. CASE replaceTracePage
    <2> DEFINE kept == liveItems(page.before)
               written == DOMAIN page.items \ kept
               new == [u \in kept \cup written |-> IF u \in kept THEN rows[u] ELSE pageRow(u)]
    <2>1. Publish(new, written) /\ Got
      BY <1>8 DEF replaceTracePage, Got
    <2>2. rows' = Keep(new, Newest(DOMAIN new, Cap))
      BY <2>1 DEF Publish
    <2>3. rows'[t] = new[t] /\ t \in DOMAIN new
      BY <2>2 DEF Keep
    <2>4. CASE t \in kept
      BY <1>2, <2>3, <2>4
    <2>5. CASE t \notin kept
      <3>1. rows'[t] = [page.items[t] EXCEPT !.spans = rows[t].spans] /\ t \in DOMAIN page.items
        BY <2>3, <2>5 DEF pageRow
      <3>2. page.items[t] \in Data
        BY <1>1, <2>1, <3>1 DEF PageInv, AnswerTyped
      <3>3. rows'[t].spans = rows[t].spans
        BY <3>1, <3>2 DEF Data
      <3>4. QED
        BY <1>2, <3>3
    <2>6. QED
      BY <2>4, <2>5
  <1>9. CASE appendTraces
    <2> DEFINE written == DOMAIN page.items \ DOMAIN rows
               new == [u \in DOMAIN rows \cup written |-> IF u \in written THEN page.items[u] ELSE rows[u]]
    <2>1. rows' = Keep(new, Newest(DOMAIN new, Cap))
      BY <1>9 DEF appendTraces, Publish
    <2>2. rows'[t] = rows[t]
      BY <2>1 DEF Keep
    <2>3. QED
      BY <1>2, <2>2
  <1>10. ASSUME NEW d, cacheTrace(d), selectedTraceMissing PROVE ~(rows'[t].spans < rows[t].spans)
    <2>1. t # focus
      BY <1>10 DEF selectedTraceMissing
    <2>2. rows'[t] = rows[t]
      BY <1>10, <2>1 DEF cacheTrace, Keep
    <2>3. QED
      BY <1>2, <2>2
  <1>11. CASE settle \/ useCached
    BY <1>4, <1>10, <1>11 DEF settle, useCached
  <1>12. UNCHANGED rows \/ tick \/ onMessage \/ replaceTracePage \/ appendTraces \/ settle \/ useCached
    <2>1. CASE Server \/ UNCHANGED vars
      BY <2>1 DEF Server, Commit, Exceeds, Sweep, listVars, vars
    <2>2. CASE Feed
      BY <2>2 DEF Feed
    <2>3. CASE Paging
      BY <2>3 DEF Paging, fetchPage, hasItemsBefore, loadMore, pageFails, newSession, listVars
    <2>4. CASE Selection
      BY <2>4 DEF Selection, selectTrace, askTrace, loadTrace, retryLookup, rowIsBack, loadSpans,
                  listVars
    <2>5. QED
      BY <2>1, <2>2, <2>3, <2>4 DEF Next
  <1>13. QED
    BY <1>4, <1>5, <1>6, <1>7, <1>8, <1>9, <1>11, <1>12

\* replaceTracePage, mergeTrace and append keep the last detail snapshot: only
\* the span query takes a row's spans away while the row stays, or a flush
\* that overflows the cap and delivers the row it cut again.  A trace whose
\* tombstone was swept is left out.
THEOREM DetailIsKept == Spec => DetailKept
  <1>1. Init => DeletesLast
    <2>1. ASSUME Init PROVE DeletesLast
      <3>1. wire = <<>> /\ queue = <<>> /\ \A i \in 1..0 : FALSE
        BY <2>1 DEF Init
      <3>2. QED
        BY <3>1 DEF DeletesLast
    <2>2. QED
      BY <2>1
  <1>2. ListInv /\ DeletesLast /\ [Next]_vars => DeletesLast'
    BY DeletesStayLast DEF ListInv
  <1>3. ListInv /\ DeletesLast /\ [Next]_vars =>
          [\A t \in (DOMAIN rows \cap DOMAIN rows') \ swept :
              rows'[t].spans < rows[t].spans => replaceTraceSpans \/ (tick /\ Overflows)]_vars
    BY DetailStep
  <1>4. QED
    BY <1>1, <1>2, <1>3, ListIsSound, PTL DEF Spec, DetailKept
====
