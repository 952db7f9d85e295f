---- MODULE SignalStoreProofs ----
(***************************************************************************)
(* Theorems about SignalStore, for any batches, limits, retention, cache   *)
(* capacity and faults: what the tables promise each other in every state  *)
(* a reader or a crash can find.                                           *)
(***************************************************************************)
EXTENDS SignalStore, SequenceTheorems, FiniteSetTheorems, WellFoundedInduction, TLAPS

----
(* Sets of numbers.                                                        *)

\* A set of naturals that is not empty has a least element.
LEMMA LeastNumber ==
  ASSUME NEW S \in SUBSET Nat, S # {}
  PROVE  \E x \in S : \A y \in S : x <= y
  <1> DEFINE R == OpToRel(<, Nat)
  <1>1. IsWellFoundedOn(R, Nat)
    BY NatLessThanWellFounded, Zenon
  <1>2. \A x, y \in Nat : y < x => <<y, x>> \in R
    BY DEF OpToRel
  <1> HIDE DEF R
  <1>3. \E x \in S : \A y \in S : ~(<<y, x>> \in R)
    BY <1>1, WFMin, Zenon
  <1>4. PICK x \in S : \A y \in S : ~(<<y, x>> \in R)
    BY <1>3, Zenon
  <1>5. ASSUME NEW y \in S PROVE x <= y
    <2>1. x \in Nat /\ y \in Nat
      OBVIOUS
    <2>2. ~(y < x)
      BY <1>2, <1>4, <2>1
    <2>3. QED
      BY <2>1, <2>2
  <1>6. QED
    BY <1>5

\* A set that holds 0 and the successor of each of its elements holds every
\* natural.
LEMMA InductiveSet ==
  ASSUME NEW S, 0 \in S, \A n \in Nat : n \in S => n + 1 \in S
  PROVE  Nat \subseteq S
  <1> DEFINE T == Nat \ S
  <1> SUFFICES ASSUME T # {} PROVE FALSE
    OBVIOUS
  <1>1. PICK x \in T : \A y \in T : x <= y
    BY LeastNumber
  <1>2. x \in Nat /\ x # 0 /\ x \notin S
    OBVIOUS
  <1>3. x - 1 \in Nat /\ x - 1 \notin T
    BY <1>1, <1>2
  <1>4. x - 1 \in S /\ (x - 1) + 1 = x
    BY <1>2, <1>3
  <1>5. QED
    BY <1>2, <1>3, <1>4

----
(* The loop that keeps rows.                                               *)

\* One turn of the loop.
Kept(g, rows, I, n) == IF n \in I THEN Append(g[n - 1], rows[n]) ELSE g[n - 1]

Loop(g, rows, I, m) == g = [n \in 0..m |-> IF n = 0 THEN <<>> ELSE Kept(g, rows, I, n)]

\* The function that RowsAt chooses exists: by induction on its length.
LEMMA LoopExists ==
  ASSUME NEW rows, NEW I, NEW m \in Nat
  PROVE  \E g : Loop(g, rows, I, m)
  <1> DEFINE S == {n \in Nat : \E g : Loop(g, rows, I, n)}
  <1>1. 0 \in S
    <2>1. Loop([n \in 0..0 |-> <<>>], rows, I, 0)
      BY DEF Loop
    <2>2. QED
      BY <2>1
  <1>2. ASSUME NEW n \in Nat, n \in S PROVE n + 1 \in S
    <2>1. PICK g : Loop(g, rows, I, n)
      BY <1>2
    <2> DEFINE h == [i \in 0..(n + 1) |-> IF i = n + 1 THEN Kept(g, rows, I, n + 1) ELSE g[i]]
    <2>2. \A i \in 0..n : h[i] = g[i] /\ i # n + 1
      OBVIOUS
    <2>3. \A i \in 0..n : g[i] = IF i = 0 THEN <<>> ELSE Kept(g, rows, I, i)
      BY <2>1 DEF Loop
    <2>4. h[n + 1] = Kept(g, rows, I, n + 1)
      OBVIOUS
    <2> HIDE DEF h
    <2>5. \A i \in 0..(n + 1) : i # 0 => Kept(h, rows, I, i) = Kept(g, rows, I, i)
      <3>1. ASSUME NEW i \in 0..(n + 1), i # 0 PROVE h[i - 1] = g[i - 1]
        BY <2>2, <3>1
      <3>2. QED
        BY <3>1 DEF Kept
    <2>6. \A i \in 0..(n + 1) : h[i] = IF i = 0 THEN <<>> ELSE Kept(h, rows, I, i)
      <3>1. ASSUME NEW i \in 0..(n + 1) PROVE h[i] = IF i = 0 THEN <<>> ELSE Kept(h, rows, I, i)
        <4>1. CASE i = n + 1
          BY <2>4, <2>5, <4>1
        <4>2. CASE i # n + 1
          <5>1. i \in 0..n
            BY <4>2
          <5>2. QED
            BY <2>2, <2>3, <2>5, <5>1
        <4>3. QED
          BY <4>1, <4>2
      <3>2. QED
        BY <3>1
    <2>7. h = [i \in 0..(n + 1) |-> h[i]]
      BY DEF h
    <2>8. Loop(h, rows, I, n + 1)
      BY <2>6, <2>7 DEF Loop
    <2>9. QED
      BY <2>8
  <1> HIDE DEF S
  <1>3. m \in S
    BY <1>1, <1>2, InductiveSet
  <1>4. QED
    BY <1>3 DEF S

\* RowsAt goes through the rows, keeping some.
LEMMA RowsAtLoop ==
  ASSUME NEW rows, NEW I, Len(rows) \in Nat
  PROVE  \E f : /\ RowsAt(rows, I) = f[Len(rows)] /\ f[0] = <<>>
                /\ \A n \in 1..Len(rows) : f[n] = Kept(f, rows, I, n)
  <1> DEFINE m == Len(rows)
             f == CHOOSE g : g = [n \in 0..m |-> IF n = 0 THEN <<>>
                                                 ELSE IF n \in I THEN Append(g[n - 1], rows[n])
                                                 ELSE g[n - 1]]
  <1>1. f = [n \in 0..m |-> IF n = 0 THEN <<>>
                            ELSE IF n \in I THEN Append(f[n - 1], rows[n]) ELSE f[n - 1]]
    <2>1. \E g : g = [n \in 0..m |-> IF n = 0 THEN <<>>
                                     ELSE IF n \in I THEN Append(g[n - 1], rows[n])
                                     ELSE g[n - 1]]
      <3>1. PICK g : Loop(g, rows, I, m)
        BY LoopExists
      <3>2. QED
        BY <3>1, Zenon DEF Loop, Kept
    <2>2. QED
      BY <2>1
  <1>2. RowsAt(rows, I) = f[m]
    BY DEF RowsAt
  <1> HIDE DEF f
  <1>3. f[0] = <<>>
    <2>1. 0 \in 0..m
      OBVIOUS
    <2>2. QED
      BY <1>1, <2>1
  <1>4. ASSUME NEW n \in 1..m PROVE f[n] = Kept(f, rows, I, n)
    <2>1. n \in 0..m /\ n # 0
      OBVIOUS
    <2>2. QED
      BY <1>1, <2>1 DEF Kept
  <1>5. QED
    BY <1>2, <1>3, <1>4

\* What the loop returns is a sequence of rows at the indices it was given.
LEMMA RowsAtRows ==
  ASSUME NEW rows, rows \in Seq(ToSet(rows)), NEW I \in SUBSET DOMAIN rows
  PROVE  /\ RowsAt(rows, I) \in Seq(ToSet(RowsAt(rows, I)))
         /\ \A r \in ToSet(RowsAt(rows, I)) : \E i \in I : rows[i] = r
  <1>1. Len(rows) \in Nat /\ DOMAIN rows = 1..Len(rows)
    OBVIOUS
  <1>2. PICK f : /\ RowsAt(rows, I) = f[Len(rows)] /\ f[0] = <<>>
                 /\ \A n \in 1..Len(rows) : f[n] = Kept(f, rows, I, n)
    BY <1>1, RowsAtLoop
  <1> DEFINE m == Len(rows)
             R == {rows[i] : i \in I}
             S == {n \in Nat : n <= m => f[n] \in Seq(R)}
  <1>3. RowsAt(rows, I) = f[m]
    BY <1>2
  <1>4. f[0] = <<>>
    BY <1>2
  <1>5. 0 \in S
    <2>1. f[0] \in Seq(R)
      BY <1>4
    <2>2. QED
      BY <2>1
  <1>6. ASSUME NEW n \in Nat, n \in S PROVE n + 1 \in S
    <2>1. CASE n + 1 <= m
      <3>1. f[n + 1] = IF n + 1 \in I THEN Append(f[n], rows[n + 1]) ELSE f[n]
        <4>1. n + 1 \in 1..m /\ (n + 1) - 1 = n
          BY <1>1, <2>1
        <4>2. QED
          BY <1>2, <4>1 DEF Kept
      <3>2. f[n] \in Seq(R)
        BY <1>1, <1>6, <2>1
      <3>3. f[n + 1] \in Seq(R)
        <4>1. CASE n + 1 \in I
          <5>1. rows[n + 1] \in R
            BY <4>1
          <5>2. Append(f[n], rows[n + 1]) \in Seq(R)
            BY <3>2, <5>1, AppendProperties
          <5>3. QED
            BY <3>1, <4>1, <5>2
        <4>2. CASE n + 1 \notin I
          BY <3>1, <3>2, <4>2
        <4>3. QED
          BY <4>1, <4>2
      <3>4. QED
        BY <3>3
    <2>2. CASE ~(n + 1 <= m)
      BY <2>2
    <2>3. QED
      BY <2>1, <2>2
  <1> HIDE DEF S
  <1>7. m \in S
    BY <1>1, <1>5, <1>6, InductiveSet
  <1>8. f[m] \in Seq(R)
    BY <1>1, <1>7 DEF S
  <1>9. f[m] \in Seq(ToSet(f[m])) /\ ToSet(f[m]) \subseteq R
    BY <1>8 DEF ToSet
  <1>10. QED
    BY <1>3, <1>9

----
(* The batch the writer has in hand.                                       *)

RowsInHand ==
    /\ pc = "traces" => batch \in TraceBatches
    /\ pc = "logs" => batch \in LogBatches
    /\ pc = "metrics" => batch \in MetricBatches
    /\ pc = "spans" => \E b \in TraceBatches :
                          /\ batch.resources = b.resources
                          /\ batch.spans \in Seq(ToSet(batch.spans))
                          /\ ToSet(batch.spans) \subseteq ToSet(b.spans)

\* What Discard keeps comes from the batch and from no trace that is hit.
LEMMA DiscardRows ==
  ASSUME NEW rows, rows \in Seq(ToSet(rows)), NEW hit
  PROVE  /\ Discard(rows, hit) \in Seq(ToSet(Discard(rows, hit)))
         /\ \A r \in ToSet(Discard(rows, hit)) : r \in ToSet(rows) /\ r.trace \notin hit
  <1> DEFINE I == {i \in DOMAIN rows : rows[i].trace \notin hit}
  <1>1. I \in SUBSET DOMAIN rows /\ Discard(rows, hit) = RowsAt(rows, I)
    BY DEF Discard
  <1>2. \A i \in I : rows[i] \in ToSet(rows) /\ rows[i].trace \notin hit
    BY DEF ToSet
  <1> HIDE DEF I
  <1>3. QED
    BY <1>1, <1>2, RowsAtRows

\* The rows of q come from the first n indices of I; no two have one key.
FromRows(q, rows, I, n) == \A a \in 1..Len(q) : \E i \in I : i <= n /\ q[a] = rows[i]

Apart(q) == \A a, b \in 1..Len(q) : a # b => Key(q[a]) # Key(q[b])

\* Rows of different keys stay rows of different keys.
LEMMA RowsAtApart ==
  ASSUME NEW rows, rows \in Seq(ToSet(rows)), NEW I \in SUBSET DOMAIN rows,
         \A i, j \in I : i # j => Key(rows[i]) # Key(rows[j])
  PROVE  Apart(RowsAt(rows, I))
  <1>1. Len(rows) \in Nat /\ I \subseteq Nat
    OBVIOUS
  <1>2. PICK f : /\ RowsAt(rows, I) = f[Len(rows)] /\ f[0] = <<>>
                 /\ \A n \in 1..Len(rows) : f[n] = Kept(f, rows, I, n)
    BY <1>1, RowsAtLoop
  <1> DEFINE m == Len(rows)
             R == {rows[i] : i \in I}
             Right(q, n) == q \in Seq(R) /\ FromRows(q, rows, I, n) /\ Apart(q)
             S == {n \in Nat : n <= m => Right(f[n], n)}
  <1>3. 0 \in S
    <2>1. f[0] = <<>> /\ <<>> \in Seq(R) /\ 1..Len(<<>>) = {}
      BY <1>2
    <2>2. QED
      BY <2>1 DEF FromRows, Apart
  <1>4. ASSUME NEW n \in Nat, n \in S, n + 1 <= m PROVE Right(f[n + 1], n + 1)
    <2>1. PICK q : q = f[n] /\ Right(q, n)
      <3>1. n <= m
        BY <1>1, <1>4
      <3>2. QED
        BY <1>4, <3>1, Zenon
    <2>2. f[n + 1] = IF n + 1 \in I THEN Append(q, rows[n + 1]) ELSE q
      <3>1. n + 1 \in 1..m /\ (n + 1) - 1 = n
        BY <1>1, <1>4
      <3>2. QED
        BY <1>2, <2>1, <3>1 DEF Kept
    <2>3. FromRows(q, rows, I, n + 1)
      <3>1. \A i \in I : i <= n => i <= n + 1
        BY <1>1
      <3>2. QED
        BY <2>1, <3>1, Zenon DEF FromRows
    <2>4. CASE n + 1 \notin I
      BY <2>1, <2>2, <2>3, <2>4
    <2>5. CASE n + 1 \in I
      <3> DEFINE p == Append(q, rows[n + 1])
                 k == Len(q)
      <3>1. rows[n + 1] \in R
        BY <2>5
      <3>2. /\ p \in Seq(R) /\ Len(p) = k + 1 /\ k \in Nat
            /\ \A a \in 1..k : p[a] = q[a]
            /\ p[k + 1] = rows[n + 1]
        BY <2>1, <3>1, AppendProperties
      <3> HIDE DEF p, k, R
      <3>3. \A a \in 1..(k + 1) : a = k + 1 \/ (a \in 1..k /\ a # k + 1)
        BY <3>2
      <3>4. FromRows(p, rows, I, n + 1)
        <4>1. n + 1 <= n + 1
          OBVIOUS
        <4>2. \A a \in 1..k : \E i \in I : i <= n + 1 /\ q[a] = rows[i]
          BY <2>3 DEF FromRows, k
        <4>3. ASSUME NEW a \in 1..(k + 1) PROVE \E i \in I : i <= n + 1 /\ p[a] = rows[i]
          BY <2>5, <3>2, <3>3, <4>1, <4>2
        <4>4. QED
          BY <3>2, <4>3 DEF FromRows
      <3>5. ASSUME NEW a \in 1..k PROVE Key(q[a]) # Key(rows[n + 1])
        <4>1. PICK i \in I : i <= n /\ q[a] = rows[i]
          BY <2>1 DEF FromRows, k
        <4>2. i # n + 1
          BY <1>1, <4>1
        <4>3. QED
          BY <2>5, <4>1, <4>2
      <3>6. \A a, b \in 1..k : a # b => Key(q[a]) # Key(q[b])
        BY <2>1 DEF Apart, k
      <3>7. ASSUME NEW a \in 1..(k + 1), NEW b \in 1..(k + 1), a # b PROVE Key(p[a]) # Key(p[b])
        BY <3>2, <3>3, <3>5, <3>6, <3>7, Zenon
      <3>8. Apart(p)
        BY <3>2, <3>7 DEF Apart
      <3>9. QED
        BY <2>2, <2>5, <3>2, <3>4, <3>8 DEF p
    <2>6. QED
      BY <2>4, <2>5
  <1>5. \A n \in Nat : n \in S => n + 1 \in S
    BY <1>4
  <1> HIDE DEF S
  <1>6. m \in S
    BY <1>1, <1>3, <1>5, InductiveSet
  <1>7. Apart(f[m])
    BY <1>1, <1>6 DEF S
  <1>8. QED
    BY <1>2, <1>7

\* What filterNewSpans keeps: no row that is stored, and of each key the
\* first.
LEMMA NewRows ==
  ASSUME NEW rows, rows \in Seq(ToSet(rows))
  PROVE  /\ NewSpans(rows) \in Seq(ToSet(NewSpans(rows))) /\ Apart(NewSpans(rows))
         /\ \A r \in ToSet(NewSpans(rows)) :
               /\ r \in ToSet(rows) /\ ~AlreadyStored(r)
               /\ \A q \in ToSet(NewSpans(rows)) : Key(q) = Key(r) => q = r
  <1> DEFINE I == {i \in DOMAIN rows :
                     /\ ~AlreadyStored(rows[i])
                     /\ \A j \in 1..(i - 1) : Key(rows[j]) # Key(rows[i])}
  <1>1. I \in SUBSET DOMAIN rows /\ NewSpans(rows) = RowsAt(rows, I)
    BY DEF NewSpans
  <1>2. DOMAIN rows = 1..Len(rows) /\ Len(rows) \in Nat
    OBVIOUS
  <1>3. \A i \in I : rows[i] \in ToSet(rows) /\ ~AlreadyStored(rows[i])
    BY DEF ToSet
  <1>4. ASSUME NEW i \in I, NEW j \in I, Key(rows[i]) = Key(rows[j]) PROVE i = j
    <2>1. i \in Nat /\ j \in Nat /\ 1 <= i /\ 1 <= j
      BY <1>2
    <2>2. ~(j < i) /\ ~(i < j)
      <3>1. j < i => j \in 1..(i - 1)
        BY <2>1
      <3>2. i < j => i \in 1..(j - 1)
        BY <2>1
      <3>3. QED
        BY <1>4, <3>1, <3>2
    <2>3. QED
      BY <2>1, <2>2
  <1> HIDE DEF I
  <1>5. /\ NewSpans(rows) \in Seq(ToSet(NewSpans(rows))) /\ Apart(NewSpans(rows))
        /\ \A r \in ToSet(NewSpans(rows)) : \E i \in I : rows[i] = r
    BY <1>1, <1>4, RowsAtRows, RowsAtApart
  <1>6. QED
    BY <1>3, <1>4, <1>5

\* The writer starts without a batch.
LEMMA HandInit == Init => RowsInHand
  BY DEF Init, RowsInHand

\* Every statement keeps the rows in hand those of a batch.
LEMMA HandNext == RowsInHand /\ [Next]_vars => RowsInHand'
  <1> SUFFICES ASSUME RowsInHand, [Next]_vars PROVE RowsInHand'
    OBVIOUS
  <1> USE DEF RowsInHand
  <1>1. ASSUME UNCHANGED <<pc, batch>> PROVE RowsInHand'
    BY <1>1
  <1>2. ASSUME pc' \notin {"traces", "logs", "metrics", "spans"} PROVE RowsInHand'
    BY <1>2
  <1>3. CASE Tick \/ UpsertResource \/ ClearTable \/ UNCHANGED vars
    BY <1>1, <1>3 DEF Tick, UpsertResource, ClearTable, vars, hand
  <1>4. CASE BeginTraces \/ BeginLogs \/ BeginMetrics
    BY <1>4 DEF BeginTraces, BeginLogs, BeginMetrics, BeginBatch
  <1>5. CASE WriteFails \/ RollbackMetrics \/ CommitMetrics \/ AppendLogs \/ AppendLogsFails
    BY <1>2, <1>5 DEF WriteFails, RollbackMetrics, CommitMetrics, AppendLogs, AppendLogsFails, Finish
  <1>6. CASE WriteSpans \/ WriteSpansFails \/ UnderMaxSize \/ SweepFails \/ ClearCheckpoint
              \/ ClearFails \/ Restart
    BY <1>2, <1>6 DEF WriteSpans, WriteSpansFails, UnderMaxSize, SweepFails, ClearCheckpoint,
                      ClearFails, Restart, Finish
  <1>7. CASE BeginSweep \/ Expire \/ PruneSeries \/ PruneLayouts \/ PruneResources \/ TrimDay \/ BeginClear
    BY <1>2, <1>7 DEF BeginSweep, Expire, PruneSeries, PruneLayouts, PruneResources, TrimDay, BeginClear
  <1>8. CASE SweepCheckpoint
    BY <1>2, <1>8 DEF SweepCheckpoint, Finish
  <1>9. CASE FilterDropped
    <2> DEFINE hit == TracesOf(batch.spans) \cap DOMAIN tombstones
               kept == Discard(batch.spans, hit)
    <2>1. batch \in TraceBatches
      BY <1>9 DEF FilterDropped
    <2>2. batch.spans \in Seq(ToSet(batch.spans)) /\ DOMAIN batch = {"resources", "spans"}
      BY <2>1, BatchTypes
    <2>3. CASE kept = <<>>
      BY <1>2, <1>9, <2>3 DEF FilterDropped, Finish
    <2>4. CASE kept # <<>>
      <3>1. pc' = "spans" /\ batch' = [batch EXCEPT !.spans = kept]
        BY <1>9, <2>4 DEF FilterDropped
      <3>2. kept \in Seq(ToSet(kept)) /\ ToSet(kept) \subseteq ToSet(batch.spans)
        BY <2>2, DiscardRows
      <3> HIDE DEF kept
      <3>3. batch'.spans = kept /\ batch'.resources = batch.resources
        BY <2>2, <3>1
      <3>4. QED
        BY <2>1, <3>1, <3>2, <3>3
    <2>5. QED
      BY <2>3, <2>4
  <1>10. QED
    BY <1>3, <1>4, <1>5, <1>6, <1>7, <1>8, <1>9 DEF Next

----
(* A trace with a tombstone has nothing stored.                            *)

TombInv ==
    /\ TombstoneExcludes
    /\ pc = "spans" => \A r \in ToSet(batch.spans) : r.trace \notin DOMAIN tombstones

\* Deleting rows, and tombstones, brings nothing back.
LEMMA TombShrinks ==
  ASSUME TombstoneExcludes, DOMAIN tombstones' \subseteq DOMAIN tombstones,
         spans' \subseteq spans, links' \subseteq links,
         DOMAIN summaries' \subseteq DOMAIN summaries \cup TracesIn(spans)
  PROVE  TombstoneExcludes'
  <1>1. \A t \in DOMAIN tombstones : t \notin TracesIn(spans)
    BY DEF TombstoneExcludes, SpansOf, TracesIn
  <1>2. QED
    BY <1>1 DEF TombstoneExcludes, SpansOf

\* Every statement keeps the tombstones exclusive.
LEMMA TombNext == RowsInHand /\ TombInv /\ [Next]_vars => TombInv'
  <1> SUFFICES ASSUME RowsInHand, TombInv, [Next]_vars PROVE TombInv'
    OBVIOUS
  <1>1. ASSUME UNCHANGED traceTables, pc' # "spans" \/ UNCHANGED <<pc, batch>> PROVE TombInv'
    BY <1>1 DEF TombInv, TombstoneExcludes, SpansOf, traceTables
  <1>2. ASSUME TombstoneExcludes', pc' # "spans" PROVE TombInv'
    BY <1>2 DEF TombInv
  <1>3. CASE Tick \/ UpsertResource \/ UNCHANGED vars
    BY <1>1, <1>3 DEF Tick, UpsertResource, vars, facts, hand
  <1>4. CASE BeginTraces \/ BeginLogs \/ BeginMetrics \/ BeginSweep \/ BeginClear
    BY <1>1, <1>4 DEF BeginTraces, BeginLogs, BeginMetrics, BeginBatch, BeginSweep, BeginClear, facts
  <1>5. CASE WriteFails \/ RollbackMetrics \/ CommitMetrics \/ AppendLogs \/ AppendLogsFails
    BY <1>1, <1>5 DEF WriteFails, RollbackMetrics, CommitMetrics, AppendLogs, AppendLogsFails, Finish, facts
  <1>6. CASE WriteSpansFails \/ UnderMaxSize \/ SweepFails \/ ClearCheckpoint \/ ClearFails \/ Restart
    BY <1>1, <1>6 DEF WriteSpansFails, UnderMaxSize, SweepFails, ClearCheckpoint, ClearFails, Restart,
                      Finish, facts
  <1>7. CASE PruneSeries \/ PruneLayouts \/ PruneResources
    BY <1>1, <1>7 DEF PruneSeries, PruneLayouts, PruneResources, facts
  <1>8. CASE SweepCheckpoint
    BY <1>1, <1>8 DEF SweepCheckpoint, Finish, facts, hand
  <1>9. CASE Expire \/ TrimDay
    <2>1. PICK cutoff : DeleteFactsBefore(cutoff)
      BY <1>9 DEF Expire, TrimDay
    <2> DEFINE left == spans \ {s \in spans : s.start < cutoff}
    <2>2. TracesIn(left) \subseteq TracesIn(spans)
      BY DEF TracesIn
    <2>3. /\ spans' \subseteq spans /\ links' \subseteq links
          /\ DOMAIN tombstones' \subseteq DOMAIN tombstones
      BY <2>1 DEF DeleteFactsBefore, LinksLeft, Restrict
    <2>4. DOMAIN summaries' \subseteq DOMAIN summaries \cup TracesIn(left)
      BY <2>1 DEF DeleteFactsBefore
    <2>5. TombstoneExcludes'
      BY <2>2, <2>3, <2>4, TombShrinks DEF TombInv
    <2>6. QED
      BY <1>2, <1>9, <2>5 DEF Expire, TrimDay
  <1>10. CASE ClearTable
    <2>1. /\ spans' \subseteq spans /\ links' \subseteq links
          /\ summaries' \in {summaries, <<>>} /\ tombstones' \in {tombstones, <<>>}
          /\ pc' = pc /\ pc = "clear"
      BY <1>10 DEF ClearTable, Empty
    <2>2. DOMAIN <<>> = {}
      OBVIOUS
    <2>3. TombstoneExcludes'
      BY <2>1, <2>2, TombShrinks DEF TombInv
    <2>4. QED
      BY <1>2, <2>1, <2>3
  <1>11. CASE FilterDropped
    <2> DEFINE hit == TracesOf(batch.spans) \cap DOMAIN tombstones
               kept == Discard(batch.spans, hit)
    <2>1. batch.spans \in Seq(ToSet(batch.spans)) /\ DOMAIN batch = {"resources", "spans"}
      BY <1>11, BatchTypes DEF FilterDropped, RowsInHand
    <2>2. /\ UNCHANGED <<spans, links, summaries>> /\ DOMAIN tombstones' = DOMAIN tombstones
      BY <1>11 DEF FilterDropped, Refresh
    <2>3. TombstoneExcludes'
      BY <2>2, TombShrinks DEF TombInv
    <2>4. CASE kept = <<>>
      BY <1>2, <1>11, <2>3, <2>4 DEF FilterDropped, Finish
    <2>5. CASE kept # <<>>
      <3>1. pc' = "spans" /\ batch' = [batch EXCEPT !.spans = kept]
        BY <1>11, <2>5 DEF FilterDropped
      <3>2. \A r \in ToSet(kept) : r \in ToSet(batch.spans) /\ r.trace \notin hit
        BY <2>1, DiscardRows
      <3> HIDE DEF kept
      <3>3. \A r \in ToSet(kept) : r.trace \notin DOMAIN tombstones
        BY <3>2 DEF TracesOf
      <3>4. batch'.spans = kept
        BY <2>1, <3>1
      <3>5. QED
        BY <2>2, <2>3, <3>3, <3>4 DEF TombInv
    <2>6. QED
      BY <2>4, <2>5
  <1>12. CASE WriteSpans
    <2> DEFINE new == NewSpans(batch.spans)
               touched == TracesOf(new)
               over == {t \in touched : Merged(t, new).count > MaxSpansPerTrace}
               added == {Stored(r) : r \in ToSet(new)}
               ids == KeysOf({s \in added : s.links > 0})
    <2>1. /\ spans' = {s \in spans \cup added : s.trace \notin over}
          /\ links' = {l \in links \cup ids : l[1] \notin over}
          /\ DOMAIN summaries' = (DOMAIN summaries \cup (touched \ over)) \ over
          /\ DOMAIN tombstones' = DOMAIN tombstones \cup over
          /\ pc = "spans" /\ pc' = "idle"
      BY <1>12 DEF WriteSpans, Finish
    <2>2. batch.spans \in Seq(ToSet(batch.spans))
      BY <2>1 DEF RowsInHand
    <2>3. \A t \in touched : t \notin DOMAIN tombstones
      <3>1. \A r \in ToSet(new) : r \in ToSet(batch.spans)
        BY <2>2, NewRows
      <3>2. QED
        BY <2>1, <3>1 DEF TombInv, TracesOf
    <2>4. /\ \A s \in added : s.trace \in touched
          /\ \A l \in ids : l[1] \in touched
      BY DEF Stored, TracesOf, KeysOf
    <2> HIDE DEF new, touched, over, added, ids
    <2>5. TombstoneExcludes'
      <3>1. ASSUME NEW t \in DOMAIN tombstones'
            PROVE  /\ \A s \in spans' : s.trace # t
                   /\ t \notin DOMAIN summaries'
                   /\ \A l \in links' : l[1] # t
        <4>1. CASE t \in over
          BY <2>1, <4>1
        <4>2. CASE t \notin over
          <5>1. t \in DOMAIN tombstones /\ t \notin touched
            BY <2>1, <2>3, <3>1, <4>2
          <5>2. /\ \A s \in spans : s.trace # t
                /\ t \notin DOMAIN summaries /\ \A l \in links : l[1] # t
            BY <5>1 DEF TombInv, TombstoneExcludes, SpansOf
          <5>3. QED
            BY <2>1, <2>4, <5>1, <5>2
        <4>3. QED
          BY <4>1, <4>2
      <3>2. QED
        BY <3>1 DEF TombstoneExcludes, SpansOf
    <2>6. QED
      BY <1>2, <2>1, <2>5
  <1>13. QED
    BY <1>3, <1>4, <1>5, <1>6, <1>7, <1>8, <1>9, <1>10, <1>11, <1>12 DEF Next

\* filterDroppedTraceRows and writeTraceRowsTransaction: while a trace that
\* outgrew the limit has a tombstone, no span, link or summary of it is in the
\* database, whatever batches, failures, sweeps, clears and restarts come.
THEOREM TombstonesExclude == Spec => []TombstoneExcludes
  <1>1. Init => RowsInHand /\ TombInv
    <2>1. DOMAIN <<>> = {}
      OBVIOUS
    <2>2. Init => TombInv
      BY <2>1 DEF Init, TombInv, TombstoneExcludes, Empty
    <2>3. QED
      BY <2>2, HandInit
  <1>2. RowsInHand /\ TombInv /\ [Next]_vars => (RowsInHand /\ TombInv)'
    BY HandNext, TombNext
  <1>3. TombInv => TombstoneExcludes
    BY DEF TombInv
  <1>4. QED
    BY <1>1, <1>2, <1>3, PTL DEF Spec

----
(* The order in which a clear empties the tables.                          *)

Cleared ==
    pc = "clear" =>
        /\ todo \in Seq(ToSet(Tables))
        /\ Len(todo) <= 10 /\ \A i \in 1..Len(todo) : todo[i] = Tables[10 - Len(todo) + i]
        /\ Len(todo) <= 9 => links = {}
        /\ Len(todo) <= 8 => spans = {}
        /\ Len(todo) <= 7 => summaries = Empty
        /\ Len(todo) <= 5 => points = {}
        /\ Len(todo) <= 4 => logs = {}
        /\ Len(todo) <= 3 => series = Empty
        /\ Len(todo) <= 2 => layouts = {}
        /\ Len(todo) <= 1 => resources = {}
        /\ Len(todo) <= 0 => tombstones = Empty

\* The order in which a clear empties the tables.
LEMMA TableNames ==
  /\ Len(Tables) = 10 /\ Tables \in Seq(ToSet(Tables))
  /\ Tables[1] = "span_links" /\ Tables[2] = "spans" /\ Tables[3] = "trace_summaries"
  /\ Tables[4] = "metric_exemplars" /\ Tables[5] = "metric_points" /\ Tables[6] = "logs"
  /\ Tables[7] = "metric_series" /\ Tables[8] = "histogram_layouts"
  /\ Tables[9] = "resources" /\ Tables[10] = "dropped_traces"
  <1>1. /\ Tables[1] = "span_links" /\ Tables[2] = "spans" /\ Tables[3] = "trace_summaries"
        /\ Tables[4] = "metric_exemplars" /\ Tables[5] = "metric_points" /\ Tables[6] = "logs"
        /\ Tables[7] = "metric_series" /\ Tables[8] = "histogram_layouts"
        /\ Tables[9] = "resources" /\ Tables[10] = "dropped_traces"
    BY DEF Tables
  <1>2. Len(Tables) = 10
    BY DEF Tables
  <1>3. DOMAIN Tables = 1..10 /\ Tables = [i \in 1..10 |-> Tables[i]]
    BY DEF Tables
  <1> HIDE DEF Tables
  <1>4. Tables \in [1..10 -> ToSet(Tables)]
    BY <1>3 DEF ToSet
  <1>5. Tables \in Seq(ToSet(Tables))
    BY <1>4, SeqDef
  <1>6. QED
    BY <1>1, <1>2, <1>5

\* The table that is emptied next, by what is left to do.
LEMMA NextTable ==
  ASSUME Cleared, ClearTable
  PROVE  /\ Len(todo) \in 1..10 /\ Head(todo) = Tables[11 - Len(todo)]
         /\ todo' \in Seq(ToSet(Tables)) /\ Len(todo') = Len(todo) - 1
         /\ \A i \in 1..Len(todo') : todo'[i] = Tables[10 - Len(todo') + i]
  <1>1. /\ todo \in Seq(ToSet(Tables)) /\ todo # <<>> /\ todo' = Tail(todo)
        /\ Len(todo) <= 10 /\ \A i \in 1..Len(todo) : todo[i] = Tables[10 - Len(todo) + i]
    BY DEF Cleared, ClearTable
  <1>2. /\ Len(todo) \in Nat /\ Len(todo) # 0 /\ Head(todo) = todo[1]
        /\ todo' \in Seq(ToSet(Tables)) /\ Len(todo') = Len(todo) - 1
        /\ \A i \in 1..Len(todo') : todo'[i] = todo[i + 1]
    BY <1>1, HeadTailProperties, EmptySeq
  <1>3. 1 \in 1..Len(todo) /\ 10 - Len(todo) + 1 = 11 - Len(todo)
    BY <1>2
  <1>4. Head(todo) = Tables[11 - Len(todo)]
    BY <1>1, <1>2, <1>3
  <1>5. ASSUME NEW i \in 1..Len(todo') PROVE todo'[i] = Tables[10 - Len(todo') + i]
    <2>1. i + 1 \in 1..Len(todo) /\ 10 - Len(todo) + (i + 1) = 10 - Len(todo') + i
      BY <1>2
    <2>2. QED
      BY <1>1, <1>2, <2>1
  <1>6. QED
    <2> DEFINE n == Len(todo)
    <2>1. n \in Nat /\ n # 0 /\ n <= 10
      BY <1>1, <1>2
    <2>2. n \in 1..10
      <3> HIDE DEF n
      <3>1. QED
        BY <2>1
    <2>3. QED
      BY <1>2, <1>4, <1>5, <2>2

\* ... and its name.
LEMMA NextName ==
  ASSUME Cleared, ClearTable
  PROVE  /\ Len(todo) = 10 => Head(todo) = "span_links"
         /\ Len(todo) = 9 => Head(todo) = "spans"
         /\ Len(todo) = 8 => Head(todo) = "trace_summaries"
         /\ Len(todo) = 7 => Head(todo) = "metric_exemplars"
         /\ Len(todo) = 6 => Head(todo) = "metric_points"
         /\ Len(todo) = 5 => Head(todo) = "logs"
         /\ Len(todo) = 4 => Head(todo) = "metric_series"
         /\ Len(todo) = 3 => Head(todo) = "histogram_layouts"
         /\ Len(todo) = 2 => Head(todo) = "resources"
         /\ Len(todo) = 1 => Head(todo) = "dropped_traces"
  <1> DEFINE n == Len(todo)
             m == 11 - n
  <1>1. n \in 1..10 /\ Head(todo) = Tables[m]
    BY NextTable
  <1> HIDE DEF Tables, n
  <1>2. /\ n = 10 => m = 1
        /\ n = 9 => m = 2
        /\ n = 8 => m = 3
        /\ n = 7 => m = 4
        /\ n = 6 => m = 5
        /\ n = 5 => m = 6
        /\ n = 4 => m = 7
        /\ n = 3 => m = 8
        /\ n = 2 => m = 9
        /\ n = 1 => m = 10
    OBVIOUS
  <1> HIDE DEF m
  <1>3. /\ n = 10 => Head(todo) = "span_links"
        /\ n = 9 => Head(todo) = "spans"
        /\ n = 8 => Head(todo) = "trace_summaries"
        /\ n = 7 => Head(todo) = "metric_exemplars"
        /\ n = 6 => Head(todo) = "metric_points"
        /\ n = 5 => Head(todo) = "logs"
        /\ n = 4 => Head(todo) = "metric_series"
        /\ n = 3 => Head(todo) = "histogram_layouts"
        /\ n = 2 => Head(todo) = "resources"
        /\ n = 1 => Head(todo) = "dropped_traces"
    BY <1>1, <1>2, TableNames
  <1>4. QED
    BY <1>3 DEF n

\* Every statement of a clear empties the table it says.
LEMMA ClearedNext == Cleared /\ [Next]_vars => Cleared'
  <1> SUFFICES ASSUME Cleared, [Next]_vars PROVE Cleared'
    OBVIOUS
  <1>1. ASSUME pc' # "clear" PROVE Cleared'
    BY <1>1 DEF Cleared
  <1>2. CASE Tick \/ UNCHANGED vars
    BY <1>2 DEF Tick, Cleared, vars, dims, facts, traceTables, hand
  <1>3. CASE UpsertResource
    BY <1>1, <1>3 DEF UpsertResource
  <1>4. CASE BeginTraces \/ BeginLogs \/ BeginMetrics \/ BeginSweep
    BY <1>1, <1>4 DEF BeginTraces, BeginLogs, BeginMetrics, BeginBatch, BeginSweep
  <1>5. CASE WriteFails \/ RollbackMetrics \/ CommitMetrics \/ AppendLogs \/ AppendLogsFails
    BY <1>1, <1>5 DEF WriteFails, RollbackMetrics, CommitMetrics, AppendLogs, AppendLogsFails, Finish
  <1>6. CASE WriteSpans \/ WriteSpansFails \/ UnderMaxSize \/ SweepFails \/ ClearCheckpoint
              \/ ClearFails \/ Restart
    BY <1>1, <1>6 DEF WriteSpans, WriteSpansFails, UnderMaxSize, SweepFails, ClearCheckpoint,
                      ClearFails, Restart, Finish
  <1>7. CASE Expire \/ PruneSeries \/ PruneLayouts \/ PruneResources \/ TrimDay
    BY <1>1, <1>7 DEF Expire, PruneSeries, PruneLayouts, PruneResources, TrimDay
  <1>8. CASE SweepCheckpoint \/ FilterDropped
    BY <1>1, <1>8 DEF SweepCheckpoint, FilterDropped, Finish
  <1>9. CASE BeginClear
    <2>1. todo' = Tables /\ Len(Tables) = 10 /\ Tables \in Seq(ToSet(Tables))
      BY <1>9, TableNames DEF BeginClear
    <2> HIDE DEF Tables
    <2>2. \A i \in 1..10 : 10 - 10 + i = i
      OBVIOUS
    <2>3. ToSet(Tables)' = ToSet(Tables)
      OBVIOUS
    <2>4. QED
      BY <2>1, <2>2 DEF Cleared
  <1>10. CASE ClearTable
    <2> DEFINE n == Len(todo)
    <2>1. /\ n \in 1..10 /\ Head(todo) = Tables[11 - n]
          /\ todo' \in Seq(ToSet(Tables)) /\ Len(todo') = n - 1
          /\ \A i \in 1..Len(todo') : todo'[i] = Tables[10 - Len(todo') + i]
      BY <1>10, NextTable
    <2>2. /\ n <= 9 => links = {}
          /\ n <= 8 => spans = {}
          /\ n <= 7 => summaries = Empty
          /\ n <= 5 => points = {}
          /\ n <= 4 => logs = {}
          /\ n <= 3 => series = Empty
          /\ n <= 2 => layouts = {}
          /\ n <= 1 => resources = {}
      BY <1>10 DEF ClearTable, Cleared
    <2> HIDE DEF n
    <2>3. /\ n = 10 => Head(todo) = "span_links"
          /\ n = 9 => Head(todo) = "spans"
          /\ n = 8 => Head(todo) = "trace_summaries"
          /\ n = 6 => Head(todo) = "metric_points"
          /\ n = 5 => Head(todo) = "logs"
          /\ n = 4 => Head(todo) = "metric_series"
          /\ n = 3 => Head(todo) = "histogram_layouts"
          /\ n = 2 => Head(todo) = "resources"
          /\ n = 1 => Head(todo) = "dropped_traces"
      BY <1>10, NextName DEF n
    <2>4. /\ n - 1 <= 9 => links' = {}
          /\ n - 1 <= 8 => spans' = {}
          /\ n - 1 <= 7 => summaries' = Empty
      BY <1>10, <2>1, <2>2, <2>3 DEF ClearTable
    <2>5. /\ n - 1 <= 5 => points' = {}
          /\ n - 1 <= 4 => logs' = {}
          /\ n - 1 <= 3 => series' = Empty
      BY <1>10, <2>1, <2>2, <2>3 DEF ClearTable
    <2>6. /\ n - 1 <= 2 => layouts' = {}
          /\ n - 1 <= 1 => resources' = {}
          /\ n - 1 <= 0 => tombstones' = Empty
      BY <1>10, <2>1, <2>2, <2>3 DEF ClearTable
    <2>7. Len(todo') <= 10
      BY <2>1
    <2>8. Empty' = Empty
      BY DEF Empty
    <2>9. QED
      BY <2>1, <2>4, <2>5, <2>6, <2>7, <2>8 DEF Cleared
  <1>11. QED
    BY <1>2, <1>3, <1>4, <1>5, <1>6, <1>7, <1>8, <1>9, <1>10 DEF Next

----
(* A span is stored once, and what indexes the spans agrees with them.     *)

\* Every stored span is looked up by the next batch with its trace.
LookedUp == TracesIn(spans) \subseteq DOMAIN summaries

UniqueInv == NoDuplicateSpans /\ LookedUp

\* The summaries name the traces that have spans, span_links those spans that
\* have links.
IndexesMatch ==
    pc # "clear" /\ ~torn => DOMAIN summaries = TracesIn(spans) /\ LinksMatchSpans

\* What a write adds, and what it makes of the tables.
LEMMA WriteSpansEffect ==
  ASSUME RowsInHand, UniqueInv, WriteSpans
  PROVE  \E added, over :
            /\ spans' = {s \in spans \cup added : s.trace \notin over}
            /\ links' = {l \in links \cup KeysOf({s \in added : s.links > 0}) : l[1] \notin over}
            /\ DOMAIN summaries' = (DOMAIN summaries \cup TracesIn(added)) \ over
            /\ \A s, o \in spans \cup added : s.trace = o.trace /\ s.id = o.id => s = o
  <1> DEFINE new == NewSpans(batch.spans)
             touched == TracesOf(new)
             over == {t \in touched : Merged(t, new).count > MaxSpansPerTrace}
             added == {Stored(r) : r \in ToSet(new)}
  <1>1. /\ spans' = {s \in spans \cup added : s.trace \notin over}
        /\ links' = {l \in links \cup KeysOf({s \in added : s.links > 0}) : l[1] \notin over}
        /\ DOMAIN summaries' = (DOMAIN summaries \cup (touched \ over)) \ over
        /\ pc = "spans"
    BY DEF WriteSpans
  <1>2. batch.spans \in Seq(ToSet(batch.spans))
    BY <1>1 DEF RowsInHand
  <1>3. \A r \in ToSet(new) :
           ~AlreadyStored(r) /\ \A q \in ToSet(new) : Key(q) = Key(r) => q = r
    BY <1>2, NewRows
  <1>4. ASSUME NEW s \in added PROVE \E r \in ToSet(new) : s = Stored(r) /\ s.trace = r.trace /\ s.id = r.id
    BY DEF Stored
  <1>5. TracesIn(added) = touched
    <2>1. \A r \in ToSet(new) : Stored(r) \in added /\ Stored(r).trace = r.trace
      BY DEF Stored
    <2>2. \A t : t \in touched <=> \E r \in ToSet(new) : t = r.trace
      BY DEF TracesOf
    <2> HIDE DEF new, touched, added
    <2>3. QED
      BY <1>4, <2>1, <2>2 DEF TracesIn
  <1> HIDE DEF new, touched, over, added
  <1>6. ASSUME NEW s \in added, NEW o \in added, s.trace = o.trace, s.id = o.id PROVE s = o
    <2>1. PICK r \in ToSet(new) : s = Stored(r) /\ s.trace = r.trace /\ s.id = r.id
      BY <1>4
    <2>2. PICK q \in ToSet(new) : o = Stored(q) /\ o.trace = q.trace /\ o.id = q.id
      BY <1>4
    <2>3. q = r
      BY <1>3, <1>6, <2>1, <2>2 DEF Key
    <2>4. QED
      BY <2>1, <2>2, <2>3
  <1>7. ASSUME NEW s \in spans, NEW o \in added, s.trace = o.trace, s.id = o.id PROVE FALSE
    <2>1. PICK r \in ToSet(new) : o.trace = r.trace /\ o.id = r.id
      BY <1>4
    <2>2. r.trace \in DOMAIN summaries /\ <<r.trace, r.id>> \in KeysOf(spans)
      BY <1>7, <2>1 DEF UniqueInv, LookedUp, TracesIn, KeysOf
    <2>3. QED
      BY <1>3, <2>2 DEF AlreadyStored, Key
  <1>8. \A s, o \in spans \cup added : s.trace = o.trace /\ s.id = o.id => s = o
    BY <1>6, <1>7 DEF UniqueInv, NoDuplicateSpans
  <1>9. DOMAIN summaries' = (DOMAIN summaries \cup TracesIn(added)) \ over
    BY <1>1, <1>5
  <1>10. QED
    BY <1>1, <1>8, <1>9

\* Every statement keeps the keys of the spans unique.
LEMMA UniqueNext == RowsInHand /\ Cleared /\ UniqueInv /\ [Next]_vars => UniqueInv'
  <1> SUFFICES ASSUME RowsInHand, Cleared, UniqueInv, [Next]_vars PROVE UniqueInv'
    OBVIOUS
  <1>1. ASSUME UNCHANGED traceTables PROVE UniqueInv'
    BY <1>1 DEF UniqueInv, NoDuplicateSpans, LookedUp, TracesIn, traceTables
  <1>2. ASSUME UNCHANGED <<spans, links, summaries>> PROVE UniqueInv'
    BY <1>2 DEF UniqueInv, NoDuplicateSpans, LookedUp, TracesIn
  <1>3. CASE Tick \/ UpsertResource \/ UNCHANGED vars
    BY <1>1, <1>3 DEF Tick, UpsertResource, vars, facts
  <1>4. CASE BeginTraces \/ BeginLogs \/ BeginMetrics \/ BeginSweep \/ BeginClear
    BY <1>1, <1>4 DEF BeginTraces, BeginLogs, BeginMetrics, BeginBatch, BeginSweep, BeginClear, facts
  <1>5. CASE WriteFails \/ RollbackMetrics \/ CommitMetrics \/ AppendLogs \/ AppendLogsFails
    BY <1>1, <1>5 DEF WriteFails, RollbackMetrics, CommitMetrics, AppendLogs, AppendLogsFails, facts
  <1>6. CASE WriteSpansFails \/ UnderMaxSize \/ SweepFails \/ ClearCheckpoint \/ ClearFails \/ Restart
    BY <1>1, <1>6 DEF WriteSpansFails, UnderMaxSize, SweepFails, ClearCheckpoint, ClearFails, Restart, facts
  <1>7. CASE PruneSeries \/ PruneLayouts \/ PruneResources \/ SweepCheckpoint
    BY <1>1, <1>7 DEF PruneSeries, PruneLayouts, PruneResources, SweepCheckpoint, facts
  <1>8. CASE FilterDropped
    BY <1>2, <1>8 DEF FilterDropped
  <1>9. CASE Expire \/ TrimDay
    <2>1. PICK cutoff : DeleteFactsBefore(cutoff)
      BY <1>9 DEF Expire, TrimDay
    <2> DEFINE old == {s \in spans : s.start < cutoff}
               left == spans \ old
    <2>2. /\ spans' = left
          /\ DOMAIN summaries' = (DOMAIN summaries \ TracesIn(old)) \cup (TracesIn(old) \cap TracesIn(left))
      BY <2>1 DEF DeleteFactsBefore
    <2>3. left \subseteq spans /\ TracesIn(left) \subseteq TracesIn(spans)
      BY DEF TracesIn
    <2> HIDE DEF old, left
    <2>4. NoDuplicateSpans'
      BY <2>2, <2>3 DEF UniqueInv, NoDuplicateSpans
    <2>5. TracesIn(spans)' = TracesIn(left)
      BY <2>2 DEF TracesIn
    <2>6. LookedUp'
      BY <2>2, <2>3, <2>5 DEF UniqueInv, LookedUp
    <2>7. QED
      BY <2>4, <2>6 DEF UniqueInv
  <1>10. CASE ClearTable
    <2>1. spans' \subseteq spans
      BY <1>10 DEF ClearTable
    <2>2. NoDuplicateSpans'
      BY <2>1 DEF UniqueInv, NoDuplicateSpans
    <2>3. CASE spans = {}
      BY <2>1, <2>2, <2>3 DEF UniqueInv, LookedUp, TracesIn
    <2>4. CASE spans # {}
      <3>1. Len(todo) \in 1..10
        BY <1>10, NextTable
      <3>2. Len(todo) \in {9, 10}
        BY <1>10, <2>4, <3>1 DEF Cleared, ClearTable
      <3>3. Head(todo) \in {"span_links", "spans"}
        BY <1>10, <3>2, NextName
      <3>4. Head(todo) # "trace_summaries"
        BY <3>3
      <3>5. summaries' = summaries
        BY <1>10, <3>4 DEF ClearTable
      <3>6. QED
        BY <2>1, <2>2, <3>5 DEF UniqueInv, LookedUp, TracesIn
    <2>5. QED
      BY <2>3, <2>4
  <1>11. CASE WriteSpans
    <2>1. PICK added, over :
            /\ spans' = {s \in spans \cup added : s.trace \notin over}
            /\ DOMAIN summaries' = (DOMAIN summaries \cup TracesIn(added)) \ over
            /\ \A s, o \in spans \cup added : s.trace = o.trace /\ s.id = o.id => s = o
      BY <1>11, WriteSpansEffect
    <2>2. NoDuplicateSpans'
      BY <2>1 DEF NoDuplicateSpans
    <2>3. LookedUp'
      BY <2>1 DEF UniqueInv, LookedUp, TracesIn
    <2>4. QED
      BY <2>2, <2>3 DEF UniqueInv
  <1>12. QED
    BY <1>3, <1>4, <1>5, <1>6, <1>7, <1>8, <1>9, <1>10, <1>11 DEF Next

StoredOnce == RowsInHand /\ Cleared /\ UniqueInv

\* The tables start empty.
LEMMA StoredOnceInit == Init => StoredOnce
  BY HandInit DEF Init, StoredOnce, Cleared, UniqueInv, NoDuplicateSpans, LookedUp, TracesIn

\* The three parts together are inductive.
LEMMA StoredOnceNext == StoredOnce /\ [Next]_vars => StoredOnce'
  BY HandNext, ClearedNext, UniqueNext DEF StoredOnce

\* filterNewSpans: a span that is sent again, in the same batch or a later
\* one, across sweeps, failures, restarts and clears cut short at any table,
\* is stored once.  It relies on the summary of a trace outliving its spans in
\* every partial state: only traces that have one are looked up.
THEOREM SpansAreUnique == Spec => []NoDuplicateSpans
  <1>1. StoredOnce => NoDuplicateSpans
    BY DEF StoredOnce, UniqueInv
  <1>2. QED
    BY <1>1, StoredOnceInit, StoredOnceNext, PTL DEF Spec

\* Every statement keeps summaries and links in step with the spans.
LEMMA IndexesNext == StoredOnce /\ IndexesMatch /\ [Next]_vars => IndexesMatch'
  <1> SUFFICES ASSUME StoredOnce, IndexesMatch, [Next]_vars PROVE IndexesMatch'
    OBVIOUS
  <1>1. ASSUME UNCHANGED <<spans, links, summaries>>, pc' # "clear" /\ ~torn' => pc # "clear" /\ ~torn
        PROVE  IndexesMatch'
    BY <1>1 DEF IndexesMatch, LinksMatchSpans, TracesIn, KeysOf
  <1>2. ASSUME pc' = "clear" PROVE IndexesMatch'
    BY <1>2 DEF IndexesMatch
  <1>3. CASE Tick \/ UNCHANGED vars
    BY <1>1, <1>3 DEF Tick, vars, facts, traceTables
  <1>4. CASE UpsertResource
    BY <1>1, <1>4 DEF UpsertResource, facts, traceTables
  <1>5. CASE BeginTraces \/ BeginLogs \/ BeginMetrics \/ BeginSweep
    BY <1>1, <1>5 DEF BeginTraces, BeginLogs, BeginMetrics, BeginBatch, BeginSweep, Begin, facts, traceTables
  <1>6. CASE BeginClear \/ ClearTable
    BY <1>2, <1>6 DEF BeginClear, ClearTable
  <1>7. CASE WriteFails \/ RollbackMetrics \/ CommitMetrics \/ AppendLogs \/ AppendLogsFails
    BY <1>1, <1>7 DEF WriteFails, RollbackMetrics, CommitMetrics, AppendLogs, AppendLogsFails, facts, traceTables
  <1>8. CASE WriteSpansFails \/ UnderMaxSize \/ SweepFails
    BY <1>1, <1>8 DEF WriteSpansFails, UnderMaxSize, SweepFails, Sweeping, facts, traceTables
  <1>9. CASE ClearFails \/ Restart
    BY <1>1, <1>9 DEF ClearFails, Restart, facts, traceTables
  <1>10. CASE PruneSeries \/ PruneLayouts \/ PruneResources \/ SweepCheckpoint
    BY <1>1, <1>10 DEF PruneSeries, PruneLayouts, PruneResources, SweepCheckpoint, facts, traceTables
  <1>11. CASE FilterDropped
    BY <1>1, <1>11 DEF FilterDropped
  <1>12. CASE ClearCheckpoint
    <2>1. Len(todo) = 0 /\ pc = "clear" /\ UNCHANGED <<spans, links, summaries>>
      BY <1>12, EmptySeq DEF ClearCheckpoint, facts, traceTables
    <2>2. links = {} /\ spans = {} /\ summaries = Empty /\ DOMAIN Empty = {}
      BY <2>1 DEF StoredOnce, Cleared, Empty
    <2>3. QED
      BY <2>1, <2>2 DEF IndexesMatch, LinksMatchSpans, TracesIn, KeysOf
  <1>13. CASE Expire \/ TrimDay
    <2>1. PICK cutoff : DeleteFactsBefore(cutoff)
      BY <1>13 DEF Expire, TrimDay
    <2>2. pc \notin {"clear"} /\ torn' = torn
      BY <1>13 DEF Expire, TrimDay
    <2> DEFINE old == {s \in spans : s.start < cutoff}
               left == spans \ old
    <2>3. /\ spans' = left /\ links' = links \ KeysOf(old)
          /\ DOMAIN summaries' = (DOMAIN summaries \ TracesIn(old)) \cup (TracesIn(old) \cap TracesIn(left))
      BY <2>1 DEF DeleteFactsBefore, LinksLeft
    <2>4. spans = old \cup left /\ old \cap left = {}
      OBVIOUS
    <2> HIDE DEF old, left
    <2>5. ASSUME ~torn PROVE DOMAIN summaries' = TracesIn(spans')
      <3>1. DOMAIN summaries = TracesIn(spans)
        BY <2>2, <2>5 DEF IndexesMatch
      <3>2. TracesIn(spans) = TracesIn(old) \cup TracesIn(left)
        BY <2>4 DEF TracesIn
      <3>3. QED
        BY <2>3, <3>1, <3>2
    <2>6. ASSUME ~torn PROVE links' = KeysOf({s \in left : s.links > 0})
      <3>1. links = KeysOf({s \in spans : s.links > 0})
        BY <2>2, <2>6 DEF IndexesMatch, LinksMatchSpans
      <3>2. ASSUME NEW s \in left, NEW o \in old PROVE <<s.trace, s.id>> # <<o.trace, o.id>>
        BY <2>4, <3>2 DEF StoredOnce, UniqueInv, NoDuplicateSpans
      <3>3. ASSUME NEW l \in links' PROVE l \in KeysOf({s \in left : s.links > 0})
        <4>1. PICK s \in spans : s.links > 0 /\ l = <<s.trace, s.id>>
          BY <2>3, <3>1 DEF KeysOf
        <4>2. s \notin old
          BY <2>3, <4>1 DEF KeysOf
        <4>3. QED
          BY <2>4, <4>1, <4>2 DEF KeysOf
      <3>4. ASSUME NEW s \in left, s.links > 0 PROVE <<s.trace, s.id>> \in links'
        <4>1. <<s.trace, s.id>> \in links
          BY <2>4, <3>1, <3>4 DEF KeysOf
        <4>2. <<s.trace, s.id>> \notin KeysOf(old)
          BY <3>2 DEF KeysOf
        <4>3. QED
          BY <2>3, <4>1, <4>2
      <3>5. QED
        BY <3>3, <3>4 DEF KeysOf
    <2>7. QED
      BY <2>2, <2>3, <2>5, <2>6 DEF IndexesMatch, LinksMatchSpans, TracesIn, KeysOf
  <1>14. CASE WriteSpans
    <2>1. PICK added, over :
            /\ spans' = {s \in spans \cup added : s.trace \notin over}
            /\ links' = {l \in links \cup KeysOf({s \in added : s.links > 0}) : l[1] \notin over}
            /\ DOMAIN summaries' = (DOMAIN summaries \cup TracesIn(added)) \ over
      BY <1>14, WriteSpansEffect DEF StoredOnce
    <2>2. pc = "spans" /\ torn' = torn
      BY <1>14 DEF WriteSpans
    <2>3. ASSUME ~torn PROVE DOMAIN summaries' = TracesIn(spans')
      <3>1. DOMAIN summaries = TracesIn(spans)
        BY <2>2, <2>3 DEF IndexesMatch
      <3>2. QED
        BY <2>1, <3>1 DEF TracesIn
    <2>4. ASSUME ~torn PROVE links' = KeysOf({s \in spans' : s.links > 0})
      <3>1. links = KeysOf({s \in spans : s.links > 0})
        BY <2>2, <2>4 DEF IndexesMatch, LinksMatchSpans
      <3>2. ASSUME NEW l \in links' PROVE l \in KeysOf({s \in spans' : s.links > 0})
        <4>1. PICK s \in spans \cup added : s.links > 0 /\ l = <<s.trace, s.id>>
          BY <2>1, <3>1 DEF KeysOf
        <4>2. s \in spans'
          BY <2>1, <4>1
        <4>3. QED
          BY <4>1, <4>2 DEF KeysOf
      <3>3. ASSUME NEW s \in spans', s.links > 0 PROVE <<s.trace, s.id>> \in links'
        <4>1. <<s.trace, s.id>> \in links \cup KeysOf({o \in added : o.links > 0})
          BY <2>1, <3>1, <3>3 DEF KeysOf
        <4>2. QED
          BY <2>1, <4>1
      <3>4. QED
        BY <3>2, <3>3 DEF KeysOf
    <2>5. QED
      BY <2>2, <2>3, <2>4 DEF IndexesMatch, LinksMatchSpans, TracesIn, KeysOf
  <1>15. QED
    BY <1>3, <1>4, <1>5, <1>6, <1>7, <1>8, <1>9, <1>10, <1>11, <1>12, <1>13, <1>14 DEF Next

\* Outside a clear, and unless one was cut short, the traces with a summary
\* are those with a stored span, and span_links holds the links of the stored
\* spans and of no other: the part of DerivedTablesMatch that does not speak
\* of what is in a summary.  Deleting the links of expired spans by their keys
\* is right because a key is stored once.
THEOREM IndexesMatchSpans == Spec => []IndexesMatch
  <1>1. Init => IndexesMatch
    BY DEF Init, IndexesMatch, LinksMatchSpans, TracesIn, KeysOf, Empty
  <1>2. QED
    BY <1>1, StoredOnceInit, StoredOnceNext, IndexesNext, PTL DEF Spec

----
(* Every row has its dimensions, and the cache vouches for what is there.  *)

\* A sequence over S, and what is in it.
LEMMA SeqElements ==
  ASSUME NEW S, NEW q \in Seq(S)
  PROVE  q \in Seq(ToSet(q)) /\ ToSet(q) \subseteq S
  BY DEF ToSet

\* The cache after a hit, and after a miss.
LEMMA CacheKeys ==
  ASSUME NEW c, c \in Seq(ToSet(c)), NEW r
  PROVE  /\ /\ CacheAdd(c, r) \in Seq(ToSet(CacheAdd(c, r)))
            /\ ToSet(CacheAdd(c, r)) \subseteq ToSet(c) \cup {r}
         /\ Contains(c, r) =>
              /\ Touch(c, r) \in Seq(ToSet(Touch(c, r)))
              /\ ToSet(Touch(c, r)) \subseteq ToSet(c) \cup {r}
  <1> DEFINE S == ToSet(c) \cup {r}
  <1>1. c \in Seq(S) /\ <<r>> \in Seq(S)
    BY SeqMonotonic
  <1>2. Len(c) \in Nat /\ DOMAIN c = 1..Len(c) /\ CacheCap \in Nat \ {0}
    BY StoreAssumption
  <1> HIDE DEF S
  <1>3. ASSUME NEW m \in 1..(Len(c) + 1), NEW n \in (m - 1)..Len(c) PROVE SubSeq(c, m, n) \in Seq(S)
    BY <1>1, SubSeqProperties
  <1>4. CacheAdd(c, r) \in Seq(S)
    <2>1. CASE Len(c) < CacheCap
      BY <1>1, <2>1, ConcatProperties DEF CacheAdd
    <2>2. CASE ~(Len(c) < CacheCap)
      <3>1. CacheCap - 1 \in 0..Len(c) /\ 1 \in 1..(Len(c) + 1) /\ 1 - 1 = 0
        BY <1>2, <2>2
      <3>2. SubSeq(c, 1, CacheCap - 1) \in Seq(S)
        BY <1>3, <3>1
      <3>3. QED
        BY <1>1, <2>2, <3>2, ConcatProperties DEF CacheAdd
    <2>3. QED
      BY <2>1, <2>2
  <1>5. ASSUME Contains(c, r) PROVE Touch(c, r) \in Seq(S)
    <2> DEFINE i == CHOOSE k \in DOMAIN c : c[k] = r
    <2>1. i \in 1..Len(c)
      BY <1>2, <1>5 DEF Contains
    <2> HIDE DEF i
    <2>2. /\ 1 \in 1..(Len(c) + 1) /\ i - 1 \in (1 - 1)..Len(c)
          /\ i + 1 \in 1..(Len(c) + 1) /\ Len(c) \in (i + 1 - 1)..Len(c)
      BY <1>2, <2>1
    <2>3. SubSeq(c, 1, i - 1) \in Seq(S) /\ SubSeq(c, i + 1, Len(c)) \in Seq(S)
      BY <1>3, <2>2
    <2>4. SubSeq(c, 1, i - 1) \o SubSeq(c, i + 1, Len(c)) \in Seq(S)
      BY <2>3, ConcatProperties
    <2>5. Touch(c, r) = <<r>> \o (SubSeq(c, 1, i - 1) \o SubSeq(c, i + 1, Len(c)))
      BY DEF Touch, RemoveAt, i
    <2>6. QED
      BY <1>1, <2>4, <2>5, ConcatProperties
  <1>6. QED
    BY <1>4, <1>5, SeqElements DEF S

Writing == pc \in {"traces", "logs", "metrics"}

SeqsTyped ==
    /\ cache \in Seq(ToSet(cache))
    /\ Writing => todo \in Seq(ToSet(todo))

\* Cache and work in hand stay sequences.
LEMMA SeqsNext == RowsInHand /\ SeqsTyped /\ [Next]_vars => SeqsTyped'
  <1> SUFFICES ASSUME RowsInHand, SeqsTyped, [Next]_vars PROVE SeqsTyped'
    OBVIOUS
  <1> USE DEF SeqsTyped, Writing
  <1>1. <<>> \in Seq(ToSet(<<>>))
    BY DEF ToSet
  <1>2. CASE UpsertResource
    <2>1. todo \in Seq(ToSet(todo)) /\ todo # <<>> /\ todo' = Tail(todo)
      BY <1>2 DEF UpsertResource
    <2>2. todo' \in Seq(ToSet(todo'))
      BY <2>1, HeadTailProperties, SeqElements
    <2>3. cache' \in Seq(ToSet(cache'))
      BY <1>2, CacheKeys DEF UpsertResource
    <2>4. QED
      BY <2>2, <2>3
  <1>3. CASE BeginTraces \/ BeginLogs \/ BeginMetrics
    <2>1. todo' \in Seq(ToSet(todo')) /\ cache' = cache
      BY <1>3, BatchTypes DEF BeginTraces, BeginLogs, BeginMetrics, BeginBatch
    <2>2. QED
      BY <2>1
  <1>4. ASSUME cache' = cache \/ cache' = <<>>, ~Writing' \/ UNCHANGED <<pc, todo>> PROVE SeqsTyped'
    BY <1>1, <1>4
  <1>5. CASE Tick \/ UNCHANGED vars
    BY <1>4, <1>5 DEF Tick, vars, hand
  <1>6. CASE BeginSweep \/ BeginClear \/ ClearTable
    BY <1>4, <1>6 DEF BeginSweep, BeginClear, ClearTable
  <1>7. CASE WriteFails \/ RollbackMetrics \/ CommitMetrics \/ AppendLogs \/ AppendLogsFails
    BY <1>4, <1>7 DEF WriteFails, RollbackMetrics, CommitMetrics, AppendLogs, AppendLogsFails, Finish
  <1>8. CASE WriteSpans \/ WriteSpansFails \/ UnderMaxSize \/ SweepFails \/ ClearCheckpoint
              \/ ClearFails \/ Restart
    BY <1>4, <1>8 DEF WriteSpans, WriteSpansFails, UnderMaxSize, SweepFails, ClearCheckpoint,
                      ClearFails, Restart, Finish
  <1>9. CASE Expire \/ PruneSeries \/ PruneLayouts \/ PruneResources \/ TrimDay
    BY <1>4, <1>9 DEF Expire, PruneSeries, PruneLayouts, PruneResources, TrimDay
  <1>10. CASE SweepCheckpoint \/ FilterDropped
    BY <1>4, <1>10 DEF SweepCheckpoint, FilterDropped, Finish
  <1>11. QED
    BY <1>2, <1>3, <1>5, <1>6, <1>7, <1>8, <1>9, <1>10 DEF Next

\* What a row needs is there; while a batch is written its resources are there
\* or still to be upserted, and what a rollback would leave is enough.
DimsHold ==
    /\ DimensionsExist
    /\ NoLayout \notin layouts
    /\ CacheSound
    /\ Writing => ToSet(batch.resources) \subseteq resources \cup ToSet(todo)
    /\ pc = "spans" => {r.res : r \in ToSet(batch.spans)} \subseteq resources
    /\ pc = "metrics" => ResourcesUsed \subseteq snapshot /\ snapshot \subseteq resources
    /\ pc \in {"layouts", "resources"} => DOMAIN series = {p.series : p \in points}
    /\ pc = "resources" => layouts = LayoutsUsed \ {NoLayout}
    /\ NoOrphansAfterPrune

DimsInv == ~torn => DimsHold

\* A step after which the writer writes no batch and is in no prune.
Quiet(p) == p \in {"idle", "expire", "size", "series", "clear"}

\* Between statements only existence and the cache matter.
LEMMA QuietHolds ==
  ASSUME DimensionsExist', NoLayout \notin layouts', Quiet(pc'), CacheSound'
  PROVE  DimsHold'
  BY DEF DimsHold, Quiet, Writing, NoOrphansAfterPrune

\* The dimensions stay while facts only go.
LEMMA FactsGo ==
  ASSUME DimensionsExist, UNCHANGED <<resources, series, layouts>>,
         spans' \subseteq spans, logs' \subseteq logs, points' \subseteq points
  PROVE  DimensionsExist'
  BY DEF DimensionsExist, Range

\* The steps of a write.
LEMMA DimsWrite ==
  ASSUME RowsInHand, SeqsTyped, DimsHold, ~torn,
         \/ BeginTraces \/ BeginLogs \/ BeginMetrics \/ UpsertResource \/ WriteFails
         \/ RollbackMetrics \/ CommitMetrics \/ AppendLogs \/ AppendLogsFails
         \/ FilterDropped \/ WriteSpans \/ WriteSpansFails
  PROVE  DimsHold'
  <1>1. CASE BeginTraces \/ BeginLogs \/ BeginMetrics
    <2>1. /\ pc = "idle" /\ Writing' /\ todo' = batch'.resources /\ snapshot' = resources
          /\ UNCHANGED <<resources, series, layouts, cache, spans, logs, points>>
          /\ pc' \notin {"spans", "layouts", "resources", "checkpoint", "clear"}
      BY <1>1 DEF BeginTraces, BeginLogs, BeginMetrics, BeginBatch, Begin, Writing, dims, facts, traceTables
    <2>2. DimensionsExist'
      BY <2>1, FactsGo DEF DimsHold
    <2>3. ResourcesUsed' \subseteq resources
      BY <2>1 DEF DimsHold, DimensionsExist, ResourcesUsed, Range
    <2>4. CacheSound'
      BY <2>1 DEF DimsHold, CacheSound
    <2>5. QED
      BY <2>1, <2>2, <2>3, <2>4 DEF DimsHold, NoOrphansAfterPrune
  <1>2. CASE UpsertResource
    <2> DEFINE r == Head(todo)
    <2>1. /\ Writing /\ todo \in Seq(ToSet(todo)) /\ todo # <<>> /\ todo' = Tail(todo)
          /\ UNCHANGED <<series, layouts, spans, logs, points, pc, batch, snapshot>>
          /\ pc \in {"traces", "logs", "metrics"}
      BY <1>2 DEF UpsertResource, SeqsTyped, Writing, facts, traceTables
    <2>2. ToSet(todo) \subseteq ToSet(todo') \cup {r}
      <3>1. /\ Len(todo) \in Nat /\ DOMAIN todo = 1..Len(todo) /\ r = todo[1]
            /\ todo' \in Seq(ToSet(todo)) /\ Len(todo') = Len(todo) - 1
            /\ \A i \in 1..Len(todo') : todo'[i] = todo[i + 1]
        BY <2>1, HeadTailProperties
      <3>2. DOMAIN todo' = 1..Len(todo')
        BY <3>1
      <3>3. ASSUME NEW i \in 1..Len(todo), i # 1 PROVE todo[i] \in ToSet(todo')
        <4>1. i - 1 \in DOMAIN todo' /\ todo'[i - 1] = todo[i]
          BY <3>1, <3>2, <3>3
        <4>2. QED
          BY <4>1 DEF ToSet
      <3> HIDE DEF r
      <3>4. ASSUME NEW i \in DOMAIN todo PROVE todo[i] \in ToSet(todo') \cup {r}
        BY <3>1, <3>3
      <3>5. QED
        BY <3>4 DEF ToSet
    <2>3. resources \subseteq resources' /\ r \in resources' /\ ToSet(cache') \subseteq resources'
      <3>1. cache \in Seq(ToSet(cache)) /\ ToSet(cache) \subseteq resources
        BY <2>1 DEF SeqsTyped, DimsHold, CacheSound
      <3>2. CASE Contains(cache, r)
        <4>1. resources' = resources /\ cache' = Touch(cache, r)
          BY <1>2, <3>2 DEF UpsertResource
        <4>2. r \in ToSet(cache)
          BY <3>1, <3>2 DEF Contains, ToSet
        <4>3. ToSet(cache') \subseteq ToSet(cache) \cup {r}
          BY <3>1, <3>2, <4>1, CacheKeys
        <4>4. QED
          BY <3>1, <4>1, <4>2, <4>3
      <3>3. CASE ~Contains(cache, r)
        <4>1. resources' = resources \cup {r} /\ cache' = CacheAdd(cache, r)
          BY <1>2, <3>3 DEF UpsertResource
        <4>2. ToSet(cache') \subseteq ToSet(cache) \cup {r}
          BY <3>1, <4>1, CacheKeys
        <4>3. QED
          BY <3>1, <4>1, <4>2
      <3>4. QED
        BY <3>2, <3>3
    <2> HIDE DEF r
    <2>4. DimensionsExist'
      BY <2>1, <2>3 DEF DimsHold, DimensionsExist, Range
    <2>5. CacheSound'
      BY <2>3 DEF CacheSound
    <2>6. ToSet(batch'.resources) \subseteq resources' \cup ToSet(todo')
      BY <2>1, <2>2, <2>3 DEF DimsHold
    <2>7. pc = "metrics" => ResourcesUsed' \subseteq snapshot' /\ snapshot' \subseteq resources'
      BY <2>1, <2>3 DEF DimsHold, ResourcesUsed, Range
    <2>8. QED
      BY <2>1, <2>4, <2>5, <2>6, <2>7 DEF DimsHold, NoOrphansAfterPrune
  <1>3. CASE WriteFails \/ WriteSpansFails
    <2>1. /\ UNCHANGED <<resources, series, layouts, cache, spans, logs, points>>
          /\ pc' = "idle" /\ pc # "clear"
      BY <1>3 DEF WriteFails, WriteSpansFails, Finish, dims, facts, traceTables
    <2>2. DimensionsExist' /\ NoLayout \notin layouts' /\ CacheSound'
      BY <2>1, FactsGo DEF DimsHold, CacheSound
    <2>3. QED
      BY <2>1, <2>2, QuietHolds DEF Quiet
  <1>4. CASE RollbackMetrics
    <2>1. /\ resources' = snapshot /\ cache' = <<>> /\ ResourcesUsed \subseteq snapshot
          /\ UNCHANGED <<series, layouts, spans, logs, points>> /\ pc' = "idle"
      BY <1>4 DEF RollbackMetrics, Finish, facts, traceTables, DimsHold
    <2>2. DimensionsExist'
      BY <2>1 DEF DimsHold, DimensionsExist, ResourcesUsed, Range
    <2>3. CacheSound' /\ NoLayout \notin layouts'
      BY <2>1 DEF DimsHold, CacheSound, ToSet
    <2>4. QED
      BY <2>1, <2>2, <2>3, QuietHolds DEF Quiet
  <1>5. CASE CommitMetrics
    <2>1. /\ batch \in MetricBatches /\ pc = "metrics" /\ todo = <<>>
          /\ series' = [s \in DOMAIN series \cup DOMAIN batch.series |->
                          IF s \in DOMAIN series THEN series[s] ELSE batch.series[s]]
          /\ layouts' = layouts \cup ({p.layout : p \in batch.points} \ {NoLayout})
          /\ points' = points \cup batch.points
          /\ UNCHANGED <<resources, cache, spans, logs>> /\ pc' = "idle"
      BY <1>5 DEF CommitMetrics, Finish, traceTables, RowsInHand
    <2>2. ToSet(batch.resources) \subseteq resources
      BY <2>1 DEF DimsHold, Writing, ToSet
    <2>3. Range(batch.series) \subseteq resources /\ {p.series : p \in batch.points} \subseteq DOMAIN batch.series
      BY <2>1, <2>2, BatchAssumption
    <2>4. Range(series) \subseteq resources
      BY DEF DimsHold, DimensionsExist
    <2>5. DOMAIN series' = DOMAIN series \cup DOMAIN batch.series /\ Range(series') \subseteq resources
      BY <2>1, <2>3, <2>4 DEF Range
    <2>6. ASSUME NEW p \in points'
          PROVE  p.series \in DOMAIN series' /\ (p.layout # NoLayout => p.layout \in layouts')
      <3>1. CASE p \in points
        BY <2>1, <2>5, <3>1 DEF DimsHold, DimensionsExist
      <3>2. CASE p \in batch.points
        BY <2>1, <2>3, <2>5, <3>2
      <3>3. QED
        BY <2>1, <3>1, <3>2
    <2>7. DimensionsExist'
      BY <2>1, <2>5, <2>6 DEF DimsHold, DimensionsExist
    <2>8. CacheSound' /\ NoLayout \notin layouts'
      BY <2>1 DEF DimsHold, CacheSound
    <2>9. QED
      BY <2>1, <2>7, <2>8, QuietHolds DEF Quiet
  <1>6. CASE AppendLogs \/ AppendLogsFails
    <2>1. /\ batch \in LogBatches /\ pc = "logs" /\ todo = <<>> /\ logs' \subseteq logs \cup batch.logs
          /\ UNCHANGED <<resources, series, layouts, cache, spans, points>> /\ pc' = "idle"
      BY <1>6 DEF AppendLogs, AppendLogsFails, Finish, dims, traceTables, RowsInHand
    <2>2. {l.res : l \in batch.logs} \subseteq resources
      BY <2>1, BatchAssumption DEF DimsHold, Writing, ToSet
    <2>3. DimensionsExist'
      BY <2>1, <2>2 DEF DimsHold, DimensionsExist
    <2>4. CacheSound' /\ NoLayout \notin layouts'
      BY <2>1 DEF DimsHold, CacheSound
    <2>5. QED
      BY <2>1, <2>3, <2>4, QuietHolds DEF Quiet
  <1>7. CASE FilterDropped
    <2> DEFINE kept == Discard(batch.spans, TracesOf(batch.spans) \cap DOMAIN tombstones)
    <2>1. /\ batch \in TraceBatches /\ pc = "traces" /\ todo = <<>>
          /\ UNCHANGED <<resources, series, layouts, cache, spans, logs, points>>
          /\ \/ pc' = "idle"
             \/ pc' = "spans" /\ batch' = [batch EXCEPT !.spans = kept]
      <3>1. CASE kept = <<>>
        BY <1>7, <3>1 DEF FilterDropped, Finish, dims, RowsInHand
      <3>2. CASE kept # <<>>
        BY <1>7, <3>2 DEF FilterDropped, Finish, dims, RowsInHand
      <3>3. QED
        BY <3>1, <3>2
    <2>2. batch.spans \in Seq(ToSet(batch.spans)) /\ DOMAIN batch = {"resources", "spans"}
      BY <2>1, BatchTypes
    <2>3. ToSet(kept) \subseteq ToSet(batch.spans)
      BY <2>2, DiscardRows
    <2>4. {r.res : r \in ToSet(batch.spans)} \subseteq resources
      BY <2>1, BatchAssumption DEF DimsHold, Writing, ToSet
    <2> HIDE DEF kept
    <2>5. DimensionsExist' /\ CacheSound' /\ NoLayout \notin layouts'
      BY <2>1, FactsGo DEF DimsHold, CacheSound
    <2>6. CASE pc' = "idle"
      BY <2>5, <2>6, QuietHolds DEF Quiet
    <2>7. CASE pc' = "spans" /\ batch' = [batch EXCEPT !.spans = kept]
      <3>1. batch'.spans = kept
        BY <2>2, <2>7
      <3>2. {r.res : r \in ToSet(batch'.spans)} \subseteq resources'
        BY <2>1, <2>3, <2>4, <3>1
      <3>3. QED
        BY <2>5, <2>7, <3>2 DEF DimsHold, Writing, NoOrphansAfterPrune
    <2>8. QED
      BY <2>1, <2>6, <2>7
  <1>8. CASE WriteSpans
    <2> DEFINE new == NewSpans(batch.spans)
               added == {Stored(r) : r \in ToSet(new)}
    <2>1. /\ pc = "spans" /\ pc' = "idle" /\ spans' \subseteq spans \cup added
          /\ UNCHANGED <<resources, series, layouts, cache, logs, points>>
      BY <1>8 DEF WriteSpans, Finish, dims
    <2>2. \A r \in ToSet(new) : r \in ToSet(batch.spans)
      BY <2>1, NewRows DEF RowsInHand
    <2>3. \A s \in added : \E r \in ToSet(new) : s.res = r.res
      BY DEF Stored
    <2> HIDE DEF new, added
    <2>4. \A s \in spans' : s.res \in resources
      <3>1. \A s \in added : s.res \in resources
        BY <2>1, <2>2, <2>3 DEF DimsHold
      <3>2. \A s \in spans : s.res \in resources
        BY DEF DimsHold, DimensionsExist
      <3>3. QED
        BY <2>1, <3>1, <3>2
    <2>5. DimensionsExist'
      BY <2>1, <2>4 DEF DimsHold, DimensionsExist
    <2>6. CacheSound' /\ NoLayout \notin layouts'
      BY <2>1 DEF DimsHold, CacheSound
    <2>7. QED
      BY <2>1, <2>5, <2>6, QuietHolds DEF Quiet
  <1>9. QED
    BY <1>1, <1>2, <1>3, <1>4, <1>5, <1>6, <1>7, <1>8

\* The steps of a sweep.
LEMMA DimsSweep ==
  ASSUME DimsHold, ~torn,
         \/ BeginSweep \/ Expire \/ PruneSeries \/ PruneLayouts \/ PruneResources
         \/ SweepCheckpoint \/ UnderMaxSize \/ TrimDay \/ SweepFails
  PROVE  DimsHold'
  <1>1. CASE BeginSweep \/ UnderMaxSize \/ SweepFails \/ SweepCheckpoint
    <2>1. /\ UNCHANGED <<resources, series, layouts, cache, spans, logs, points>>
          /\ Quiet(pc') /\ pc # "clear"
      BY <1>1 DEF BeginSweep, Begin, UnderMaxSize, SweepFails, SweepCheckpoint, Sweeping,
                  Finish, dims, facts, traceTables, Quiet
    <2>2. DimensionsExist' /\ NoLayout \notin layouts' /\ CacheSound'
      BY <2>1, FactsGo DEF DimsHold, CacheSound
    <2>3. QED
      BY <2>1, <2>2, QuietHolds
  <1>2. CASE Expire \/ TrimDay
    <2>1. /\ UNCHANGED <<resources, series, layouts, cache>>
          /\ spans' \subseteq spans /\ logs' \subseteq logs /\ points' \subseteq points
          /\ pc' = "series" /\ pc # "clear"
      BY <1>2 DEF Expire, TrimDay, DeleteFactsBefore, dims
    <2>2. DimensionsExist' /\ NoLayout \notin layouts' /\ CacheSound'
      BY <2>1, FactsGo DEF DimsHold, CacheSound
    <2>3. QED
      BY <2>1, <2>2, QuietHolds DEF Quiet
  <1>3. CASE PruneSeries
    <2>1. /\ series' = [s \in DOMAIN series \cap {p.series : p \in points} |-> series[s]]
          /\ pc' = "layouts" /\ pc # "clear"
          /\ UNCHANGED <<resources, layouts, cache, spans, logs, points>>
      BY <1>3 DEF PruneSeries, Restrict, facts, traceTables
    <2>2. DOMAIN series' = {p.series : p \in points} /\ Range(series') \subseteq Range(series)
      BY <2>1 DEF DimsHold, DimensionsExist, Range
    <2>3. DimensionsExist'
      BY <2>1, <2>2 DEF DimsHold, DimensionsExist
    <2>4. CacheSound' /\ NoLayout \notin layouts'
      BY <2>1 DEF DimsHold, CacheSound
    <2>5. QED
      BY <2>1, <2>2, <2>3, <2>4 DEF DimsHold, Writing, NoOrphansAfterPrune
  <1>4. CASE PruneLayouts
    <2>1. /\ layouts' = layouts \cap LayoutsUsed
          /\ pc = "layouts" /\ pc' = "resources"
          /\ UNCHANGED <<resources, series, cache, spans, logs, points>>
      BY <1>4 DEF PruneLayouts, LayoutsLeft, facts, traceTables
    <2>2. layouts' = LayoutsUsed' \ {NoLayout}
      BY <2>1 DEF DimsHold, DimensionsExist, LayoutsUsed
    <2>3. DimensionsExist'
      BY <2>1 DEF DimsHold, DimensionsExist, LayoutsUsed
    <2>4. CacheSound' /\ DOMAIN series' = {p.series : p \in points'}
      BY <2>1 DEF DimsHold, CacheSound
    <2>5. QED
      BY <2>1, <2>2, <2>3, <2>4 DEF DimsHold, Writing, NoOrphansAfterPrune
  <1>5. CASE PruneResources
    <2>1. /\ resources' = resources \cap ResourcesUsed /\ cache' = <<>>
          /\ pc = "resources" /\ pc' = "checkpoint"
          /\ UNCHANGED <<series, layouts, spans, logs, points>>
      BY <1>5 DEF PruneResources, facts, traceTables
    <2>2. ResourcesUsed \subseteq resources
      BY DEF DimsHold, DimensionsExist, ResourcesUsed
    <2>3. resources' = {s.res : s \in spans'} \cup {l.res : l \in logs'} \cup Range(series')
      BY <2>1, <2>2 DEF ResourcesUsed
    <2>4. DimensionsExist'
      BY <2>1, <2>3 DEF DimsHold, DimensionsExist
    <2>5. CacheSound'
      BY <2>1 DEF CacheSound, ToSet
    <2>6. NoOrphansAfterPrune'
      BY <2>1, <2>3 DEF DimsHold, NoOrphansAfterPrune, LayoutsUsed
    <2>7. QED
      BY <2>1, <2>4, <2>5, <2>6 DEF DimsHold, Writing
  <1>6. QED
    BY <1>1, <1>2, <1>3, <1>4, <1>5

\* The steps of a clear that is not cut short.
LEMMA DimsClear ==
  ASSUME Cleared, DimsHold, ~torn, BeginClear \/ ClearTable \/ ClearCheckpoint
  PROVE  DimsHold'
  <1>1. CASE BeginClear
    <2>1. /\ UNCHANGED <<resources, series, layouts, cache, spans, logs, points>>
          /\ pc' = "clear"
      BY <1>1 DEF BeginClear, dims, facts, traceTables
    <2>2. DimensionsExist' /\ NoLayout \notin layouts' /\ CacheSound'
      BY <2>1, FactsGo DEF DimsHold, CacheSound
    <2>3. QED
      BY <2>1, <2>2, QuietHolds DEF Quiet
  <1>2. CASE ClearTable
    <2> DEFINE n == Len(todo)
    <2>1. /\ pc = "clear" /\ pc' = "clear"
          /\ spans' \in {spans, {}} /\ logs' \in {logs, {}} /\ points' \in {points, {}}
          /\ series' = IF Head(todo) = "metric_series" THEN Empty ELSE series
          /\ layouts' = IF Head(todo) = "histogram_layouts" THEN {} ELSE layouts
          /\ resources' = IF Head(todo) = "resources" THEN {} ELSE resources
      BY <1>2 DEF ClearTable
    <2>2. n \in 1..10
      BY <1>2, NextTable
    <2>3. /\ n <= 8 => spans = {}
          /\ n <= 5 => points = {}
          /\ n <= 4 => logs = {}
          /\ n <= 3 => series = Empty
      BY <2>1 DEF Cleared
    <2>4. Head(todo) = "metric_series" => n <= 4
      <3>1. \/ n <= 4 \/ n = 5 \/ n = 6 \/ n = 7 \/ n = 8 \/ n = 9 \/ n = 10
        <4> HIDE DEF n
        <4>1. QED
          BY <2>2
      <3>2. QED
        BY <1>2, <3>1, NextName
    <2>5. Head(todo) = "histogram_layouts" => n <= 3
      <3>1. \/ n <= 3 \/ n = 4 \/ n = 5 \/ n = 6 \/ n = 7 \/ n = 8 \/ n = 9 \/ n = 10
        <4> HIDE DEF n
        <4>1. QED
          BY <2>2
      <3>2. QED
        BY <1>2, <3>1, NextName
    <2>6. Head(todo) = "resources" => n <= 2
      <3>1. \/ n <= 2 \/ n = 3 \/ n = 4 \/ n = 5 \/ n = 6 \/ n = 7 \/ n = 8 \/ n = 9 \/ n = 10
        <4> HIDE DEF n
        <4>1. QED
          BY <2>2
      <3>2. QED
        BY <1>2, <3>1, NextName
    <2> HIDE DEF n
    <2>7. Head(todo) \in {"metric_series", "histogram_layouts"} => points = {}
      BY <2>2, <2>3, <2>4, <2>5
    <2>8. Head(todo) = "resources" => spans = {} /\ logs = {} /\ series = Empty
      BY <2>2, <2>3, <2>6
    <2>9. Range(series') \subseteq Range(series) /\ Range(Empty) = {}
      BY <2>1 DEF Range, Empty
    <2>10. {s.res : s \in spans'} \cup {l.res : l \in logs'} \subseteq resources'
      <3>1. CASE Head(todo) = "resources"
        BY <2>1, <2>8, <3>1
      <3>2. CASE Head(todo) # "resources"
        BY <2>1, <3>2 DEF DimsHold, DimensionsExist
      <3>3. QED
        BY <3>1, <3>2
    <2>11. Range(series') \subseteq resources'
      <3>1. CASE Head(todo) = "resources"
        BY <2>1, <2>8, <2>9, <3>1
      <3>2. CASE Head(todo) # "resources"
        BY <2>1, <2>9, <3>2 DEF DimsHold, DimensionsExist
      <3>3. QED
        BY <3>1, <3>2
    <2>12. \A p \in points' : /\ p.series \in DOMAIN series'
                              /\ p.layout # NoLayout => p.layout \in layouts'
      <3>1. CASE Head(todo) \in {"metric_series", "histogram_layouts"}
        BY <2>1, <2>7, <3>1
      <3>2. CASE Head(todo) \notin {"metric_series", "histogram_layouts"}
        BY <2>1, <3>2 DEF DimsHold, DimensionsExist
      <3>3. QED
        BY <3>1, <3>2
    <2>13. DimensionsExist'
      BY <2>10, <2>11, <2>12 DEF DimensionsExist
    <2>14. CacheSound' /\ NoLayout \notin layouts'
      BY <2>1 DEF DimsHold, CacheSound
    <2>15. QED
      BY <2>1, <2>13, <2>14, QuietHolds DEF Quiet
  <1>3. CASE ClearCheckpoint
    <2>1. /\ cache' = <<>> /\ pc' = "idle"
          /\ UNCHANGED <<resources, series, layouts, spans, logs, points>>
      BY <1>3 DEF ClearCheckpoint, Finish, dims, facts, traceTables
    <2>2. DimensionsExist' /\ NoLayout \notin layouts'
      BY <2>1, FactsGo DEF DimsHold
    <2>3. CacheSound'
      BY <2>1 DEF CacheSound, ToSet
    <2>4. QED
      BY <2>1, <2>2, <2>3, QuietHolds DEF Quiet
  <1>4. QED
    BY <1>1, <1>2, <1>3

\* A restart: what the rollback of an open metric transaction leaves is enough.
LEMMA DimsRestart ==
  ASSUME DimsHold, ~torn, Restart, ~torn'
  PROVE  DimsHold'
  <1>1. /\ cache' = <<>> /\ pc' = "idle"
        /\ resources' = IF pc = "metrics" THEN snapshot ELSE resources
        /\ UNCHANGED <<series, layouts, spans, logs, points>>
    BY DEF Restart, Finish, facts, traceTables
  <1>2. DimensionsExist'
    <2>1. pc = "metrics" => ResourcesUsed \subseteq snapshot
      BY DEF DimsHold
    <2>2. ResourcesUsed \subseteq resources'
      BY <1>1, <2>1 DEF DimsHold, DimensionsExist, ResourcesUsed
    <2>3. QED
      BY <1>1, <2>2 DEF DimsHold, DimensionsExist, ResourcesUsed
  <1>3. CacheSound' /\ NoLayout \notin layouts'
    BY <1>1 DEF DimsHold, CacheSound, ToSet
  <1>4. QED
    BY <1>1, <1>2, <1>3, QuietHolds DEF Quiet

\* A clear that completes leaves nothing, even after one that was cut short.
LEMMA WipeHolds == Cleared /\ ClearCheckpoint => DimsHold'
  <1> SUFFICES ASSUME Cleared, ClearCheckpoint PROVE DimsHold'
    OBVIOUS
  <1>1. /\ pc = "clear" /\ todo = <<>> /\ cache' = <<>> /\ pc' = "idle"
        /\ UNCHANGED <<resources, series, layouts, spans, logs, points>>
    BY DEF ClearCheckpoint, Finish, dims, facts, traceTables
  <1>2. Len(todo) = 0
    BY <1>1
  <1>3. spans = {} /\ points = {} /\ logs = {} /\ series = Empty /\ layouts = {} /\ resources = {}
    BY <1>1, <1>2 DEF Cleared
  <1>4. Range(series) = {}
    BY <1>3 DEF Range, Empty
  <1>5. DimensionsExist'
    BY <1>1, <1>3, <1>4 DEF DimensionsExist
  <1>6. CacheSound' /\ NoLayout \notin layouts'
    BY <1>1, <1>3 DEF CacheSound, ToSet
  <1>7. QED
    BY <1>1, <1>5, <1>6, QuietHolds DEF Quiet

\* Every statement keeps the dimensions sound.
LEMMA DimsNext == RowsInHand /\ Cleared /\ SeqsTyped /\ DimsInv /\ [Next]_vars => DimsInv'
  <1> SUFFICES ASSUME RowsInHand, Cleared, SeqsTyped, DimsInv, [Next]_vars, ~torn'
               PROVE  DimsHold'
    BY DEF DimsInv
  <1>1. CASE ClearCheckpoint
    BY <1>1, WipeHolds
  <1>2. CASE ~ClearCheckpoint /\ ~ClearFails
    <2>1. torn' = torn \/ (Restart /\ (torn => torn'))
      BY <1>2 DEF Next, vars, Tick, BeginTraces, BeginLogs, BeginMetrics, BeginBatch,
           UpsertResource, WriteFails, RollbackMetrics, CommitMetrics, AppendLogs,
           AppendLogsFails, FilterDropped, WriteSpans, WriteSpansFails, BeginSweep, Expire,
           PruneSeries, PruneLayouts, PruneResources, SweepCheckpoint, UnderMaxSize,
           TrimDay, SweepFails, BeginClear, ClearTable, Restart
    <2>2. DimsHold /\ ~torn
      BY <2>1 DEF DimsInv
    <2>3. CASE Tick \/ UNCHANGED vars
      BY <2>2, <2>3 DEF Tick, vars, hand, dims, facts, traceTables, DimsHold, DimensionsExist,
                        CacheSound, Writing, ResourcesUsed, LayoutsUsed, NoOrphansAfterPrune
    <2>4. QED
      BY <1>2, <2>2, <2>3, DimsWrite, DimsSweep, DimsClear, DimsRestart DEF Next
  <1>3. CASE ClearFails
    BY <1>3 DEF ClearFails
  <1>4. QED
    BY <1>1, <1>2, <1>3

\* For any capacity of the cache, retention and faults: in every state that a
\* reader or a crash can find, half-way through a write, a prune or a clear
\* included, each row has the resource, series and layout it joins to; the
\* cache that upsertResources trusts vouches for no resource that is not there,
\* and one prune leaves no dimension row unused.
THEOREM DimensionsAreSound == Spec => []DimensionsSound
  <1>1. Init => RowsInHand /\ Cleared /\ SeqsTyped /\ DimsInv
    <2> SUFFICES ASSUME Init PROVE RowsInHand /\ Cleared /\ SeqsTyped /\ DimsInv
      OBVIOUS
    <2>1. RowsInHand /\ Cleared
      BY HandInit DEF Init, Cleared
    <2>2. cache = <<>> /\ pc = "idle" /\ ToSet(<<>>) = {} /\ Range(Empty) = {} /\ <<>> \in Seq({})
      BY DEF Init, ToSet, Range, Empty
    <2>3. SeqsTyped
      BY <2>2 DEF SeqsTyped, Writing
    <2>4. DimensionsExist /\ CacheSound
      BY <2>2 DEF Init, DimensionsExist, CacheSound
    <2>5. DimsHold
      BY <2>4 DEF Init, DimsHold, Writing, NoOrphansAfterPrune
    <2>6. QED
      BY <2>1, <2>3, <2>5 DEF DimsInv
  <1>2. RowsInHand /\ Cleared /\ SeqsTyped /\ DimsInv /\ [Next]_vars
          => (RowsInHand /\ Cleared /\ SeqsTyped /\ DimsInv)'
    BY HandNext, ClearedNext, SeqsNext, DimsNext
  <1>3. DimsInv => DimensionsSound
    BY DEF DimsInv, DimsHold, DimensionsSound
  <1>4. QED
    BY <1>1, <1>2, <1>3, PTL DEF Spec

----
(* A day trim deletes the oldest day.                                      *)

\* Every fact lies on a day that an int64 of nanoseconds reaches.
TimesTyped == FactTimes \subseteq Instants

\* Every time in a table is one that an int64 reaches.
LEMMA TimesNext == RowsInHand /\ TimesTyped /\ [Next]_vars => TimesTyped'
  <1> SUFFICES ASSUME RowsInHand, TimesTyped, [Next]_vars PROVE TimesTyped'
    OBVIOUS
  <1> USE DEF TimesTyped
  <1> HIDE DEF Instants
  <1>1. /\ \A s \in spans : s.start \in Instants
        /\ \A p \in points : p.ts \in Instants
        /\ \A l \in logs : l.ts \in Instants
    BY DEF FactTimes
  <1>2. ASSUME spans' \subseteq spans, points' \subseteq points, logs' \subseteq logs
        PROVE  TimesTyped'
    BY <1>1, <1>2 DEF FactTimes
  <1>3. CASE CommitMetrics
    <2>1. /\ batch \in MetricBatches /\ points' = points \cup batch.points
          /\ UNCHANGED <<spans, logs>>
      BY <1>3 DEF CommitMetrics, RowsInHand, traceTables
    <2>2. \A p \in batch.points : p.ts \in Instants
      BY <2>1, BatchTypes
    <2>3. QED
      BY <1>1, <2>1, <2>2 DEF FactTimes
  <1>4. CASE AppendLogs \/ AppendLogsFails
    <2>1. /\ batch \in LogBatches /\ logs' \subseteq logs \cup batch.logs
          /\ UNCHANGED <<spans, points>>
      BY <1>4 DEF AppendLogs, AppendLogsFails, RowsInHand, traceTables
    <2>2. \A l \in batch.logs : l.ts \in Instants
      BY <2>1, BatchTypes
    <2>3. QED
      BY <1>1, <2>1, <2>2 DEF FactTimes
  <1>5. CASE WriteSpans
    <2> DEFINE added == {Stored(r) : r \in ToSet(NewSpans(batch.spans))}
    <2>1. /\ pc = "spans" /\ spans' \subseteq spans \cup added
          /\ UNCHANGED <<points, logs>>
      BY <1>5 DEF WriteSpans
    <2>2. PICK b \in TraceBatches : ToSet(batch.spans) \subseteq ToSet(b.spans)
      BY <2>1 DEF RowsInHand
    <2>3. \A r \in ToSet(NewSpans(batch.spans)) : r \in ToSet(b.spans)
      BY <2>1, <2>2, NewRows DEF RowsInHand
    <2>4. \A r \in ToSet(b.spans) : r.start \in Instants
      BY BatchTypes
    <2>5. \A s \in added : s.start \in Instants
      BY <2>3, <2>4 DEF Stored
    <2> HIDE DEF added
    <2>6. QED
      BY <1>1, <2>1, <2>5 DEF FactTimes
  <1>6. CASE Expire \/ TrimDay
    BY <1>2, <1>6 DEF Expire, TrimDay, DeleteFactsBefore
  <1>7. CASE ClearTable
    <2>1. spans' \in {spans, {}} /\ points' \in {points, {}} /\ logs' \in {logs, {}}
      BY <1>7 DEF ClearTable
    <2>2. QED
      BY <1>2, <2>1
  <1>8. ASSUME UNCHANGED <<spans, points, logs>> PROVE TimesTyped'
    BY <1>2, <1>8
  <1>9. CASE \/ UNCHANGED vars \/ Tick \/ BeginTraces \/ BeginLogs \/ BeginMetrics
             \/ UpsertResource \/ WriteFails \/ RollbackMetrics \/ FilterDropped
             \/ WriteSpansFails
    BY <1>8, <1>9 DEF vars, Tick, BeginTraces, BeginLogs, BeginMetrics, BeginBatch, UpsertResource,
                WriteFails, RollbackMetrics, FilterDropped, WriteSpansFails, facts, traceTables
  <1>10. CASE \/ BeginSweep \/ PruneSeries \/ PruneLayouts \/ PruneResources \/ SweepCheckpoint
              \/ UnderMaxSize \/ SweepFails \/ BeginClear \/ ClearCheckpoint \/ ClearFails
              \/ Restart
    BY <1>8, <1>10 DEF BeginSweep, PruneSeries, PruneLayouts, PruneResources, SweepCheckpoint,
                UnderMaxSize, SweepFails, BeginClear, ClearCheckpoint, ClearFails, Restart,
                facts, traceTables
  <1>11. QED
    BY <1>3, <1>4, <1>5, <1>6, <1>7, <1>9, <1>10 DEF Next

\* The instants are an interval, however long.
LEMMA InstantsBounds == \E lo \in Int, hi \in Int : Instants = lo..hi /\ 0 - lo \in Nat
  <1> DEFINE lo == -Horizon
             hi == Horizon - 1
  <1>1. lo \in Int /\ hi \in Int /\ 0 - lo \in Nat
    BY StoreAssumption
  <1>2. Instants = lo..hi
    BY DEF Instants
  <1> HIDE DEF lo, hi
  <1>3. QED
    BY <1>1, <1>2

\* A set of days has a first one.
LEMMA FirstDay ==
  ASSUME NEW T, T \subseteq Instants, T # {}
  PROVE  Min(T) \in T /\ \A t \in T : Min(T) <= t
  <1>1. \E k \in Nat : \A t \in Instants : t \in Int /\ t + k \in Nat
    <2>1. PICK lo \in Int, hi \in Int : Instants = lo..hi /\ 0 - lo \in Nat
      BY InstantsBounds
    <2>2. \A t \in Instants : t \in Int /\ t + (0 - lo) \in Nat
      BY <2>1
    <2>3. QED
      BY <2>1, <2>2
  <1>2. PICK k \in Nat : \A t \in T : t \in Int /\ t + k \in Nat
    BY <1>1
  <1> DEFINE S == {n \in Nat : n - k \in T}
  <1>3. S \in SUBSET Nat /\ S # {}
    <2>1. PICK t \in T : TRUE
      OBVIOUS
    <2>2. t + k \in Nat /\ (t + k) - k = t
      BY <1>2
    <2>3. QED
      BY <2>1, <2>2
  <1>4. PICK m \in S : \A n \in S : m <= n
    BY <1>3, LeastNumber
  <1>5. m - k \in T
    BY <1>4
  <1>6. ASSUME NEW t \in T PROVE m - k <= t
    <2>1. t + k \in Nat /\ (t + k) - k = t
      BY <1>2
    <2>2. m <= t + k
      BY <1>4, <2>1
    <2>3. QED
      BY <1>2, <1>4, <2>2
  <1>7. \E x \in T : \A y \in T : x <= y
    BY <1>5, <1>6
  <1>8. QED
    BY <1>7 DEF Min

\* A trim deletes the facts of its oldest day, and adds none.
LEMMA TrimStep ==
  TimesTyped /\ [Next]_vars =>
    [pc = "size" /\ pc' = "series" => FactTimes' # FactTimes /\ FactTimes' \subseteq FactTimes]_vars
  <1> SUFFICES ASSUME TimesTyped, Next, pc = "size", pc' = "series"
               PROVE  FactTimes' # FactTimes /\ FactTimes' \subseteq FactTimes
    OBVIOUS
  <1>1. TrimDay
    BY DEF Next, Tick, BeginTraces, BeginLogs, BeginMetrics, BeginBatch, Begin, UpsertResource,
           WriteFails, RollbackMetrics, CommitMetrics, AppendLogs, AppendLogsFails,
           FilterDropped, WriteSpans, WriteSpansFails, BeginSweep, Expire, PruneSeries,
           PruneLayouts, PruneResources, SweepCheckpoint, UnderMaxSize, SweepFails, BeginClear,
           ClearTable, ClearCheckpoint, ClearFails, Restart, Finish
  <1> DEFINE first == Min(FactTimes)
  <1>2. first \in FactTimes /\ (\A t \in FactTimes : first <= t) /\ FactTimes \subseteq Instants
    BY <1>1, FirstDay DEF TrimDay, TimesTyped
  <1>3. /\ spans' = {s \in spans : ~(s.start < first + Day)}
        /\ points' = {p \in points : p.ts >= first + Day}
        /\ logs' = {l \in logs : l.ts >= first + Day}
    BY <1>1 DEF TrimDay, DeleteFactsBefore, TrimCutoff
  <1> HIDE DEF first
  <1>4. FactTimes' \subseteq FactTimes
    BY <1>3 DEF FactTimes
  <1>5. first \in Int /\ ~(first >= first + Day)
    <2>1. Instants \subseteq Int
      BY InstantsBounds
    <2>2. first \in Int
      BY <1>2, <2>1
    <2>3. QED
      BY <2>2, StoreAssumption
  <1>6. first \notin FactTimes'
    <2>1. PICK c : c = first + Day
      OBVIOUS
    <2>2. QED
      BY <1>3, <1>5, <2>1 DEF FactTimes
  <1>7. QED
    BY <1>2, <1>4, <1>6

\* Every iteration of enforceMaxSize that deletes anything deletes the oldest
\* day that has a fact: no iteration is spent on an empty day.
THEOREM TrimsDelete == Spec => TrimDeletes
  <1>1. Init => RowsInHand /\ TimesTyped
    BY HandInit DEF Init, TimesTyped, FactTimes
  <1>2. RowsInHand /\ TimesTyped /\ [Next]_vars => (RowsInHand /\ TimesTyped)'
    BY HandNext, TimesNext
  <1>3. QED
    BY <1>1, <1>2, TrimStep, PTL DEF Spec, TrimDeletes

----
(* The sum of the links of a set of spans.                                 *)

LinkSum(S) == MapThenSumSet(LAMBDA s : s.links, S)

Picked(T) == CHOOSE s \in T : TRUE

\* One turn of the sum: some element, and the sum of the rest.
Added(g, T) == IF T = {} THEN 0 ELSE Picked(T).links + g[T \ {Picked(T)}]

Sums(g, S, n) ==
    g = [T \in {U \in SUBSET S : Cardinality(U) <= n} |-> Added(g, T)]

\* Without the element that is chosen a set is smaller by one.
LEMMA OneLess ==
  ASSUME NEW T, IsFiniteSet(T), NEW s \in T
  PROVE  /\ IsFiniteSet(T \ {s}) /\ Cardinality(T \ {s}) = Cardinality(T) - 1
         /\ Cardinality(T) \in Nat /\ Cardinality(T \ {s}) \in Nat
  BY FS_RemoveElement, FS_CardinalityType

\* The function that the sum chooses exists: by induction on the size of the
\* sets it is about.
LEMMA SumsExists ==
  ASSUME NEW S, IsFiniteSet(S), NEW m \in Nat
  PROVE  \E g : Sums(g, S, m)
  <1> DEFINE D(n) == {U \in SUBSET S : Cardinality(U) <= n}
             N == {n \in Nat : \E g : Sums(g, S, n)}
  <1>1. \A T \in SUBSET S : IsFiniteSet(T) /\ Cardinality(T) \in Nat
    BY FS_Subset, FS_CardinalityType
  <1>2. 0 \in N
    <2>1. \A T \in D(0) : T = {}
      BY <1>1, FS_EmptySet
    <2> DEFINE g == [T \in D(0) |-> 0]
    <2>2. \A T \in D(0) : Added(g, T) = 0
      BY <2>1 DEF Added
    <2>3. g = [T \in D(0) |-> Added(g, T)]
      BY <2>2
    <2> HIDE DEF g
    <2>4. Sums(g, S, 0)
      BY <2>3 DEF Sums
    <2>5. QED
      BY <2>4
  <1>3. ASSUME NEW n \in Nat, n \in N PROVE n + 1 \in N
    <2>1. PICK g : Sums(g, S, n)
      BY <1>3
    <2> DEFINE h == [T \in D(n + 1) |-> Added(g, T)]
    <2>2. \A T \in D(n) : g[T] = Added(g, T)
      BY <2>1 DEF Sums
    <2>3. \A T \in D(n + 1) : h[T] = Added(g, T)
      OBVIOUS
    <2>4. h = [T \in D(n + 1) |-> h[T]]
      OBVIOUS
    <2> HIDE DEF h
    <2>5. \A T \in D(n) : T \in D(n + 1)
      BY <1>1, <1>3
    <2>6. \A T \in D(n) : h[T] = g[T]
      BY <2>2, <2>3, <2>5
    <2>7. ASSUME NEW T \in D(n + 1) PROVE Added(h, T) = Added(g, T)
      <3>1. CASE T = {}
        BY <3>1 DEF Added
      <3>2. CASE T # {}
        <4>1. Picked(T) \in T
          BY <3>2 DEF Picked
        <4>2. T \ {Picked(T)} \in D(n)
          <5>1. Cardinality(T \ {Picked(T)}) = Cardinality(T) - 1 /\ Cardinality(T) \in Nat
            BY <1>1, <4>1, OneLess
          <5>2. QED
            BY <5>1
        <4>3. QED
          BY <2>6, <4>2 DEF Added
      <3>3. QED
        BY <3>1, <3>2
    <2>8. h = [T \in D(n + 1) |-> Added(h, T)]
      BY <2>3, <2>4, <2>7
    <2>9. Sums(h, S, n + 1)
      BY <2>8 DEF Sums
    <2>10. QED
      BY <2>9
  <1> HIDE DEF N
  <1>4. m \in N
    BY <1>2, <1>3, InductiveSet
  <1>5. QED
    BY <1>4 DEF N

LinksIn(S) == CHOOSE g : g = [T \in SUBSET S |-> Added(g, T)]

\* The sum satisfies the equation it is defined by.
LEMMA LinksInIs ==
  ASSUME NEW S, IsFiniteSet(S)
  PROVE  /\ LinkSum(S) = LinksIn(S)[S]
         /\ \A T \in SUBSET S : LinksIn(S)[T] = Added(LinksIn(S), T)
  <1>1. LinkSum(S) = LinksIn(S)[S]
    BY DEF LinkSum, MapThenSumSet, MapThenFoldSet, LinksIn, Added, Picked
  <1>2. \E g : g = [T \in SUBSET S |-> Added(g, T)]
    <2>1. PICK g : Sums(g, S, Cardinality(S))
      BY SumsExists, FS_CardinalityType
    <2>2. {U \in SUBSET S : Cardinality(U) <= Cardinality(S)} = SUBSET S
      BY FS_Subset
    <2>3. g = [T \in SUBSET S |-> Added(g, T)]
      BY <2>1, <2>2, Zenon DEF Sums
    <2>4. QED
      BY <2>3
  <1>3. LinksIn(S) = [T \in SUBSET S |-> Added(LinksIn(S), T)]
    BY <1>2, Zenon DEF LinksIn
  <1>4. \A T \in SUBSET S : LinksIn(S)[T] = Added(LinksIn(S), T)
    BY <1>3
  <1>5. QED
    BY <1>1, <1>4

\* The sum does not depend on the element that is chosen.
LEMMA AnyOrder ==
  ASSUME NEW S, IsFiniteSet(S), \A s \in S : s.links \in Nat
  PROVE  \A T \in SUBSET S : /\ LinksIn(S)[T] \in Nat
                             /\ \A s \in T : LinksIn(S)[T] = s.links + LinksIn(S)[T \ {s}]
  <1> DEFINE f == LinksIn(S)
             Right(T) == f[T] \in Nat /\ \A s \in T : f[T] = s.links + f[T \ {s}]
             N == {n \in Nat : \A T \in SUBSET S : Cardinality(T) <= n => Right(T)}
  <1>1. \A T \in SUBSET S : f[T] = Added(f, T)
    BY LinksInIs
  <1>2. \A T \in SUBSET S : IsFiniteSet(T) /\ Cardinality(T) \in Nat
    BY FS_Subset, FS_CardinalityType
  <1> HIDE DEF f
  <1>3. 0 \in N
    <2>1. ASSUME NEW T \in SUBSET S, Cardinality(T) <= 0 PROVE Right(T)
      <3>1. T = {}
        BY <1>2, <2>1, FS_EmptySet
      <3>2. f[T] = 0
        BY <1>1, <3>1 DEF Added
      <3>3. QED
        BY <3>1, <3>2
    <2>2. QED
      BY <2>1
  <1>4. ASSUME NEW n \in Nat, n \in N PROVE n + 1 \in N
    <2>1. ASSUME NEW T \in SUBSET S, Cardinality(T) = n + 1 PROVE Right(T)
      <3> DEFINE a == Picked(T)
      <3>1. T # {}
        BY <2>1, FS_EmptySet
      <3>2. a \in T /\ f[T] = a.links + f[T \ {a}]
        <4>1. a \in T
          BY <3>1 DEF Picked
        <4>2. QED
          BY <1>1, <3>1, <4>1 DEF Added
      <3> HIDE DEF a
      <3>3. \A U \in SUBSET S : Cardinality(U) <= n => Right(U)
        BY <1>4
      <3>4. ASSUME NEW s \in T PROVE T \ {s} \in SUBSET S /\ Cardinality(T \ {s}) = n
        BY <1>2, <2>1, OneLess
      <3>5. f[T] \in Nat
        BY <3>2, <3>3, <3>4
      <3>6. ASSUME NEW s \in T, s # a PROVE f[T] = s.links + f[T \ {s}]
        <4>1. s \in T \ {a} /\ a \in T \ {s} /\ (T \ {a}) \ {s} = (T \ {s}) \ {a}
          BY <3>2, <3>6
        <4>2. f[T \ {a}] = s.links + f[(T \ {a}) \ {s}]
          BY <3>2, <3>3, <3>4, <4>1
        <4>3. f[T \ {s}] = a.links + f[(T \ {s}) \ {a}]
          BY <3>3, <3>4, <4>1
        <4>4. f[(T \ {a}) \ {s}] \in Nat
          <5>1. T \ {a} \in SUBSET S /\ Cardinality(T \ {a}) = n /\ IsFiniteSet(T \ {a})
            BY <1>2, <3>2, <3>4
          <5>2. Cardinality((T \ {a}) \ {s}) = n - 1
            BY <4>1, <5>1, OneLess
          <5>3. Cardinality((T \ {a}) \ {s}) <= n
            BY <5>2
          <5>4. QED
            BY <3>3, <5>3
        <4>5. s.links \in Nat /\ a.links \in Nat
          BY <3>2, <3>6
        <4>6. PICK k \in Nat : k = f[(T \ {a}) \ {s}] /\ k = f[(T \ {s}) \ {a}]
          BY <4>1, <4>4
        <4>7. f[T] = a.links + (s.links + k) /\ f[T \ {s}] = a.links + k
          BY <3>2, <4>2, <4>3, <4>6
        <4>8. QED
          BY <4>5, <4>7
      <3>7. QED
        BY <3>2, <3>5, <3>6
    <2>2. ASSUME NEW T \in SUBSET S, Cardinality(T) <= n + 1 PROVE Right(T)
      <3>1. CASE Cardinality(T) = n + 1
        BY <2>1, <3>1
      <3>2. CASE Cardinality(T) # n + 1
        <4>1. Cardinality(T) <= n
          BY <1>2, <2>2, <3>2
        <4>2. QED
          BY <1>4, <4>1
      <3>3. QED
        BY <3>1, <3>2
    <2>3. QED
      BY <2>2
  <1> HIDE DEF N
  <1>5. ASSUME NEW T \in SUBSET S PROVE Right(T)
    <2>1. Cardinality(T) \in N
      BY <1>2, <1>3, <1>4, InductiveSet
    <2>2. QED
      BY <2>1 DEF N
  <1>6. QED
    BY <1>5 DEF f

\* The sum of no spans, and of one span more.
LEMMA LinksAdded ==
  ASSUME NEW S, IsFiniteSet(S), NEW x, x \notin S, \A s \in S \cup {x} : s.links \in Nat
  PROVE  /\ LinkSum({}) = 0
         /\ LinkSum(S) \in Nat
         /\ LinkSum(S \cup {x}) = LinkSum(S) + x.links
  <1> DEFINE U == S \cup {x}
             f == LinksIn(S)
             g == LinksIn(U)
             N == {n \in Nat : \A T \in SUBSET S : Cardinality(T) <= n => f[T] = g[T]}
  <1>1. IsFiniteSet(U) /\ IsFiniteSet({})
    BY FS_AddElement, FS_EmptySet
  <1>2. \A T \in SUBSET S : IsFiniteSet(T) /\ Cardinality(T) \in Nat /\ T \in SUBSET U
    BY FS_Subset, FS_CardinalityType
  <1>3. /\ \A T \in SUBSET S : f[T] = Added(f, T)
        /\ \A T \in SUBSET U : g[T] = Added(g, T)
        /\ LinkSum(S) = f[S] /\ LinkSum(U) = g[U]
    BY <1>1, LinksInIs
  <1>4. LinkSum({}) = 0
    BY <1>1, LinksInIs DEF Added
  <1>5. /\ \A T \in SUBSET S : f[T] \in Nat
        /\ g[U] = x.links + g[U \ {x}]
    BY <1>1, AnyOrder
  <1> HIDE DEF f, g
  <1>6. 0 \in N
    <2>1. ASSUME NEW T \in SUBSET S, Cardinality(T) <= 0 PROVE f[T] = g[T]
      <3>1. T = {}
        BY <1>2, <2>1, FS_EmptySet
      <3>2. QED
        BY <1>2, <1>3, <3>1 DEF Added
    <2>2. QED
      BY <2>1
  <1>7. ASSUME NEW n \in Nat, n \in N PROVE n + 1 \in N
    <2>1. ASSUME NEW T \in SUBSET S, Cardinality(T) <= n + 1 PROVE f[T] = g[T]
      <3>1. CASE T = {}
        BY <1>2, <1>3, <3>1 DEF Added
      <3>2. CASE T # {}
        <4>1. Picked(T) \in T
          BY <3>2 DEF Picked
        <4>2. T \ {Picked(T)} \in SUBSET S /\ Cardinality(T \ {Picked(T)}) <= n
          <5>1. Cardinality(T \ {Picked(T)}) = Cardinality(T) - 1 /\ Cardinality(T) \in Nat
            BY <1>2, <4>1, OneLess
          <5>2. QED
            BY <2>1, <5>1
        <4>3. f[T \ {Picked(T)}] = g[T \ {Picked(T)}]
          BY <1>7, <4>2
        <4>4. QED
          BY <1>2, <1>3, <4>3 DEF Added
      <3>3. QED
        BY <3>1, <3>2
    <2>2. QED
      BY <2>1
  <1> HIDE DEF N
  <1>8. f[S] = g[S]
    <2>1. Cardinality(S) \in N
      BY <1>2, <1>6, <1>7, InductiveSet
    <2>2. QED
      BY <1>2, <2>1 DEF N
  <1>9. U \ {x} = S
    OBVIOUS
  <1>10. f[S] \in Nat
    BY <1>5
  <1> HIDE DEF U
  <1>11. LinkSum(U) = LinkSum(S) + x.links
    <2>1. PICK k \in Nat : k = f[S] /\ k = g[U \ {x}]
      BY <1>8, <1>9, <1>10
    <2>2. LinkSum(U) = x.links + k /\ LinkSum(S) = k
      BY <1>3, <1>5, <2>1, Zenon
    <2>3. x.links \in Nat
      OBVIOUS
    <2>4. QED
      BY <2>2, <2>3
  <1>12. QED
    BY <1>3, <1>4, <1>10, <1>11 DEF U

----
(* Rows, and the spans stored of them.                                     *)

RowTyped(r) ==
    /\ r.start \in Instants /\ r.end \in Instants
    /\ r.id \in Nat /\ r.links \in Nat
    /\ r.root \in BOOLEAN /\ r.error \in BOOLEAN /\ r.res # NoLayout

SpanTyped(s) == RowTyped(s) /\ s.ingested \in Nat

\* The stored spans of one trace.
OneTrace(S) ==
    /\ IsFiniteSet(S)
    /\ \A s \in S : SpanTyped(s)
    /\ \A s, o \in S : s.id = o.id => s = o

Starts(S) == {s.start : s \in S}
Ends(S) == {s.end : s \in S}
Arrivals(S) == {s.ingested : s \in S}

\* Instants are whole numbers between bounds.
LEMMA InstantsAreNumbers == \E lo \in Int, hi \in Int : \A d \in Instants : d \in Int /\ lo <= d /\ d <= hi
  <1>1. PICK lo \in Int, hi \in Int : Instants = lo..hi
    BY InstantsBounds
  <1>2. \A d \in lo..hi : d \in Int /\ lo <= d /\ d <= hi
    OBVIOUS
  <1>3. \A d \in Instants : d \in Int /\ lo <= d /\ d <= hi
    BY <1>1, <1>2, Zenon
  <1>4. QED
    BY <1>3, Zenon

\* A set of whole numbers with a lower bound has a least one.
LEMMA LeastInt ==
  ASSUME NEW T \in SUBSET Int, T # {}, NEW k \in Int, \A t \in T : k <= t
  PROVE  \E x \in T : \A t \in T : x <= t
  <1> DEFINE S == {t - k : t \in T}
  <1>1. \A t \in T : t - k \in Nat /\ t \in Int
    OBVIOUS
  <1>2. S \in SUBSET Nat /\ S # {}
    BY <1>1
  <1>3. PICK m \in S : \A n \in S : m <= n
    BY <1>2, LeastNumber
  <1>4. PICK x \in T : m = x - k
    BY <1>3
  <1>5. ASSUME NEW t \in T PROVE x <= t
    <2>1. x - k <= t - k
      BY <1>3, <1>4
    <2>2. QED
      BY <1>1, <2>1
  <1>6. QED
    BY <1>5

\* Min and Max are what is least and greatest.
LEMMA MinIs ==
  ASSUME NEW T \in SUBSET Int, NEW m \in T, \A t \in T : m <= t
  PROVE  Min(T) = m
  <1>1. Min(T) \in T /\ \A t \in T : Min(T) <= t
    BY DEF Min
  <1>2. Min(T) \in Int /\ m \in Int /\ Min(T) <= m /\ m <= Min(T)
    BY <1>1
  <1>3. QED
    BY <1>2

\* The same for the greatest.
LEMMA MaxIs ==
  ASSUME NEW T \in SUBSET Int, NEW m \in T, \A t \in T : t <= m
  PROVE  Max(T) = m
  <1>1. \E x \in T : \A t \in T : x >= t
    OBVIOUS
  <1>2. Max(T) \in T /\ \A t \in T : Max(T) >= t
    BY <1>1 DEF Max
  <1>3. Max(T) \in Int /\ m \in Int /\ Max(T) <= m /\ m <= Max(T)
    BY <1>2
  <1>4. QED
    BY <1>3

\* Min and Max of the times of some spans are among them.
LEMMA TimesHaveBounds ==
  ASSUME NEW S, OneTrace(S), S # {}
  PROVE  /\ Starts(S) \subseteq Int /\ Ends(S) \subseteq Int /\ Arrivals(S) \subseteq Nat
         /\ Min(Starts(S)) \in Starts(S) /\ \A t \in Starts(S) : Min(Starts(S)) <= t
         /\ Max(Ends(S)) \in Ends(S) /\ \A t \in Ends(S) : t <= Max(Ends(S))
         /\ Min(Arrivals(S)) \in Arrivals(S) /\ \A t \in Arrivals(S) : Min(Arrivals(S)) <= t
  <1>1. PICK lo \in Int, hi \in Int : \A d \in Instants : d \in Int /\ lo <= d /\ d <= hi
    BY InstantsAreNumbers
  <1>2. \A s \in S : s.start \in Instants /\ s.end \in Instants /\ s.ingested \in Nat
    BY DEF OneTrace, SpanTyped, RowTyped
  <1>3. /\ Starts(S) # {} /\ Starts(S) \subseteq Instants
        /\ Ends(S) # {} /\ Ends(S) \subseteq Instants
        /\ Arrivals(S) # {} /\ Arrivals(S) \subseteq Nat
    BY <1>2 DEF Starts, Ends, Arrivals
  <1>4. /\ \A t \in Starts(S) : t \in Int /\ lo <= t
        /\ \A t \in Ends(S) : t \in Int /\ t <= hi
    BY <1>1, <1>3
  <1>5. \E x \in Starts(S) : \A t \in Starts(S) : x <= t
    BY <1>3, <1>4, LeastInt
  <1>6. \E x \in Arrivals(S) : \A t \in Arrivals(S) : x <= t
    BY <1>3, LeastNumber
  <1>7. \E x \in Ends(S) : \A t \in Ends(S) : x >= t
    <2> DEFINE T == {0 - t : t \in Ends(S)}
    <2>1. T \in SUBSET Int /\ T # {}
      BY <1>3, <1>4
    <2>2. 0 - hi \in Int /\ \A u \in T : 0 - hi <= u
      BY <1>4
    <2>3. PICK u \in T : \A v \in T : u <= v
      BY <2>1, <2>2, LeastInt
    <2>4. PICK x \in Ends(S) : u = 0 - x
      BY <2>3
    <2>5. ASSUME NEW t \in Ends(S) PROVE x >= t
      <3>1. 0 - x <= 0 - t
        BY <2>3, <2>4
      <3>2. QED
        BY <1>4, <3>1
    <2>6. QED
      BY <2>5
  <1>8. /\ Min(Starts(S)) \in Starts(S) /\ \A t \in Starts(S) : Min(Starts(S)) <= t
        /\ Min(Arrivals(S)) \in Arrivals(S) /\ \A t \in Arrivals(S) : Min(Arrivals(S)) <= t
    BY <1>5, <1>6 DEF Min
  <1>9. Max(Ends(S)) \in Ends(S) /\ \A t \in Ends(S) : Max(Ends(S)) >= t
    BY <1>7 DEF Max
  <1>10. Max(Ends(S)) \in Int
    BY <1>4, <1>9
  <1>11. \A t \in Ends(S) : t <= Max(Ends(S))
    BY <1>4, <1>9, <1>10
  <1>12. QED
    BY <1>3, <1>4, <1>8, <1>9, <1>11

\* The window has a first row: the spans ordered by a number, then by id.
LEMMA FirstBy ==
  ASSUME NEW T, T # {}, NEW f \in [T -> Int], NEW k \in Int, \A s \in T : k <= f[s],
         \A s \in T : s.id \in Nat, \A s, o \in T : s.id = o.id => s = o
  PROVE  \E s \in T : \A o \in T \ {s} : f[s] < f[o] \/ (f[s] = f[o] /\ s.id < o.id)
  <1> DEFINE F == {f[s] : s \in T}
  <1>1. F \in SUBSET Int /\ F # {} /\ \A x \in F : k <= x
    OBVIOUS
  <1>2. PICK m \in F : \A x \in F : m <= x
    BY <1>1, LeastInt
  <1> DEFINE I == {s.id : s \in {o \in T : f[o] = m}}
  <1>3. I \in SUBSET Nat /\ I # {}
    OBVIOUS
  <1>4. PICK n \in I : \A i \in I : n <= i
    BY <1>3, LeastNumber
  <1>5. PICK s \in T : f[s] = m /\ s.id = n
    BY <1>4
  <1>6. ASSUME NEW o \in T \ {s} PROVE f[s] < f[o] \/ (f[s] = f[o] /\ s.id < o.id)
    <2>1. PICK x \in Int : x = f[o] /\ m \in Int /\ m <= x
      BY <1>1, <1>2
    <2>2. CASE x = m
      <3>1. o.id \in I /\ o.id # s.id /\ o.id \in Nat /\ n \in Nat
        BY <1>3, <1>4, <2>1, <2>2
      <3>2. n <= o.id /\ n # o.id
        BY <1>4, <1>5, <3>1, Zenon
      <3>3. n < o.id
        BY <3>1, <3>2
      <3>4. QED
        BY <1>5, <2>1, <2>2, <3>3
    <2>3. CASE x # m
      <3>1. m < x
        BY <2>1, <2>3
      <3>2. QED
        BY <1>5, <2>1, <3>1
    <2>4. QED
      BY <2>2, <2>3
  <1>7. QED
    BY <1>6

\* Part of the spans of a trace are the spans of a trace.
LEMMA SomeOfTrace ==
  ASSUME NEW S, OneTrace(S), NEW T \in SUBSET S
  PROVE  OneTrace(T)
  BY FS_Subset DEF OneTrace

\* The numbers of a span.
LEMMA SpanNumbers ==
  \E lo \in Int, hi \in Int : \A s : SpanTyped(s) =>
     /\ s.start \in Int /\ lo <= s.start /\ s.end \in Int /\ s.end <= hi
     /\ s.id \in Nat /\ s.links \in Nat /\ s.ingested \in Nat
  <1>1. PICK lo \in Int, hi \in Int : \A d \in Instants : d \in Int /\ lo <= d /\ d <= hi
    BY InstantsAreNumbers
  <1>2. \A s : SpanTyped(s) =>
           /\ s.start \in Instants /\ s.end \in Instants
           /\ s.id \in Nat /\ s.links \in Nat /\ s.ingested \in Nat
    BY DEF SpanTyped, RowTyped
  <1>3. QED
    BY <1>1, <1>2

\* The earliest span of a trace, and the longest.
LEMMA FirstRows ==
  ASSUME NEW T, OneTrace(T), T # {}
  PROVE  /\ First(T, Earlier) \in T
         /\ \A o \in T \ {First(T, Earlier)} : Earlier(First(T, Earlier), o)
         /\ First(T, Longer) \in T
         /\ \A o \in T \ {First(T, Longer)} : Longer(First(T, Longer), o)
  <1>1. PICK lo \in Int, hi \in Int : \A s : SpanTyped(s) =>
           /\ s.start \in Int /\ lo <= s.start /\ s.end \in Int /\ s.end <= hi /\ s.id \in Nat
    BY SpanNumbers
  <1>2. \A s \in T : /\ s.start \in Int /\ lo <= s.start
                     /\ s.end \in Int /\ s.end <= hi /\ s.id \in Nat
    BY <1>1 DEF OneTrace
  <1>3. \A s, o \in T : s.id = o.id => s = o
    BY DEF OneTrace
  <1>4. \E s \in T : \A o \in T \ {s} : Earlier(s, o)
    <2> DEFINE f == [s \in T |-> s.start]
    <2>1. f \in [T -> Int] /\ \A s \in T : f[s] = s.start /\ lo <= f[s]
      BY <1>2
    <2> HIDE DEF f
    <2>2. PICK s \in T : \A o \in T \ {s} : f[s] < f[o] \/ (f[s] = f[o] /\ s.id < o.id)
      BY <1>2, <1>3, <2>1, FirstBy
    <2>3. \A o \in T \ {s} : Earlier(s, o)
      BY <2>1, <2>2 DEF Earlier
    <2>4. QED
      BY <2>3
  <1>5. \E s \in T : \A o \in T \ {s} : Longer(s, o)
    <2> DEFINE f == [s \in T |-> s.start - s.end]
    <2>1. f \in [T -> Int] /\ \A s \in T : f[s] = s.start - s.end
      BY <1>2
    <2> HIDE DEF f
    <2>2. lo - hi \in Int /\ \A s \in T : lo - hi <= f[s]
      BY <1>2, <2>1
    <2>3. PICK s \in T : \A o \in T \ {s} : f[s] < f[o] \/ (f[s] = f[o] /\ s.id < o.id)
      BY <1>2, <1>3, <2>1, <2>2, FirstBy
    <2>4. ASSUME NEW o \in T \ {s} PROVE Longer(s, o)
      <3>1. /\ s.start \in Int /\ s.end \in Int /\ o.start \in Int /\ o.end \in Int
        BY <1>2
      <3>2. \/ s.start - s.end < o.start - o.end
            \/ s.start - s.end = o.start - o.end /\ s.id < o.id
        BY <2>1, <2>3
      <3>3. QED
        BY <3>1, <3>2 DEF Longer, Duration
    <2>5. QED
      BY <2>4
  <1>6. QED
    BY <1>4, <1>5, Zenon DEF First

\* A span that comes before the others is the first.
LEMMA FirstIs ==
  ASSUME NEW T, OneTrace(T), NEW s \in T
  PROVE  /\ (\A o \in T \ {s} : Earlier(s, o)) => First(T, Earlier) = s
         /\ (\A o \in T \ {s} : Longer(s, o)) => First(T, Longer) = s
  <1>1. /\ First(T, Earlier) \in T
        /\ \A o \in T \ {First(T, Earlier)} : Earlier(First(T, Earlier), o)
        /\ First(T, Longer) \in T
        /\ \A o \in T \ {First(T, Longer)} : Longer(First(T, Longer), o)
    BY FirstRows
  <1>2. \A o \in T : o.start \in Int /\ o.end \in Int /\ o.id \in Nat
    BY SpanNumbers DEF OneTrace
  <1>3. \A o \in T : ~(Earlier(s, o) /\ Earlier(o, s)) /\ ~(Longer(s, o) /\ Longer(o, s))
    BY <1>2 DEF Earlier, Longer, Duration
  <1>4. QED
    BY <1>1, <1>3

\* A truncated instant is at most a microsecond early, and no number is far
\* from its truncation.
LEMMA Truncates ==
  ASSUME NEW t \in Int
  PROVE  Truncated(t) \in Int /\ Truncated(t) <= t /\ t < Truncated(t) + Micro
  <1>1. PICK k \in Nat : k = Micro /\ k # 0
    BY StoreAssumption
  <1>2. PICK m : m = t % k
    OBVIOUS
  <1>3. m \in Int /\ 0 <= m /\ m < k
    BY <1>1, <1>2
  <1>4. QED
    BY <1>1, <1>2, <1>3 DEF Truncated

\* An interval is off by less than a microsecond either way.
LEMMA IntervalNearDuration ==
  ASSUME NEW s, s.start \in Int, s.end \in Int
  PROVE  /\ Duration(s) \in Int /\ Interval(s) \in Int /\ Micro \in Nat /\ Micro # 0
         /\ Duration(s) < Interval(s) + Micro /\ Interval(s) < Duration(s) + Micro
  <1>1. PICK a \in Int, b \in Int : a = s.start /\ b = s.end
    OBVIOUS
  <1>2. PICK p \in Int, q \in Int : p = Truncated(a) /\ q = Truncated(b)
    BY Truncates
  <1>3. p <= a /\ a < p + Micro /\ q <= b /\ b < q + Micro
    BY <1>2, Truncates
  <1>4. Duration(s) = b - a /\ Interval(s) = q - p
    BY <1>1, <1>2 DEF Duration, Interval
  <1>5. PICK k \in Nat : k = Micro /\ k # 0
    BY StoreAssumption
  <1>6. QED
    BY <1>3, <1>4, <1>5

\* The window of the rebuild has a first row too.
LEMMA FirstInterval ==
  ASSUME NEW T, OneTrace(T), T # {}
  PROVE  /\ First(T, LongerInterval) \in T
         /\ \A o \in T \ {First(T, LongerInterval)} : LongerInterval(First(T, LongerInterval), o)
  <1>1. PICK lo \in Int, hi \in Int : \A s : SpanTyped(s) =>
           /\ s.start \in Int /\ lo <= s.start /\ s.end \in Int /\ s.end <= hi /\ s.id \in Nat
    BY SpanNumbers
  <1>2. \A s \in T : /\ s.start \in Int /\ lo <= s.start
                     /\ s.end \in Int /\ s.end <= hi /\ s.id \in Nat
    BY <1>1 DEF OneTrace
  <1>3. \A s, o \in T : s.id = o.id => s = o
    BY DEF OneTrace
  <1> DEFINE f == [s \in T |-> 0 - Interval(s)]
  <1>4. f \in [T -> Int] /\ \A s \in T : Interval(s) \in Int /\ f[s] = 0 - Interval(s)
    BY <1>2, IntervalNearDuration
  <1> HIDE DEF f
  <1>5. PICK k \in Int : k = lo - hi - Micro
    BY StoreAssumption
  <1>6. ASSUME NEW s \in T PROVE k <= f[s]
    <2>1. PICK i \in Int, u \in Int : i = Interval(s) /\ u = Duration(s)
      BY <1>2, IntervalNearDuration
    <2>2. i < u + Micro /\ Micro \in Nat
      BY <1>2, <2>1, IntervalNearDuration
    <2>3. u <= hi - lo
      BY <1>2, <2>1 DEF Duration
    <2>4. QED
      BY <1>4, <1>5, <2>1, <2>2, <2>3
  <1>7. PICK s \in T : \A o \in T \ {s} : f[s] < f[o] \/ (f[s] = f[o] /\ s.id < o.id)
    <2>1. T # {} /\ k \in Int /\ f \in [T -> Int] /\ (\A s \in T : k <= f[s])
      BY <1>4, <1>5, <1>6
    <2>2. (\A s \in T : s.id \in Nat) /\ (\A s, o \in T : s.id = o.id => s = o)
      BY <1>2, <1>3
    <2>3. QED
      BY <2>1, <2>2, FirstBy
  <1>8. ASSUME NEW o \in T \ {s} PROVE LongerInterval(s, o)
    <2>1. PICK i \in Int, j \in Int : i = Interval(s) /\ j = Interval(o) /\ f[s] = 0 - i /\ f[o] = 0 - j
      BY <1>4
    <2>2. i > j \/ (i = j /\ s.id < o.id)
      BY <1>7, <2>1
    <2>3. QED
      BY <2>1, <2>2 DEF LongerInterval
  <1>9. QED
    BY <1>8, Zenon DEF First

\* The root of a rebuilt summary: of a span that is longer than it, neither
\* truncation can hide as much as a microsecond.
LEMMA RebuiltRoot ==
  ASSUME NEW S, OneTrace(S)
  PROVE  RootRight(S, RootBy(S, LongerInterval), FALSE)
  <1>1. CASE Roots(S) = {}
    BY <1>1 DEF RootRight, RootBy
  <1>2. CASE Roots(S) # {}
    <2>1. Roots(S) \in SUBSET S
      BY DEF Roots
    <2>2. PICK f \in Roots(S) : /\ f = First(Roots(S), LongerInterval)
                               /\ \A o \in Roots(S) \ {f} : LongerInterval(f, o)
      BY <1>2, <2>1, SomeOfTrace, FirstInterval
    <2>3. \A s \in S : s.start \in Int /\ s.end \in Int
      BY SpanNumbers DEF OneTrace
    <2>4. ASSUME NEW o \in Roots(S) PROVE Duration(o) - Duration(f) < 2 * Micro
      <3>1. PICK i \in Int, u \in Int : i = Interval(f) /\ u = Duration(f)
        BY <2>1, <2>2, <2>3, IntervalNearDuration
      <3>2. PICK j \in Int, v \in Int : j = Interval(o) /\ v = Duration(o)
        BY <2>1, <2>3, IntervalNearDuration
      <3>3. i < u + Micro /\ v < j + Micro /\ Micro \in Nat
        BY <2>1, <2>2, <2>3, <3>1, <3>2, IntervalNearDuration
      <3>4. j <= i
        <4>1. o = f => j = i
          BY <3>1, <3>2
        <4>2. o # f => i > j \/ i = j
          BY <2>2, <3>1, <3>2 DEF LongerInterval
        <4>3. QED
          BY <3>1, <3>2, <4>1, <4>2
      <3>5. QED
        BY <3>1, <3>2, <3>3, <3>4
    <2>5. f \in NearlyLongest(S)
      BY <2>4 DEF NearlyLongest
    <2>6. QED
      BY <1>2, <2>2, <2>5 DEF RootRight, RootBy
  <1>3. QED
    BY <1>1, <1>2

\* In a table that holds a span once the QUALIFY leaves nothing out.
LEMMA AllDeduped ==
  ASSUME NEW S, OneTrace(S)
  PROVE  Deduped(S) = S
  <1>1. \A s \in S : s.ingested <= s.ingested
    BY DEF OneTrace, SpanTyped
  <1>2. QED
    BY <1>1 DEF Deduped, OneTrace

\* A summary of the spans S with this root.
Summed(S, root) ==
    [ start     |-> Min(Starts(S)),
      end       |-> Max(Ends(S)),
      count     |-> Cardinality(S),
      links     |-> LinkSum(S),
      error     |-> \E s \in S : s.error,
      firstSeen |-> Min(Arrivals(S)),
      root      |-> root,
      earliest  |-> RootOf(First(S, Earlier)) ]

\* A record with another root.
LEMMA RootReplaced ==
  \A a, b, c, d, e, f, g, old, new :
     [[start |-> a, end |-> b, count |-> c, links |-> d, error |-> e, firstSeen |-> f,
       root |-> old, earliest |-> g] EXCEPT !.root = new] =
     [start |-> a, end |-> b, count |-> c, links |-> d, error |-> e, firstSeen |-> f,
      root |-> new, earliest |-> g]
  OBVIOUS

\* The rebuilt row speaks of all the spans.
LEMMA RebuildIs ==
  ASSUME NEW S, OneTrace(S)
  PROVE  /\ Rebuild(S) = Summed(S, RootBy(S, LongerInterval))
         /\ \A root : [Rebuild(S) EXCEPT !.root = root] = Summed(S, root)
  <1>1. Rebuild(S) = Summed(S, RootBy(S, LongerInterval))
    BY AllDeduped DEF Rebuild, Summed, Starts, Ends, Arrivals, LinkSum
  <1>2. \A root, old : [Summed(S, old) EXCEPT !.root = root] = Summed(S, root)
    <2> SUFFICES ASSUME NEW root, NEW old PROVE [Summed(S, old) EXCEPT !.root = root] = Summed(S, root)
      OBVIOUS
    <2>1. PICK e : e = (\E s \in S : s.error)
      OBVIOUS
    <2>2. \A r : Summed(S, r) =
            [ start |-> Min(Starts(S)), end |-> Max(Ends(S)), count |-> Cardinality(S),
              links |-> LinkSum(S), error |-> e, firstSeen |-> Min(Arrivals(S)),
              root |-> r, earliest |-> RootOf(First(S, Earlier)) ]
      BY <2>1, Zenon DEF Summed
    <2>3. QED
      BY <2>2, RootReplaced
  <1>3. QED
    BY <1>1, <1>2

\* The row of a trace is right.
RightSummary(S, sum, exact) ==
    sum = Summed(S, sum.root) /\ RootRight(S, sum.root, exact)

\* What the loop that merges starts from, or has got to.
RightSoFar(S, sum, exact) ==
    IF S = {} THEN sum = NoSummary ELSE RightSummary(S, sum, exact)

\* A span is stored with the columns of its row and the time.
LEMMA StoredIs ==
  ASSUME NEW r, RowTyped(r), now \in Nat
  PROVE  /\ SpanTyped(Stored(r))
         /\ Stored(r).trace = r.trace /\ Stored(r).id = r.id /\ Stored(r).root = r.root
         /\ Stored(r).start = r.start /\ Stored(r).end = r.end
         /\ Stored(r).error = r.error /\ Stored(r).links = r.links
         /\ Stored(r).ingested = now
         /\ RootOf(Stored(r)) = RootOf(r)
  BY DEF Stored, SpanTyped, RowTyped, RootOf

\* One span more, of an id that the trace does not have.
LEMMA OneMore ==
  ASSUME NEW S, OneTrace(S), NEW x, SpanTyped(x), \A s \in S : s.id # x.id
  PROVE  /\ OneTrace(S \cup {x}) /\ x \notin S
         /\ Cardinality(S \cup {x}) = Cardinality(S) + 1
         /\ LinkSum(S \cup {x}) = LinkSum(S) + x.links
         /\ LinkSum({}) = 0 /\ Cardinality({}) = 0
         /\ (Cardinality(S) = 0 <=> S = {})
  <1>1. x \notin S /\ IsFiniteSet(S)
    BY DEF OneTrace
  <1>2. OneTrace(S \cup {x})
    BY FS_AddElement DEF OneTrace
  <1>3. Cardinality(S \cup {x}) = Cardinality(S) + 1
    BY <1>1, FS_AddElement
  <1>4. \A s \in S \cup {x} : s.links \in Nat
    BY <1>2 DEF OneTrace, SpanTyped, RowTyped
  <1>5. LinkSum(S \cup {x}) = LinkSum(S) + x.links /\ LinkSum({}) = 0
    BY <1>1, <1>4, LinksAdded
  <1>6. Cardinality({}) = 0 /\ (Cardinality(S) = 0 <=> S = {})
    BY <1>1, FS_EmptySet
  <1>7. QED
    BY <1>1, <1>2, <1>3, <1>5, <1>6

\* mergeSpan widens the times of a trace as the rebuild would.
LEMMA TimesMerge ==
  ASSUME NEW S, OneTrace(S), NEW x, SpanTyped(x), OneTrace(S \cup {x})
  PROVE  /\ Min(Starts(S \cup {x})) =
              IF S = {} THEN x.start ELSE Least(x.start, Min(Starts(S)))
         /\ Max(Ends(S \cup {x})) =
              IF S = {} THEN x.end ELSE Greatest(x.end, Max(Ends(S)))
         /\ Min(Arrivals(S \cup {x})) =
              IF S = {} THEN x.ingested ELSE Least(x.ingested, Min(Arrivals(S)))
  <1> DEFINE U == S \cup {x}
  <1>1. /\ Starts(U) = Starts(S) \cup {x.start} /\ Ends(U) = Ends(S) \cup {x.end}
        /\ Arrivals(U) = Arrivals(S) \cup {x.ingested}
        /\ S = {} => Starts(S) = {} /\ Ends(S) = {} /\ Arrivals(S) = {}
    BY DEF Starts, Ends, Arrivals
  <1>2. /\ Starts(U) \in SUBSET Int /\ Ends(U) \in SUBSET Int /\ Arrivals(U) \in SUBSET Int
    BY TimesHaveBounds
  <1>3. x.start \in Int /\ x.end \in Int /\ x.ingested \in Int
    BY <1>1, <1>2
  <1>4. S # {} =>
          /\ Min(Starts(S)) \in Starts(S) /\ \A t \in Starts(S) : Min(Starts(S)) <= t
          /\ Max(Ends(S)) \in Ends(S) /\ \A t \in Ends(S) : t <= Max(Ends(S))
          /\ Min(Arrivals(S)) \in Arrivals(S) /\ \A t \in Arrivals(S) : Min(Arrivals(S)) <= t
    BY TimesHaveBounds
  <1> HIDE DEF U
  <1>5. Min(Starts(U)) = IF S = {} THEN x.start ELSE Least(x.start, Min(Starts(S)))
    <2>1. CASE S = {}
      <3>1. x.start \in Starts(U) /\ \A t \in Starts(U) : x.start <= t
        BY <1>1, <1>3, <2>1
      <3>2. QED
        BY <1>2, <2>1, <3>1, MinIs
    <2>2. CASE S # {}
      <3> DEFINE m == Least(x.start, Min(Starts(S)))
      <3>1. m \in Starts(U) /\ \A t \in Starts(U) : m <= t
        BY <1>1, <1>2, <1>3, <1>4, <2>2 DEF Least
      <3> HIDE DEF m
      <3>2. Min(Starts(U)) = m
        BY <1>2, <3>1, MinIs
      <3>3. QED
        BY <2>2, <3>2 DEF m
    <2>3. QED
      BY <2>1, <2>2
  <1>6. Max(Ends(U)) = IF S = {} THEN x.end ELSE Greatest(x.end, Max(Ends(S)))
    <2>1. CASE S = {}
      <3>1. x.end \in Ends(U) /\ \A t \in Ends(U) : t <= x.end
        BY <1>1, <1>3, <2>1
      <3>2. QED
        BY <1>2, <2>1, <3>1, MaxIs
    <2>2. CASE S # {}
      <3> DEFINE m == Greatest(x.end, Max(Ends(S)))
      <3>1. m \in Ends(U) /\ \A t \in Ends(U) : t <= m
        BY <1>1, <1>2, <1>3, <1>4, <2>2 DEF Greatest
      <3> HIDE DEF m
      <3>2. Max(Ends(U)) = m
        BY <1>2, <3>1, MaxIs
      <3>3. QED
        BY <2>2, <3>2 DEF m
    <2>3. QED
      BY <2>1, <2>2
  <1>7. Min(Arrivals(U)) = IF S = {} THEN x.ingested ELSE Least(x.ingested, Min(Arrivals(S)))
    <2>1. CASE S = {}
      <3>1. x.ingested \in Arrivals(U) /\ \A t \in Arrivals(U) : x.ingested <= t
        BY <1>1, <1>3, <2>1
      <3>2. QED
        BY <1>2, <2>1, <3>1, MinIs
    <2>2. CASE S # {}
      <3> DEFINE m == Least(x.ingested, Min(Arrivals(S)))
      <3>1. m \in Arrivals(U) /\ \A t \in Arrivals(U) : m <= t
        BY <1>1, <1>2, <1>3, <1>4, <2>2 DEF Least
      <3> HIDE DEF m
      <3>2. Min(Arrivals(U)) = m
        BY <1>2, <3>1, MinIs
      <3>3. QED
        BY <2>2, <3>2 DEF m
    <2>3. QED
      BY <2>1, <2>2
  <1>8. QED
    BY <1>5, <1>6, <1>7 DEF U

\* One candidate more is first if it comes before the one that was.
LEMMA FirstMerges ==
  ASSUME NEW S, OneTrace(S), S # {}, NEW x, SpanTyped(x), OneTrace(S \cup {x}), x \notin S
  PROVE  /\ First(S \cup {x}, Earlier) =
              IF Earlier(x, First(S, Earlier)) THEN x ELSE First(S, Earlier)
         /\ First(S \cup {x}, Longer) =
              IF Longer(x, First(S, Longer)) THEN x ELSE First(S, Longer)
  <1> DEFINE U == S \cup {x}
  <1>1. \A o \in U : o.start \in Int /\ o.end \in Int /\ o.id \in Nat
    BY SpanNumbers DEF OneTrace
  <1>2. \A s, o \in U : s.id = o.id => s = o
    BY DEF OneTrace
  <1>3. /\ \A s, o \in U : s # o => Earlier(s, o) \/ Earlier(o, s)
        /\ \A s, o, q \in U : Earlier(s, o) /\ Earlier(o, q) => Earlier(s, q)
    BY <1>1, <1>2 DEF Earlier
  <1>4. /\ \A s, o \in U : s # o => Longer(s, o) \/ Longer(o, s)
        /\ \A s, o, q \in U : Longer(s, o) /\ Longer(o, q) => Longer(s, q)
    BY <1>1, <1>2 DEF Longer, Duration
  <1>5. First(U, Earlier) = IF Earlier(x, First(S, Earlier)) THEN x ELSE First(S, Earlier)
    <2>1. PICK e \in S : e = First(S, Earlier) /\ \A o \in S \ {e} : Earlier(e, o)
      BY FirstRows
    <2>2. CASE Earlier(x, e)
      <3>1. \A o \in U \ {x} : Earlier(x, o)
        BY <1>3, <2>1, <2>2
      <3>2. First(U, Earlier) = x
        BY <3>1, FirstIs
      <3>3. QED
        BY <2>1, <2>2, <3>2
    <2>3. CASE ~Earlier(x, e)
      <3>1. \A o \in U \ {e} : Earlier(e, o)
        BY <1>3, <2>1, <2>3
      <3>2. First(U, Earlier) = e
        BY <3>1, FirstIs
      <3>3. QED
        BY <2>1, <2>3, <3>2
    <2>4. QED
      BY <2>2, <2>3
  <1>6. First(U, Longer) = IF Longer(x, First(S, Longer)) THEN x ELSE First(S, Longer)
    <2>1. PICK e \in S : e = First(S, Longer) /\ \A o \in S \ {e} : Longer(e, o)
      BY FirstRows
    <2>2. CASE Longer(x, e)
      <3>1. \A o \in U \ {x} : Longer(x, o)
        BY <1>4, <2>1, <2>2
      <3>2. First(U, Longer) = x
        BY <3>1, FirstIs
      <3>3. QED
        BY <2>1, <2>2, <3>2
    <2>3. CASE ~Longer(x, e)
      <3>1. \A o \in U \ {e} : Longer(e, o)
        BY <1>4, <2>1, <2>3
      <3>2. First(U, Longer) = e
        BY <3>1, FirstIs
      <3>3. QED
        BY <2>1, <2>3, <3>2
    <2>4. QED
      BY <2>2, <2>3
  <1>7. QED
    BY <1>5, <1>6

\* mergeSpan replaces the root by a longer one, or by one as long with a
\* smaller id.  What was nearly the longest before a longer one came is not the
\* root any more.
LEMMA RootMerges ==
  ASSUME NEW S, OneTrace(S), NEW r, RowTyped(r), now \in Nat,
         \A s \in S : s.id # r.id,
         NEW exact \in BOOLEAN, NEW sum, RootRight(S, sum.root, exact)
  PROVE  RootRight(S \cup {Stored(r)},
                   IF r.root /\ PreferRoot(sum, r) THEN RootOf(r) ELSE sum.root, exact)
  <1>1. PICK x : x = Stored(r)
    OBVIOUS
  <1>2. /\ SpanTyped(x) /\ x.id = r.id /\ x.root = r.root /\ x.start = r.start /\ x.end = r.end
        /\ RootOf(x) = RootOf(r)
    BY <1>1, StoredIs
  <1>3. OneTrace(S \cup {x}) /\ x \notin S
    BY <1>2, OneMore
  <1>4. r.root \in BOOLEAN
    BY DEF RowTyped
  <1> DEFINE U == S \cup {x}
             new == IF r.root /\ PreferRoot(sum, r) THEN RootOf(r) ELSE sum.root
  <1> SUFFICES RootRight(U, new, exact)
    BY <1>1
  <1>5. CASE ~r.root
    <2>1. Roots(U) = Roots(S)
      BY <1>2, <1>5 DEF Roots
    <2>2. QED
      BY <1>5, <2>1 DEF RootRight, RootBy, NearlyLongest
  <1>n. \A s \in U : s.start \in Int /\ s.end \in Int /\ s.id \in Nat
    BY <1>3, SpanNumbers DEF OneTrace
  <1>m. Micro \in Nat /\ Micro # 0
    BY StoreAssumption
  <1>6. CASE r.root /\ Roots(S) = {}
    <2>1. Roots(U) = {x}
      BY <1>2, <1>6 DEF Roots
    <2>2. OneTrace({x})
      BY <1>3, SomeOfTrace
    <2>3. First({x}, Longer) = x
      BY <2>2, FirstRows
    <2>4. new = RootOf(x)
      BY <1>2, <1>6 DEF PreferRoot, RootRight
    <2>5. Duration(x) - Duration(x) < 2 * Micro
      BY <1>n, <1>m DEF Duration
    <2>6. x \in NearlyLongest(U)
      BY <2>1, <2>5 DEF NearlyLongest
    <2>7. QED
      BY <2>1, <2>3, <2>4, <2>6 DEF RootRight, RootBy
  <1>7. CASE r.root /\ Roots(S) # {}
    <2>1. Roots(U) = Roots(S) \cup {x} /\ Roots(S) \in SUBSET S /\ x \notin Roots(S)
      BY <1>2, <1>3, <1>7 DEF Roots
    <2>2. OneTrace(Roots(S)) /\ OneTrace(Roots(S) \cup {x})
      <3>1. Roots(S) \cup {x} \in SUBSET U
        BY <2>1
      <3>2. QED
        BY <1>3, <2>1, <3>1, SomeOfTrace
    <2>3. PICK f \in NearlyLongest(S) : sum.root = RootOf(f)
      BY <1>7 DEF RootRight
    <2>4. f \in Roots(S) /\ \A o \in Roots(S) : Duration(o) - Duration(f) < 2 * Micro
      BY <2>3 DEF NearlyLongest
    <2>5. PreferRoot(sum, r) <=> Longer(x, f)
      <3>1. f \in S /\ f.res # NoLayout
        BY <2>1, <2>4 DEF OneTrace, SpanTyped, RowTyped
      <3>2. /\ sum.root.res = f.res /\ sum.root.id = f.id
            /\ sum.root.start = f.start /\ sum.root.end = f.end
        BY <2>3 DEF RootOf
      <3>3. sum.root # NoRoot
        BY <3>1, <3>2 DEF NoRoot
      <3>4. QED
        BY <1>2, <3>2, <3>3 DEF PreferRoot, Longer, Duration
    <2>6. PICK y \in Roots(U) : y = (IF Longer(x, f) THEN x ELSE f)
      BY <2>1, <2>4
    <2>7. new = RootOf(y)
      BY <1>2, <1>7, <2>3, <2>5, <2>6
    <2>8. ASSUME NEW o \in Roots(U) PROVE Duration(o) - Duration(y) < 2 * Micro
      <3>1. PICK a \in Int, b \in Int, c \in Int, d \in Int :
               a = Duration(x) /\ b = Duration(f) /\ c = Duration(o) /\ d = Duration(y)
        <4>1. \A s \in U : Duration(s) \in Int
          BY <1>n DEF Duration
        <4>2. x \in U /\ f \in U /\ o \in U /\ y \in U
          BY <2>1, <2>4, <2>6, <2>8
        <4>3. QED
          BY <4>1, <4>2, Zenon
      <3>2. d = (IF Longer(x, f) THEN a ELSE b) /\ (o = x => c = a)
        BY <2>6, <3>1
      <3>3. (Longer(x, f) => a >= b) /\ (~Longer(x, f) => a <= b)
        BY <3>1 DEF Longer
      <3>4. o # x => c - b < 2 * Micro
        BY <2>1, <2>4, <3>1
      <3>5. QED
        BY <1>m, <3>1, <3>2, <3>3, <3>4
    <2>9. y \in NearlyLongest(U)
      BY <2>6, <2>8 DEF NearlyLongest
    <2>10. ASSUME exact PROVE new = RootBy(U, Longer)
      <3>1. PICK g \in Roots(S) : g = First(Roots(S), Longer)
        BY <1>7, <2>2, FirstRows
      <3>2. First(Roots(U), Longer) = IF Longer(x, g) THEN x ELSE g
        <4>1. PICK R : R = Roots(S)
          OBVIOUS
        <4>2. First(R \cup {x}, Longer) = IF Longer(x, First(R, Longer)) THEN x ELSE First(R, Longer)
          BY <1>2, <1>7, <2>1, <2>2, <4>1, FirstMerges
        <4>3. QED
          BY <2>1, <3>1, <4>1, <4>2, Zenon
      <3>3. sum.root = RootOf(g)
        BY <1>7, <2>10, <3>1 DEF RootRight, RootBy
      <3>4. g.id = f.id /\ g \in S /\ f \in S
        BY <2>1, <2>3, <2>4, <3>1, <3>3 DEF RootOf
      <3>5. g = f
        BY <3>4 DEF OneTrace
      <3>6. QED
        BY <2>1, <2>6, <2>7, <3>2, <3>5 DEF RootBy
    <2> HIDE DEF U, new
    <2>11. QED
      BY <2>6, <2>7, <2>9, <2>10 DEF RootRight
  <1>8. QED
    BY <1>4, <1>5, <1>6, <1>7

\* mergeSpan, on a trace without spans or on a right summary, gives a right
\* summary of the trace with the span stored.
LEMMA MergeOne ==
  ASSUME NEW S, OneTrace(S), NEW r, RowTyped(r), now \in Nat,
         \A s \in S : s.id # r.id,
         NEW exact \in BOOLEAN, NEW sum, RightSoFar(S, sum, exact)
  PROVE  /\ OneTrace(S \cup {Stored(r)})
         /\ RightSummary(S \cup {Stored(r)}, MergeSpan(sum, r), exact)
  <1>1. PICK x : x = Stored(r)
    OBVIOUS
  <1> DEFINE U == S \cup {x}
  <1>2. /\ SpanTyped(x) /\ x.id = r.id /\ x.error = r.error /\ x.links = r.links
        /\ x.start = r.start /\ x.end = r.end /\ x.ingested = now /\ RootOf(x) = RootOf(r)
    BY <1>1, StoredIs
  <1>3. /\ OneTrace(U) /\ x \notin S
        /\ Cardinality(U) = Cardinality(S) + 1 /\ LinkSum(U) = LinkSum(S) + x.links
        /\ LinkSum({}) = 0 /\ Cardinality({}) = 0 /\ (Cardinality(S) = 0 <=> S = {})
    BY <1>2, OneMore
  <1>4. /\ sum.start = IF S = {} THEN 0 ELSE Min(Starts(S))
        /\ sum.end = IF S = {} THEN 0 ELSE Max(Ends(S))
        /\ sum.firstSeen = IF S = {} THEN 0 ELSE Min(Arrivals(S))
        /\ sum.earliest = IF S = {} THEN NoRoot ELSE RootOf(First(S, Earlier))
    <2>1. CASE S = {}
      BY <2>1 DEF RightSoFar, NoSummary
    <2>2. CASE S # {}
      BY <2>2 DEF RightSoFar, RightSummary, Summed
    <2>3. QED
      BY <2>1, <2>2
  <1>5. /\ sum.count = Cardinality(S) /\ sum.links = LinkSum(S)
        /\ sum.error = (\E s \in S : s.error)
        /\ RootRight(S, sum.root, exact)
    <2>1. CASE S = {}
      <3>1. Roots(S) = {}
        BY <2>1 DEF Roots
      <3>2. QED
        <4>1. sum.count = 0 /\ sum.links = 0 /\ sum.error = FALSE /\ sum.root = NoRoot
          BY <2>1 DEF RightSoFar, NoSummary
        <4>2. RootRight(S, sum.root, exact)
          BY <3>1, <4>1 DEF RootRight
        <4>3. sum.count = Cardinality(S) /\ sum.links = LinkSum(S)
          BY <1>3, <2>1, <4>1
        <4>4. sum.error = (\E s \in S : s.error)
          BY <2>1, <4>1
        <4>5. QED
          BY <4>2, <4>3, <4>4, Zenon
    <2>2. CASE S # {}
      <3>1. sum = Summed(S, sum.root) /\ RootRight(S, sum.root, exact)
        BY <2>2 DEF RightSoFar, RightSummary
      <3>2. sum.count = Cardinality(S) /\ sum.links = LinkSum(S)
        BY <3>1 DEF Summed
      <3>3. sum.error = (\E s \in S : s.error)
        <4>1. Summed(S, sum.root).error = (\E s \in S : s.error)
          BY Zenon DEF Summed
        <4>2. QED
          BY <3>1, <4>1, Zenon
      <3>4. RootRight(S, sum.root, exact)
        BY <3>1
      <3> HIDE DEF RootRight
      <3>5. QED
        BY <3>2, <3>3, <3>4, Zenon
    <2>3. QED
      BY <2>1, <2>2
  <1>6. sum.count = 0 <=> S = {}
    BY <1>3, <1>5
  <1>7. /\ (IF sum.count = 0 THEN r.start ELSE Least(r.start, sum.start)) = Min(Starts(U))
        /\ (IF sum.count = 0 THEN r.end ELSE Greatest(r.end, sum.end)) = Max(Ends(U))
        /\ (IF sum.count = 0 THEN now ELSE Least(now, sum.firstSeen)) = Min(Arrivals(U))
    BY <1>2, <1>3, <1>4, <1>6, TimesMerge
  <1>8. sum.count + 1 = Cardinality(U) /\ sum.links + r.links = LinkSum(U)
    BY <1>2, <1>3, <1>5
  <1>9. (sum.error \/ r.error) = (\E s \in U : s.error)
    <2>1. r.error \in BOOLEAN /\ sum.error \in BOOLEAN
      BY <1>5 DEF RowTyped
    <2>2. (\E s \in U : s.error) <=> (sum.error \/ r.error)
      BY <1>2, <1>5, Zenon
    <2>3. QED
      BY <2>1, <2>2
  <1>10. RootRight(U, IF r.root /\ PreferRoot(sum, r) THEN RootOf(r) ELSE sum.root, exact)
    BY <1>1, <1>5, RootMerges
  <1>11. (IF sum.count = 0 \/ r.start < sum.start \/ (r.start = sum.start /\ r.id < sum.earliest.id)
          THEN RootOf(r) ELSE sum.earliest) = RootOf(First(U, Earlier))
    <2>1. CASE S = {}
      <3>1. First(U, Earlier) \in U /\ U = {x}
        BY <1>3, <2>1, FirstRows
      <3>2. QED
        BY <1>2, <1>6, <2>1, <3>1
    <2>2. CASE S # {}
      <3>1. PICK e \in S : e = First(S, Earlier) /\ \A o \in S \ {e} : Earlier(e, o)
        BY <2>2, FirstRows
      <3>2. e.start = Min(Starts(S))
        <4>1. Starts(S) \in SUBSET Int /\ e.start \in Starts(S)
          BY <2>2, TimesHaveBounds DEF Starts
        <4>2. ASSUME NEW o \in S PROVE e.start <= o.start
          <5>1. e.start \in Int /\ (o = e \/ Earlier(e, o))
            BY <3>1, <4>1
          <5>2. e.start < o.start => e.start <= o.start
            <6>1. o.start \in Int
              BY <4>1 DEF Starts
            <6>2. QED
              BY <5>1, <6>1
          <5>3. QED
            BY <5>1, <5>2 DEF Earlier
        <4>3. \A t \in Starts(S) : e.start <= t
          BY <4>2 DEF Starts
        <4>4. QED
          BY <4>1, <4>3, MinIs
      <3>3. sum.earliest = RootOf(e) /\ sum.earliest.id = e.id /\ sum.start = e.start
        BY <1>4, <2>2, <3>1, <3>2 DEF RootOf
      <3>4. (r.start < sum.start \/ (r.start = sum.start /\ r.id < sum.earliest.id)) <=> Earlier(x, e)
        BY <1>2, <3>3 DEF Earlier
      <3>5. First(U, Earlier) = IF Earlier(x, e) THEN x ELSE e
        BY <1>2, <1>3, <2>2, <3>1, FirstMerges
      <3>6. QED
        BY <1>2, <1>6, <2>2, <3>3, <3>4, <3>5
    <2>3. QED
      BY <2>1, <2>2
  <1> HIDE DEF U
  <1>12. RightSummary(U, MergeSpan(sum, r), exact)
    <2>1. MergeSpan(sum, r).root = IF r.root /\ PreferRoot(sum, r) THEN RootOf(r) ELSE sum.root
      BY Zenon DEF MergeSpan
    <2>2. MergeSpan(sum, r) = Summed(U, IF r.root /\ PreferRoot(sum, r) THEN RootOf(r) ELSE sum.root)
      BY <1>7, <1>8, <1>9, <1>11, Zenon DEF MergeSpan, Summed
    <2>3. QED
      BY <1>10, <2>1, <2>2, Zenon DEF RightSummary
  <1>13. QED
    BY <1>1, <1>3, <1>12 DEF U

----
(* The loop that merges a batch into the summary of a trace.               *)

MergeStart(t) == IF t \in DOMAIN summaries THEN summaries[t] ELSE NoSummary

\* One turn of the loop.
MergeTurn(g, t, rows, n) ==
    IF rows[n].trace = t THEN MergeSpan(g[n - 1], rows[n]) ELSE g[n - 1]

Merges(g, t, rows, m) ==
    g = [n \in 0..m |-> IF n = 0 THEN MergeStart(t) ELSE MergeTurn(g, t, rows, n)]

\* The function that Merged chooses exists: by induction on its length.
LEMMA MergesExist ==
  ASSUME NEW t, NEW rows, NEW m \in Nat
  PROVE  \E g : Merges(g, t, rows, m)
  <1> DEFINE S == {n \in Nat : \E g : Merges(g, t, rows, n)}
  <1>1. 0 \in S
    <2>1. Merges([n \in 0..0 |-> MergeStart(t)], t, rows, 0)
      BY DEF Merges
    <2>2. QED
      BY <2>1
  <1>2. ASSUME NEW n \in Nat, n \in S PROVE n + 1 \in S
    <2>1. PICK g : Merges(g, t, rows, n)
      BY <1>2
    <2> DEFINE h == [i \in 0..(n + 1) |-> IF i = n + 1 THEN MergeTurn(g, t, rows, n + 1) ELSE g[i]]
    <2>2. /\ \A i \in 0..n : h[i] = g[i] /\ i # n + 1
          /\ h[n + 1] = MergeTurn(g, t, rows, n + 1)
          /\ h = [i \in 0..(n + 1) |-> h[i]]
      OBVIOUS
    <2> HIDE DEF h
    <2>3. \A i \in 0..n : g[i] = IF i = 0 THEN MergeStart(t) ELSE MergeTurn(g, t, rows, i)
      BY <2>1 DEF Merges
    <2>4. ASSUME NEW i \in 0..(n + 1), i # 0 PROVE MergeTurn(h, t, rows, i) = MergeTurn(g, t, rows, i)
      <3>1. i - 1 \in 0..n
        BY <2>4
      <3>2. h[i - 1] = g[i - 1]
        BY <2>2, <3>1
      <3>3. QED
        BY <3>2 DEF MergeTurn
    <2>5. ASSUME NEW i \in 0..(n + 1)
          PROVE  h[i] = IF i = 0 THEN MergeStart(t) ELSE MergeTurn(h, t, rows, i)
      <3>1. CASE i = n + 1
        BY <2>2, <2>4, <3>1
      <3>2. CASE i # n + 1
        <4>1. i \in 0..n
          BY <3>2
        <4>2. QED
          BY <2>2, <2>3, <2>4, <4>1
      <3>3. QED
        BY <3>1, <3>2
    <2>6. Merges(h, t, rows, n + 1)
      BY <2>2, <2>5 DEF Merges
    <2>7. QED
      BY <2>6
  <1> HIDE DEF S
  <1>3. m \in S
    BY <1>1, <1>2, InductiveSet
  <1>4. QED
    BY <1>3 DEF S

\* Merged goes through the rows, merging those of the trace.
LEMMA MergedLoop ==
  ASSUME NEW t, NEW rows, Len(rows) \in Nat
  PROVE  \E f : /\ Merged(t, rows) = f[Len(rows)] /\ f[0] = MergeStart(t)
                /\ \A n \in 1..Len(rows) : f[n] = MergeTurn(f, t, rows, n)
  <1> DEFINE m == Len(rows)
             f == CHOOSE g : g = [n \in 0..m |->
                    IF n = 0 THEN IF t \in DOMAIN summaries THEN summaries[t] ELSE NoSummary
                    ELSE IF rows[n].trace = t THEN MergeSpan(g[n - 1], rows[n])
                    ELSE g[n - 1]]
  <1>1. Merged(t, rows) = f[m]
    BY DEF Merged
  <1>2. Merges(f, t, rows, m)
    <2>1. \E g : Merges(g, t, rows, m)
      BY MergesExist
    <2>2. QED
      BY <2>1, Zenon DEF Merges, MergeStart, MergeTurn
  <1> HIDE DEF f
  <1>3. f[0] = MergeStart(t)
    <2>1. 0 \in 0..m
      OBVIOUS
    <2>2. QED
      BY <1>2, <2>1 DEF Merges
  <1>4. ASSUME NEW n \in 1..m PROVE f[n] = MergeTurn(f, t, rows, n)
    <2>1. n \in 0..m /\ n # 0
      OBVIOUS
    <2>2. QED
      BY <1>2, <2>1 DEF Merges
  <1>5. QED
    BY <1>1, <1>3, <1>4

\* The rows of a trace as the batch stores them.
StoredOf(rows, t) == {Stored(r) : r \in {q \in ToSet(rows) : q.trace = t}}

\* mergeTraceSummaryStates: on the summary of the stored spans, the loop gives
\* the summary of these and of the rows.
LEMMA MergedIs ==
  ASSUME NEW t, NEW rows, rows \in Seq(ToSet(rows)), Apart(rows), now \in Nat,
         \A r \in ToSet(rows) : RowTyped(r),
         NEW S, OneTrace(S), \A r \in ToSet(rows) : r.trace = t => \A s \in S : s.id # r.id,
         NEW exact \in BOOLEAN, RightSoFar(S, MergeStart(t), exact)
  PROVE  /\ OneTrace(S \cup StoredOf(rows, t))
         /\ RightSoFar(S \cup StoredOf(rows, t), Merged(t, rows), exact)
  <1>1. Len(rows) \in Nat /\ \A i \in 1..Len(rows) : rows[i] \in ToSet(rows)
    BY DEF ToSet
  <1>2. PICK f : /\ Merged(t, rows) = f[Len(rows)] /\ f[0] = MergeStart(t)
                 /\ \A n \in 1..Len(rows) : f[n] = MergeTurn(f, t, rows, n)
    BY <1>1, MergedLoop
  <1> DEFINE m == Len(rows)
             In(n) == S \cup {Stored(rows[i]) : i \in {j \in 1..n : rows[j].trace = t}}
             Right(n) == OneTrace(In(n)) /\ RightSoFar(In(n), f[n], exact)
             N == {n \in Nat : n <= m => Right(n)}
  <1>3. 0 \in N
    <2>1. In(0) = S
      OBVIOUS
    <2>2. QED
      BY <1>2, <2>1
  <1>4. ASSUME NEW n \in Nat, n \in N, n + 1 <= m PROVE Right(n + 1)
    <2>1. Right(n)
      <3>1. n <= m
        BY <1>1, <1>4
      <3>2. QED
        BY <1>4, <3>1, Zenon
    <2>2. n + 1 \in 1..m /\ (n + 1) - 1 = n
      BY <1>1, <1>4
    <2>3. f[n + 1] = IF rows[n + 1].trace = t THEN MergeSpan(f[n], rows[n + 1]) ELSE f[n]
      BY <1>2, <2>2 DEF MergeTurn
    <2>4. \A j : j \in 1..(n + 1) <=> j \in 1..n \/ j = n + 1
      OBVIOUS
    <2>5. CASE rows[n + 1].trace # t
      <3>1. In(n + 1) = In(n)
        BY <2>4, <2>5
      <3>2. QED
        BY <2>1, <2>3, <2>5, <3>1, Zenon
    <2>6. CASE rows[n + 1].trace = t
      <3>1. PICK r : r = rows[n + 1] /\ r \in ToSet(rows) /\ RowTyped(r) /\ r.trace = t
        BY <1>1, <2>2, <2>6
      <3>2. In(n + 1) = In(n) \cup {Stored(r)}
        BY <2>4, <2>6, <3>1
      <3>3. ASSUME NEW i \in 1..n, rows[i].trace = t PROVE Stored(rows[i]).id # r.id
        <4>1. i \in 1..m /\ n + 1 \in 1..m /\ i # n + 1
          BY <1>1, <2>2
        <4>2. Key(rows[i]) # Key(r) /\ rows[i] \in ToSet(rows)
          BY <1>1, <3>1, <4>1 DEF Apart
        <4>3. Stored(rows[i]).id = rows[i].id
          BY DEF Stored
        <4>4. QED
          BY <3>1, <3>3, <4>2, <4>3 DEF Key
      <3>4. \A s \in In(n) : s.id # r.id
        BY <3>1, <3>3
      <3>5. PICK T : T = In(n)
        OBVIOUS
      <3> HIDE DEF In
      <3>6. OneTrace(T) /\ RightSoFar(T, f[n], exact)
        BY <2>1, <3>5
      <3>7. OneTrace(T \cup {Stored(r)}) /\ RightSummary(T \cup {Stored(r)}, MergeSpan(f[n], r), exact)
        BY <3>1, <3>4, <3>5, <3>6, MergeOne
      <3>8. RightSoFar(T \cup {Stored(r)}, MergeSpan(f[n], r), exact)
        BY <3>7 DEF RightSoFar
      <3>9. f[n + 1] = MergeSpan(f[n], r) /\ In(n + 1) = T \cup {Stored(r)}
        BY <2>3, <2>6, <3>1, <3>2, <3>5
      <3>10. QED
        BY <3>7, <3>8, <3>9
    <2>7. QED
      BY <2>5, <2>6
  <1> HIDE DEF Right
  <1>5. \A n \in Nat : n \in N => n + 1 \in N
    BY <1>4
  <1>6. m \in N
    <2> HIDE DEF N
    <2>1. QED
      BY <1>1, <1>3, <1>5, InductiveSet
  <1>7. Right(m)
    <2>1. m <= m
      BY <1>1
    <2>2. QED
      BY <1>6, <2>1, Zenon
  <1>8. In(m) = S \cup StoredOf(rows, t)
    BY <1>1 DEF StoredOf, ToSet
  <1> HIDE DEF In
  <1>9. QED
    BY <1>2, <1>7, <1>8 DEF Right

----
(* What a summary says of its trace.                                       *)

\* The columns of the stored spans, in every state.
SpansTyped == now \in Nat /\ IsFiniteSet(spans) /\ \A s \in spans : SpanTyped(s)

\* The rows that the writer has in hand have their types.
LEMMA HandTyped ==
  ASSUME RowsInHand, pc = "spans"
  PROVE  \A r \in ToSet(batch.spans) : RowTyped(r)
  <1>1. PICK b \in TraceBatches : ToSet(batch.spans) \subseteq ToSet(b.spans)
    BY DEF RowsInHand
  <1>2. \A r \in ToSet(b.spans) : RowTyped(r)
    BY BatchTypes DEF RowTyped
  <1>3. QED
    BY <1>1, <1>2

\* The rows of a slice, stored, are finitely many.
LEMMA StoredFinite ==
  ASSUME NEW rows, rows \in Seq(ToSet(rows))
  PROVE  IsFiniteSet({Stored(r) : r \in ToSet(rows)})
  <1> DEFINE m == Len(rows)
             T == {Stored(r) : r \in ToSet(rows)}
             f == [i \in 1..m |-> Stored(rows[i])]
  <1>1. m \in Nat /\ ToSet(rows) = {rows[i] : i \in 1..m}
    BY DEF ToSet
  <1>2. T = {f[i] : i \in 1..m}
    BY <1>1
  <1>3. IsFiniteSet(1..m)
    BY <1>1, FS_Interval
  <1> HIDE DEF T, f
  <1>4. f \in Surjection(1..m, T)
    BY <1>2 DEF Surjection, f
  <1>5. IsFiniteSet(T)
    BY <1>3, <1>4, FS_Surjection
  <1>6. QED
    BY <1>5 DEF T

\* Every statement keeps them.
LEMMA SpansTypedNext == RowsInHand /\ SpansTyped /\ [Next]_vars => SpansTyped'
  <1> SUFFICES ASSUME RowsInHand, SpansTyped, [Next]_vars PROVE SpansTyped'
    OBVIOUS
  <1>1. ASSUME now' \in Nat, spans' \subseteq spans PROVE SpansTyped'
    BY <1>1, FS_Subset DEF SpansTyped
  <1>2. CASE Tick
    BY <1>1, <1>2 DEF Tick, SpansTyped, facts, traceTables
  <1>3. CASE WriteSpans
    <2> DEFINE added == {Stored(r) : r \in ToSet(NewSpans(batch.spans))}
    <2>1. pc = "spans" /\ now' = now /\ spans' \subseteq spans \cup added
      BY <1>3 DEF WriteSpans
    <2>2. batch.spans \in Seq(ToSet(batch.spans))
      BY <2>1 DEF RowsInHand
    <2>3. IsFiniteSet(added)
      BY <2>2, NewRows, StoredFinite
    <2>4. \A r \in ToSet(NewSpans(batch.spans)) : SpanTyped(Stored(r))
      BY <2>1, <2>2, NewRows, HandTyped, StoredIs DEF SpansTyped
    <2>5. \A s \in added : SpanTyped(s)
      BY <2>4
    <2> HIDE DEF added
    <2>6. IsFiniteSet(spans \cup added)
      BY <2>3, FS_Union DEF SpansTyped
    <2>7. IsFiniteSet(spans')
      BY <2>1, <2>6, FS_Subset
    <2>8. QED
      BY <2>1, <2>5, <2>7 DEF SpansTyped
  <1>4. CASE Expire \/ TrimDay
    BY <1>1, <1>4 DEF Expire, TrimDay, DeleteFactsBefore, SpansTyped
  <1>5. CASE ClearTable
    <2>1. spans' \in {spans, {}} /\ now' = now
      BY <1>5 DEF ClearTable
    <2>2. QED
      BY <1>1, <2>1 DEF SpansTyped
  <1>6. ASSUME UNCHANGED <<now, spans>> PROVE SpansTyped'
    BY <1>1, <1>6 DEF SpansTyped
  <1>7. CASE \/ UNCHANGED vars \/ BeginTraces \/ BeginLogs \/ BeginMetrics \/ UpsertResource
             \/ WriteFails \/ RollbackMetrics \/ CommitMetrics \/ AppendLogs \/ AppendLogsFails
             \/ FilterDropped \/ WriteSpansFails
    BY <1>6, <1>7 DEF vars, BeginTraces, BeginLogs, BeginMetrics, BeginBatch, UpsertResource,
                WriteFails, RollbackMetrics, CommitMetrics, AppendLogs, AppendLogsFails,
                FilterDropped, WriteSpansFails, facts, traceTables
  <1>8. CASE \/ BeginSweep \/ PruneSeries \/ PruneLayouts \/ PruneResources \/ SweepCheckpoint
             \/ UnderMaxSize \/ SweepFails \/ BeginClear \/ ClearCheckpoint \/ ClearFails
             \/ Restart
    BY <1>6, <1>8 DEF BeginSweep, PruneSeries, PruneLayouts, PruneResources, SweepCheckpoint,
                UnderMaxSize, SweepFails, BeginClear, ClearCheckpoint, ClearFails, Restart,
                facts, traceTables
  <1>9. QED
    BY <1>2, <1>3, <1>4, <1>5, <1>7, <1>8 DEF Next

\* The spans of a trace are each there once.
LEMMA TracesAreTyped ==
  ASSUME UniqueInv, SpansTyped, NEW t
  PROVE  OneTrace(SpansOf(spans, t))
  <1>1. SpansOf(spans, t) \subseteq spans /\ \A s \in SpansOf(spans, t) : s.trace = t
    BY DEF SpansOf
  <1>2. IsFiniteSet(SpansOf(spans, t))
    BY <1>1, FS_Subset DEF SpansTyped
  <1>3. \A s, o \in SpansOf(spans, t) : s.id = o.id => s = o
    BY <1>1 DEF UniqueInv, NoDuplicateSpans
  <1>4. QED
    BY <1>1, <1>2, <1>3 DEF OneTrace, SpansTyped

SummariesTrue ==
    pc # "clear" /\ ~torn =>
        \A t \in DOMAIN summaries :
            RightSummary(SpansOf(spans, t), summaries[t], t \notin rebuilt)

\* A write leaves of a trace its spans and the new ones, and their summary.
LEMMA WriteSums ==
  ASSUME StoredOnce, IndexesMatch, SpansTyped, SummariesTrue, WriteSpans, ~torn
  PROVE  \A t \in DOMAIN summaries' :
            RightSummary(SpansOf(spans', t), summaries'[t], t \notin rebuilt')
  <1> DEFINE new == NewSpans(batch.spans)
             touched == TracesOf(new)
             over == {t \in touched : Merged(t, new).count > MaxSpansPerTrace}
             kept == touched \ over
             added == {Stored(r) : r \in ToSet(new)}
  <1>1. /\ spans' = {s \in spans \cup added : s.trace \notin over}
        /\ summaries' = [t \in (DOMAIN summaries \cup kept) \ over |->
                            IF t \in kept THEN Merged(t, new) ELSE summaries[t]]
        /\ pc = "spans" /\ rebuilt' = rebuilt \ over
    BY DEF WriteSpans
  <1>2. batch.spans \in Seq(ToSet(batch.spans))
    BY <1>1 DEF StoredOnce, RowsInHand
  <1>3. /\ new \in Seq(ToSet(new)) /\ Apart(new)
        /\ \A r \in ToSet(new) : r \in ToSet(batch.spans) /\ ~AlreadyStored(r)
    BY <1>2, NewRows
  <1>4. now \in Nat /\ \A r \in ToSet(new) : RowTyped(r)
    BY <1>1, <1>3, HandTyped DEF StoredOnce, SpansTyped
  <1>5. \A r \in ToSet(new) : Stored(r).trace = r.trace
    BY DEF Stored
  <1>6. touched = {r.trace : r \in ToSet(new)} /\ over \subseteq touched
    BY DEF TracesOf
  <1>7. /\ DOMAIN summaries = TracesIn(spans)
        /\ \A t \in DOMAIN summaries :
              RightSummary(SpansOf(spans, t), summaries[t], t \notin rebuilt)
    BY <1>1 DEF IndexesMatch, SummariesTrue
  <1> HIDE DEF new, touched, over
  <1>8. SUFFICES ASSUME NEW t \in (DOMAIN summaries \cup kept) \ over
                 PROVE  RightSummary(SpansOf(spans', t),
                                     IF t \in kept THEN Merged(t, new) ELSE summaries[t],
                                     t \notin rebuilt)
    <2>1. \A t \in (DOMAIN summaries \cup kept) \ over : t \notin rebuilt' <=> t \notin rebuilt
      BY <1>1
    <2>2. QED
      BY <1>1, <1>8, <2>1
  <1> DEFINE S == SpansOf(spans, t)
  <1>9. SpansOf(spans', t) = S \cup StoredOf(new, t)
    BY <1>1, <1>5 DEF SpansOf, StoredOf
  <1>10. CASE t \in kept
    <2>1. OneTrace(S)
      BY TracesAreTyped DEF StoredOnce
    <2>2. ASSUME NEW r \in ToSet(new), r.trace = t, NEW s \in S PROVE s.id # r.id
      <3>1. s \in spans /\ s.trace = t
        BY DEF SpansOf
      <3>2. r.trace \in DOMAIN summaries
        BY <1>7, <2>2, <3>1 DEF TracesIn
      <3>3. Key(r) \notin KeysOf(spans)
        BY <1>3, <3>2 DEF AlreadyStored
      <3>4. QED
        BY <2>2, <3>1, <3>3 DEF Key, KeysOf
    <2>3. PICK exact \in BOOLEAN : exact = (t \notin rebuilt)
      OBVIOUS
    <2>7. RightSoFar(S, MergeStart(t), exact)
      <3>1. S # {} <=> t \in DOMAIN summaries
        BY <1>7 DEF TracesIn, SpansOf
      <3>2. QED
        BY <1>7, <2>3, <3>1 DEF RightSoFar, MergeStart
    <2>4. S \cup StoredOf(new, t) # {}
      <3>1. PICK r \in ToSet(new) : r.trace = t
        BY <1>6, <1>10
      <3>2. Stored(r) \in StoredOf(new, t)
        BY <3>1 DEF StoredOf
      <3>3. QED
        BY <3>2
    <2> HIDE DEF S
    <2>5. RightSoFar(S \cup StoredOf(new, t), Merged(t, new), exact)
      BY <1>3, <1>4, <2>1, <2>2, <2>7, MergedIs
    <2>6. RightSummary(S \cup StoredOf(new, t), Merged(t, new), exact)
      BY <2>4, <2>5 DEF RightSoFar
    <2>8. QED
      BY <1>9, <1>10, <2>3, <2>6
  <1>11. CASE t \notin kept
    <2>1. t \notin touched /\ t \in DOMAIN summaries
      BY <1>11
    <2>2. StoredOf(new, t) = {}
      BY <1>6, <2>1 DEF StoredOf
    <2>3. QED
      BY <1>7, <1>9, <1>11, <2>1, <2>2
  <1>12. QED
    BY <1>10, <1>11

\* Every statement keeps the summaries in step with the spans.
LEMMA SummariesNext ==
  StoredOnce /\ IndexesMatch /\ SpansTyped /\ SummariesTrue /\ [Next]_vars => SummariesTrue'
  <1> SUFFICES ASSUME StoredOnce, IndexesMatch, SpansTyped, SummariesTrue, [Next]_vars
               PROVE  SummariesTrue'
    OBVIOUS
  <1>1. ASSUME UNCHANGED <<spans, summaries, rebuilt>>, pc' # "clear" /\ ~torn' => pc # "clear" /\ ~torn
        PROVE  SummariesTrue'
    BY <1>1 DEF SummariesTrue
  <1>2. ASSUME pc' = "clear" PROVE SummariesTrue'
    BY <1>2 DEF SummariesTrue
  <1>3. CASE UNCHANGED vars \/ Tick \/ UpsertResource
    BY <1>1, <1>3 DEF Tick, UpsertResource, vars, facts, traceTables
  <1>4. CASE BeginTraces \/ BeginLogs \/ BeginMetrics \/ BeginSweep
    BY <1>1, <1>4 DEF BeginTraces, BeginLogs, BeginMetrics, BeginBatch, BeginSweep, Begin, facts,
                traceTables
  <1>5. CASE BeginClear \/ ClearTable
    BY <1>2, <1>5 DEF BeginClear, ClearTable
  <1>6. CASE WriteFails \/ RollbackMetrics \/ CommitMetrics \/ AppendLogs \/ AppendLogsFails
    BY <1>1, <1>6 DEF WriteFails, RollbackMetrics, CommitMetrics, AppendLogs, AppendLogsFails,
                facts, traceTables
  <1>7. CASE FilterDropped \/ WriteSpansFails \/ UnderMaxSize \/ SweepFails
    BY <1>1, <1>7 DEF FilterDropped, WriteSpansFails, UnderMaxSize, SweepFails, Sweeping, facts,
                traceTables
  <1>8. CASE PruneSeries \/ PruneLayouts \/ PruneResources \/ SweepCheckpoint
    BY <1>1, <1>8 DEF PruneSeries, PruneLayouts, PruneResources, SweepCheckpoint, facts, traceTables
  <1>9. CASE ClearFails \/ Restart
    BY <1>1, <1>9 DEF ClearFails, Restart, facts, traceTables
  <1>10. CASE ClearCheckpoint
    <2>1. Len(todo) = 0 /\ pc = "clear" /\ UNCHANGED <<spans, summaries>>
      BY <1>10, EmptySeq DEF ClearCheckpoint, facts, traceTables
    <2>2. summaries = Empty /\ DOMAIN Empty = {}
      BY <2>1 DEF StoredOnce, Cleared, Empty
    <2>3. QED
      BY <2>1, <2>2 DEF SummariesTrue
  <1>11. CASE Expire \/ TrimDay
    <2>1. PICK cutoff : DeleteFactsBefore(cutoff)
      BY <1>11 DEF Expire, TrimDay
    <2>2. pc # "clear" /\ torn' = torn
      BY <1>11 DEF Expire, TrimDay
    <2> DEFINE old == {s \in spans : s.start < cutoff}
               left == spans \ old
               affected == TracesIn(old)
    <2>3. /\ spans' = left
          /\ summaries' = [t \in (DOMAIN summaries \ affected) \cup (affected \cap TracesIn(left)) |->
                              IF t \in affected THEN Rebuild(SpansOf(left, t)) ELSE summaries[t]]
          /\ rebuilt' = (rebuilt \cup affected) \cap DOMAIN summaries'
      BY <2>1 DEF DeleteFactsBefore
    <2>7. left \subseteq spans
      OBVIOUS
    <2>4. \A t : t \notin affected => SpansOf(left, t) = SpansOf(spans, t)
      BY DEF TracesIn, SpansOf
    <2> HIDE DEF left, affected
    <2>5. ASSUME ~torn, NEW t \in DOMAIN summaries'
          PROVE  RightSummary(SpansOf(left, t), summaries'[t], t \notin rebuilt')
      <3>1. CASE t \in affected
        <4>1. summaries'[t] = Rebuild(SpansOf(left, t)) /\ t \in rebuilt'
          BY <2>3, <2>5, <3>1
        <4>2. OneTrace(SpansOf(left, t))
          <5>1. SpansOf(left, t) \in SUBSET SpansOf(spans, t)
            BY <2>7 DEF SpansOf
          <5>2. QED
            BY <5>1, TracesAreTyped, SomeOfTrace DEF StoredOnce
        <4>3. PICK T : T = SpansOf(left, t)
          OBVIOUS
        <4>4. Rebuild(T).root = RootBy(T, LongerInterval) /\ Rebuild(T) = Summed(T, Rebuild(T).root)
          BY <4>2, <4>3, RebuildIs DEF Summed
        <4>5. RootRight(T, Rebuild(T).root, FALSE)
          BY <4>2, <4>3, <4>4, RebuiltRoot
        <4>6. QED
          BY <4>1, <4>3, <4>4, <4>5 DEF RightSummary
      <3>2. CASE t \notin affected
        <4>1. t \in DOMAIN summaries /\ summaries'[t] = summaries[t]
          BY <2>3, <2>5, <3>2
        <4>2. RightSummary(SpansOf(spans, t), summaries[t], t \notin rebuilt)
          BY <2>2, <2>5, <4>1 DEF SummariesTrue
        <4>3. t \notin rebuilt' <=> t \notin rebuilt
          BY <2>3, <2>5, <3>2
        <4>4. QED
          BY <2>4, <3>2, <4>1, <4>2, <4>3
      <3>3. QED
        BY <3>1, <3>2
    <2>6. QED
      BY <2>2, <2>3, <2>5 DEF SummariesTrue
  <1>12. CASE WriteSpans
    <2>1. torn' = torn
      BY <1>12 DEF WriteSpans
    <2>2. QED
      BY <1>12, <2>1, WriteSums DEF SummariesTrue
  <1>13. QED
    BY <1>3, <1>4, <1>5, <1>6, <1>7, <1>8, <1>9, <1>10, <1>11, <1>12 DEF Next

DerivedInv == StoredOnce /\ IndexesMatch /\ SpansTyped /\ SummariesTrue

\* trace_summaries, which each batch is merged into in Go, is what the SQL of
\* the sweep would rebuild from the spans, up to the choice of the root, and
\* span_links what the spans say: for any batches, limits and faults, and any
\* order of writes, resends, sweeps, trims, failures and restarts, outside a
\* clear and unless one was cut short.  The merge is right because no span is
\* merged twice and because both sides order the earliest candidates the same
\* way.  The root is the one the merge would choose from all the spans at once,
\* or, once a sweep has chosen, one that no root outlasts by two microseconds.
THEOREM DerivedTables == Spec => []DerivedTablesMatch
  <1>1. Init => DerivedInv
    <2>1. ASSUME Init PROVE SpansTyped /\ SummariesTrue /\ IndexesMatch
      BY <2>1, FS_EmptySet DEF Init, SpansTyped, SummariesTrue, IndexesMatch, LinksMatchSpans,
                               TracesIn, KeysOf, Empty
    <2>2. QED
      BY <2>1, StoredOnceInit DEF DerivedInv
  <1>2. DerivedInv /\ [Next]_vars => DerivedInv'
    <2>1. StoredOnce => RowsInHand
      BY DEF StoredOnce
    <2>2. QED
      BY <2>1, StoredOnceNext, IndexesNext, SpansTypedNext, SummariesNext DEF DerivedInv
  <1>3. DerivedInv => DerivedTablesMatch
    <2> SUFFICES ASSUME DerivedInv, pc # "clear", ~torn, NEW t \in DOMAIN summaries
                 PROVE  LET S == SpansOf(spans, t)
                        IN  /\ summaries[t] = [Rebuild(S) EXCEPT !.root = summaries[t].root]
                            /\ RootRight(S, summaries[t].root, t \notin rebuilt)
      BY DEF DerivedInv, IndexesMatch, DerivedTablesMatch, SummaryMatchesSpans
    <2>1. PICK S, sum : S = SpansOf(spans, t) /\ sum = summaries[t]
      OBVIOUS
    <2>2. OneTrace(S)
      BY <2>1, TracesAreTyped DEF DerivedInv, StoredOnce
    <2>3. sum = Summed(S, sum.root) /\ RootRight(S, sum.root, t \notin rebuilt)
      BY <2>1 DEF DerivedInv, SummariesTrue, RightSummary
    <2>4. [Rebuild(S) EXCEPT !.root = sum.root] = Summed(S, sum.root)
      BY <2>2, RebuildIs
    <2>5. QED
      BY <2>1, <2>3, <2>4
  <1>4. QED
    BY <1>1, <1>2, <1>3, PTL DEF Spec
====
