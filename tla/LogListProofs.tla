---- MODULE LogListProofs ----
(***************************************************************************)
(* Theorems about LogList, for every feed, windows, texts, cap and page    *)
(* size: what the list owes its user when it has no more to load, and what *)
(* a slide or a delivery may do to the window of rows.                     *)
(***************************************************************************)
EXTENDS LogList, SequenceTheorems, FiniteSetTheorems, WellFoundedInduction, TLAPS

----
(* Sets of numbers.                                                        *)

\* A set of naturals that is not empty has a least element.
LEMMA LeastNumber ==
  ASSUME NEW S \in SUBSET Nat, S # {}
  PROVE  \E x \in S : \A y \in S : x <= y
  <1> DEFINE R == OpToRel(<, Nat)
  <1>1. IsWellFoundedOn(R, Nat)
    BY NatLessThanWellFounded, Zenon
  <1>2. \A x, y \in Nat : y < x => <<y, x>> \in R
    BY DEF OpToRel
  <1> HIDE DEF R
  <1>3. \E x \in S : \A y \in S : ~(<<y, x>> \in R)
    BY <1>1, WFMin, Zenon
  <1>4. PICK x \in S : \A y \in S : ~(<<y, x>> \in R)
    BY <1>3, Zenon
  <1>5. ASSUME NEW y \in S PROVE x <= y
    <2>1. x \in Nat /\ y \in Nat
      OBVIOUS
    <2>2. ~(y < x)
      BY <1>2, <1>4, <2>1
    <2>3. QED
      BY <2>1, <2>2
  <1>6. QED
    BY <1>5

\* A set that holds 0 and the successor of each of its elements holds every
\* natural.
LEMMA InductiveSet ==
  ASSUME NEW S, 0 \in S, \A n \in Nat : n \in S => n + 1 \in S
  PROVE  Nat \subseteq S
  <1> DEFINE U == Nat \ S
  <1> SUFFICES ASSUME U # {} PROVE FALSE
    OBVIOUS
  <1>1. PICK x \in U : \A y \in U : x <= y
    BY LeastNumber
  <1>2. x \in Nat /\ x # 0 /\ x \notin S
    OBVIOUS
  <1>3. x - 1 \in Nat /\ x - 1 \notin U
    BY <1>1, <1>2
  <1>4. x - 1 \in S /\ (x - 1) + 1 = x
    BY <1>2, <1>3
  <1>5. QED
    BY <1>2, <1>3, <1>4

----
(* The loop of a filter.                                                   *)

\* One turn of the loop.
Turn(f, s, S, n) == IF s[n] \in S THEN Append(f[n - 1], s[n]) ELSE f[n - 1]

Turns(f, s, S, m) == f = [n \in 0..m |-> IF n = 0 THEN <<>> ELSE Turn(f, s, S, n)]

\* The function that Keep chooses exists: by induction on its length.
LEMMA TurnsExist ==
  ASSUME NEW s, NEW S, NEW m \in Nat
  PROVE  \E f : Turns(f, s, S, m)
  <1> DEFINE N == {n \in Nat : \E f : Turns(f, s, S, n)}
  <1>1. 0 \in N
    <2>1. Turns([n \in 0..0 |-> <<>>], s, S, 0)
      BY DEF Turns
    <2>2. QED
      BY <2>1
  <1>2. ASSUME NEW n \in Nat, n \in N PROVE n + 1 \in N
    <2>1. PICK f : Turns(f, s, S, n)
      BY <1>2
    <2> DEFINE g == [i \in 0..(n + 1) |-> IF i <= n THEN f[i] ELSE Turn(f, s, S, n + 1)]
    <2>2. \A i \in 0..n : g[i] = f[i]
      OBVIOUS
    <2>3. g[n + 1] = Turn(f, s, S, n + 1)
      OBVIOUS
    <2>4. g = [i \in 0..(n + 1) |-> g[i]]
      OBVIOUS
    <2> HIDE DEF g
    <2>5. ASSUME NEW i \in 0..(n + 1)
          PROVE  g[i] = IF i = 0 THEN <<>> ELSE Turn(g, s, S, i)
      <3>1. i # 0 => i - 1 \in 0..n
        OBVIOUS
      <3>2. i # 0 => Turn(g, s, S, i) = Turn(f, s, S, i)
        BY <2>2, <3>1 DEF Turn
      <3>3. CASE i <= n
        <4>1. i \in 0..n
          BY <3>3
        <4>2. f[i] = IF i = 0 THEN <<>> ELSE Turn(f, s, S, i)
          BY <2>1, <4>1 DEF Turns
        <4>3. QED
          BY <2>2, <3>2, <4>1, <4>2
      <3>4. CASE ~(i <= n)
        <4>1. i = n + 1 /\ i # 0
          BY <3>4
        <4>2. QED
          BY <2>3, <3>2, <4>1
      <3>5. QED
        BY <3>3, <3>4
    <2>6. Turns(g, s, S, n + 1)
      BY <2>4, <2>5 DEF Turns
    <2>7. QED
      BY <2>6
  <1> HIDE DEF N
  <1>3. m \in N
    BY <1>1, <1>2, InductiveSet
  <1>4. QED
    BY <1>3 DEF N

Stages(f, s, S) ==
    /\ f[0] = <<>>
    /\ \A n \in Nat : n + 1 <= Len(s) =>
          f[n + 1] = IF s[n + 1] \in S THEN Append(f[n], s[n + 1]) ELSE f[n]

\* Keep goes through s, keeping some.
LEMMA KeepLoop ==
  ASSUME NEW s, NEW S, Len(s) \in Nat
  PROVE  \E f : Keep(s, S) = f[Len(s)] /\ Stages(f, s, S)
  <1> DEFINE m == Len(s)
             f == CHOOSE g : g = [n \in 0..m |-> IF n = 0 THEN <<>>
                                                 ELSE IF s[n] \in S THEN Append(g[n - 1], s[n])
                                                 ELSE g[n - 1]]
  <1>1. f = [n \in 0..m |-> IF n = 0 THEN <<>>
                            ELSE IF s[n] \in S THEN Append(f[n - 1], s[n]) ELSE f[n - 1]]
    <2>1. \E g : g = [n \in 0..m |-> IF n = 0 THEN <<>>
                                     ELSE IF s[n] \in S THEN Append(g[n - 1], s[n])
                                     ELSE g[n - 1]]
      <3>1. PICK g : Turns(g, s, S, m)
        BY TurnsExist
      <3>2. QED
        BY <3>1, Zenon DEF Turns, Turn
    <2>2. QED
      BY <2>1
  <1>2. Keep(s, S) = f[m]
    BY DEF Keep
  <1> HIDE DEF f
  <1>3. f[0] = <<>>
    <2>1. 0 \in 0..m
      OBVIOUS
    <2>2. QED
      BY <1>1, <2>1
  <1>4. ASSUME NEW n \in Nat, n + 1 <= m
        PROVE  f[n + 1] = IF s[n + 1] \in S THEN Append(f[n], s[n + 1]) ELSE f[n]
    <2>1. n + 1 \in 0..m /\ n + 1 # 0 /\ (n + 1) - 1 = n
      BY <1>4
    <2>2. QED
      BY <1>1, <2>1
  <1>5. QED
    BY <1>2, <1>3, <1>4 DEF Stages

Grows(f, n) == \A k, l \in 1..n : k < l => f[k] < f[l]

\* The elements of q are those of s up to m that are in S, in order; f has
\* their places.
Places(f, q, s, S, m) ==
    /\ f \in [1..Len(q) -> 1..m] /\ Grows(f, Len(q))
    /\ \A k \in 1..Len(q) : q[k] = s[f[k]] /\ s[f[k]] \in S
    /\ \A i \in 1..m : s[i] \in S => \E k \in 1..Len(q) : f[k] = i

\* One element more.
LEMMA PlacesMore ==
  ASSUME NEW n \in Nat, NEW q \in Seq(Nat), NEW f, NEW s, NEW S, Places(f, q, s, S, n),
         s[n + 1] \in S, s[n + 1] \in Nat
  PROVE  \E g : Places(g, Append(q, s[n + 1]), s, S, n + 1)
  <1> DEFINE p == Append(q, s[n + 1])
  <1>1. PICK l \in Nat : l = Len(q)
    OBVIOUS
  <1>2. Len(p) = l + 1 /\ (\A k \in 1..l : p[k] = q[k]) /\ p[l + 1] = s[n + 1]
    BY <1>1, AppendProperties
  <1> DEFINE g == [k \in 1..(l + 1) |-> IF k <= l THEN f[k] ELSE n + 1]
  <1> HIDE DEF p
  <1>3. \A k \in 1..l : f[k] \in 1..n /\ q[k] = s[f[k]] /\ s[f[k]] \in S
    BY <1>1 DEF Places
  <1>4. \A k \in 1..l : g[k] = f[k] /\ k \in 1..(l + 1)
    BY <1>1
  <1>5. g[l + 1] = n + 1 /\ l + 1 \in 1..(l + 1) /\ n + 1 \in 1..(n + 1)
    BY <1>1
  <1>6. g \in [1..(l + 1) -> 1..(n + 1)]
    <2>1. \A k \in 1..l : f[k] \in 1..(n + 1)
      BY <1>3
    <2>2. \A k \in 1..(l + 1) : k <= l => k \in 1..l
      BY <1>1
    <2>3. QED
      BY <1>5, <2>1, <2>2
  <1>7. \A k \in 1..(l + 1) : k \in 1..l \/ k = l + 1
    BY <1>1
  <1> HIDE DEF g
  <1>8. Grows(g, l + 1)
    <2>1. ASSUME NEW a \in 1..(l + 1), NEW b \in 1..(l + 1), a < b PROVE g[a] < g[b]
      <3>1. a \in 1..l
        BY <1>1, <2>1
      <3>2. CASE b \in 1..l
        <4>1. f[a] < f[b]
          BY <1>1, <2>1, <3>1, <3>2 DEF Places, Grows
        <4>2. QED
          BY <1>4, <3>1, <3>2, <4>1
      <3>3. CASE b = l + 1
        <4>1. PICK x \in 1..n : x = f[a]
          BY <1>3, <3>1
        <4>2. x < n + 1
          OBVIOUS
        <4>3. QED
          BY <1>4, <1>5, <3>1, <3>3, <4>1, <4>2
      <3>4. QED
        BY <1>7, <3>2, <3>3
    <2>2. QED
      BY <2>1 DEF Grows
  <1>9. \A k \in 1..(l + 1) : p[k] = s[g[k]] /\ s[g[k]] \in S
    BY <1>2, <1>3, <1>4, <1>5, <1>7
  <1>10. ASSUME NEW i \in 1..(n + 1), s[i] \in S PROVE \E k \in 1..(l + 1) : g[k] = i
    <2>1. CASE i \in 1..n
      <3>1. PICK k \in 1..l : f[k] = i
        BY <1>1, <1>10, <2>1 DEF Places
      <3>2. QED
        BY <1>4, <3>1
    <2>2. CASE i \notin 1..n
      <3>1. i = n + 1
        BY <2>2
      <3>2. QED
        BY <1>5, <3>1
    <2>3. QED
      BY <2>1, <2>2
  <1>11. Places(g, p, s, S, n + 1)
    BY <1>2, <1>6, <1>8, <1>9, <1>10 DEF Places
  <1>12. QED
    BY <1>11 DEF p

\* What the loop keeps are the elements of s that are in S, in order.
LEMMA KeepPlaces ==
  ASSUME NEW s \in Seq(Nat), NEW S
  PROVE  Keep(s, S) \in Seq(Nat) /\ \E f : Places(f, Keep(s, S), s, S, Len(s))
  <1> DEFINE m == Len(s)
  <1>1. m \in Nat
    OBVIOUS
  <1>2. PICK c : Keep(s, S) = c[m] /\ Stages(c, s, S)
    BY <1>1, KeepLoop
  <1> DEFINE Right(n) == c[n] \in Seq(Nat) /\ \E f : Places(f, c[n], s, S, n)
             N == {n \in Nat : n <= m => Right(n)}
  <1>3. 0 \in N
    <2>1. Places(<<>>, <<>>, s, S, 0)
      BY DEF Places, Grows
    <2>2. c[0] \in Seq(Nat) /\ Places(<<>>, c[0], s, S, 0)
      BY <1>2, <2>1 DEF Stages
    <2>3. QED
      BY <2>2
  <1>4. ASSUME NEW n \in Nat, n \in N PROVE n + 1 \in N
    <2>1. SUFFICES ASSUME n + 1 <= m PROVE Right(n + 1)
      OBVIOUS
    <2>2. n <= m /\ n + 1 \in 1..m
      BY <2>1
    <2>3. PICK q, f : q \in Seq(Nat) /\ q = c[n] /\ Places(f, q, s, S, n)
      BY <1>4, <2>2
    <2>4. s[n + 1] \in Nat
      BY <1>1, <2>2
    <2>5. c[n + 1] = IF s[n + 1] \in S THEN Append(q, s[n + 1]) ELSE q
      BY <1>2, <2>1, <2>3 DEF Stages
    <2>6. CASE s[n + 1] \in S
      <3>1. \E g : Places(g, Append(q, s[n + 1]), s, S, n + 1)
        BY <2>3, <2>4, <2>6, PlacesMore
      <3>2. Append(q, s[n + 1]) \in Seq(Nat)
        BY <2>3, <2>4
      <3>3. QED
        BY <2>5, <2>6, <3>1, <3>2
    <2>7. CASE s[n + 1] \notin S
      <3>1. \A i \in 1..(n + 1) : i \in 1..n \/ i = n + 1
        OBVIOUS
      <3>2. f \in [1..Len(q) -> 1..(n + 1)]
        <4>1. f \in [1..Len(q) -> 1..n] /\ 1..n \subseteq 1..(n + 1)
          BY <2>3 DEF Places
        <4>2. QED
          BY <4>1
      <3>3. Places(f, q, s, S, n + 1)
        BY <2>3, <2>7, <3>1, <3>2 DEF Places
      <3>4. QED
        BY <2>3, <2>5, <2>7, <3>3
    <2>8. QED
      BY <2>6, <2>7
  <1> HIDE DEF N
  <1>5. m \in N
    BY <1>3, <1>4, InductiveSet
  <1>6. QED
    BY <1>1, <1>2, <1>5 DEF N

\* The rows it keeps.
LEMMA KeepRange ==
  ASSUME NEW s, s \in Seq(Nat), NEW S
  PROVE  Keep(s, S) \in Seq(Nat) /\ Range(Keep(s, S)) = Range(s) \cap S
  <1>1. PICK q, f : q \in Seq(Nat) /\ q = Keep(s, S) /\ Places(f, q, s, S, Len(s))
    BY KeepPlaces
  <1>2. DOMAIN q = 1..Len(q) /\ DOMAIN s = 1..Len(s)
    OBVIOUS
  <1>3. ASSUME NEW k \in 1..Len(q) PROVE q[k] \in Range(s) \cap S
    BY <1>1, <1>2 DEF Places, Range
  <1>4. ASSUME NEW i \in 1..Len(s), s[i] \in S PROVE s[i] \in Range(q)
    <2>1. PICK k \in 1..Len(q) : f[k] = i
      BY <1>1, <1>4 DEF Places
    <2>2. q[k] = s[i]
      BY <1>1, <2>1 DEF Places
    <2>3. QED
      BY <1>2, <2>2 DEF Range
  <1>5. Range(q) \subseteq Range(s) \cap S
    BY <1>2, <1>3 DEF Range
  <1>6. Range(s) \cap S \subseteq Range(q)
    BY <1>2, <1>4 DEF Range
  <1>7. QED
    BY <1>1, <1>5, <1>6

----
(* The order of the pages.                                                 *)

Ids == 1..Len(Feed)

\* The feed and what of it is stored.
LEMMA FeedTyped ==
  Len(Feed) \in Nat /\ DOMAIN Feed = Ids /\ \A i \in Ids : T(i) \in Nat
  <1>1. Feed \in Seq(Range(Feed)) /\ \A i \in DOMAIN Feed : Feed[i].t \in Nat
    BY LogListAssumption
  <1>2. Len(Feed) \in Nat /\ DOMAIN Feed = Ids
    BY <1>1 DEF Ids
  <1>3. QED
    BY <1>1, <1>2 DEF T

\* The pages' order is strict and total.
LEMMA BeforeOrder ==
  /\ \A i \in Ids : ~Before(i, i)
  /\ \A i, j \in Ids : i # j => Before(i, j) \/ Before(j, i)
  /\ \A i, j, k \in Ids : Before(i, j) /\ Before(j, k) => Before(i, k)
  <1>1. \A i \in Ids : i \in Int /\ T(i) \in Int
    BY FeedTyped DEF Ids
  <1>2. QED
    BY <1>1 DEF Before

\* Rows of S in the pages' order, down to the first PageSize of them: each is
\* on the page or after its last.
LEMMA PageOfRows ==
  ASSUME NEW S \in SUBSET Ids
  PROVE  LET all == InOrder(S)
             items == SubSeq(all, 1, Smaller(Len(all), PageSize))
         IN  /\ items \in Seq(Nat) /\ Range(items) \subseteq S
             /\ Len(all) = Cardinality(S)
             /\ \A i \in S : i \in Range(items)
                     \/ (Len(all) > PageSize /\ items # <<>> /\ Before(Last(items), i))
  <1> DEFINE n == Cardinality(S)
             ahead(i) == {j \in S : Before(j, i)}
             rank == [i \in S |-> Cardinality(ahead(i))]
             all == InOrder(S)
             k == Smaller(Len(all), PageSize)
             items == SubSeq(all, 1, k)
  <1>1. IsFiniteSet(S) /\ n \in Nat
    <2>1. IsFiniteSet(Ids)
      BY FeedTyped, FS_Interval DEF Ids
    <2>2. QED
      BY <2>1, FS_Subset, FS_CardinalityType
  <1>2. \A i \in S : i \in Ids
    OBVIOUS
  <1>3. ASSUME NEW i \in S PROVE rank[i] \in 0..(n - 1)
    <2>1. ahead(i) \in SUBSET S /\ i \notin ahead(i)
      BY <1>2, BeforeOrder
    <2>2. Cardinality(ahead(i)) \in Nat /\ Cardinality(ahead(i)) <= n
      BY <1>1, <2>1, FS_Subset, FS_CardinalityType
    <2>3. Cardinality(ahead(i)) # n
      BY <1>1, <2>1, FS_Subset
    <2> HIDE DEF ahead
    <2>4. QED
      BY <1>1, <2>2, <2>3
  <1>4. ASSUME NEW i \in S, NEW j \in S, Before(i, j) PROVE rank[i] < rank[j]
    <2>1. ahead(i) \subseteq ahead(j) /\ i \in ahead(j) /\ i \notin ahead(i)
      BY <1>2, <1>4, BeforeOrder
    <2>2. IsFiniteSet(ahead(j))
      BY <1>1, FS_Subset
    <2>3. /\ Cardinality(ahead(i)) <= Cardinality(ahead(j))
          /\ Cardinality(ahead(i)) # Cardinality(ahead(j))
      BY <2>1, <2>2, FS_Subset
    <2>4. rank[i] \in Int /\ rank[j] \in Int
      BY <1>1, <1>3
    <2> HIDE DEF ahead
    <2>5. QED
      BY <2>3, <2>4
  <1>5. rank \in Injection(S, 0..(n - 1))
    <2>1. rank \in [S -> 0..(n - 1)]
      BY <1>3
    <2>2. ASSUME NEW i \in S, NEW j \in S, i # j PROVE rank[i] # rank[j]
      <3>1. Before(i, j) \/ Before(j, i)
        BY <1>2, <2>2, BeforeOrder
      <3>2. rank[i] < rank[j] \/ rank[j] < rank[i]
        BY <1>4, <3>1
      <3>3. rank[i] \in Int /\ rank[j] \in Int
        BY <1>1, <1>3
      <3>4. QED
        BY <3>2, <3>3
    <2> HIDE DEF rank
    <2>3. QED
      BY <2>1, <2>2 DEF Injection, IsInjective
  <1>6. ASSUME NEW r \in 0..(n - 1) PROVE \E i \in S : rank[i] = r
    <2>1. IsFiniteSet(0..(n - 1)) /\ Cardinality(0..(n - 1)) = n
      BY <1>1, FS_Interval
    <2> HIDE DEF rank, n
    <2>2. rank \in Surjection(S, 0..(n - 1))
      BY <1>5, <2>1, FS_Injection DEF n
    <2>3. QED
      BY <2>2, Zenon DEF Surjection
  <1>7. /\ all = [x \in 1..n |-> CHOOSE i \in S : Cardinality(ahead(i)) = x - 1]
        /\ \A i \in S : rank[i] = Cardinality(ahead(i))
    BY DEF InOrder
  <1> HIDE DEF rank, ahead, all
  <1>8. ASSUME NEW x \in 1..n PROVE all[x] \in S /\ rank[all[x]] = x - 1
    <2>1. x - 1 \in 0..(n - 1)
      BY <1>1
    <2>2. \E i \in S : Cardinality(ahead(i)) = x - 1
      BY <1>6, <1>7, <2>1
    <2>3. all[x] \in S /\ Cardinality(ahead(all[x])) = x - 1
      BY <1>7, <2>2
    <2>4. QED
      BY <1>7, <2>3
  <1>9. all \in Seq(S) /\ Len(all) = n /\ DOMAIN all = 1..n
    <2>1. all = [x \in 1..n |-> all[x]]
      BY <1>7
    <2>2. QED
      BY <1>1, <1>8, <2>1
  <1>10. k \in Nat /\ k <= n /\ (k = n \/ (k = PageSize /\ n > PageSize /\ k > 0))
    BY <1>1, <1>9, LogListAssumption DEF Smaller
  <1> HIDE DEF n, k
  <1>11. /\ items \in Seq(S) /\ Len(items) = k /\ DOMAIN items = 1..k
         /\ \A x \in 1..k : items[x] = all[x]
    <2>1. \A x \in 1..k : x \in 1..n /\ all[x] \in S
      BY <1>1, <1>8, <1>10
    <2>2. /\ items \in Seq(S) /\ Len(items) = IF 1 <= k THEN k - 1 + 1 ELSE 0
          /\ \A x \in 1..(k - 1 + 1) : items[x] = all[1 + x - 1]
      BY <1>10, <2>1, SubSeqProperties
    <2>3. k - 1 + 1 = k /\ \A x \in 1..k : 1 + x - 1 = x
      BY <1>10
    <2>4. Len(items) = k
      BY <1>10, <2>2
    <2> HIDE DEF items
    <2>5. QED
      BY <2>2, <2>3, <2>4
  <1> HIDE DEF items
  <1>12. items \in Seq(Nat)
    <2>1. ASSUME NEW x \in 1..k PROVE all[x] \in Nat
      <3>1. x \in 1..n
        BY <1>1, <1>10
      <3>2. all[x] \in Ids
        BY <1>2, <1>8, <3>1
      <3>3. QED
        BY <3>2, FeedTyped DEF Ids
    <2>2. QED
      BY <1>10, <2>1, SubSeqProperties DEF items
  <1>13. Range(items) \subseteq S
    BY <1>11 DEF Range
  <1>14. ASSUME NEW i \in S, i \notin Range(items)
         PROVE  n > PageSize /\ items # <<>> /\ Before(Last(items), i)
    <2>1. PICK r \in 0..(n - 1) : r = rank[i]
      BY <1>3
    <2>2. all[r + 1] = i
      <3>1. r + 1 \in 1..n /\ (r + 1) - 1 = r
        BY <1>1
      <3>2. all[r + 1] \in S /\ rank[all[r + 1]] = rank[i]
        BY <1>8, <2>1, <3>1
      <3>3. QED
        BY <1>5, <3>2, Zenon DEF Injection, IsInjective
    <2>3. r + 1 \notin 1..k
      BY <1>11, <1>14, <2>2 DEF Range
    <2>4. k <= r /\ k = PageSize /\ n > PageSize /\ k > 0 /\ k \in 1..k
      BY <1>1, <1>10, <2>3
    <2>5. items # <<>> /\ Last(items) = all[k]
      BY <1>11, <2>4 DEF Last
    <2>6. all[k] \in S /\ rank[all[k]] = k - 1
      BY <1>8, <1>10, <1>1, <2>4
    <2>7. rank[all[k]] < rank[i]
      BY <1>10, <2>1, <2>4, <2>6
    <2>8. all[k] # i /\ ~(rank[i] < rank[all[k]])
      BY <1>10, <2>1, <2>4, <2>6
    <2>9. Before(all[k], i)
      <3>1. Before(all[k], i) \/ Before(i, all[k])
        BY <1>2, <2>6, <2>8, BeforeOrder
      <3>2. QED
        BY <1>4, <2>6, <2>8, <3>1
    <2>10. QED
      BY <2>4, <2>5, <2>9
  <1>15. QED
    BY <1>9, <1>12, <1>13, <1>14 DEF n, items, all, k

----
(* The invariant.  Rows that the cap cut cannot be vouched for, so all but *)
(* the types is about a session without a cut.                             *)

\* What the session's pages and those beyond its window are to bring.
InScope(i) ==
    /\ Searching(query) => i \in hits
    /\ bounds.from <= T(i) /\ T(i) < bounds.to
    /\ i \notin swept
Older(i) == ~Searching(query) /\ T(i) < bounds.from /\ i \notin swept

Asked == [phase : {"asked"}, initial : BOOLEAN, after : Nat, before : SUBSET Nat]
Answered ==
    [phase : {"answered"}, initial : BOOLEAN, before : SUBSET Nat, items : Seq(Nat),
     at : Nat, more : BOOLEAN]

BufferTyped ==
    /\ committed \in 1..Len(Feed) /\ delivered \in 1..committed
    /\ logs \in Seq(Nat) /\ Range(logs) \subseteq 1..committed
    /\ base > 0 => listWindow = window
SessionTyped ==
    /\ window \in Windows
    /\ base \in 0..committed
    /\ after \in Nat
    /\ bounds \in [from : Int, to : Nat] /\ bounds.from <= bounds.to
    /\ window.mode = "fixed" => bounds = [from |-> window.from, to |-> window.to]
    /\ base = 0 => ~hasMore
PageTyped ==
    /\ page = Idle \/ page \in Asked \cup Answered
    /\ page.phase # "idle" => 
         /\ page.before \subseteq 1..committed
         /\ page.initial <=> base = 0
    /\ page.phase = "asked" => page.after = IF page.initial THEN None ELSE after
    /\ page.phase = "answered" =>
         page.at \in 1..committed /\ Range(page.items) \subseteq 1..committed

\* A log that further pages may bring.
Rest(i) == page.more /\ page.items # <<>> /\ Before(Last(page.items), i)

\* What is delivered to the session stays in the buffer.
Heard == \A i \in 1..delivered : i \in unheard \/ i \in Range(logs)

SessionInv ==
  base > 0 =>
    /\ \A i \in 1..base : InScope(i) =>
         i \in Range(logs) \/ (hasMore /\ after # None /\ Before(after, i))
    /\ \A i \in 1..base : Older(i) =>
         i \in Range(logs) \cap older \/ (hasMore /\ (after = None \/ Before(after, i)))

\* The rows that a first page takes the place of were not delivered to it.
FirstPage == page.phase # "idle" /\ page.initial => page.before \subseteq unheard

FirstAnswer ==
  page.phase = "answered" /\ page.initial =>
    /\ \A i \in 1..page.at : InScope(i) => i \in Range(page.items) \/ Rest(i)
    /\ \A i \in 1..page.at : Older(i) =>
         page.more /\ (page.items = <<>> \/ Before(Last(page.items), i))

NextAnswer ==
  page.phase = "answered" /\ ~page.initial =>
    /\ \A i \in 1..base : InScope(i) => i \in Range(logs) \cup Range(page.items) \/ Rest(i)
    /\ \A i \in 1..base : Older(i) =>
         i \in Range(logs) \cap older \/ i \in Range(page.items) \/ Rest(i)

PageInv == FirstPage /\ FirstAnswer /\ NextAnswer
Vouched == Heard /\ SessionInv /\ PageInv

ListTyped == BufferTyped /\ SessionTyped /\ PageTyped
ReachInv == ListTyped /\ (~cut => Vouched)

\* All of the state that the invariant is about.
core == <<committed, delivered, swept, logs, matched, older, listWindow, cut, window, query, hits,
          bounds, after, hasMore, base, unheard, page>>

\* What a step is: filters and searches of the user set the scope.
LEMMA Actions ==
  ASSUME ListTyped, [Next]_vars
  PROVE  \/ UNCHANGED vars
         \/ Commit \/ Drop \/ \E cutoff : Sweep(cutoff)
         \/ \E n \in (delivered + 1)..committed : addLogs(n)
         \/ fetchPage \/ replaceLogPage \/ appendLogs \/ pageFails
         \/ loadMoreSlides \/ loadMoreFetches \/ backToLatest
         \/ \E w \in Windows : revisit(w) \/ \E q : setScope(w, q)
  <1>1. window \in Windows
    BY DEF ListTyped, SessionTyped
  <1>2. CASE Live \/ Paging
    BY <1>2, Zenon DEF Live, Paging
  <1>3. CASE User
    <2>1. CASE loadMoreSlides \/ loadMoreFetches \/ backToLatest
      BY <2>1
    <2>2. CASE \E w \in Windows : setScope(w, query) \/ revisit(w)
      BY <2>2, Zenon
    <2>3. CASE clearFilters
      BY <1>1, <2>3, Zenon DEF clearFilters
    <2>4. CASE \E typed \in Typed : submit(typed)
      BY <1>1, <2>4, Zenon DEF submit
    <2>5. CASE \E i \in Range(Items), key \in Fields \cup Attributes : filterBy(i, key)
      <3>1. PICK i, key : filterBy(i, key)
        BY <2>5, Zenon
      <3>2. \E q : setScope(window, q)
        BY <3>1, Zenon DEF filterBy
      <3>3. QED
        BY <1>1, <3>2, Zenon
    <2>6. QED
      BY <1>3, <2>1, <2>2, <2>3, <2>4, <2>5, Zenon DEF User
  <1>4. QED
    BY <1>2, <1>3, Zenon DEF Next

\* Most of what the user does begins a session or moves the window of rows.
LEMMA Steps ==
  ASSUME ListTyped, [Next]_vars
  PROVE  \/ UNCHANGED core
         \/ Commit \/ Drop \/ \E cutoff : Sweep(cutoff)
         \/ \E n \in (delivered + 1)..committed : addLogs(n)
         \/ fetchPage \/ replaceLogPage \/ appendLogs \/ pageFails \/ loadMoreFetches
         \/ \E w \in Windows : \E q : Begin(w, q)
  <1>1. UNCHANGED vars \/ loadMoreSlides \/ backToLatest => UNCHANGED core
    BY DEF loadMoreSlides, backToLatest, vars, core, bufferVars, scopeVars, sessionVars, viewVars
  <1>2. \A w \in Windows : \A q : setScope(w, q) => Begin(w, q)
    BY Zenon DEF setScope
  <1>3. \A w \in Windows : revisit(w) => Begin(w, query)
    BY Zenon DEF revisit
  <1>4. QED
    BY <1>1, <1>2, <1>3, Actions, Zenon

----
(* What a write leaves of the rows.                                        *)

\* The rows of two lists.
LEMMA ConcatRange ==
  ASSUME NEW s \in Seq(Nat), NEW t \in Seq(Nat)
  PROVE  s \o t \in Seq(Nat) /\ Range(s \o t) = Range(s) \cup Range(t)
  <1>1. /\ s \o t \in Seq(Nat) /\ Len(s \o t) = Len(s) + Len(t)
        /\ \A i \in 1..(Len(s) + Len(t)) :
              (s \o t)[i] = IF i <= Len(s) THEN s[i] ELSE t[i - Len(s)]
    BY ConcatProperties
  <1>2. Len(s) \in Nat /\ Len(t) \in Nat /\ DOMAIN s = 1..Len(s) /\ DOMAIN t = 1..Len(t)
        /\ DOMAIN (s \o t) = 1..(Len(s) + Len(t))
    BY <1>1
  <1> DEFINE u == s \o t
  <1>3. \A i \in 1..(Len(s) + Len(t)) : u[i] = IF i <= Len(s) THEN s[i] ELSE t[i - Len(s)]
    BY <1>1
  <1>4. DOMAIN u = 1..(Len(s) + Len(t))
    BY <1>2
  <1> HIDE DEF u
  <1>5. Range(u) \subseteq Range(s) \cup Range(t)
    <2>1. ASSUME NEW i \in DOMAIN u PROVE u[i] \in Range(s) \cup Range(t)
      <3>1. CASE i <= Len(s)
        <4>1. i \in DOMAIN s /\ u[i] = s[i]
          BY <1>2, <1>3, <1>4, <3>1
        <4>2. QED
          BY <4>1 DEF Range
      <3>2. CASE ~(i <= Len(s))
        <4>1. i - Len(s) \in DOMAIN t /\ u[i] = t[i - Len(s)]
          BY <1>2, <1>3, <1>4, <3>2
        <4>2. QED
          BY <4>1 DEF Range
      <3>3. QED
        BY <3>1, <3>2
    <2>2. QED
      BY <2>1 DEF Range
  <1>6. Range(s) \subseteq Range(u)
    <2>1. ASSUME NEW i \in DOMAIN s PROVE s[i] \in Range(u)
      <3>1. i \in DOMAIN u /\ u[i] = s[i]
        BY <1>2, <1>3, <1>4
      <3>2. QED
        BY <3>1 DEF Range
    <2>2. QED
      BY <2>1 DEF Range
  <1>7. Range(t) \subseteq Range(u)
    <2>1. ASSUME NEW i \in DOMAIN t PROVE t[i] \in Range(u)
      <3>1. i + Len(s) \in DOMAIN u /\ ~(i + Len(s) <= Len(s)) /\ (i + Len(s)) - Len(s) = i
        BY <1>2, <1>4
      <3>2. u[i + Len(s)] = t[i]
        BY <1>2, <1>3, <1>4, <3>1
      <3>3. QED
        BY <3>1, <3>2 DEF Range
    <2>2. QED
      BY <2>1 DEF Range
  <1>8. QED
    BY <1>1, <1>5, <1>6, <1>7 DEF u

\* A write keeps the rows in front; without a cut it keeps them all.
LEMMA WriteRows ==
  ASSUME NEW b, b.logs \in Seq(Nat), Write(b)
  PROVE  /\ logs' \in Seq(Nat) /\ Range(logs') \subseteq Range(b.logs)
         /\ ~cut' => ~cut /\ logs' = b.logs
         /\ Len(logs') = Smaller(Len(b.logs), Cap)
         /\ \A i \in 1..Len(logs') : logs'[i] = b.logs[i]
  <1> DEFINE s == b.logs
             k == Smaller(Len(s), Cap)
  <1>1. s \in Seq(Nat) /\ Len(s) \in Nat /\ DOMAIN s = 1..Len(s) /\ Cap \in Nat
    BY LogListAssumption
  <1>2. logs' = SubSeq(s, 1, k) /\ cut' = (cut \/ Len(s) > Cap)
    BY DEF Write
  <1>3. k \in Nat /\ k <= Len(s) /\ (~(Len(s) > Cap) => k = Len(s))
    BY <1>1 DEF Smaller
  <1> HIDE DEF s, k
  <1>4. /\ logs' \in Seq(Nat) /\ Len(logs') = IF 1 <= k THEN k - 1 + 1 ELSE 0
        /\ \A x \in 1..(k - 1 + 1) : logs'[x] = s[1 + x - 1]
    <2>1. ASSUME NEW x \in 1..k PROVE s[x] \in Nat
      <3>1. PICK m \in Nat : m = Len(s) /\ k <= m
        BY <1>1, <1>3
      <3>2. x \in 1..m
        BY <1>3, <3>1
      <3>3. QED
        BY <1>1, <3>1, <3>2
    <2>2. QED
      BY <1>2, <1>3, <2>1, SubSeqProperties
  <1>5. /\ Len(logs') = k /\ DOMAIN logs' = 1..k
        /\ \A x \in 1..k : x \in DOMAIN s /\ logs'[x] = s[x]
    <2>1. k - 1 + 1 = k /\ \A x \in 1..k : 1 + x - 1 = x
      BY <1>3
    <2>2. Len(logs') = k
      BY <1>3, <1>4
    <2>3. ASSUME NEW x \in 1..k PROVE x \in DOMAIN s
      <3>1. PICK m \in Nat : m = Len(s) /\ k <= m
        BY <1>1, <1>3
      <3>2. x \in 1..m
        BY <1>3, <3>1
      <3>3. QED
        BY <1>1, <3>1, <3>2
    <2>4. QED
      BY <1>4, <2>1, <2>2, <2>3
  <1>6. Range(logs') \subseteq Range(s)
    BY <1>5 DEF Range
  <1>7. ASSUME ~cut' PROVE ~cut /\ logs' = s
    <2>1. ~cut /\ k = Len(s)
      BY <1>2, <1>3, <1>7
    <2>2. QED
      BY <1>1, <1>4, <1>5, <2>1
  <1>8. QED
    BY <1>4, <1>5, <1>6, <1>7 DEF s, k

\* A delivery adds the logs of its batch.
LEMMA AddRows ==
  ASSUME ListTyped, NEW n \in (delivered + 1)..committed, addLogs(n)
  PROVE  /\ logs' \in Seq(Nat) /\ Range(logs') \subseteq Range(logs) \cup 1..n
         /\ ~cut' => ~cut /\ Range(logs') = Range(logs) \cup (delivered + 1)..n
         /\ delivered' = n
         /\ UNCHANGED <<committed, swept, matched, older, listWindow, window, query, hits, bounds,
                        after, hasMore, base, unheard, page>>
  <1> DEFINE batch == [i \in 1..(n - delivered) |-> n - i + 1]
             b == [Buffer EXCEPT !.logs = batch \o @]
  <1>1. logs \in Seq(Nat) /\ delivered \in Nat /\ n \in Nat /\ delivered < n
    BY DEF ListTyped, BufferTyped
  <1>2. batch \in Seq(Nat) /\ Range(batch) = (delivered + 1)..n
    <2>1. \A i \in 1..(n - delivered) : n - i + 1 \in Nat
      BY <1>1
    <2>2. n - delivered \in Nat
      BY <1>1
    <2>3. batch \in Seq(Nat)
      BY <2>1, <2>2
    <2>4. \A i \in 1..(n - delivered) : n - i + 1 \in (delivered + 1)..n
      BY <1>1
    <2>5. \A x \in (delivered + 1)..n : n - x + 1 \in 1..(n - delivered)
                                        /\ n - (n - x + 1) + 1 = x
      BY <1>1
    <2>6. DOMAIN batch = 1..(n - delivered)
      OBVIOUS
    <2>7. \A i \in 1..(n - delivered) : batch[i] = n - i + 1
      OBVIOUS
    <2> HIDE DEF batch
    <2>8. Range(batch) \subseteq (delivered + 1)..n
      BY <2>4, <2>6, <2>7 DEF Range
    <2>9. ASSUME NEW x \in (delivered + 1)..n PROVE x \in Range(batch)
      <3>1. batch[n - x + 1] = x
        BY <2>5, <2>7
      <3>2. QED
        BY <2>5, <2>6, <3>1 DEF Range
    <2>10. QED
      BY <2>3, <2>8, <2>9
  <1> HIDE DEF batch
  <1>3. b.logs = batch \o logs /\ b.matched = matched /\ b.older = older
        /\ b.listWindow = listWindow
    BY DEF Buffer
  <1>4. batch \o logs \in Seq(Nat) /\ Range(batch \o logs) = Range(batch) \cup Range(logs)
    BY <1>1, <1>2, ConcatRange
  <1>5. /\ Write(b) /\ delivered' = n
        /\ UNCHANGED <<committed, swept, scopeVars, sessionVars, page>>
    BY DEF addLogs, batch
  <1> HIDE DEF b
  <1>6. /\ logs' \in Seq(Nat) /\ Range(logs') \subseteq Range(b.logs)
        /\ ~cut' => ~cut /\ logs' = b.logs
    BY <1>3, <1>4, <1>5, WriteRows
  <1>7. matched' = matched /\ older' = older /\ listWindow' = listWindow
    BY <1>3, <1>5 DEF Write
  <1>8. (delivered + 1)..n \subseteq 1..n
    BY <1>1
  <1>9. QED
    BY <1>2, <1>3, <1>4, <1>5, <1>6, <1>7, <1>8 DEF scopeVars, sessionVars

\* A first page is the rows but for those from after it was asked for.
LEMMA ReplaceRows ==
  ASSUME ListTyped, replaceLogPage
  PROVE  /\ logs' \in Seq(Nat)
         /\ Range(logs') \subseteq Range(logs) \cup Range(page.items)
         /\ ~cut' => ~cut /\ Range(logs') = (Range(logs) \ page.before) \cup Range(page.items)
         /\ listWindow' = window /\ older' = {}
         /\ after' = endCursor /\ hasMore' = page.more /\ base' = page.at /\ page' = Idle
         /\ UNCHANGED <<committed, delivered, swept, window, query, hits, bounds, unheard>>
  <1> DEFINE live == Keep(logs, Range(logs) \ page.before)
             fresh == Keep(page.items, Range(page.items) \ Range(live))
             b == [logs |-> live \o fresh, matched |-> Range(page.items), older |-> {},
                   listWindow |-> window]
  <1>1. logs \in Seq(Nat) /\ page.items \in Seq(Nat)
    <2>1. page.phase = "answered"
      BY DEF replaceLogPage
    <2>2. page \in Answered
      BY <2>1 DEF ListTyped, PageTyped, Idle, Asked
    <2>3. QED
      BY <2>2 DEF ListTyped, BufferTyped, Answered
  <1>2. live \in Seq(Nat) /\ Range(live) = Range(logs) \ page.before
    <2>1. live \in Seq(Nat) /\ Range(live) = Range(logs) \cap (Range(logs) \ page.before)
      BY <1>1, KeepRange
    <2> HIDE DEF live
    <2>2. QED
      BY <2>1
  <1> HIDE DEF live
  <1>3. fresh \in Seq(Nat) /\ Range(fresh) = Range(page.items) \ Range(live)
    <2>1. fresh \in Seq(Nat)
          /\ Range(fresh) = Range(page.items) \cap (Range(page.items) \ Range(live))
      BY <1>1, KeepRange
    <2> HIDE DEF fresh
    <2>2. QED
      BY <2>1
  <1> HIDE DEF fresh
  <1>4. live \o fresh \in Seq(Nat) /\ Range(live \o fresh) = Range(live) \cup Range(fresh)
    BY <1>2, <1>3, ConcatRange
  <1>5. /\ Write(b) /\ after' = endCursor /\ hasMore' = page.more /\ base' = page.at
        /\ page' = Idle /\ UNCHANGED <<committed, delivered, swept, scopeVars, bounds, unheard>>
    BY DEF replaceLogPage, live, fresh
  <1>6. b.logs = live \o fresh /\ b.listWindow = window /\ b.older = {}
    OBVIOUS
  <1> HIDE DEF b
  <1>7. /\ logs' \in Seq(Nat) /\ Range(logs') \subseteq Range(b.logs)
        /\ ~cut' => ~cut /\ logs' = b.logs
    BY <1>4, <1>5, <1>6, WriteRows
  <1>8. listWindow' = window /\ older' = {}
    BY <1>5, <1>6 DEF Write
  <1>9. QED
    BY <1>2, <1>3, <1>4, <1>5, <1>6, <1>7, <1>8 DEF scopeVars

\* A further page joins the rows, and is marked when it was browsed for.
LEMMA AppendRows ==
  ASSUME ListTyped, appendLogs
  PROVE  /\ logs' \in Seq(Nat)
         /\ Range(logs') \subseteq Range(logs) \cup Range(page.items)
         /\ ~cut' => ~cut /\ Range(logs') = Range(logs) \cup Range(page.items)
         /\ ~Searching(query) => older' = older \cup Range(page.items)
         /\ after' = endCursor /\ hasMore' = page.more /\ page' = Idle
         /\ UNCHANGED <<committed, delivered, swept, listWindow, window, query, hits, bounds, base,
                        unheard>>
  <1> DEFINE ids == Range(page.items)
             fresh == Keep(page.items, ids \ Range(logs))
             b == [Buffer EXCEPT !.logs = @ \o fresh, !.matched = @ \cup ids,
                                 !.older = IF Searching(query) THEN @ ELSE @ \cup ids]
  <1>1. logs \in Seq(Nat) /\ page.items \in Seq(Nat)
    <2>1. page.phase = "answered"
      BY DEF appendLogs
    <2>2. page \in Answered
      BY <2>1 DEF ListTyped, PageTyped, Idle, Asked
    <2>3. QED
      BY <2>2 DEF ListTyped, BufferTyped, Answered
  <1>2. fresh \in Seq(Nat) /\ Range(fresh) = ids \ Range(logs)
    <2>1. fresh \in Seq(Nat) /\ Range(fresh) = ids \cap (ids \ Range(logs))
      BY <1>1, KeepRange
    <2> HIDE DEF fresh
    <2>2. QED
      BY <2>1
  <1> HIDE DEF fresh
  <1>3. logs \o fresh \in Seq(Nat) /\ Range(logs \o fresh) = Range(logs) \cup Range(fresh)
    BY <1>1, <1>2, ConcatRange
  <1>4. /\ Write(b) /\ after' = endCursor /\ hasMore' = page.more
        /\ page' = Idle
        /\ UNCHANGED <<committed, delivered, swept, scopeVars, bounds, base, unheard>>
    BY DEF appendLogs, fresh
  <1>5. /\ b.logs = logs \o fresh /\ b.listWindow = listWindow
        /\ ~Searching(query) => b.older = older \cup ids
    BY DEF Buffer
  <1> HIDE DEF b
  <1>6. /\ logs' \in Seq(Nat) /\ Range(logs') \subseteq Range(b.logs)
        /\ ~cut' => ~cut /\ logs' = b.logs
    BY <1>3, <1>4, <1>5, WriteRows
  <1>7. listWindow' = listWindow /\ (~Searching(query) => older' = older \cup ids)
    BY <1>4, <1>5 DEF Write
  <1>8. QED
    BY <1>2, <1>3, <1>4, <1>5, <1>6, <1>7 DEF scopeVars

\* The rows that the request in flight asks for.
AskedFor ==
    InBounds(IF beyondWindow THEN NoTime ELSE bounds.from,
             IF beyondWindow /\ page.after = None THEN bounds.from ELSE bounds.to,
             page.after)

\* An answer p: its page, and whether there is more.
Answers(p) ==
    /\ p \in Answered /\ p.initial = page.initial /\ p.before = page.before /\ p.at = committed
    /\ Range(p.items) \subseteq AskedFor
    /\ \A i \in AskedFor : i \in Range(p.items)
            \/ (p.more /\ p.items # <<>> /\ Before(Last(p.items), i))
    /\ page.initial /\ loadOlderBeyondWindow /\ bounds.from # NoTime
            /\ InBounds(NoTime, bounds.from, None) # {} => p.more

\* A page is read; nothing else but the count of events changes.
LEMMA FetchedPage ==
  ASSUME ListTyped, fetchPage
  PROVE  /\ \E p : page' = p /\ Answers(p)
         /\ UNCHANGED <<committed, delivered, swept, logs, matched, older, listWindow, cut, window,
                        query, hits, bounds, after, hasMore, base, unheard>>
  <1> DEFINE all == InOrder(AskedFor)
             items == SubSeq(all, 1, Smaller(Len(all), PageSize))
             more == Len(all) > PageSize
             answer(probed) ==
                 [phase |-> "answered", initial |-> page.initial, before |-> page.before,
                  items |-> items, at |-> committed, more |-> more \/ hasOlder(more, probed)]
             probe == InBounds(NoTime, bounds.from, None) # {}
  <1>1. committed \in Ids /\ 1..committed \subseteq Ids
    BY FeedTyped DEF ListTyped, BufferTyped, Ids
  <1>2. AskedFor \in SUBSET Ids
    BY <1>1 DEF AskedFor, InBounds
  <1>3. /\ items \in Seq(Nat) /\ Range(items) \subseteq AskedFor
        /\ \A i \in AskedFor : i \in Range(items)
               \/ (more /\ items # <<>> /\ Before(Last(items), i))
    BY <1>2, PageOfRows
  <1>4. page.phase = "asked" /\ page \in Asked
    BY DEF fetchPage, ListTyped, PageTyped, Idle, Answered
  <1>5. PICK probed \in BOOLEAN : page' = answer(probed) /\ (probe => probed)
    <2>1. page' = answer(probe) \/ page' = answer(TRUE)
      BY DEF fetchPage, AskedFor
    <2>2. probe \in BOOLEAN
      OBVIOUS
    <2> HIDE DEF answer, probe
    <2>3. QED
      BY <2>1, <2>2
  <1> HIDE DEF items, more, probe
  <1>6. Answers(answer(probed))
    <2> DEFINE p == answer(probed)
    <2>1. p \in Answered
      <3>1. page.initial \in BOOLEAN /\ page.before \in SUBSET Nat
        BY <1>4 DEF Asked
      <3>2. committed \in Nat
        BY <1>1 DEF Ids
      <3>3. (more \/ hasOlder(more, probed)) \in BOOLEAN
        OBVIOUS
      <3> HIDE DEF items, more
      <3>4. QED
        BY <1>3, <3>1, <3>2, <3>3 DEF Answered
    <2>2. p.initial = page.initial /\ p.before = page.before /\ p.at = committed /\ p.items = items
      OBVIOUS
    <2>3. p.more = (more \/ hasOlder(more, probed))
      OBVIOUS
    <2>4. more => p.more
      BY <2>3
    <2>5. page.initial /\ loadOlderBeyondWindow /\ bounds.from # NoTime /\ probe => p.more
      BY <1>5, <2>3 DEF hasOlder
    <2> HIDE DEF p
    <2>6. ASSUME NEW i \in AskedFor
          PROVE  i \in Range(p.items) \/ (p.more /\ p.items # <<>> /\ Before(Last(p.items), i))
      BY <1>3, <2>2, <2>4, <2>6, Zenon
    <2>7. Range(p.items) \subseteq AskedFor
      BY <1>3, <2>2
    <2>8. Answers(p)
      BY <2>1, <2>2, <2>5, <2>6, <2>7, Zenon DEF Answers, probe
    <2>9. QED
      BY <2>8 DEF p
  <1>7. UNCHANGED <<committed, delivered, swept, logs, matched, older, listWindow, cut, window,
                    query, hits, bounds, after, hasMore, base, unheard>>
    BY DEF fetchPage, bufferVars, scopeVars, sessionVars
  <1>8. QED
    BY <1>5, <1>6, <1>7

----
(* The types.                                                              *)

\* The last row of a page is a log; without one there is no cursor.
LEMMA CursorTyped ==
  ASSUME ListTyped, page.phase = "answered"
  PROVE  /\ page \in Answered /\ page.items \in Seq(Nat)
         /\ endCursor \in Nat
         /\ page.items # <<>> => endCursor = Last(page.items) /\ endCursor \in Range(page.items)
                                    /\ endCursor # None
         /\ page.items = <<>> => endCursor = None
  <1>1. page \in Answered /\ page.items \in Seq(Nat)
    BY DEF ListTyped, PageTyped, Idle, Asked, Answered
  <1>2. CASE page.items = <<>>
    BY <1>1, <1>2 DEF endCursor, None
  <1>3. CASE page.items # <<>>
    <2>1. Len(page.items) \in DOMAIN page.items
      BY <1>1, <1>3
    <2>2. Last(page.items) \in Range(page.items) /\ Last(page.items) \in Nat
      BY <1>1, <2>1 DEF Last, Range
    <2>3. Range(page.items) \subseteq 1..committed
      BY DEF ListTyped, PageTyped
    <2>4. Last(page.items) # 0
      BY <2>2, <2>3
    <2>5. QED
      BY <1>1, <1>3, <2>2, <2>4 DEF endCursor, None
  <1>4. QED
    BY <1>2, <1>3

Proper(w, b) ==
    /\ b \in [from : Int, to : Nat] /\ b.from <= b.to
    /\ w.mode = "fixed" => b = [from |-> w.from, to |-> w.to]

\* The bounds of a session start before they end, whatever the clock shows.
LEMMA BoundsTyped ==
  ASSUME NEW w \in Windows, NEW now \in Clocks
  PROVE  Proper(w, eventWindowBounds(w, now))
  <1>1. \/ w.mode = "fixed" /\ w.from \in Nat /\ w.to \in Nat /\ w.from < w.to
        \/ w.mode = "live" /\ w.range \in Nat
    BY LogListAssumption
  <1>2. now \in Nat
    BY LogListAssumption
  <1>3. CASE w.mode = "fixed"
    BY <1>1, <1>3 DEF eventWindowBounds, Proper
  <1>4. CASE w.mode = "live"
    <2> DEFINE b == [from |-> IF w.range = 0 THEN NoTime ELSE now - w.range, to |-> now]
    <2>1. eventWindowBounds(w, now) = b
      BY <1>4 DEF eventWindowBounds
    <2>2. b \in [from : Int, to : Nat] /\ b.from <= b.to
      BY <1>1, <1>2, <1>4 DEF NoTime
    <2> HIDE DEF b
    <2>3. QED
      BY <1>4, <2>1, <2>2 DEF Proper
  <1>5. QED
    BY <1>1, <1>3, <1>4

\* Every step leaves the state typed.
LEMMA TypedNext ==
  ASSUME ListTyped, [Next]_vars
  PROVE  ListTyped'
  <1> USE DEF ListTyped
  <1>1. CASE UNCHANGED core
    BY <1>1 DEF core, BufferTyped, SessionTyped, PageTyped
  <1>2. CASE Commit
    <2>1. committed \in Nat /\ Len(Feed) \in Nat /\ committed < Len(Feed) /\ committed' = committed + 1
      BY <1>2, FeedTyped DEF Commit, BufferTyped
    <2>2. 1..committed \subseteq 1..committed' /\ committed' \in 1..Len(Feed)
          /\ 0..committed \subseteq 0..committed'
      BY <2>1, FeedTyped DEF BufferTyped
    <2>3. UNCHANGED <<delivered, logs, listWindow, window, bounds, after, hasMore, base, page>>
      BY <1>2 DEF Commit, bufferVars, scopeVars, sessionVars
    <2>4. BufferTyped'
      BY <2>2, <2>3 DEF BufferTyped
    <2>5. SessionTyped'
      BY <2>2, <2>3 DEF SessionTyped
    <2>6. PageTyped'
      BY <2>2, <2>3 DEF PageTyped
    <2>7. QED
      BY <2>4, <2>5, <2>6
  <1>3. ASSUME NEW n \in (delivered + 1)..committed, addLogs(n) PROVE ListTyped'
    <2>1. n \in 1..committed /\ 1..n \subseteq 1..committed
      BY DEF BufferTyped
    <2>2. /\ logs' \in Seq(Nat) /\ Range(logs') \subseteq Range(logs) \cup 1..n /\ delivered' = n
          /\ UNCHANGED <<committed, listWindow, window, bounds, after, hasMore, base, page>>
      BY <1>3, AddRows
    <2>3. BufferTyped'
      BY <2>1, <2>2 DEF BufferTyped
    <2>4. SessionTyped' /\ PageTyped'
      BY <2>2 DEF SessionTyped, PageTyped
    <2>5. QED
      BY <2>3, <2>4
  <1>4. CASE fetchPage
    <2>1. PICK p : page' = p /\ Answers(p)
      BY <1>4, FetchedPage
    <2>2. UNCHANGED <<committed, delivered, logs, listWindow, window, bounds, after, hasMore, base>>
      BY <1>4, FetchedPage
    <2>3. AskedFor \subseteq 1..committed
      BY DEF AskedFor, InBounds
    <2>4. page.phase = "asked" /\ committed \in 1..committed
      BY <1>4 DEF fetchPage, BufferTyped
    <2>5. BufferTyped' /\ SessionTyped'
      BY <2>2 DEF BufferTyped, SessionTyped
    <2>6. p.phase = "answered" /\ p \in Answered /\ p.before \subseteq 1..committed
          /\ (p.initial <=> base = 0) /\ p.at = committed /\ Range(p.items) \subseteq 1..committed
      BY <2>1, <2>3, <2>4 DEF Answers, Answered, PageTyped
    <2>7. PageTyped'
      BY <2>1, <2>2, <2>4, <2>6 DEF PageTyped
    <2>8. QED
      BY <2>5, <2>7
  <1>5. CASE replaceLogPage
    <2>1. page.phase = "answered"
      BY <1>5 DEF replaceLogPage
    <2>2. page.at \in 1..committed /\ Range(page.items) \subseteq 1..committed /\ endCursor \in Nat
      BY <2>1, CursorTyped DEF PageTyped
    <2>3. /\ logs' \in Seq(Nat) /\ Range(logs') \subseteq Range(logs) \cup Range(page.items)
          /\ listWindow' = window /\ after' = endCursor /\ base' = page.at /\ page' = Idle
          /\ UNCHANGED <<committed, delivered, window, bounds>>
      BY <1>5, ReplaceRows
    <2>4. page.at \in 0..committed /\ page.at # 0
      BY <2>2 DEF BufferTyped
    <2>5. QED
      BY <2>2, <2>3, <2>4 DEF BufferTyped, SessionTyped, PageTyped, Idle
  <1>6. CASE appendLogs
    <2>1. page.phase = "answered" /\ ~page.initial
      BY <1>6 DEF appendLogs
    <2>2. Range(page.items) \subseteq 1..committed /\ endCursor \in Nat /\ base # 0
      BY <2>1, CursorTyped DEF PageTyped
    <2>3. /\ logs' \in Seq(Nat) /\ Range(logs') \subseteq Range(logs) \cup Range(page.items)
          /\ after' = endCursor /\ page' = Idle
          /\ UNCHANGED <<committed, delivered, listWindow, window, bounds, base>>
      BY <1>6, AppendRows
    <2>4. QED
      BY <2>2, <2>3 DEF BufferTyped, SessionTyped, PageTyped, Idle
  <1>7. CASE pageFails
    <2>1. page' = Idle /\ UNCHANGED <<committed, delivered, logs, listWindow, window, bounds, after,
                                      hasMore, base>>
      BY <1>7 DEF pageFails, bufferVars, scopeVars, sessionVars
    <2>2. QED
      BY <2>1 DEF BufferTyped, SessionTyped, PageTyped, Idle
  <1>8. CASE loadMoreFetches
    <2>1. /\ page' = [phase |-> "asked", initial |-> FALSE, after |-> after, before |-> Range(logs)]
          /\ hasMore
          /\ UNCHANGED <<committed, delivered, logs, listWindow, window, bounds, after, hasMore, base>>
      BY <1>8 DEF loadMoreFetches, Ask, bufferVars, scopeVars, sessionVars
    <2>2. base # 0 /\ after \in Nat /\ Range(logs) \subseteq 1..committed /\ 1..committed \subseteq Nat
      BY <2>1 DEF SessionTyped, BufferTyped
    <2>3. page' \in Asked /\ page'.before \subseteq 1..committed
      BY <2>1, <2>2 DEF Asked
    <2>4. PageTyped'
      BY <2>1, <2>2, <2>3 DEF PageTyped
    <2>5. QED
      BY <2>1, <2>4 DEF BufferTyped, SessionTyped
  <1>9. ASSUME NEW w \in Windows, NEW q, Begin(w, q) PROVE ListTyped'
    <2>1. /\ page' = [phase |-> "asked", initial |-> TRUE, after |-> None, before |-> Range(logs)]
          /\ window' = w /\ after' = None /\ hasMore' = FALSE /\ base' = 0
          /\ UNCHANGED <<committed, delivered, logs, listWindow>>
      BY <1>9 DEF Begin, Ask
    <2>2. Range(logs) \subseteq 1..committed /\ 1..committed \subseteq Nat /\ 0 \in 0..committed
      BY DEF BufferTyped
    <2>3. page' \in Asked /\ page'.before \subseteq 1..committed
      BY <2>1, <2>2 DEF Asked, None
    <2>4. PageTyped'
      BY <2>1, <2>2, <2>3 DEF PageTyped
    <2>5. PICK now \in Clocks : bounds' = eventWindowBounds(w, now)
      BY <1>9 DEF Begin
    <2>6. Proper(w, eventWindowBounds(w, now))
      BY BoundsTyped
    <2>7. SessionTyped'
      BY <2>1, <2>2, <2>5, <2>6 DEF SessionTyped, None, Proper
    <2>8. BufferTyped'
      BY <2>1 DEF BufferTyped
    <2>9. QED
      BY <2>4, <2>7, <2>8
  <1>10. CASE Drop
    <2>1. /\ delivered < committed /\ delivered' = delivered + 1
          /\ UNCHANGED <<committed, logs, listWindow, window, bounds, after, hasMore, base, page>>
      BY <1>10 DEF Drop, bufferVars, scopeVars
    <2>2. delivered' \in 1..committed
      BY <2>1 DEF BufferTyped
    <2>3. QED
      BY <2>1, <2>2 DEF BufferTyped, SessionTyped, PageTyped
  <1>11. ASSUME NEW cutoff, Sweep(cutoff) PROVE ListTyped'
    <2>1. UNCHANGED <<committed, delivered, logs, listWindow, window, bounds, after, hasMore, base,
                      page>>
      BY <1>11 DEF Sweep, bufferVars, scopeVars, sessionVars
    <2>2. QED
      BY <2>1 DEF BufferTyped, SessionTyped, PageTyped
  <1> HIDE DEF ListTyped
  <1>12. QED
    BY <1>1, <1>2, <1>3, <1>4, <1>5, <1>6, <1>7, <1>8, <1>9, <1>10, <1>11, Steps, Zenon

----
(* What the session and its page vouch for, step by step.                  *)

\* The server's deletions only take from what the pages are to bring.
LEMMA SweptScope ==
  ASSUME swept \subseteq swept', UNCHANGED <<query, hits, bounds>>
  PROVE  \A i : (InScope(i)' => InScope(i)) /\ (Older(i)' => Older(i))
  BY DEF InScope, Older, Searching

\* A step that leaves all of the invariant's state, or only deletes on the
\* server, leaves what is vouched for.
LEMMA VouchedStill ==
  ASSUME Vouched, swept \subseteq swept',
         UNCHANGED <<delivered, logs, older, query, hits, bounds, after, hasMore, base, unheard, page>>
  PROVE  Vouched'
  <1>1. \A i : (InScope(i)' => InScope(i)) /\ (Older(i)' => Older(i))
    BY SweptScope
  <1>2. Heard' /\ FirstPage'
    BY DEF Vouched, Heard, PageInv, FirstPage
  <1>3. SessionInv'
    BY <1>1 DEF Vouched, SessionInv
  <1>4. FirstAnswer'
    BY <1>1 DEF Vouched, PageInv, FirstAnswer, Rest
  <1>5. NextAnswer'
    BY <1>1 DEF Vouched, PageInv, NextAnswer, Rest
  <1>6. QED
    BY <1>2, <1>3, <1>4, <1>5 DEF Vouched, PageInv

\* A session without an answered page.
LEMMA SessionStill ==
  ASSUME Vouched,
         UNCHANGED <<delivered, swept, logs, older, query, hits, bounds, after, hasMore, base, unheard>>
  PROVE  SessionInv' /\ Heard'
  BY DEF Vouched, Heard, SessionInv, InScope, Older, Searching

\* A session that begins was delivered nothing.
LEMMA BeginVouched ==
  ASSUME NEW w \in Windows, NEW q, Begin(w, q)
  PROVE  Vouched'
  <1>1. /\ page' = [phase |-> "asked", initial |-> TRUE, after |-> None, before |-> Range(logs)]
        /\ base' = 0 /\ delivered' = delivered /\ unheard' = 1..delivered \cup Range(logs)
    BY DEF Begin, Ask
  <1>2. FirstPage' /\ Heard'
    BY <1>1 DEF FirstPage, Heard
  <1>3. SessionInv' /\ FirstAnswer' /\ NextAnswer'
    BY <1>1 DEF SessionInv, FirstAnswer, NextAnswer
  <1>4. QED
    BY <1>2, <1>3 DEF Vouched, PageInv

\* A delivery adds its logs to what the session has.
LEMMA AddVouched ==
  ASSUME ListTyped, Vouched, NEW n \in (delivered + 1)..committed, addLogs(n), ~cut'
  PROVE  Vouched'
  <1>1. /\ Range(logs') = Range(logs) \cup (delivered + 1)..n /\ delivered' = n
        /\ UNCHANGED <<swept, older, query, hits, bounds, after, hasMore, base, unheard, page>>
    BY AddRows
  <1>2. PICK L : L = Range(logs') /\ Range(logs) \subseteq L /\ (delivered + 1)..n \subseteq L
    BY <1>1
  <1>3. \A i \in 1..n : i \in 1..delivered \/ i \in (delivered + 1)..n
    BY DEF ListTyped, BufferTyped
  <1>4. Heard'
    <2>1. SUFFICES ASSUME NEW i \in 1..n PROVE i \in unheard \/ i \in L
      BY <1>1, <1>2 DEF Heard
    <2>2. QED
      BY <1>2, <1>3 DEF Vouched, Heard
  <1>5. SessionInv'
    BY <1>1, <1>2 DEF Vouched, SessionInv, InScope, Older, Searching
  <1>6. FirstPage'
    BY <1>1 DEF Vouched, PageInv, FirstPage
  <1>7. FirstAnswer'
    BY <1>1 DEF Vouched, PageInv, FirstAnswer, InScope, Older, Rest, Searching
  <1>8. NextAnswer'
    BY <1>1, <1>2 DEF Vouched, PageInv, NextAnswer, InScope, Older, Rest, Searching
  <1>9. QED
    BY <1>4, <1>5, <1>6, <1>7, <1>8 DEF Vouched, PageInv

\* A delivery that is dropped is one that was not heard of.
LEMMA DropVouched ==
  ASSUME ListTyped, Vouched, Drop
  PROVE  Vouched'
  <1>1. /\ delivered' = delivered + 1 /\ unheard' = unheard \cup {delivered + 1}
        /\ UNCHANGED <<swept, logs, older, query, hits, bounds, after, hasMore, base, page>>
    BY DEF Drop, bufferVars, scopeVars
  <1>2. \A i \in 1..(delivered + 1) : i \in 1..delivered \/ i = delivered + 1
    BY DEF ListTyped, BufferTyped
  <1>3. Heard'
    <2>1. SUFFICES ASSUME NEW i \in 1..(delivered + 1)
                   PROVE  i \in unheard \cup {delivered + 1} \/ i \in Range(logs)
      BY <1>1 DEF Heard
    <2>2. QED
      BY <1>2 DEF Vouched, Heard
  <1>4. FirstPage'
    BY <1>1 DEF Vouched, PageInv, FirstPage
  <1>5. SessionInv'
    BY <1>1 DEF Vouched, SessionInv, InScope, Older, Searching
  <1>6. FirstAnswer'
    BY <1>1 DEF Vouched, PageInv, FirstAnswer, InScope, Older, Rest, Searching
  <1>7. NextAnswer'
    BY <1>1 DEF Vouched, PageInv, NextAnswer, InScope, Older, Rest, Searching
  <1>8. QED
    BY <1>3, <1>4, <1>5, <1>6, <1>7 DEF Vouched, PageInv

\* A first page holds, or has more for, all that was stored in scope when it
\* was read; rows older than the window make for a further page.
LEMMA FirstFetched ==
  ASSUME ListTyped, fetchPage, page.initial, NEW p, Answers(p)
  PROVE  /\ \A i \in 1..committed : InScope(i) => i \in Range(p.items)
                \/ (p.more /\ p.items # <<>> /\ Before(Last(p.items), i))
         /\ \A i \in 1..committed : Older(i) =>
                p.more /\ (p.items = <<>> \/ Before(Last(p.items), i))
  <1>1. page.after = None /\ page.phase = "asked" /\ ~beyondWindow
    BY DEF fetchPage, ListTyped, PageTyped, beyondWindow
  <1>2. AskedFor = InBounds(bounds.from, bounds.to, None)
    BY <1>1 DEF AskedFor
  <1>3. \A i \in 1..committed : i \in Ids /\ i \in DOMAIN Feed /\ T(i) \in Nat
    BY FeedTyped DEF ListTyped, BufferTyped, Ids
  <1>4. bounds.from \in Int
    BY DEF ListTyped, SessionTyped
  <1>5. ASSUME NEW i \in 1..committed, InScope(i)
        PROVE  i \in Range(p.items) \/ (p.more /\ p.items # <<>> /\ Before(Last(p.items), i))
    <2>1. i \in AskedFor
      BY <1>2, <1>3, <1>4, <1>5 DEF InBounds, InScope
    <2>2. QED
      BY <2>1, Zenon DEF Answers
  <1>6. ASSUME NEW i \in 1..committed, Older(i)
        PROVE  p.more /\ (p.items = <<>> \/ Before(Last(p.items), i))
    <2>1. ~Searching(query) /\ T(i) < bounds.from /\ bounds.from # NoTime /\ i \notin swept
      BY <1>3, <1>4, <1>6 DEF Older, NoTime
    <2>2. i \in InBounds(NoTime, bounds.from, None)
      BY <1>3, <2>1 DEF InBounds
    <2>3. p.more
      BY <2>1, <2>2 DEF Answers, loadOlderBeyondWindow
    <2>4. ASSUME p.items # <<>> PROVE Before(Last(p.items), i)
      <3>1. p.items \in Seq(Nat)
        BY DEF Answers, Answered
      <3>2. Len(p.items) \in DOMAIN p.items
        BY <2>4, <3>1
      <3>3. Last(p.items) \in AskedFor
        BY <3>2 DEF Answers, Last, Range
      <3>4. PICK l : l = Last(p.items) /\ l \in AskedFor
        BY <3>3
      <3>5. l \in 1..committed /\ T(l) >= bounds.from
        BY <1>2, <2>1, <3>4 DEF InBounds
      <3>6. T(l) > T(i)
        BY <1>3, <1>4, <2>1, <3>5
      <3>7. QED
        BY <3>4, <3>6 DEF Before
    <2>5. QED
      BY <2>3, <2>4
  <1>7. QED
    BY <1>5, <1>6

\* A further page asks for what the session has not got.
LEMMA NextFetched ==
  ASSUME ListTyped, SessionInv, fetchPage, ~page.initial, NEW p, Answers(p)
  PROVE  /\ \A i \in 1..base : InScope(i) => i \in Range(logs) \cup Range(p.items)
                \/ (p.more /\ p.items # <<>> /\ Before(Last(p.items), i))
         /\ \A i \in 1..base : Older(i) => i \in Range(logs) \cap older \/ i \in Range(p.items)
                \/ (p.more /\ p.items # <<>> /\ Before(Last(p.items), i))
  <1>1. page.after = after /\ base # 0 /\ base \in 0..committed /\ after \in Nat
    BY DEF fetchPage, ListTyped, PageTyped, SessionTyped
  <1>2. \A i \in 1..base : i \in 1..committed /\ i \in DOMAIN Feed /\ T(i) \in Nat
    BY <1>1, FeedTyped DEF ListTyped, BufferTyped, Ids
  <1>3. bounds.from \in Int /\ bounds.to \in Nat /\ bounds.from <= bounds.to
    BY DEF ListTyped, SessionTyped
  <1>4. base > 0
    BY <1>1
  <1>5. ASSUME NEW i \in AskedFor
        PROVE  i \in Range(p.items) \/ (p.more /\ p.items # <<>> /\ Before(Last(p.items), i))
    BY <1>5 DEF Answers
  <1>6. ASSUME NEW i \in 1..base, InScope(i), i \notin Range(logs) PROVE i \in AskedFor
    <2>1. after # None /\ Before(after, i)
      BY <1>4, <1>6 DEF SessionInv
    <2>2. i \in InBounds(NoTime, bounds.to, after) /\ i \in InBounds(bounds.from, bounds.to, after)
      BY <1>2, <1>3, <1>6, <2>1 DEF InBounds, InScope
    <2>3. QED
      BY <1>1, <2>1, <2>2 DEF AskedFor
  <1>7. ASSUME NEW i \in 1..base, Older(i), i \notin Range(logs) \cap older PROVE i \in AskedFor
    <2>1. after = None \/ Before(after, i)
      BY <1>4, <1>7 DEF SessionInv
    <2>2. ~Searching(query) /\ T(i) < bounds.from /\ bounds.from # NoTime /\ i \notin swept
      BY <1>2, <1>3, <1>7 DEF Older, NoTime
    <2>3. T(i) < bounds.to
      BY <1>2, <1>3, <2>2
    <2>4. beyondWindow
      BY <2>2 DEF beyondWindow, loadOlderBeyondWindow
    <2>5. i \in InBounds(NoTime, IF after = None THEN bounds.from ELSE bounds.to, after)
      BY <1>2, <2>1, <2>2, <2>3 DEF InBounds
    <2>6. QED
      BY <1>1, <2>4, <2>5 DEF AskedFor
  <1>8. QED
    BY <1>5, <1>6, <1>7

\* What is vouched for after a page is read.
LEMMA FetchVouched ==
  ASSUME ListTyped, Vouched, fetchPage
  PROVE  Vouched'
  <1>1. PICK p : page' = p /\ Answers(p)
    BY FetchedPage
  <1>2. UNCHANGED <<committed, delivered, swept, logs, matched, older, listWindow, window, query,
                    hits, bounds, after, hasMore, base, unheard>>
    BY FetchedPage
  <1>3. page.phase = "asked" /\ page.before \subseteq 1..committed
        /\ p.initial = page.initial /\ p.before = page.before /\ p.at = committed
    BY <1>1 DEF fetchPage, ListTyped, PageTyped, Answers
  <1>4. SessionInv' /\ Heard'
    BY <1>2, SessionStill
  <1>5. FirstPage'
    BY <1>1, <1>2, <1>3 DEF Vouched, PageInv, FirstPage
  <1>6. FirstAnswer'
    <2>1. SUFFICES ASSUME page.initial
                   PROVE  /\ \A i \in 1..committed : InScope(i) => i \in Range(p.items)
                                 \/ (p.more /\ p.items # <<>> /\ Before(Last(p.items), i))
                          /\ \A i \in 1..committed : Older(i) =>
                                 p.more /\ (p.items = <<>> \/ Before(Last(p.items), i))
      BY <1>1, <1>2, <1>3 DEF FirstAnswer, InScope, Older, Rest, Searching
    <2>2. QED
      BY <1>1, <2>1, FirstFetched
  <1>7. NextAnswer'
    <2>1. SUFFICES ASSUME ~page.initial
                   PROVE  /\ \A i \in 1..base : InScope(i) => i \in Range(logs) \cup Range(p.items)
                                 \/ (p.more /\ p.items # <<>> /\ Before(Last(p.items), i))
                          /\ \A i \in 1..base : Older(i) =>
                                 \/ i \in Range(logs) \cap older \/ i \in Range(p.items)
                                 \/ (p.more /\ p.items # <<>> /\ Before(Last(p.items), i))
      BY <1>1, <1>2, <1>3 DEF NextAnswer, InScope, Older, Rest, Searching
    <2>2. QED
      BY <1>1, <2>1, NextFetched DEF Vouched
  <1>8. QED
    BY <1>4, <1>5, <1>6, <1>7 DEF Vouched, PageInv

\* A first page and what came since make up the session.
LEMMA ReplaceVouched ==
  ASSUME ListTyped, Vouched, replaceLogPage, ~cut'
  PROVE  Vouched'
  <1>1. page.phase = "answered" /\ page.initial
    BY DEF replaceLogPage
  <1>2. /\ Range(logs') = (Range(logs) \ page.before) \cup Range(page.items)
        /\ after' = endCursor /\ hasMore' = page.more /\ base' = page.at /\ page' = Idle
        /\ UNCHANGED <<delivered, swept, query, hits, bounds, unheard>>
    BY ReplaceRows
  <1>3. PICK L : L = Range(logs') /\ Range(logs) \ page.before \subseteq L /\ Range(page.items) \subseteq L
    BY <1>2
  <1>4. /\ page.items # <<>> => endCursor = Last(page.items) /\ endCursor # None
        /\ page.items = <<>> => endCursor = None
    BY <1>1, CursorTyped
  <1>5. FirstPage /\ FirstAnswer
    BY DEF Vouched, PageInv
  <1>6. Heard'
    <2>1. SUFFICES ASSUME NEW i \in 1..delivered, i \notin unheard PROVE i \in L
      BY <1>2, <1>3 DEF Heard
    <2>2. i \in Range(logs) \ page.before
      BY <1>1, <1>5, <2>1 DEF Vouched, Heard, FirstPage
    <2>3. QED
      BY <1>3, <2>2
  <1>7. \A i \in 1..page.at : InScope(i) =>
            i \in L \/ (page.more /\ endCursor # None /\ Before(endCursor, i))
    BY <1>1, <1>3, <1>4, <1>5 DEF FirstAnswer, Rest
  <1>8. \A i \in 1..page.at : Older(i) =>
            page.more /\ (endCursor = None \/ Before(endCursor, i))
    BY <1>1, <1>4, <1>5 DEF FirstAnswer
  <1>9. SessionInv'
    BY <1>2, <1>3, <1>7, <1>8 DEF SessionInv, InScope, Older, Searching
  <1>10. PageInv'
    BY <1>2 DEF PageInv, FirstPage, FirstAnswer, NextAnswer, Idle
  <1>11. QED
    BY <1>6, <1>9, <1>10 DEF Vouched

\* So do the session and a further page.
LEMMA AppendVouched ==
  ASSUME ListTyped, Vouched, appendLogs, ~cut'
  PROVE  Vouched'
  <1>1. page.phase = "answered" /\ ~page.initial
    BY DEF appendLogs
  <1>2. /\ Range(logs') = Range(logs) \cup Range(page.items)
        /\ ~Searching(query) => older' = older \cup Range(page.items)
        /\ after' = endCursor /\ hasMore' = page.more /\ page' = Idle
        /\ UNCHANGED <<delivered, swept, query, hits, bounds, base, unheard>>
    BY AppendRows
  <1>3. PICK L : L = Range(logs') /\ Range(logs) \subseteq L /\ Range(page.items) \subseteq L
    BY <1>2
  <1>4. page.items # <<>> => endCursor = Last(page.items) /\ endCursor # None
    BY <1>1, CursorTyped
  <1>5. NextAnswer
    BY DEF Vouched, PageInv
  <1>6. Heard'
    <2>1. SUFFICES ASSUME NEW i \in 1..delivered, i \notin unheard PROVE i \in L
      BY <1>2, <1>3 DEF Heard
    <2>2. QED
      BY <1>3, <2>1 DEF Vouched, Heard
  <1>8. \A i \in 1..base : InScope(i) =>
            i \in L \/ (page.more /\ endCursor # None /\ Before(endCursor, i))
    BY <1>1, <1>3, <1>4, <1>5 DEF NextAnswer, Rest
  <1>9. \A i \in 1..base : Older(i) =>
            i \in L \cap older' \/ (page.more /\ (endCursor = None \/ Before(endCursor, i)))
    BY <1>1, <1>2, <1>3, <1>4, <1>5 DEF NextAnswer, Rest, Older
  <1>10. SessionInv'
    BY <1>2, <1>3, <1>8, <1>9 DEF SessionInv, InScope, Older, Searching
  <1>11. PageInv'
    BY <1>2 DEF PageInv, FirstPage, FirstAnswer, NextAnswer, Idle
  <1>12. QED
    BY <1>6, <1>10, <1>11 DEF Vouched

----
(* The theorem.                                                            *)

\* The first request asks for what there is.
LEMMA ReachInit ==
  ASSUME Init
  PROVE  ReachInv
  <1>1. /\ committed = Stored /\ delivered = Stored /\ logs = <<>> /\ window = Default
        /\ page = [phase |-> "asked", initial |-> TRUE, after |-> None, before |-> Range(<<>>)]
        /\ after = None /\ hasMore = FALSE /\ base = 0 /\ cut = FALSE /\ unheard = 1..Stored
    BY DEF Init, Ask
  <1>2. Stored \in 1..Len(Feed) /\ Default \in Windows /\ Stored \in Ids
    BY LogListAssumption DEF Ids
  <1>3. Range(<<>>) = {}
    BY DEF Range
  <1>4. Stored \in 1..Stored /\ 0 \in 0..Stored
    BY <1>2 DEF Ids
  <1>5. Proper(window, bounds)
    <2>1. PICK now \in Clocks : bounds = eventWindowBounds(Default, now)
      BY DEF Init
    <2>2. QED
      BY <1>1, <1>2, <2>1, BoundsTyped
  <1>6. BufferTyped
    BY <1>1, <1>2, <1>3, <1>4 DEF BufferTyped
  <1>7. SessionTyped
    BY <1>1, <1>2, <1>4, <1>5 DEF SessionTyped, None, Proper
  <1>8. PageTyped
    BY <1>1, <1>3 DEF PageTyped, Asked, None
  <1>9. SessionInv /\ FirstAnswer /\ NextAnswer
    BY <1>1 DEF SessionInv, FirstAnswer, NextAnswer
  <1>10. Heard /\ FirstPage
    BY <1>1, <1>3 DEF Heard, FirstPage
  <1>11. QED
    BY <1>6, <1>7, <1>8, <1>9, <1>10 DEF ReachInv, Vouched, ListTyped, PageInv

\* Every step leaves the rows vouched for.
LEMMA ReachNext ==
  ASSUME ReachInv, [Next]_vars
  PROVE  ReachInv'
  <1>1. ListTyped /\ (~cut => Vouched)
    BY DEF ReachInv
  <1>2. ListTyped'
    BY <1>1, TypedNext
  <1>3. ASSUME ~cut' PROVE Vouched'
    <2>1. CASE UNCHANGED core
      BY <1>1, <1>3, <2>1, VouchedStill DEF core
    <2>2. CASE Commit
      BY <1>1, <1>3, <2>2, VouchedStill DEF Commit, bufferVars, scopeVars, sessionVars
    <2>3. ASSUME NEW n \in (delivered + 1)..committed, addLogs(n) PROVE Vouched'
      BY <1>1, <1>3, <2>3, AddRows, AddVouched
    <2>4. CASE fetchPage
      BY <1>1, <1>3, <2>4, FetchedPage, FetchVouched
    <2>5. CASE replaceLogPage
      BY <1>1, <1>3, <2>5, ReplaceRows, ReplaceVouched
    <2>6. CASE appendLogs
      BY <1>1, <1>3, <2>6, AppendRows, AppendVouched
    <2>7. CASE pageFails
      <3>1. page' = Idle /\ UNCHANGED <<delivered, swept, bufferVars, scopeVars, sessionVars>>
        BY <2>7 DEF pageFails
      <3>2. UNCHANGED <<cut, delivered, swept, logs, older, query, hits, bounds, after, hasMore, base,
                        unheard>>
        BY <3>1 DEF bufferVars, scopeVars, sessionVars
      <3>3. SessionInv' /\ Heard'
        BY <1>1, <1>3, <3>2, SessionStill
      <3>4. PageInv'
        BY <3>1 DEF PageInv, FirstPage, FirstAnswer, NextAnswer, Idle
      <3>5. QED
        BY <3>3, <3>4 DEF Vouched
    <2>8. CASE loadMoreFetches
      <3>1. /\ page' = [phase |-> "asked", initial |-> FALSE, after |-> after, before |-> Range(logs)]
            /\ UNCHANGED <<delivered, swept, bufferVars, scopeVars, sessionVars>>
        BY <2>8 DEF loadMoreFetches, Ask
      <3>2. UNCHANGED <<cut, delivered, swept, logs, older, query, hits, bounds, after, hasMore, base,
                        unheard>>
        BY <3>1 DEF bufferVars, scopeVars, sessionVars
      <3>3. SessionInv' /\ Heard'
        BY <1>1, <1>3, <3>2, SessionStill
      <3>4. PageInv'
        BY <3>1 DEF PageInv, FirstPage, FirstAnswer, NextAnswer
      <3>5. QED
        BY <3>3, <3>4 DEF Vouched
    <2>9. ASSUME NEW w \in Windows, NEW q, Begin(w, q) PROVE Vouched'
      BY <2>9, BeginVouched
    <2>10. CASE Drop
      BY <1>1, <1>3, <2>10, DropVouched DEF Drop, bufferVars
    <2>11. ASSUME NEW cutoff, Sweep(cutoff) PROVE Vouched'
      <3>1. swept \subseteq swept' /\ UNCHANGED <<delivered, bufferVars, scopeVars, sessionVars, page>>
        BY <2>11 DEF Sweep
      <3>2. QED
        BY <1>1, <1>3, <3>1, VouchedStill DEF bufferVars, scopeVars, sessionVars
    <2>12. QED
      BY <1>1, <2>1, <2>2, <2>3, <2>4, <2>5, <2>6, <2>7, <2>8, <2>9, <2>10, <2>11, Steps, Zenon
  <1>4. QED
    BY <1>2, <1>3 DEF ReachInv

\* A log that the session's first page, or one after it, has to bring.
Paged(i) == i <= base /\ T(i) < bounds.to /\ i \notin swept

\* A log of the list's window and search was delivered to the session, or is in
\* the scope of its pages; without more to load it is in the buffer, and the
\* filter shows it.
LEMMA ReachShows ==
  ASSUME ReachInv
  PROVE  EverythingReachable
  <1>1. SUFFICES ASSUME page.phase = "idle", base > 0, ~hasMore, ~cut
                 PROVE  /\ \A i \in 1..delivered :
                              InWindow(NewestOf(Range(logs)), window, i) /\ T(i) >= bounds.from
                                  /\ (Searching(query) => i \in hits)
                                  /\ (i \in unheard => Paged(i))
                                => i \in Range(Items)
                        /\ ~Searching(query) =>
                              \A i \in (1..base) \ swept : T(i) < bounds.from => i \in Range(Items)
    BY DEF EverythingReachable, Paged
  <1>2. ListTyped /\ SessionInv /\ Heard
    BY <1>1 DEF ReachInv, Vouched
  <1>3. listWindow = window /\ logs \in Seq(Nat) /\ window \in Windows
    BY <1>1, <1>2 DEF ListTyped, BufferTyped, SessionTyped
  <1> DEFINE newest == NewestOf(Range(logs))
             shown == {i \in Range(logs) :
                         IF Searching(query)
                         THEN InWindow(newest, window, i) /\ i \in matched \cup hits
                         ELSE InWindow(newest, window, i) \/ i \in older}
  <1>4. Range(Items) = shown
    <2>1. Items = Keep(logs, shown)
      BY <1>3 DEF Items, Buffer, createFilteredLogs
    <2> HIDE DEF shown
    <2>2. Range(Items) = Range(logs) \cap shown
      BY <1>3, <2>1, KeepRange
    <2>3. shown \subseteq Range(logs)
      BY DEF shown
    <2>4. QED
      BY <2>2, <2>3
  <1>5. base \in Nat /\ delivered \in Nat /\ bounds.from \in Int /\ bounds.to \in Nat
        /\ \A i \in 1..delivered : T(i) \in Nat
    <2>1. delivered \in 1..committed /\ committed \in Ids /\ base \in 0..committed
          /\ bounds \in [from : Int, to : Nat]
      BY <1>2 DEF ListTyped, BufferTyped, SessionTyped, Ids
    <2>2. \A i \in 1..delivered : i \in Ids
      BY <2>1, FeedTyped DEF Ids
    <2>3. QED
      BY <2>1, <2>2, FeedTyped DEF Ids
  <1>6. ASSUME NEW i \in 1..delivered, InWindow(newest, window, i), T(i) >= bounds.from,
               Searching(query) => i \in hits, i \in unheard => Paged(i)
        PROVE  i \in Range(Items)
    <2>1. i \in Range(logs)
      <3>1. CASE i \notin unheard
        BY <1>2, <3>1 DEF Heard
      <3>2. CASE i \in unheard
        <4>1. i <= base /\ T(i) < bounds.to /\ i \notin swept
          BY <1>6, <3>2 DEF Paged
        <4>2. i \in 1..base
          BY <1>5, <4>1
        <4>3. InScope(i)
          BY <1>5, <1>6, <4>1 DEF InScope
        <4>4. QED
          BY <1>1, <1>2, <4>2, <4>3 DEF SessionInv
      <3>3. QED
        BY <3>1, <3>2
    <2>2. i \in shown
      BY <1>6, <2>1
    <2>3. QED
      BY <1>4, <2>2
  <1>7. ASSUME ~Searching(query), NEW i \in (1..base) \ swept, T(i) < bounds.from
        PROVE  i \in Range(Items)
    <2>1. i \in Range(logs) \cap older
      BY <1>1, <1>2, <1>7 DEF SessionInv, Older
    <2>2. i \in shown
      BY <1>7, <2>1
    <2>3. QED
      BY <1>4, <2>2
  <1>8. QED
    BY <1>6, <1>7

\* useSignalListPage and createFilteredLogsAtom: whatever pages, deliveries
\* and changes of scope overtook each other, a list that offers no more to
\* load shows all that it should.
THEOREM NothingIsMissed == Spec => []EverythingReachable
  <1>1. Init => ReachInv
    BY ReachInit
  <1>2. ReachInv /\ [Next]_vars => ReachInv'
    BY ReachNext
  <1>3. ReachInv => EverythingReachable
    BY ReachShows
  <1>4. QED
    BY <1>1, <1>2, <1>3, PTL DEF Spec

----
(* Places of rows before and after a step.                                 *)

\* Rows that stay in order lie no closer together.
LEMMA Gaps ==
  ASSUME NEW n \in Nat, NEW m \in Nat, NEW h \in [1..n -> 1..m], Grows(h, n)
  PROVE  /\ \A k, l \in 1..n : k <= l => l - k <= h[l] - h[k]
         /\ \A k \in 1..n : k <= h[k]
  <1> DEFINE N == {d \in Nat : \A k \in 1..n : k + d \in 1..n => d <= h[k + d] - h[k]}
  <1>1. 0 \in N
    <2>1. \A k \in 1..n : k + 0 = k /\ h[k] \in 1..m
      OBVIOUS
    <2>2. ASSUME NEW k \in 1..n PROVE 0 <= h[k + 0] - h[k]
      <3>1. PICK x \in 1..m : x = h[k]
        OBVIOUS
      <3>2. QED
        BY <2>1, <3>1
    <2>3. QED
      BY <2>2
  <1>2. ASSUME NEW d \in Nat, d \in N PROVE d + 1 \in N
    <2>1. ASSUME NEW k \in 1..n, k + (d + 1) \in 1..n PROVE d + 1 <= h[k + (d + 1)] - h[k]
      <3>1. k + d \in 1..n /\ k + d < k + (d + 1)
        BY <2>1
      <3>2. d <= h[k + d] - h[k]
        BY <1>2, <3>1
      <3>3. h[k + d] < h[k + (d + 1)]
        BY <2>1, <3>1 DEF Grows
      <3>4. PICK x, y, z \in 1..m : x = h[k] /\ y = h[k + d] /\ z = h[k + (d + 1)]
        BY <2>1, <3>1
      <3>5. QED
        BY <3>2, <3>3, <3>4
    <2>2. QED
      BY <2>1
  <1>3. \A d \in Nat : d \in N
    <2> HIDE DEF N
    <2>1. QED
      BY <1>1, <1>2, InductiveSet
  <1>4. ASSUME NEW k \in 1..n, NEW l \in 1..n, k <= l PROVE l - k <= h[l] - h[k]
    <2>1. l - k \in Nat /\ k + (l - k) = l
      BY <1>4
    <2>2. QED
      BY <1>3, <2>1
  <1>5. ASSUME NEW k \in 1..n PROVE k <= h[k]
    <2>1. 1 \in 1..n /\ 1 <= k
      OBVIOUS
    <2>2. k - 1 <= h[k] - h[1]
      BY <1>4, <2>1
    <2>3. PICK x, y \in 1..m : x = h[1] /\ y = h[k]
      BY <2>1
    <2>4. QED
      BY <2>2, <2>3
  <1>6. QED
    BY <1>4, <1>5

\* The window is found by the first place of its anchor.
LEMMA FirstPlace ==
  ASSUME NEW q \in Seq(Nat), NEW a \in Range(q), a # None
  PROVE  \E p \in 1..Len(q) : /\ q[p] = a /\ \A i \in 1..Len(q) : q[i] = a => p <= i
                              /\ \A k : resolve(q, a, k) = Smaller(p - 1, maxK(q))
  <1> DEFINE at == {i \in DOMAIN q : q[i] = a}
             p == CHOOSE i \in at : \A j \in at : i <= j
  <1>1. at \in SUBSET Nat /\ at # {}
    BY DEF Range
  <1>2. \E i \in at : \A j \in at : i <= j
    BY <1>1, LeastNumber
  <1>3. p \in at /\ \A j \in at : p <= j
    BY <1>2
  <1>4. \A k : resolve(q, a, k) = Smaller(p - 1, maxK(q))
    BY <1>1 DEF resolve
  <1> HIDE DEF p
  <1>5. p \in 1..Len(q) /\ q[p] = a /\ \A i \in 1..Len(q) : q[i] = a => p <= i
    BY <1>3
  <1>6. QED
    BY <1>4, <1>5

\* The positions a window may have.
LEMMA MaxTyped ==
  ASSUME NEW q \in Seq(Nat)
  PROVE  /\ maxK(q) \in Nat /\ RenderMax \in Nat /\ slideStep \in Nat /\ slideStep <= RenderMax
         /\ maxK(q) <= Len(q) /\ Len(q) <= maxK(q) + RenderMax
         /\ maxK(q) > 0 => maxK(q) = Len(q) - RenderMax
  <1>1. Len(q) \in Nat /\ RenderMax \in Nat /\ PageSize \in Nat
    BY LogListAssumption
  <1>2. QED
    BY <1>1 DEF maxK, slideStep, Smaller

\* A position is a number, and settled by one render.
LEMMA ResolveTyped ==
  ASSUME NEW q \in Seq(Nat), NEW a, NEW k \in Nat
  PROVE  resolve(q, a, k) \in Nat /\ resolve(q, a, resolve(q, a, k)) = resolve(q, a, k)
  <1>1. PICK m \in Nat : m = maxK(q)
    BY MaxTyped
  <1>2. CASE a = None
    BY <1>2 DEF resolve
  <1>3. CASE a # None /\ a \in Range(q)
    <2>1. PICK p \in 1..Len(q) : \A i : resolve(q, a, i) = Smaller(p - 1, maxK(q))
      BY <1>3, FirstPlace
    <2>2. QED
      BY <1>1, <2>1 DEF Smaller
  <1>4. CASE a # None /\ a \notin Range(q)
    <2>1. {i \in DOMAIN q : q[i] = a} = {}
      BY <1>4 DEF Range
    <2>2. \A i : resolve(q, a, i) = Smaller(i, maxK(q))
      BY <1>4, <2>1 DEF resolve
    <2>3. QED
      BY <1>1, <2>2 DEF Smaller
  <1>5. QED
    BY <1>2, <1>3, <1>4

\* A slide goes a step down at most.
LEMMA SlideBound ==
  ASSUME NEW q \in Seq(Nat), NEW k \in Nat, NEW i \in Nat
  PROVE  resolve(q, slideOlder(q, k), i) <= k + slideStep
  <1> DEFINE n == Smaller(k + slideStep, maxK(q))
             a == slideOlder(q, k)
  <1>1. PICK s, m, l \in Nat : s = slideStep /\ m = maxK(q) /\ l = Len(q)
    BY MaxTyped
  <1>2. n \in Nat /\ n <= k + s /\ n <= m
    BY <1>1 DEF Smaller
  <1>3. a = IF n < l THEN q[n + 1] ELSE None
    BY <1>1 DEF slideOlder
  <1> HIDE DEF a, n
  <1>4. CASE a = None
    <2>1. resolve(q, a, i) = 0
      BY <1>4 DEF resolve
    <2>2. QED
      BY <1>1, <2>1 DEF a
  <1>5. CASE a # None
    <2>1. n < l /\ a = q[n + 1] /\ n + 1 \in 1..l
      BY <1>1, <1>2, <1>3, <1>5
    <2>2. a \in Range(q)
      BY <1>1, <2>1 DEF Range
    <2>3. PICK p \in 1..Len(q) : /\ \A j \in 1..Len(q) : q[j] = a => p <= j
                                 /\ \A j : resolve(q, a, j) = Smaller(p - 1, maxK(q))
      BY <1>5, <2>2, FirstPlace
    <2>4. p <= n + 1
      BY <1>1, <2>1, <2>3
    <2>5. Smaller(p - 1, m) <= n
      BY <1>1, <1>2, <2>3, <2>4 DEF Smaller
    <2>6. Smaller(p - 1, m) \in Int
      BY <1>1, <2>3 DEF Smaller
    <2>7. QED
      BY <1>1, <1>2, <2>3, <2>5, <2>6 DEF a
  <1>6. QED
    BY <1>4, <1>5

\* The rows of q are among those of r, in the same order.
Embeds(h, q, r) ==
    /\ h \in [1..Len(q) -> 1..Len(r)] /\ Grows(h, Len(q))
    /\ \A k \in 1..Len(q) : r[h[k]] = q[k]
    /\ \A j \in 1..Len(r) : r[j] \in Range(q) => \E k \in 1..Len(q) : h[k] = j

\* What lies above a window that has slid was above it or in it.
LEMMA SlidesPast ==
  ASSUME NEW q \in Seq(Nat), NEW r \in Seq(Nat), NEW h, Embeds(h, q, r),
         NEW a \in Range(q) \cup {None}, NEW k \in Nat, k = resolve(q, a, k),
         NEW m \in Nat, m <= resolve(r, a, k) + slideStep
  PROVE  Above(r, m) \cap Range(q) \subseteq Above(q, k + RenderMax)
  <1>1. PICK s, l, lr, M, Mr, R \in Nat :
            /\ s = slideStep /\ l = Len(q) /\ lr = Len(r) /\ M = maxK(q) /\ Mr = maxK(r)
            /\ R = RenderMax
    <2>1. slideStep \in Nat /\ RenderMax \in Nat /\ maxK(q) \in Nat /\ maxK(r) \in Nat
      BY MaxTyped
    <2>2. Len(q) \in Nat /\ Len(r) \in Nat
      OBVIOUS
    <2>3. QED
      BY <2>1, <2>2, Zenon
  <1>2. s <= R /\ l <= M + R
    <2>1. slideStep <= RenderMax /\ Len(q) <= maxK(q) + RenderMax
      BY MaxTyped
    <2>2. QED
      BY <1>1, <2>1
  <1>3. /\ h \in [1..l -> 1..lr] /\ \A x \in 1..l : r[h[x]] = q[x]
        /\ \A j \in 1..lr : r[j] \in Range(q) => \E x \in 1..l : h[x] = j
    BY <1>1 DEF Embeds
  <1>4. /\ \A x, y \in 1..l : x <= y => y - x <= h[y] - h[x]
        /\ \A x \in 1..l : x <= h[x]
    <2>1. Grows(h, l)
      BY <1>1 DEF Embeds
    <2>2. QED
      BY <1>3, <2>1, Gaps
  <1>5. ASSUME NEW x \in 1..l, h[x] <= m PROVE x <= k + R
    <2>1. PICK hx \in 1..lr : hx = h[x]
      BY <1>3
    <2>2. CASE a = None
      <3>1. resolve(r, a, k) = 0
        BY <2>2 DEF resolve
      <3>2. hx <= s
        BY <1>1, <1>5, <2>1, <3>1
      <3>3. x <= hx
        BY <1>4, <2>1
      <3>4. QED
        BY <1>2, <3>2, <3>3
    <2>3. CASE a # None
      <3>1. PICK p \in 1..l : /\ q[p] = a /\ k = Smaller(p - 1, M)
                              /\ \A i \in 1..l : q[i] = a => p <= i
        <4>1. a \in Range(q) /\ a # None
          BY <2>3
        <4>2. PICK p \in 1..Len(q) : /\ q[p] = a /\ \A i \in 1..Len(q) : q[i] = a => p <= i
                                     /\ \A i : resolve(q, a, i) = Smaller(p - 1, maxK(q))
          BY <4>1, FirstPlace
        <4>3. k = Smaller(p - 1, maxK(q))
          BY <4>2, Zenon
        <4>4. QED
          BY <1>1, <4>2, <4>3
      <3>2. PICK hp \in 1..lr : hp = h[p] /\ r[hp] = a
        BY <1>3, <3>1
      <3>3. a \in Range(r)
        BY <1>1, <3>2 DEF Range
      <3>4. PICK pr \in 1..lr : /\ \A i \in 1..lr : r[i] = a => pr <= i
                                /\ resolve(r, a, k) = Smaller(pr - 1, Mr)
        BY <1>1, <2>3, <3>3, FirstPlace
      <3>5. pr <= hp
        BY <3>2, <3>4
      <3>6. PICK z \in Nat : z = resolve(r, a, k) /\ z <= pr - 1
        <4>1. PICK y \in Nat : y = pr - 1
          BY <1>1
        <4>2. Smaller(y, Mr) \in Nat /\ Smaller(y, Mr) <= y
          BY <1>1 DEF Smaller
        <4>3. QED
          BY <3>4, <4>1, <4>2
      <3>7. hx <= hp - 1 + s
        <4>1. hx <= z + s
          <5>1. m <= z + s
            BY <1>1, <3>6
          <5>2. hx <= m
            BY <1>5, <2>1
          <5>3. hx \in Nat
            BY <2>1
          <5>4. QED
            BY <5>1, <5>2, <5>3
        <4>2. QED
          BY <1>1, <3>5, <3>6, <4>1
      <3>8. x <= p - 1 + s
        <4>1. CASE p <= x
          <5>1. x - p <= hx - hp
            BY <1>4, <2>1, <3>2, <4>1
          <5>2. QED
            BY <3>7, <5>1
        <4>2. CASE ~(p <= x)
          BY <4>2
        <4>3. QED
          BY <4>1, <4>2
      <3>9. CASE k = p - 1
        BY <1>2, <3>8, <3>9
      <3>10. CASE k # p - 1
        <4>1. k = M
          BY <3>1, <3>10 DEF Smaller
        <4>2. QED
          BY <1>2, <4>1
      <3>11. QED
        BY <3>9, <3>10
    <2>4. QED
      BY <2>2, <2>3
  <1>6. ASSUME NEW v \in Above(r, m) \cap Range(q) PROVE v \in Above(q, k + RenderMax)
    <2>1. PICK j \in 1..Smaller(m, lr) : r[j] = v
      BY <1>1 DEF Above
    <2>2. j \in 1..lr /\ j <= m
      BY <1>1, <2>1 DEF Smaller
    <2>3. PICK x \in 1..l : h[x] = j
      BY <1>3, <1>6, <2>1, <2>2
    <2>4. x <= k + R /\ q[x] = v
      BY <1>3, <1>5, <2>1, <2>2, <2>3
    <2>5. x \in 1..Smaller(k + R, l)
      BY <1>1, <2>4 DEF Smaller
    <2>6. QED
      BY <1>1, <2>4, <2>5 DEF Above
  <1>7. QED
    BY <1>6

\* Rows that are joined at the end leave those that were there in order.
LEMMA KeptEmbeds ==
  ASSUME NEW s \in Seq(Nat), NEW u \in Seq(Nat), NEW S, NEW V,
         Len(s) <= Len(u), \A i \in 1..Len(s) : u[i] = s[i],
         \A i \in 1..Len(u) : i > Len(s) => u[i] \notin Range(s),
         Range(Keep(s, S)) \subseteq Range(Keep(u, V))
  PROVE  \E h : Embeds(h, Keep(s, S), Keep(u, V))
  <1>1. PICK q, f : q \in Seq(Nat) /\ q = Keep(s, S) /\ Places(f, q, s, S, Len(s))
    BY KeepPlaces
  <1>2. PICK r, g : r \in Seq(Nat) /\ r = Keep(u, V) /\ Places(g, r, u, V, Len(u))
    BY KeepPlaces
  <1>3. PICK n, m, l, lr \in Nat : n = Len(s) /\ m = Len(u) /\ l = Len(q) /\ lr = Len(r)
    <2>1. Len(s) \in Nat /\ Len(u) \in Nat /\ Len(q) \in Nat /\ Len(r) \in Nat
      OBVIOUS
    <2>2. QED
      BY <2>1, Zenon
  <1>4. n <= m /\ DOMAIN s = 1..n
    BY <1>3
  <1>5. /\ f \in [1..l -> 1..n] /\ Grows(f, l)
        /\ \A k \in 1..l : q[k] = s[f[k]] /\ s[f[k]] \in S
        /\ \A i \in 1..n : s[i] \in S => \E k \in 1..l : f[k] = i
    BY <1>1, <1>3 DEF Places
  <1>6. /\ g \in [1..lr -> 1..m] /\ Grows(g, lr)
        /\ \A k \in 1..lr : r[k] = u[g[k]] /\ u[g[k]] \in V
        /\ \A i \in 1..m : u[i] \in V => \E k \in 1..lr : g[k] = i
    BY <1>2, <1>3 DEF Places
  <1>7. Range(q) \subseteq S /\ Range(q) \subseteq V /\ Range(q) \subseteq Range(s)
    <2>1. Range(q) = Range(s) \cap S /\ Range(r) = Range(u) \cap V
      BY <1>1, <1>2, KeepRange
    <2>2. Range(q) \subseteq Range(r)
      BY <1>1, <1>2
    <2>3. QED
      BY <2>1, <2>2
  <1>8. \A k \in 1..l : \E j \in 1..lr : g[j] = f[k]
    <2>1. TAKE k \in 1..l
    <2>2. f[k] \in 1..n /\ q[k] = s[f[k]]
      BY <1>5
    <2>3. f[k] \in 1..m /\ u[f[k]] = q[k]
      BY <1>3, <1>4, <2>2
    <2>4. q[k] \in Range(q)
      <3>1. DOMAIN q = 1..l
        BY <1>3
      <3>2. QED
        BY <3>1 DEF Range
    <2>5. QED
      BY <1>6, <1>7, <2>3, <2>4
  <1> DEFINE h == [k \in 1..l |-> CHOOSE j \in 1..lr : g[j] = f[k]]
  <1>9. \A k \in 1..l : h[k] \in 1..lr /\ g[h[k]] = f[k]
    BY <1>8
  <1>10. h \in [1..l -> 1..lr]
    BY <1>9
  <1> HIDE DEF h
  <1>11. \A x, y \in 1..lr : g[x] < g[y] => x < y
    <2>1. SUFFICES ASSUME NEW x \in 1..lr, NEW y \in 1..lr, g[x] < g[y], ~(x < y) PROVE FALSE
      OBVIOUS
    <2>2. PICK gx, gy \in 1..m : gx = g[x] /\ gy = g[y] /\ gx < gy
      BY <1>6, <2>1
    <2>3. CASE x = y
      BY <2>2, <2>3
    <2>4. CASE y < x
      <3>1. g[y] < g[x]
        BY <1>6, <2>4 DEF Grows
      <3>2. QED
        BY <2>2, <3>1
    <2>5. QED
      BY <2>1, <2>3, <2>4
  <1>12. Grows(h, l)
    <2>1. ASSUME NEW k \in 1..l, NEW i \in 1..l, k < i PROVE h[k] < h[i]
      <3>1. f[k] < f[i]
        BY <1>5, <2>1 DEF Grows
      <3>2. g[h[k]] < g[h[i]]
        BY <1>9, <3>1
      <3>3. QED
        BY <1>9, <1>11, <3>2
    <2>2. QED
      BY <2>1 DEF Grows
  <1>13. \A k \in 1..l : r[h[k]] = q[k]
    <2>1. TAKE k \in 1..l
    <2>2. r[h[k]] = u[f[k]]
      BY <1>6, <1>9
    <2>3. u[f[k]] = s[f[k]]
      BY <1>3, <1>5
    <2>4. QED
      BY <1>5, <2>2, <2>3
  <1>14. ASSUME NEW j \in 1..lr, r[j] \in Range(q) PROVE \E k \in 1..l : h[k] = j
    <2>1. g[j] \in 1..m /\ u[g[j]] \in Range(q)
      BY <1>6, <1>14
    <2>2. PICK i \in 1..m : i = g[j]
      BY <2>1
    <2>3. i \in 1..n
      <3>1. ~(i > n)
        BY <1>3, <1>7, <2>1, <2>2
      <3>2. QED
        BY <2>2, <3>1
    <2>4. s[i] \in S
      BY <1>3, <1>7, <2>1, <2>2, <2>3
    <2>5. PICK k \in 1..l : f[k] = i
      BY <1>5, <2>3, <2>4
    <2>6. g[h[k]] = g[j] /\ h[k] \in 1..lr
      BY <1>9, <2>2, <2>5
    <2>7. PICK x \in 1..lr : x = h[k] /\ g[x] = g[j]
      BY <2>6
    <2>8. ~(x < j) /\ ~(j < x)
      <3>1. \A a, b \in 1..lr : a < b => g[a] < g[b]
        BY <1>6 DEF Grows
      <3>2. i \in Nat /\ ~(i < i)
        BY <2>2
      <3>3. QED
        BY <2>2, <2>7, <3>1, <3>2
    <2>9. QED
      BY <2>7, <2>8
  <1>15. Embeds(h, q, r)
    BY <1>3, <1>10, <1>12, <1>13, <1>14 DEF Embeds
  <1>16. QED
    BY <1>1, <1>2, <1>15

\* Rows that have not changed.
LEMMA SameEmbeds ==
  ASSUME NEW q \in Seq(Nat)
  PROVE  \E h : Embeds(h, q, q)
  <1> DEFINE h == [k \in 1..Len(q) |-> k]
  <1>1. h \in [1..Len(q) -> 1..Len(q)] /\ \A k \in 1..Len(q) : h[k] = k
    OBVIOUS
  <1>2. Embeds(h, q, q)
    BY <1>1 DEF Embeds, Grows
  <1>3. QED
    BY <1>2

----
(* Every step ends with the render it causes.                              *)

\* The buffer keeps within the cap, and another render moves nothing.
Settled == Len(logs) <= Cap /\ lastK \in Nat /\ resolve(Items, anchor, lastK) = lastK

Parts(l, m, o, w) == [logs |-> l, matched |-> m, older |-> o, listWindow |-> w]

WithRows(b, x) == [b EXCEPT !.logs = x]
WithPage(b, x, y, z) ==
    [b EXCEPT !.logs = @ \o x, !.matched = @ \cup y, !.older = z]

\* A buffer with other rows.
LEMMA BufferWithRows ==
  ASSUME NEW l, NEW m, NEW o, NEW w, NEW x
  PROVE  WithRows(Parts(l, m, o, w), x) = Parts(x, m, o, w)
  BY DEF Parts, WithRows

\* A buffer with those of a page.
LEMMA BufferWithPage ==
  ASSUME NEW l, NEW m, NEW o, NEW w, NEW x, NEW y, NEW z
  PROVE  WithPage(Parts(l, m, o, w), x, y, z) = Parts(l \o x, m \cup y, z, w)
  <1>1. PICK r : r = Parts(l, m, o, w)
    OBVIOUS
  <1>2. PICK L, M : L = r.logs \o x /\ M = r.matched \cup y
    OBVIOUS
  <1>3. L = l \o x /\ M = m \cup y
    <2>1. r.logs = l /\ r.matched = m
      BY <1>1 DEF Parts
    <2>2. QED
      BY <1>2, <2>1, Zenon
  <1>4. [[[r EXCEPT !.logs = L] EXCEPT !.matched = M] EXCEPT !.older = z] = Parts(L, M, z, w)
    <2>1. [r EXCEPT !.logs = L] = Parts(L, m, o, w)
      BY <1>1 DEF Parts
    <2>2. [Parts(L, m, o, w) EXCEPT !.matched = M] = Parts(L, M, o, w)
      BY DEF Parts
    <2>3. [Parts(L, M, o, w) EXCEPT !.older = z] = Parts(L, M, z, w)
      BY DEF Parts
    <2>4. QED
      BY <2>1, <2>2, <2>3, Zenon
  <1>5. WithPage(r, x, y, z) = Parts(L, M, z, w)
    BY <1>2, <1>4, Zenon DEF WithPage
  <1>6. QED
    BY <1>1, <1>3, <1>5, Zenon

\* The rows of a buffer depend on its four parts alone.
LEMMA FilteredTyped ==
  ASSUME NEW b, b.logs \in Seq(Nat), NEW q, NEW found
  PROVE  /\ createFilteredLogs(b, q, found) \in Seq(Nat)
         /\ \A c : /\ c.logs = b.logs /\ c.matched = b.matched
                   /\ c.older = b.older /\ c.listWindow = b.listWindow
                   => createFilteredLogs(c, q, found) = createFilteredLogs(b, q, found)
  <1>1. createFilteredLogs(b, q, found) \in Seq(Nat)
    BY KeepRange DEF createFilteredLogs
  <1>2. ASSUME NEW c, c.logs = b.logs, c.matched = b.matched, c.older = b.older,
               c.listWindow = b.listWindow
        PROVE  createFilteredLogs(c, q, found) = createFilteredLogs(b, q, found)
    BY <1>2, Zenon DEF createFilteredLogs
  <1>3. QED
    BY <1>1, <1>2

\* The rows that a write is rendered with are those after it.
LEMMA WriteShows ==
  ASSUME NEW L, NEW M, NEW O, NEW W, NEW b,
         b = Parts(L, M, O, W), L \in Seq(Nat), Write(b), query' = query, hits' = hits
  PROVE  /\ logs' \in Seq(Nat) /\ Len(logs') <= Cap
         /\ createFilteredLogs(Cut(b), query, hits) = NextItems
  <1>1. b.logs = L /\ b.matched = M /\ b.older = O /\ b.listWindow = W
    BY DEF Parts
  <1>2. logs' \in Seq(Nat) /\ Len(logs') = Smaller(Len(L), Cap)
    BY <1>1, WriteRows
  <1>3. Len(logs') <= Cap
    <2>1. Len(L) \in Nat /\ Cap \in Nat
      BY LogListAssumption
    <2>2. QED
      BY <1>2, <2>1 DEF Smaller
  <1>4. /\ Cut(b).logs = logs' /\ Cut(b).matched = matched' /\ Cut(b).older = older'
        /\ Cut(b).listWindow = listWindow'
    BY <1>1 DEF Cut, Write, Parts
  <1> DEFINE c == [logs |-> logs', matched |-> matched', older |-> older',
                   listWindow |-> listWindow']
  <1>5. /\ c.logs = logs' /\ c.matched = matched' /\ c.older = older'
        /\ c.listWindow = listWindow'
    OBVIOUS
  <1>6. NextItems = createFilteredLogs(c, query, hits)
    BY DEF NextItems
  <1> HIDE DEF c
  <1>7. createFilteredLogs(Cut(b), query, hits) = createFilteredLogs(c, query, hits)
    <2>1. c.logs \in Seq(Nat)
      BY <1>2, <1>5
    <2>2. \A d : /\ d.logs = c.logs /\ d.matched = c.matched
                 /\ d.older = c.older /\ d.listWindow = c.listWindow
                 => createFilteredLogs(d, query, hits) = createFilteredLogs(c, query, hits)
      BY <2>1, FilteredTyped
    <2>3. QED
      BY <1>4, <1>5, <2>2, Zenon
  <1>8. QED
    BY <1>2, <1>3, <1>6, <1>7

\* A render settles its position.
LEMMA ShowSettles ==
  ASSUME NEW q \in Seq(Nat), NEW a, NEW k \in Nat, Show(q, a, k)
  PROVE  lastK' \in Nat /\ resolve(q, anchor', lastK') = lastK'
  <1>1. anchor' = a /\ lastK' = resolve(q, a, k)
    BY DEF Show
  <1>2. QED
    BY <1>1, ResolveTyped

\* One in which a slide may happen, too.
LEMMA LoadedSettles ==
  ASSUME NEW q \in Seq(Nat), lastK \in Nat, ShowLoaded(q)
  PROVE  /\ lastK' \in Nat /\ resolve(q, anchor', lastK') = lastK'
         /\ lastK' <= resolve(q, anchor, lastK) + slideStep
  <1>1. PICK k \in Nat : k = resolve(q, anchor, lastK)
    BY ResolveTyped
  <1>2. PICK s \in Nat : s = slideStep
    BY MaxTyped
  <1>3. CASE pendingSlide
    <2>1. PICK a : a = slideOlder(q, k)
      OBVIOUS
    <2>2. Show(q, a, k)
      BY <1>1, <1>3, <2>1, Zenon DEF ShowLoaded
    <2>3. resolve(q, a, k) <= k + slideStep
      BY <2>1, SlideBound
    <2>4. lastK' = resolve(q, a, k)
      BY <2>2 DEF Show
    <2>5. QED
      BY <1>1, <2>2, <2>3, <2>4, ShowSettles
  <1>4. CASE ~pendingSlide
    <2>1. Show(q, anchor, lastK)
      BY <1>4, Zenon DEF ShowLoaded
    <2>2. lastK' = k
      BY <1>1, <2>1 DEF Show
    <2>3. k <= k + s
      OBVIOUS
    <2>4. QED
      BY <1>1, <1>2, <2>1, <2>2, <2>3, ShowSettles
  <1>5. QED
    BY <1>3, <1>4

\* What a delivery renders; the rows that were there follow the batch.
LEMMA AddShows ==
  ASSUME ListTyped, NEW n \in (delivered + 1)..committed, addLogs(n)
  PROVE  /\ delivered' = n /\ Len(logs') <= Cap /\ Show(NextItems, anchor, lastK)
         /\ \A i \in 1..Len(logs') :
               IF i <= n - delivered THEN logs'[i] \in (delivered + 1)..n
               ELSE i - (n - delivered) \in 1..Len(logs) /\ logs'[i] = logs[i - (n - delivered)]
  <1> DEFINE batch == [i \in 1..(n - delivered) |-> n - i + 1]
             b == [Buffer EXCEPT !.logs = batch \o @]
  <1>1. logs \in Seq(Nat) /\ delivered \in Nat /\ n \in Nat /\ delivered < n
    BY DEF ListTyped, BufferTyped
  <1>2. batch \in Seq(Nat) /\ Len(batch) = n - delivered
        /\ \A i \in 1..(n - delivered) : batch[i] \in (delivered + 1)..n
    <2>1. n - delivered \in Nat /\ \A i \in 1..(n - delivered) : n - i + 1 \in (delivered + 1)..n
      BY <1>1
    <2>2. \A i \in 1..(n - delivered) : n - i + 1 \in Nat
      BY <1>1
    <2>3. QED
      BY <2>1, <2>2
  <1>3. /\ delivered' = n /\ Write(b) /\ query' = query /\ hits' = hits
        /\ Show(createFilteredLogs(Cut(b), query, hits), anchor, lastK)
    BY DEF addLogs, scopeVars
  <1> HIDE DEF batch
  <1>4. /\ batch \o logs \in Seq(Nat) /\ Len(batch \o logs) = Len(batch) + Len(logs)
        /\ \A i \in 1..(Len(batch) + Len(logs)) :
              (batch \o logs)[i] = IF i <= Len(batch) THEN batch[i] ELSE logs[i - Len(batch)]
    BY <1>1, <1>2, ConcatProperties
  <1>5. b = Parts(batch \o logs, matched, older, listWindow)
    <2>1. Buffer = Parts(logs, matched, older, listWindow) /\ Buffer.logs = logs
      BY DEF Buffer, Parts
    <2>2. b = WithRows(Buffer, batch \o logs)
      BY <2>1, Zenon DEF WithRows
    <2> HIDE DEF b
    <2>3. QED
      BY <2>1, <2>2, BufferWithRows
  <1>6. b.logs = batch \o logs
    BY <1>5 DEF Parts
  <1> HIDE DEF b
  <1>7. Len(logs') <= Cap /\ createFilteredLogs(Cut(b), query, hits) = NextItems
    BY <1>3, <1>4, <1>5, WriteShows
  <1>8. /\ logs' \in Seq(Nat) /\ Len(logs') = Smaller(Len(b.logs), Cap)
        /\ \A i \in 1..Len(logs') : logs'[i] = b.logs[i]
    BY <1>3, <1>4, <1>6, WriteRows
  <1>9. ASSUME NEW i \in 1..Len(logs')
        PROVE  IF i <= n - delivered THEN logs'[i] \in (delivered + 1)..n
               ELSE i - (n - delivered) \in 1..Len(logs) /\ logs'[i] = logs[i - (n - delivered)]
    <2>1. PICK d, l, m, c \in Nat : d = n - delivered /\ l = Len(logs) /\ m = Len(logs') /\ c = Cap
      <3>1. n - delivered \in Nat /\ Len(logs) \in Nat /\ Len(logs') \in Nat /\ Cap \in Nat
        BY <1>1, <1>8, LogListAssumption
      <3>2. QED
        BY <3>1, Zenon
    <2>2. m <= d + l
      <3>1. m = Smaller(d + l, c)
        BY <1>2, <1>4, <1>6, <1>8, <2>1
      <3>2. QED
        BY <2>1, <3>1 DEF Smaller
    <2>3. i \in 1..(d + l) /\ (~(i <= d) => i - d \in 1..l) /\ (i <= d => i \in 1..d)
      BY <2>1, <2>2
    <2>4. logs'[i] = IF i <= d THEN batch[i] ELSE logs[i - d]
      BY <1>2, <1>4, <1>6, <1>8, <2>1, <2>3
    <2>5. QED
      BY <1>2, <2>1, <2>3, <2>4
  <1>10. QED
    BY <1>3, <1>7, <1>9

\* What a first page renders.
LEMMA ReplaceShows ==
  ASSUME ListTyped, replaceLogPage
  PROVE  Len(logs') <= Cap /\ ShowLoaded(NextItems)
  <1> DEFINE live == Keep(logs, Range(logs) \ page.before)
             fresh == Keep(page.items, Range(page.items) \ Range(live))
             b == [logs |-> live \o fresh, matched |-> Range(page.items), older |-> {},
                   listWindow |-> window]
  <1>1. logs \in Seq(Nat) /\ page.items \in Seq(Nat)
    <2>1. page.phase = "answered"
      BY DEF replaceLogPage
    <2>2. page \in Answered
      BY <2>1 DEF ListTyped, PageTyped, Idle, Asked
    <2>3. QED
      BY <2>2 DEF ListTyped, BufferTyped, Answered
  <1>2. live \in Seq(Nat) /\ fresh \in Seq(Nat)
    BY <1>1, KeepRange
  <1>3. /\ Write(b) /\ ShowLoaded(createFilteredLogs(Cut(b), query, hits))
        /\ query' = query /\ hits' = hits
    BY DEF replaceLogPage, scopeVars
  <1> HIDE DEF live, fresh
  <1>4. live \o fresh \in Seq(Nat)
    BY <1>2, ConcatRange
  <1>5. Len(logs') <= Cap /\ createFilteredLogs(Cut(b), query, hits) = NextItems
    <2> DEFINE l == live \o fresh
               m == Range(page.items)
    <2>1. b = Parts(l, m, {}, window) /\ l \in Seq(Nat)
      BY <1>4 DEF Parts
    <2> HIDE DEF b, l, m
    <2>2. QED
      BY <1>3, <2>1, WriteShows
  <1>6. QED
    BY <1>3, <1>5

\* What a further page renders; the rows that were there stay, and no row of
\* the page was among them.
LEMMA AppendShows ==
  ASSUME ListTyped, Settled, appendLogs
  PROVE  /\ Len(logs') <= Cap /\ ShowLoaded(NextItems)
         /\ Len(logs) <= Len(logs')
         /\ \A i \in 1..Len(logs) : logs'[i] = logs[i]
         /\ \A i \in 1..Len(logs') : i > Len(logs) => logs'[i] \notin Range(logs)
  <1> DEFINE ids == Range(page.items)
             fresh == Keep(page.items, ids \ Range(logs))
             b == [Buffer EXCEPT !.logs = @ \o fresh, !.matched = @ \cup ids,
                                 !.older = IF Searching(query) THEN @ ELSE @ \cup ids]
  <1>1. logs \in Seq(Nat) /\ page.items \in Seq(Nat)
    <2>1. page.phase = "answered"
      BY DEF appendLogs
    <2>2. page \in Answered
      BY <2>1 DEF ListTyped, PageTyped, Idle, Asked
    <2>3. QED
      BY <2>2 DEF ListTyped, BufferTyped, Answered
  <1>2. fresh \in Seq(Nat) /\ Range(fresh) = ids \cap (ids \ Range(logs))
    BY <1>1, KeepRange
  <1>3. /\ Write(b) /\ ShowLoaded(createFilteredLogs(Cut(b), query, hits))
        /\ query' = query /\ hits' = hits
    BY DEF appendLogs, scopeVars
  <1> HIDE DEF fresh
  <1>4. /\ logs \o fresh \in Seq(Nat) /\ Len(logs \o fresh) = Len(logs) + Len(fresh)
        /\ \A i \in 1..(Len(logs) + Len(fresh)) :
              (logs \o fresh)[i] = IF i <= Len(logs) THEN logs[i] ELSE fresh[i - Len(logs)]
    BY <1>1, <1>2, ConcatProperties
  <1> DEFINE l == logs \o fresh
             m == matched \cup ids
             o == IF Searching(query) THEN older ELSE older \cup ids
  <1>5. b = Parts(l, m, o, listWindow) /\ b.logs = l
    <2> HIDE DEF ids
    <2>1. Buffer = Parts(logs, matched, older, listWindow)
      BY DEF Buffer, Parts
    <2>2. b = Parts(l, m, o, listWindow)
      <3>1. PICK z : z = IF Searching(query) THEN Buffer.older ELSE Buffer.older \cup ids
        OBVIOUS
      <3>2. b = WithPage(Buffer, fresh, ids, z)
        BY <3>1, Zenon DEF WithPage
      <3>3. z = o
        <4>1. Buffer.older = older
          BY DEF Buffer
        <4>2. QED
          BY <3>1, <4>1, Zenon
      <3> HIDE DEF b, o
      <3>4. QED
        BY <2>1, <3>2, <3>3, BufferWithPage
    <2> HIDE DEF b
    <2>3. QED
      BY <2>2 DEF Parts
  <1> HIDE DEF b, m, o, ids
  <1>6. Len(logs') <= Cap /\ createFilteredLogs(Cut(b), query, hits) = NextItems
    <2> HIDE DEF l
    <2>1. l \in Seq(Nat)
      BY <1>4 DEF l
    <2>2. QED
      BY <1>3, <1>5, <2>1, WriteShows
  <1>7. /\ logs' \in Seq(Nat) /\ Len(logs') = Smaller(Len(l), Cap)
        /\ \A i \in 1..Len(logs') : logs'[i] = l[i]
    BY <1>3, <1>4, <1>5, WriteRows
  <1> HIDE DEF l
  <1>8. PICK n, d, k, c \in Nat : n = Len(logs) /\ d = Len(fresh) /\ k = Len(logs') /\ c = Cap
    <2>1. Len(logs) \in Nat /\ Len(fresh) \in Nat /\ Len(logs') \in Nat /\ Cap \in Nat
      BY <1>1, <1>2, <1>7, LogListAssumption
    <2>2. QED
      BY <2>1, Zenon
  <1>9. n <= k /\ k <= n + d
    <2>1. k = Smaller(n + d, c) /\ n <= c
      BY <1>4, <1>7, <1>8 DEF Settled, l
    <2>2. QED
      BY <1>8, <2>1 DEF Smaller
  <1>10. \A i \in 1..(n + d) : l[i] = IF i <= n THEN logs[i] ELSE fresh[i - n]
    BY <1>4, <1>8 DEF l
  <1>11. ASSUME NEW i \in 1..n PROVE logs'[i] = logs[i]
    <2>1. i \in 1..k /\ i \in 1..(n + d) /\ i <= n
      BY <1>8, <1>9
    <2>2. QED
      BY <1>7, <1>8, <1>10, <2>1
  <1>12. ASSUME NEW i \in 1..k, i > n PROVE logs'[i] \notin Range(logs)
    <2>1. i \in 1..(n + d) /\ ~(i <= n) /\ i - n \in 1..d
      BY <1>8, <1>9, <1>12
    <2>2. logs'[i] = fresh[i - n]
      BY <1>7, <1>8, <1>10, <2>1
    <2>3. fresh[i - n] \in Range(fresh)
      <3>1. DOMAIN fresh = 1..d
        BY <1>2, <1>8
      <3>2. QED
        BY <2>1, <3>1 DEF Range
    <2>4. QED
      BY <1>2, <2>2, <2>3
  <1>13. QED
    BY <1>3, <1>6, <1>8, <1>9, <1>11, <1>12

\* Items are rows, before a step and after it.
LEMMA ItemsTyped ==
  ASSUME ListTyped, [Next]_vars
  PROVE  Items \in Seq(Nat) /\ NextItems \in Seq(Nat) /\ Items' = NextItems
  <1>1. logs \in Seq(Nat) /\ logs' \in Seq(Nat)
    BY TypedNext DEF ListTyped, BufferTyped
  <1>2. Items \in Seq(Nat)
    <2>1. Buffer.logs \in Seq(Nat)
      BY <1>1 DEF Buffer
    <2>2. QED
      BY <2>1, FilteredTyped DEF Items
  <1>3. Items' = NextItems
    BY DEF Items, Buffer, NextItems
  <1>4. NextItems \in Seq(Nat)
    <2> DEFINE c == [logs |-> logs', matched |-> matched', older |-> older',
                     listWindow |-> listWindow']
    <2>1. c.logs \in Seq(Nat)
      BY <1>1
    <2> HIDE DEF c
    <2>2. createFilteredLogs(c, query', hits') \in Seq(Nat)
      BY <2>1, FilteredTyped
    <2>3. QED
      BY <2>2 DEF NextItems, c
  <1>5. QED
    BY <1>2, <1>3, <1>4

\* The rows are what the filter keeps of the buffer.
LEMMA KeptItems ==
  ASSUME NEW s, s = logs, NEW u, u = logs', NEW q, q = Items, NEW r, r = NextItems
  PROVE  \E S, V : q = Keep(s, S) /\ r = Keep(u, V)
  <1>1. \A b, x, y : \E S : createFilteredLogs(b, x, y) = Keep(b.logs, S)
    BY Zenon DEF createFilteredLogs
  <1>2. \E S : q = Keep(s, S)
    <2>1. Buffer.logs = s
      BY DEF Buffer
    <2>2. QED
      BY <1>1, <2>1, Zenon DEF Items
  <1>3. \E V : r = Keep(u, V)
    <2> DEFINE c == [logs |-> logs', matched |-> matched', older |-> older',
                     listWindow |-> listWindow']
    <2>1. c.logs = u
      OBVIOUS
    <2>2. r = createFilteredLogs(c, query', hits')
      BY DEF NextItems
    <2> HIDE DEF c
    <2>3. QED
      BY <1>1, <2>1, <2>2, Zenon
  <1>4. QED
    BY <1>2, <1>3, Zenon

\* Where nothing of the rows changes they are the same.
LEMMA SameItems ==
  ASSUME UNCHANGED <<bufferVars, query, hits>>
  PROVE  NextItems = Items
  BY DEF NextItems, Items, Buffer, bufferVars

\* The render of a new scope, with the rows of the old buffer.
LEMMA ScopeShows ==
  ASSUME NEW w, NEW q, setScope(w, q)
  PROVE  /\ UNCHANGED <<logs, delivered>> /\ (window' # window \/ query' # query)
         /\ \E a : \E k : /\ Show(NextItems, a, k)
                          /\ k = 0 \/ \E i : k = resolve(NextItems, i, 0)
  <1> DEFINE items == createFilteredLogs(Buffer, q, hits')
  <1>1. /\ Begin(w, q) /\ (w # window \/ q # query)
        /\ IF pendingSlide
           THEN Show(items, slideOlder(items, resolve(items, anchor, 0)), resolve(items, anchor, 0))
           ELSE Show(items, None, 0)
    BY Zenon DEF setScope
  <1>2. /\ window' = w /\ query' = q
        /\ UNCHANGED <<delivered, logs, matched, older, listWindow>>
    BY <1>1 DEF Begin
  <1>3. NextItems = items
    BY <1>2 DEF NextItems, Buffer
  <1> HIDE DEF items
  <1>4. \E a : \E k : Show(NextItems, a, k) /\ (k = 0 \/ \E i : k = resolve(NextItems, i, 0))
    BY <1>1, <1>3, Zenon
  <1>5. QED
    BY <1>1, <1>2, <1>4

\* Every step leaves the window settled.
LEMMA SettledNext ==
  ASSUME ListTyped, Settled, [Next]_vars
  PROVE  Settled'
  <1>1. PICK q \in Seq(Nat) : q = NextItems /\ q = Items'
    BY ItemsTyped
  <1>2. PICK n \in Nat : n = lastK
    BY DEF Settled
  <1> DEFINE Right == Len(logs') <= Cap /\ lastK' \in Nat /\ resolve(q, anchor', lastK') = lastK'
  <1>3. SUFFICES Right
    BY <1>1 DEF Settled
  <1>4. CASE UNCHANGED <<logs, matched, older, listWindow, query, hits, anchor, lastK>>
    <2>1. q = Items
      BY <1>1, <1>4 DEF NextItems, Items, Buffer
    <2>2. QED
      BY <1>4, <2>1 DEF Settled
  <1>5. CASE UNCHANGED vars
    BY <1>4, <1>5 DEF vars, bufferVars, scopeVars, viewVars
  <1>6. CASE Commit \/ fetchPage \/ loadMoreFetches
    BY <1>4, <1>6 DEF Commit, fetchPage, loadMoreFetches, bufferVars, scopeVars, viewVars
  <1>14. CASE Drop \/ \E cutoff : Sweep(cutoff)
    BY <1>4, <1>14 DEF Drop, Sweep, bufferVars, scopeVars, viewVars
  <1>7. ASSUME NEW m \in (delivered + 1)..committed, addLogs(m) PROVE Right
    <2>1. Len(logs') <= Cap /\ Show(q, anchor, n)
      BY <1>1, <1>2, <1>7, AddShows
    <2>2. QED
      BY <2>1, ShowSettles
  <1>8. CASE replaceLogPage
    <2>1. Len(logs') <= Cap /\ ShowLoaded(q)
      BY <1>1, <1>8, ReplaceShows
    <2>2. QED
      BY <1>2, <2>1, LoadedSettles
  <1>9. CASE appendLogs
    <2>1. Len(logs') <= Cap /\ ShowLoaded(q)
      BY <1>1, <1>9, AppendShows
    <2>2. QED
      BY <1>2, <2>1, LoadedSettles
  <1>10. CASE pageFails \/ loadMoreSlides \/ backToLatest
    <2>1. UNCHANGED <<logs, bufferVars, query, hits>>
      BY <1>10 DEF pageFails, loadMoreSlides, backToLatest, bufferVars, scopeVars
    <2>2. q = Items
      BY <1>1, <2>1, SameItems
    <2>3. Len(logs') <= Cap
      BY <2>1 DEF Settled
    <2>4. CASE pageFails
      <3>1. ShowLoaded(q)
        BY <2>2, <2>4 DEF pageFails
      <3>2. QED
        BY <1>2, <2>3, <3>1, LoadedSettles
    <2>5. CASE loadMoreSlides \/ backToLatest
      <3>1. Show(q, slideOlder(q, n), n) \/ Show(q, None, n)
        BY <1>2, <2>2, <2>5 DEF loadMoreSlides, backToLatest
      <3>2. QED
        BY <2>3, <3>1, ShowSettles
    <2>6. QED
      BY <1>10, <2>4, <2>5
  <1>11. ASSUME NEW w \in Windows, revisit(w) PROVE Right
    <2>1. logs' = logs /\ anchor' = None /\ lastK' = 0
      BY <1>11 DEF revisit, Begin
    <2>2. QED
      BY <2>1 DEF Settled, resolve
  <1>12. ASSUME NEW w \in Windows, NEW s, setScope(w, s) PROVE Right
    <2>1. logs' = logs
      BY <1>12, ScopeShows
    <2>2. PICK a, k : Show(q, a, k) /\ (k = 0 \/ \E i : k = resolve(q, i, 0))
      BY <1>1, <1>12, ScopeShows
    <2>3. k \in Nat
      BY <2>2, ResolveTyped
    <2>4. QED
      BY <2>1, <2>2, <2>3, ShowSettles DEF Settled
  <1> HIDE DEF Right
  <1>13. QED
    BY <1>5, <1>6, <1>7, <1>8, <1>9, <1>10, <1>11, <1>12, <1>14, Actions, Zenon

\* What a step that moves the window down leaves above it.
LEMMA SlideNext ==
  ASSUME ListTyped, Settled, [Next]_vars,
         lastK' > lastK, <<delivered, window, query, base>>' = <<delivered, window, query, base>>,
         anchor \in Range(Items) \cup {None}, Range(Items) \subseteq Range(NextItems)
  PROVE  Above(NextItems, lastK') \cap Range(Items) \subseteq Above(Items, lastK + RenderMax)
  <1>1. PICK q, r \in Seq(Nat) : q = Items /\ r = NextItems
    BY ItemsTyped
  <1>2. PICK k \in Nat : k = lastK /\ k = resolve(q, anchor, k)
    BY <1>1 DEF Settled
  <1>3. lastK' \in Nat
    BY SettledNext DEF Settled
  <1>4. ASSUME \E h : Embeds(h, q, r), lastK' <= resolve(r, anchor, k) + slideStep
        PROVE  Above(r, lastK') \cap Range(q) \subseteq Above(q, k + RenderMax)
    <2>1. PICK h : Embeds(h, q, r)
      BY <1>4
    <2>2. PICK a \in Range(q) \cup {None} : a = anchor
      BY <1>1
    <2>3. PICK m \in Nat : m = lastK'
      BY <1>3
    <2>4. QED
      BY <1>2, <1>4, <2>1, <2>2, <2>3, SlidesPast
  <1>5. SUFFICES /\ \E h : Embeds(h, q, r)
                 /\ lastK' <= resolve(r, anchor, k) + slideStep
    BY <1>1, <1>2, <1>4
  <1>6. lastK' # lastK /\ delivered' = delivered /\ window' = window /\ query' = query
        /\ base' = base
    BY <1>2, <1>3
  <1>7. CASE \/ UNCHANGED vars \/ Commit \/ Drop \/ \E cutoff : Sweep(cutoff)
             \/ fetchPage \/ loadMoreFetches \/ backToLatest
             \/ \E w \in Windows : revisit(w)
    <2>1. UNCHANGED vars \/ Commit \/ Drop \/ (\E cutoff : Sweep(cutoff))
             \/ fetchPage \/ loadMoreFetches => lastK' = lastK
      BY DEF vars, Commit, Drop, Sweep, fetchPage, loadMoreFetches, viewVars
    <2>2. backToLatest \/ (\E w \in Windows : revisit(w)) => lastK' = 0
      BY DEF backToLatest, revisit, Show, resolve
    <2>3. ~(lastK' = 0)
      BY <1>2, <1>3
    <2>4. QED
      BY <1>6, <1>7, <2>1, <2>2, <2>3, Zenon
  <1>8. ASSUME NEW n \in (delivered + 1)..committed, addLogs(n) PROVE FALSE
    <2>1. delivered' = n /\ delivered \in Nat
      BY <1>8 DEF addLogs, ListTyped, BufferTyped
    <2>2. QED
      BY <1>6, <2>1
  <1>9. CASE replaceLogPage
    <2>1. base' = page.at /\ page.phase = "answered" /\ page.initial
      BY <1>9 DEF replaceLogPage
    <2>2. base = 0 /\ page.at \in 1..committed
      BY <2>1 DEF ListTyped, PageTyped
    <2>3. ~(page.at = 0)
      <3>1. page.at \in 1..committed /\ committed \in Nat
        BY <2>2 DEF ListTyped, BufferTyped
      <3>2. QED
        BY <3>1
    <2>4. QED
      BY <1>6, <2>1, <2>2, <2>3, Zenon
  <1>10. CASE appendLogs
    <2>1. /\ ShowLoaded(r) /\ Len(logs) <= Len(logs')
          /\ \A i \in 1..Len(logs) : logs'[i] = logs[i]
          /\ \A i \in 1..Len(logs') : i > Len(logs) => logs'[i] \notin Range(logs)
      BY <1>1, <1>10, AppendShows
    <2>2. lastK' <= resolve(r, anchor, k) + slideStep
      BY <1>2, <2>1, LoadedSettles
    <2>3. PICK s, u \in Seq(Nat) : s = logs /\ u = logs'
      BY TypedNext DEF ListTyped, BufferTyped
    <2>4. PICK S, V : q = Keep(s, S) /\ r = Keep(u, V)
      BY <1>1, <2>3, KeptItems
    <2>5. Range(Keep(s, S)) \subseteq Range(Keep(u, V))
      BY <1>1, <2>4
    <2>6. \E h : Embeds(h, Keep(s, S), Keep(u, V))
      BY <2>1, <2>3, <2>5, KeptEmbeds
    <2>7. QED
      BY <2>2, <2>4, <2>6
  <1>11. CASE pageFails \/ loadMoreSlides
    <2>1. UNCHANGED <<bufferVars, query, hits>>
      BY <1>11 DEF pageFails, loadMoreSlides, scopeVars
    <2>2. r = q
      BY <1>1, <2>1, SameItems
    <2>3. \E h : Embeds(h, q, r)
      BY <2>2, SameEmbeds
    <2>4. CASE pageFails
      <3>1. ShowLoaded(r)
        BY <1>1, <2>2, <2>4 DEF pageFails
      <3>2. QED
        BY <1>2, <2>3, <3>1, LoadedSettles
    <2>5. CASE loadMoreSlides
      <3>1. lastK' = resolve(q, slideOlder(q, k), k)
        BY <1>1, <1>2, <2>5 DEF loadMoreSlides, Show
      <3>2. lastK' <= k + slideStep
        BY <3>1, SlideBound
      <3>3. QED
        BY <1>2, <2>2, <2>3, <3>2
    <2>6. QED
      BY <1>11, <2>4, <2>5
  <1>12. ASSUME NEW w \in Windows, NEW s, setScope(w, s) PROVE FALSE
    BY <1>6, <1>12, ScopeShows
  <1>13. QED
    BY <1>7, <1>8, <1>9, <1>10, <1>11, <1>12, Actions, Zenon

\* How the rows of the window are found at the start.
LEMMA SettledInit ==
  ASSUME Init
  PROVE  Settled
  <1>1. Len(logs) = 0 /\ Cap \in Nat \ {0} /\ anchor = None /\ lastK = 0
    BY LogListAssumption DEF Init
  <1>2. QED
    BY <1>1 DEF Settled, resolve

\* The list's state has its types, and its window is settled.
LEMMA ListSettled == Spec => [](ListTyped /\ Settled)
  <1>1. Init => ListTyped /\ Settled
    BY ReachInit, SettledInit DEF ReachInv
  <1>2. (ListTyped /\ Settled) /\ [Next]_vars => (ListTyped /\ Settled)'
    BY TypedNext, SettledNext
  <1>3. QED
    BY <1>1, <1>2, PTL DEF Spec

\* slideOlder of useRenderWindow: Load more never moves past a row that was
\* there and not mounted, at any moment of a slide, a page or its failure.
THEOREM NoRowIsPassed == Spec => SlideIsContiguous
  <1>1. ListTyped /\ Settled /\ [Next]_vars
          => [lastK' > lastK
                 /\ <<delivered, window, query, base>>' = <<delivered, window, query, base>>
                 /\ anchor \in Range(Items) \cup {None} /\ Range(Items) \subseteq Range(NextItems)
               => LET items == NextItems
                  IN  Above(items, lastK') \cap Range(Items)
                        \subseteq Above(Items, lastK + RenderMax)]_vars
    BY SlideNext
  <1>2. QED
    BY <1>1, ListSettled, PTL DEF Spec, SlideIsContiguous

----
(* A delivery, over a window away from the head.                           *)

\* The rows of r are those of q after d others.
Follows(q, r, d) == Len(r) = d + Len(q) /\ \A i \in 1..Len(q) : r[d + i] = q[i]

\* None of the first d rows of r is a.
Without(r, d, a) == \A j \in 1..d : r[j] # a

\* What of u is a, s has e places earlier.
Shifted(s, u, e, a) == \A i \in 1..Len(u) : u[i] = a => i - e \in 1..Len(s) /\ u[i] = s[i - e]

\* A suffix is found at the end.
LEMMA SuffixRows ==
  ASSUME NEW s \in Seq(Nat), NEW t \in Seq(Nat), IsSuffix(s, t)
  PROVE  \E d \in Nat : Follows(s, t, d)
  <1>1. PICK n, m \in Nat : n = Len(s) /\ m = Len(t)
    <2>1. Len(s) \in Nat /\ Len(t) \in Nat
      OBVIOUS
    <2>2. QED
      BY <2>1, Zenon
  <1> DEFINE x == Reverse(s)
             y == Reverse(t)
  <1>2. /\ x \in Seq(Nat) /\ Len(x) = n /\ \A i \in 1..n : x[i] = s[n - i + 1]
        /\ y \in Seq(Nat) /\ Len(y) = m /\ \A i \in 1..m : y[i] = t[m - i + 1]
    <2>1. \A i \in 1..n : n - i + 1 \in 1..n
      OBVIOUS
    <2>2. \A i \in 1..m : m - i + 1 \in 1..m
      OBVIOUS
    <2>3. x = [i \in 1..n |-> s[n - i + 1]] /\ y = [i \in 1..m |-> t[m - i + 1]]
      BY <1>1 DEF Reverse
    <2>4. (\A i \in 1..n : s[n - i + 1] \in Nat) /\ (\A i \in 1..m : t[m - i + 1] \in Nat)
      BY <1>1, <2>1, <2>2
    <2> HIDE DEF x, y
    <2>5. QED
      BY <2>3, <2>4
  <1>3. IsPrefix(x, y)
    BY DEF IsSuffix
  <1> HIDE DEF x, y
  <1>4. n <= m /\ SubSeq(x, 1, n) = SubSeq(y, 1, n)
    BY <1>2, <1>3 DEF IsPrefix
  <1>5. ASSUME NEW i \in 1..n PROVE x[i] = y[i]
    <2>1. \A j \in 1..n : x[j] \in Nat /\ y[j] \in Nat
      BY <1>2, <1>4
    <2>2. /\ \A j \in 1..(n - 1 + 1) : SubSeq(x, 1, n)[j] = x[1 + j - 1]
          /\ \A j \in 1..(n - 1 + 1) : SubSeq(y, 1, n)[j] = y[1 + j - 1]
      BY <2>1, SubSeqProperties
    <2>3. i \in 1..(n - 1 + 1) /\ 1 + i - 1 = i
      OBVIOUS
    <2>4. QED
      BY <1>4, <2>2, <2>3
  <1>6. PICK d \in Nat : d = m - n
    BY <1>4
  <1>7. ASSUME NEW i \in 1..n PROVE t[d + i] = s[i]
    <2>1. PICK j \in 1..n : j = n - i + 1
      OBVIOUS
    <2>2. j \in 1..m /\ m - j + 1 = d + i /\ n - j + 1 = i
      BY <1>4, <1>6, <2>1
    <2>3. x[j] = s[i] /\ y[j] = t[d + i]
      BY <1>2, <2>2
    <2>4. QED
      BY <1>5, <2>3
  <1>8. Follows(s, t, d)
    <2>1. Len(t) = d + Len(s)
      BY <1>1, <1>6
    <2>2. QED
      BY <1>1, <1>7, <2>1, Zenon DEF Follows
  <1>9. QED
    BY <1>8, Zenon

\* Rows of a new list that grow with those of the old one, A, and have one for
\* each of them d further down: none can be among the first d.
LEMMA NoneBefore ==
  ASSUME NEW l \in Nat, NEW d \in Nat, NEW A \in SUBSET (1..l), A # {},
         NEW O \in SUBSET Nat, NEW b \in [O -> A],
         \A i, j \in O : i < j => b[i] < b[j], \A k \in A : d + k \in O
  PROVE  \A j \in O : ~(j <= d)
  <1> SUFFICES ASSUME NEW j \in O, j <= d PROVE FALSE
    OBVIOUS
  <1>1. PICK p \in A : \A k \in A : p <= k
    <2>1. A \in SUBSET Nat
      OBVIOUS
    <2>2. QED
      BY <2>1, LeastNumber
  <1> DEFINE B == {k \in A : k < b[d + k]}
             D == {l - k : k \in B}
  <1>2. p \in B
    <2>1. d + p \in O /\ j < d + p
      OBVIOUS
    <2>2. b[j] < b[d + p] /\ b[j] \in A /\ b[d + p] \in A
      BY <2>1
    <2>3. p <= b[j]
      BY <1>1, <2>2
    <2>4. PICK x, y \in 1..l : x = b[j] /\ y = b[d + p]
      BY <2>2
    <2>5. p < y
      BY <2>2, <2>3, <2>4
    <2>6. QED
      BY <2>4, <2>5
  <1>3. D \in SUBSET Nat /\ D # {}
    BY <1>2
  <1>4. PICK z \in D : \A y \in D : z <= y
    BY <1>3, LeastNumber
  <1>5. PICK k \in B : z = l - k
    OBVIOUS
  <1>6. PICK i \in A : i = b[d + k] /\ k < i
    BY <1>5
  <1>7. PICK x, y \in Nat : x = k /\ y = i /\ y <= l /\ x < y
    BY <1>6
  <1>8. d + k \in O /\ d + i \in O /\ d + k < d + i
    BY <1>6, <1>7
  <1>9. b[d + k] < b[d + i]
    BY <1>8
  <1>10. i \in B
    BY <1>6, <1>9
  <1>11. l - i \in D
    BY <1>10
  <1>12. z <= l - i
    BY <1>4, <1>11
  <1>13. QED
    BY <1>5, <1>7, <1>12

\* The rows of a batch, none of which is a, leave the first row that is a where
\* the rows that were there have it.
LEMMA AnchorStays ==
  ASSUME NEW s \in Seq(Nat), NEW u \in Seq(Nat), NEW S, NEW V, NEW d \in Nat, NEW e \in Nat,
         NEW q, q = Keep(s, S), NEW r, r = Keep(u, V), NEW a \in Range(q),
         Shifted(s, u, e, a), Follows(q, r, d)
  PROVE  Without(r, d, a)
  <1>1. PICK f : q \in Seq(Nat) /\ Places(f, q, s, S, Len(s))
    BY KeepPlaces
  <1>2. PICK g : r \in Seq(Nat) /\ Places(g, r, u, V, Len(u))
    BY KeepPlaces
  <1>3. PICK n, m, l, lr \in Nat : n = Len(s) /\ m = Len(u) /\ l = Len(q) /\ lr = Len(r)
    <2>1. Len(s) \in Nat /\ Len(u) \in Nat /\ Len(q) \in Nat /\ Len(r) \in Nat
      OBVIOUS
    <2>2. QED
      BY <2>1, Zenon
  <1>4. /\ f \in [1..l -> 1..n] /\ Grows(f, l)
        /\ \A k \in 1..l : q[k] = s[f[k]] /\ s[f[k]] \in S
        /\ \A i \in 1..n : s[i] \in S => \E k \in 1..l : f[k] = i
    BY <1>1, <1>3 DEF Places
  <1>5. /\ g \in [1..lr -> 1..m] /\ Grows(g, lr)
        /\ \A k \in 1..lr : r[k] = u[g[k]]
    BY <1>2, <1>3 DEF Places
  <1>6. lr = d + l /\ \A i \in 1..l : r[d + i] = q[i]
    BY <1>3 DEF Follows
  <1>7. \A i \in 1..m : u[i] = a => i - e \in 1..n /\ s[i - e] = a
    BY <1>3 DEF Shifted
  <1>8. a \in S /\ a \in Range(q)
    <2>1. a \in Range(q) /\ Range(q) = Range(s) \cap S
      BY KeepRange
    <2>2. QED
      BY <2>1
  <1> DEFINE A == {k \in 1..l : q[k] = a}
             O == {j \in 1..lr : r[j] = a}
  <1>9. A # {}
    <2>1. DOMAIN q = 1..l
      BY <1>3
    <2>2. QED
      BY <1>8, <2>1 DEF Range
  <1>10. ASSUME NEW j \in O PROVE \E k \in A : f[k] + e = g[j]
    <2>1. PICK i \in 1..m : i = g[j] /\ u[i] = a
      <3>1. j \in 1..lr /\ r[j] = a
        OBVIOUS
      <3>2. g[j] \in 1..m /\ r[j] = u[g[j]]
        BY <1>5, <3>1
      <3>3. QED
        BY <3>1, <3>2
    <2>2. i - e \in 1..n /\ s[i - e] = a
      BY <1>7, <2>1
    <2>3. PICK k \in 1..l : f[k] = i - e
      BY <1>4, <1>8, <2>2
    <2>4. q[k] = a
      <3>1. q[k] = s[f[k]]
        BY <1>4
      <3>2. QED
        BY <2>2, <2>3, <3>1
    <2>5. f[k] + e = i
      BY <2>1, <2>2, <2>3
    <2>6. QED
      BY <2>1, <2>4, <2>5
  <1> DEFINE b == [j \in O |-> CHOOSE k \in A : f[k] + e = g[j]]
  <1>11. \A j \in O : b[j] \in A /\ f[b[j]] + e = g[j]
    BY <1>10
  <1>12. b \in [O -> A]
    BY <1>11
  <1>13. A \in SUBSET (1..l) /\ O \in SUBSET Nat /\ O \subseteq 1..lr
    OBVIOUS
  <1>14. \A k \in A : d + k \in O
    BY <1>6
  <1>15. \A j \in 1..d : r[j] = a => j \in O
    BY <1>6
  <1> HIDE DEF A, O, b
  <1>16. ASSUME NEW i \in O, NEW j \in O, i < j PROVE b[i] < b[j]
    <2>1. g[i] < g[j]
      BY <1>5, <1>13, <1>16 DEF Grows
    <2>2. PICK x, y \in 1..l : x = b[i] /\ y = b[j]
      BY <1>11, <1>13
    <2>3. f[x] < f[y]
      <3>1. PICK fx, fy \in 1..n : fx = f[x] /\ fy = f[y]
        BY <1>4
      <3>2. fx + e < fy + e
        BY <1>11, <2>1, <2>2, <3>1
      <3>3. QED
        BY <3>1, <3>2
    <2>4. ~(y < x) /\ x # y
      <3>1. PICK fx, fy \in 1..n : fx = f[x] /\ fy = f[y] /\ fx < fy
        BY <1>4, <2>3
      <3>2. y < x => f[y] < f[x]
        BY <1>4 DEF Grows
      <3>3. QED
        BY <3>1, <3>2
    <2>5. QED
      BY <2>2, <2>4
  <1>17. \A j \in O : ~(j <= d)
    BY <1>9, <1>12, <1>13, <1>14, <1>16, NoneBefore
  <1>18. QED
    BY <1>15, <1>17 DEF Without

\* A window that is away from the head moves with its anchor.
LEMMA WindowStays ==
  ASSUME NEW q \in Seq(Nat), NEW r \in Seq(Nat), NEW d \in Nat, Follows(q, r, d),
         NEW a \in Range(q), Without(r, d, a), NEW k \in Nat, k > 0, k = resolve(q, a, k)
  PROVE  Visible(r, resolve(r, a, k)) = Visible(q, k)
  <1>1. PICK l, lr, M, Mr, R \in Nat :
            /\ l = Len(q) /\ lr = Len(r) /\ M = maxK(q) /\ Mr = maxK(r) /\ R = RenderMax
    <2>1. RenderMax \in Nat /\ maxK(q) \in Nat /\ maxK(r) \in Nat
      BY MaxTyped
    <2>2. Len(q) \in Nat /\ Len(r) \in Nat
      OBVIOUS
    <2>3. QED
      BY <2>1, <2>2, Zenon
  <1>2. lr = d + l /\ \A i \in 1..l : r[d + i] = q[i]
    BY <1>1 DEF Follows
  <1>3. a # None
    BY DEF resolve, None
  <1>4. PICK p \in 1..l : /\ q[p] = a /\ \A i \in 1..l : q[i] = a => p <= i
                          /\ \A i : resolve(q, a, i) = Smaller(p - 1, M)
    BY <1>1, <1>3, FirstPlace
  <1>5. k = Smaller(p - 1, M)
    BY <1>4, Zenon
  <1>6. k <= M /\ M > 0
    BY <1>1, <1>4, <1>5 DEF Smaller
  <1>7. l > R /\ M = l - R /\ Mr = d + M
    <2>1. M = (IF l > R THEN l - R ELSE 0) /\ Mr = (IF lr > R THEN lr - R ELSE 0)
      BY <1>1 DEF maxK
    <2>2. QED
      BY <1>1, <1>2, <1>6, <2>1
  <1>8. a \in Range(r)
    <2>1. d + p \in 1..lr
      BY <1>2
    <2>2. r[d + p] = a
      BY <1>2, <1>4
    <2>3. DOMAIN r = 1..lr
      BY <1>1
    <2>4. QED
      BY <2>1, <2>2, <2>3 DEF Range
  <1>9. PICK s \in 1..lr : /\ r[s] = a /\ \A i \in 1..lr : r[i] = a => s <= i
                           /\ \A i : resolve(r, a, i) = Smaller(s - 1, Mr)
    BY <1>1, <1>3, <1>8, FirstPlace
  <1>10. s = d + p
    <2>1. s <= d + p
      <3>1. d + p \in 1..lr
        BY <1>2
      <3>2. r[d + p] = a
        BY <1>2, <1>4
      <3>3. QED
        BY <1>9, <3>1, <3>2
    <2>2. ~(s \in 1..d)
      BY <1>9 DEF Without
    <2>3. s - d \in 1..l
      BY <1>2, <2>2
    <2>4. PICK i \in 1..l : i = s - d /\ s = d + i
      BY <1>2, <2>3
    <2>5. q[i] = a
      <3>1. r[d + i] = q[i]
        BY <1>2
      <3>2. QED
        BY <1>9, <2>4, <3>1
    <2>6. p <= i
      BY <1>4, <2>5
    <2>7. QED
      BY <2>1, <2>4, <2>6
  <1>11. resolve(r, a, k) = d + k
    <2>1. resolve(r, a, k) = Smaller(s - 1, Mr)
      BY <1>9, Zenon
    <2>2. Smaller(s - 1, Mr) = d + Smaller(p - 1, M)
      BY <1>7, <1>10 DEF Smaller
    <2>3. QED
      BY <1>5, <2>1, <2>2
  <1>12. PICK e \in Nat : e = k + R /\ Smaller(l, k + R) = e /\ Smaller(lr, d + k + R) = d + e
    <2>1. k + R <= l /\ d + k + R <= lr /\ k + R \in Nat /\ d + k + R = d + (k + R)
      BY <1>1, <1>2, <1>6, <1>7
    <2>2. Smaller(l, k + R) = k + R /\ Smaller(lr, d + k + R) = d + (k + R)
      BY <2>1 DEF Smaller
    <2>3. QED
      BY <2>1, <2>2, Zenon
  <1>13. e <= l
    BY <1>1, <1>6, <1>7, <1>12
  <1> DEFINE x == SubSeq(r, d + k + 1, d + e)
             y == SubSeq(q, k + 1, e)
  <1>14. Visible(r, d + k) = x /\ Visible(q, k) = y
    BY <1>1, <1>12 DEF Visible
  <1>15. /\ y \in Seq(Nat) /\ Len(y) = IF k + 1 <= e THEN e - (k + 1) + 1 ELSE 0
         /\ \A i \in 1..(e - (k + 1) + 1) : y[i] = q[k + 1 + i - 1]
    <2>1. ASSUME NEW i \in (k + 1)..e PROVE q[i] \in Nat
      <3>1. i \in 1..l
        BY <1>13
      <3>2. \A j \in 1..l : q[j] \in Nat
        BY <1>1
      <3>3. QED
        BY <3>1, <3>2
    <2>2. k + 1 \in Int /\ e \in Int
      OBVIOUS
    <2>3. QED
      BY <2>1, <2>2, SubSeqProperties
  <1>16. /\ x \in Seq(Nat) /\ Len(x) = IF d + k + 1 <= d + e THEN d + e - (d + k + 1) + 1 ELSE 0
         /\ \A i \in 1..(d + e - (d + k + 1) + 1) : x[i] = r[d + k + 1 + i - 1]
    <2>1. ASSUME NEW i \in (d + k + 1)..(d + e) PROVE r[i] \in Nat
      <3>1. i \in 1..lr
        BY <1>2, <1>13
      <3>2. \A j \in 1..lr : r[j] \in Nat
        BY <1>1, ElementOfSeq
      <3>3. QED
        BY <3>1, <3>2
    <2>2. d + k + 1 \in Int /\ d + e \in Int
      OBVIOUS
    <2>3. QED
      BY <2>1, <2>2, SubSeqProperties
  <1> HIDE DEF x, y
  <1>17. Len(x) = R /\ Len(y) = R /\ e - (k + 1) + 1 = R /\ d + e - (d + k + 1) + 1 = R
    <2>1. R > 0
      BY <1>1, LogListAssumption
    <2>2. e - (k + 1) + 1 = R /\ d + e - (d + k + 1) + 1 = R /\ k + 1 <= e /\ d + k + 1 <= d + e
      BY <1>12, <2>1
    <2>3. QED
      BY <1>15, <1>16, <2>2
  <1>18. ASSUME NEW i \in 1..R PROVE x[i] = y[i]
    <2>1. x[i] = r[d + k + 1 + i - 1] /\ y[i] = q[k + 1 + i - 1]
      BY <1>15, <1>16, <1>17
    <2>2. PICK j \in 1..l : j = k + i
      BY <1>12, <1>13
    <2>3. k + 1 + i - 1 = j /\ d + k + 1 + i - 1 = d + j
      BY <2>2
    <2>4. QED
      BY <1>2, <2>1, <2>3
  <1>19. x = y
    BY <1>15, <1>16, <1>17, <1>18, SeqEqual
  <1>20. QED
    BY <1>11, <1>14, <1>19

\* What a delivery leaves of the rows of the window.
LEMMA StayNext ==
  ASSUME ListTyped, Settled, [Next]_vars, delivered' # delivered, lastK > 0,
         anchor \in Range(Items), IsSuffix(Items, NextItems),
         (delivered + 1)..delivered' \cap Range(Items) = {}
  PROVE  Visible(NextItems, lastK') = Visible(Items, lastK)
  <1>a. CASE Drop
    <2>1. UNCHANGED <<bufferVars, query, hits>> /\ lastK' = lastK
      BY <1>a DEF Drop, scopeVars, viewVars
    <2>2. NextItems = Items
      BY <2>1, SameItems
    <2>3. QED
      BY <2>1, <2>2
  <1>b. SUFFICES ASSUME ~Drop PROVE Visible(NextItems, lastK') = Visible(Items, lastK)
    BY <1>a
  <1>1. PICK n \in (delivered + 1)..committed : addLogs(n)
    <2>1. ASSUME NEW w \in Windows, NEW s, setScope(w, s) PROVE delivered' = delivered
      BY <2>1, ScopeShows
    <2>2. \A w \in Windows : revisit(w) => delivered' = delivered
      BY DEF revisit, Begin
    <2>3. ASSUME \/ UNCHANGED vars \/ Commit \/ \E cutoff : Sweep(cutoff)
                 \/ fetchPage \/ replaceLogPage \/ appendLogs
                 \/ pageFails \/ loadMoreSlides \/ loadMoreFetches \/ backToLatest
          PROVE  delivered' = delivered
      BY <2>3 DEF vars, Commit, Sweep, fetchPage, replaceLogPage, appendLogs, pageFails, loadMoreSlides,
             loadMoreFetches, backToLatest
    <2>4. QED
      BY <1>b, <2>1, <2>2, <2>3, Actions, Zenon
  <1>2. PICK q, r \in Seq(Nat) : q = Items /\ r = NextItems
    BY ItemsTyped
  <1>3. PICK k \in Nat : k = lastK /\ k > 0 /\ k = resolve(q, anchor, k)
    BY <1>2 DEF Settled
  <1>4. PICK d \in Nat : Follows(q, r, d)
    BY <1>2, SuffixRows
  <1>5. /\ delivered' = n /\ Show(r, anchor, k)
        /\ \A i \in 1..Len(logs') :
              IF i <= n - delivered THEN logs'[i] \in (delivered + 1)..n
              ELSE i - (n - delivered) \in 1..Len(logs) /\ logs'[i] = logs[i - (n - delivered)]
    BY <1>1, <1>2, <1>3, AddShows
  <1>6. PICK s, u \in Seq(Nat) : s = logs /\ u = logs'
    BY TypedNext DEF ListTyped, BufferTyped
  <1>7. PICK S, V : q = Keep(s, S) /\ r = Keep(u, V)
    BY <1>2, <1>6, KeptItems
  <1>8. PICK a \in Range(q) : a = anchor
    BY <1>2
  <1>9. PICK e \in Nat : e = n - delivered
    BY DEF ListTyped, BufferTyped
  <1>10. a \notin (delivered + 1)..n
    BY <1>2, <1>5, <1>8
  <1>11. Shifted(s, u, e, a)
    <2>1. ASSUME NEW i \in 1..Len(u), u[i] = a PROVE i - e \in 1..Len(s) /\ u[i] = s[i - e]
      BY <1>5, <1>6, <1>9, <1>10, <2>1
    <2>2. QED
      BY <2>1 DEF Shifted
  <1>12. Without(r, d, a)
    BY <1>4, <1>7, <1>11, AnchorStays
  <1>13. k = resolve(q, a, k) /\ lastK' = resolve(r, a, k)
    BY <1>3, <1>5, <1>8 DEF Show
  <1>14. Visible(r, resolve(r, a, k)) = Visible(q, k)
    BY <1>3, <1>4, <1>12, <1>13, WindowStays
  <1>15. QED
    BY <1>2, <1>3, <1>13, <1>14

\* useRenderWindow's anchor: a delivery leaves the rows of a window that was
\* moved away from the head as they are, whatever else the list has gone
\* through.
THEOREM WindowKeepsItsRows == Spec => RowsStayPut
  <1>1. ListTyped /\ Settled /\ [Next]_vars
          => [delivered' # delivered /\ lastK > 0
                => LET before == Items
                       items == NextItems
                   IN  anchor \in Range(before) /\ IsSuffix(before, items)
                           /\ (delivered + 1)..delivered' \cap Range(before) = {}
                         => Visible(items, lastK') = Visible(before, lastK)]_vars
    BY StayNext
  <1>2. QED
    BY <1>1, ListSettled, PTL DEF Spec, RowsStayPut
====
