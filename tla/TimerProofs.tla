---------------------------- MODULE TimerProofs ----------------------------
(***************************************************************************)
(* Proofs about the timers, for any number of timers, any delays and any   *)
(* number of ticks: as long as no one-shot timer is deleted once it has    *)
(* fired (timer_expired shows what happens otherwise), the linked list is  *)
(* what it looks like, the sequence of the armed timers in the order of    *)
(* their times, and implements the alarms of AlarmClock.                   *)
(*                                                                         *)
(* The model follows the links as the code does, by a recursive function.  *)
(* The proofs describe a list by the function f that names its timers; the *)
(* lemmas of the first part relate the two by induction, the next ones     *)
(* say what an insertion and an unlinking make of such a list.             *)
(***************************************************************************)
EXTENDS Timer, NaturalLemmas, FiniteSetTheorems

-----------------------------------------------------------------------------
Record == [estimated_count : Nat, interval_count : Nat,
           previous : Address \cup {NULL}, next : Address \cup {NULL}]

Memory == [Address -> Record]

(* f names the n timers of the list with head h in memory m, in order.     *)
Lists(m, h, n, f) ==
  /\ n \in Nat /\ f \in [1 .. n -> Address]
  /\ h = IF n = 0 THEN NULL ELSE f[1]
  /\ \A i \in 1 .. n : m[f[i]].next = IF i = n THEN NULL ELSE f[i + 1]
  /\ \A i \in 2 .. n : m[f[i]].previous = f[i - 1]
  /\ \A i, j \in 1 .. n : i < j => f[i] # f[j]
  /\ \A i, j \in 1 .. n : i <= j => m[f[i]].estimated_count <= m[f[j]].estimated_count

Named(n, f) == {f[i] : i \in 1 .. n}

(* A list names no timer twice, so it is not longer than there are        *)
(* addresses: the bound of the search in Stops and PreviousTimer is       *)
(* enough.                                                                *)
LEMMA ListShort ==
  ASSUME TimerAssumption, NEW m, NEW h, NEW n, NEW f, Lists(m, h, n, f)
  PROVE  Cardinality(Address) \in Nat /\ n <= Cardinality(Address)
<1>1. IsFiniteSet(Address) /\ n \in Nat
  BY DEF TimerAssumption, Lists
<1>2. f \in Injection(1 .. n, Address)
  BY DEF Lists, Injection, IsInjective
<1>3. Cardinality(1 .. n) <= Cardinality(Address)
  BY <1>1, <1>2, FS_Injection, Zenon
<1>4. Cardinality(1 .. n) = n
  BY <1>1, FS_Interval
<1>5. QED
  BY <1>1, <1>3, <1>4, FS_CardinalityType

(* Following k links of next from the head meets the timer number k + 1,  *)
(* and NULL behind the last one.                                          *)
LEMMA NodeListed ==
  ASSUME TimerAssumption, NEW m, NEW h, NEW n, NEW f, Lists(m, h, n, f), NEW k \in Nat
  PROVE  Node(m, h, k) = IF k < n THEN f[k + 1] ELSE NULL
<1> DEFINE Steps(node) == [i \in Nat |-> IF i = 0 THEN h
                                         ELSE IF node[i - 1] = NULL THEN NULL
                                         ELSE m[node[i - 1]].next]
           named == [i \in Nat |-> IF i < n THEN f[i + 1] ELSE NULL]
           node == CHOOSE nd : nd = Steps(nd)
<1>1. NULL \notin Address /\ n \in Nat /\ f \in [1 .. n -> Address]
  BY DEF TimerAssumption, Lists
<1>2. named = Steps(named)
  <2> SUFFICES ASSUME NEW i \in Nat
               PROVE  named[i] = Steps(named)[i]
    OBVIOUS
  <2>1. CASE i = 0
    BY <2>1, <1>1 DEF Lists
  <2>2. CASE i # 0 /\ i - 1 < n
    <3>1. i - 1 \in Nat /\ i \in 1 .. n /\ named[i - 1] = f[i]
      BY <2>2, <1>1
    <3>2. f[i] # NULL
      BY <3>1, <1>1
    <3>3. m[f[i]].next = IF i = n THEN NULL ELSE f[i + 1]
      BY <3>1 DEF Lists
    <3>4. QED
      BY <2>2, <3>1, <3>2, <3>3, <1>1
  <2>3. CASE i # 0 /\ ~(i - 1 < n)
    BY <2>3, <1>1
  <2>4. QED
    BY <2>1, <2>2, <2>3
<1>3. node = Steps(node)
  BY <1>2
<1>4. Node(m, h, k) = node[k]
  BY DEF Node
<1> DEFINE Agree == {i \in Nat : node[i] = named[i]}
<1> HIDE DEF node
<1>5. 0 \in Agree
  <2>1. Steps(node)[0] = h /\ Steps(named)[0] = h
    OBVIOUS
  <2>2. QED
    BY <2>1, <1>2, <1>3
<1>6. \A i \in Nat : i \in Agree => i + 1 \in Agree
  <2> SUFFICES ASSUME NEW i \in Nat, node[i] = named[i]
               PROVE  node[i + 1] = named[i + 1]
    OBVIOUS
  <2> HIDE DEF named
  <2>1. /\ Steps(node)[i + 1] = IF node[i] = NULL THEN NULL ELSE m[node[i]].next
        /\ Steps(named)[i + 1] = IF named[i] = NULL THEN NULL ELSE m[named[i]].next
    OBVIOUS
  <2>2. QED
    BY <2>1, <1>2, <1>3
<1> HIDE DEF Agree
<1>7. k \in Agree
  BY <1>5, <1>6, InductionBySet
<1>8. QED
  BY <1>7, <1>4 DEF Agree

(* Where the loop that looks for the timer in front stops.                 *)
Follows(m, n, f, k, count) ==
  /\ k \in 1 .. n
  /\ k < n => count < m[f[k + 1]].estimated_count
  /\ k > 1 => m[f[k]].estimated_count <= count

(* On a list that is not empty, the loop of create_timer() and            *)
(* timers_tick() stops, at the timer that belongs in front of the time    *)
(* count.                                                                 *)
LEMMA PreviousListed ==
  ASSUME TimerAssumption, NEW m \in Memory, NEW h, NEW n, NEW f, Lists(m, h, n, f),
         n > 0, NEW count \in Nat
  PROVE  /\ Stops(m, h, count)
         /\ \E k \in 1 .. n : /\ PreviousTimer(m, h, count) = f[k]
                              /\ Follows(m, n, f, k, count)
<1> DEFINE c == Cardinality(Address)
           Last(i) == StopsAt(m, Node(m, h, i), count)
           S == {i \in 0 .. c : Last(i)}
<1>1. /\ NULL \notin Address /\ n \in Nat /\ f \in [1 .. n -> Address]
      /\ c \in Nat /\ n <= c
  BY ListShort DEF TimerAssumption, Lists
<1> HIDE DEF c
<1>2. \A i \in Nat : i < n => /\ Last(i) <=> (i + 1 = n \/ count < m[f[i + 2]].estimated_count)
                              /\ Node(m, h, i) = f[i + 1]
  <2> SUFFICES ASSUME NEW i \in Nat, i < n
               PROVE  /\ Last(i) <=> (i + 1 = n \/ count < m[f[i + 2]].estimated_count)
                      /\ Node(m, h, i) = f[i + 1]
    OBVIOUS
  <2>1. Node(m, h, i) = f[i + 1]
    BY NodeListed
  <2>2. i + 1 \in 1 .. n /\ (i + 1) + 1 = i + 2
    BY <1>1
  <2>3. m[f[i + 1]].next = IF i + 1 = n THEN NULL ELSE f[i + 2]
    BY <2>2 DEF Lists
  <2>4. f[i + 1] # NULL /\ (i + 1 # n => f[i + 2] # NULL)
    BY <1>1
  <2>5. QED
    BY <2>1, <2>3, <2>4 DEF StopsAt
<1>3. \A i \in Nat : ~(i < n) => ~Last(i)
  BY NodeListed, <1>1 DEF StopsAt
<1>4. n - 1 \in S
  BY <1>1, <1>2
<1>5. PICK q \in S : \A i \in S : q <= i
  <2>1. S \subseteq Nat /\ S # {}
    BY <1>4, <1>1
  <2>2. QED
    BY <2>1, LeastNatural
<1>6. \E i \in 0 .. c : /\ Last(i)
                        /\ \A j \in 0 .. i - 1 : ~Last(j)
  BY <1>5, <1>1
<1> DEFINE k == CHOOSE i \in 0 .. c : /\ Last(i)
                                      /\ \A j \in 0 .. i - 1 : ~Last(j)
<1>7. k \in 0 .. c /\ Last(k) /\ \A j \in 0 .. k - 1 : ~Last(j)
  BY <1>6
<1>8. PreviousTimer(m, h, count) = Node(m, h, k)
  BY DEF PreviousTimer, c
<1> HIDE DEF k
<1>9. k < n /\ k \in Nat
  BY <1>1, <1>3, <1>7
<1>10. PreviousTimer(m, h, count) = f[k + 1]
  BY <1>2, <1>8, <1>9
<1>11. k + 1 < n => count < m[f[(k + 1) + 1]].estimated_count
  BY <1>1, <1>2, <1>7, <1>9
<1>12. k + 1 > 1 => m[f[k + 1]].estimated_count <= count
  <2> SUFFICES ASSUME k # 0
               PROVE  m[f[k + 1]].estimated_count <= count
    BY <1>9
  <2>1. k - 1 \in 0 .. k - 1 /\ k - 1 < n /\ (k - 1) + 2 = k + 1 /\ (k - 1) + 1 # n
    BY <1>1, <1>9
  <2>2. ~Last(k - 1)
    BY <2>1, <1>7
  <2>3. ~(count < m[f[k + 1]].estimated_count)
    BY <2>1, <2>2, <1>2
  <2>4. f[k + 1] \in Address
    BY <1>1, <1>9
  <2>5. QED
    BY <2>3, <2>4 DEF Memory, Record
<1>13. Stops(m, h, count)
  BY <1>7 DEF Stops, c
<1>14. Follows(m, n, f, k + 1, count) /\ k + 1 \in 1 .. n
  BY <1>9, <1>11, <1>12, <1>1 DEF Follows
<1>15. QED
  BY <1>10, <1>13, <1>14
-----------------------------------------------------------------------------
(* The names of a list into which t comes behind the first k of n timers.  *)
Extended(n, f, t, k) ==
  [i \in 1 .. n + 1 |-> IF i <= k THEN f[i] ELSE IF i = k + 1 THEN t ELSE f[i - 1]]

(* The names of the extended list are those of the list and t.            *)
LEMMA ExtendedNames ==
  ASSUME NEW n \in Nat, NEW f, NEW t, NEW k \in 0 .. n
  PROVE  Named(n + 1, Extended(n, f, t, k)) = Named(n, f) \cup {t}
<1> DEFINE g == [i \in 1 .. n + 1 |-> IF i <= k THEN f[i]
                                      ELSE IF i = k + 1 THEN t ELSE f[i - 1]]
<1>1. \A i \in 1 .. n + 1 : g[i] = t \/ g[i] \in Named(n, f)
  <2> SUFFICES ASSUME NEW i \in 1 .. n + 1
               PROVE  g[i] = t \/ g[i] \in Named(n, f)
    OBVIOUS
  <2>1. CASE i <= k
    BY <2>1 DEF Named
  <2>2. CASE i = k + 1
    BY <2>2
  <2>3. CASE i > k + 1
    <3>1. i - 1 \in 1 .. n /\ g[i] = f[i - 1]
      BY <2>3
    <3>2. QED
      BY <3>1 DEF Named
  <2>4. QED
    BY <2>1, <2>2, <2>3
<1>2. g[k + 1] = t /\ k + 1 \in 1 .. n + 1
  OBVIOUS
<1>3. \A i \in 1 .. n : \E j \in 1 .. n + 1 : g[j] = f[i]
  <2> SUFFICES ASSUME NEW i \in 1 .. n
               PROVE  \E j \in 1 .. n + 1 : g[j] = f[i]
    OBVIOUS
  <2>1. CASE i <= k
    <3>1. g[i] = f[i] /\ i \in 1 .. n + 1
      BY <2>1
    <3>2. QED
      BY <3>1
  <2>2. CASE i > k
    <3>1. g[i + 1] = f[i] /\ i + 1 \in 1 .. n + 1
      BY <2>2
    <3>2. QED
      BY <3>1
  <2>3. QED
    BY <2>1, <2>2
<1> HIDE DEF g
<1>4. Named(n + 1, g) = Named(n, f) \cup {t}
  BY <1>1, <1>2, <1>3 DEF Named
<1>5. QED
  BY <1>4 DEF g, Extended

(* Timer t stands behind the first k timers of the list of f, whose other  *)
(* links and times are those of memory m.                                  *)
Spliced(m, mm, n, f, t, k) ==
  /\ k \in 0 .. n /\ t \in Address \ Named(n, f)
  /\ mm[t].next = IF k = n THEN NULL ELSE f[k + 1]
  /\ k > 0 => mm[t].previous = f[k] /\ mm[f[k]].next = t
  /\ k < n => mm[f[k + 1]].previous = t
  /\ \A i \in 1 .. n : i # k => mm[f[i]].next = m[f[i]].next
  /\ \A i \in 2 .. n : i # k + 1 => mm[f[i]].previous = m[f[i]].previous
  /\ \A i \in 1 .. n : mm[f[i]].estimated_count = m[f[i]].estimated_count
  /\ \A i \in 1 .. k : mm[f[i]].estimated_count <= mm[t].estimated_count
  /\ \A i \in k + 1 .. n : mm[t].estimated_count <= mm[f[i]].estimated_count

(* A memory in which t is spliced in at the place of its time holds the   *)
(* extended list.                                                         *)
LEMMA SpliceLists ==
  ASSUME NEW m, NEW mm \in Memory, NEW h, NEW n, NEW f, NEW t, NEW k,
         Lists(m, h, n, f), Spliced(m, mm, n, f, t, k)
  PROVE  \E g : /\ Lists(mm, IF k = 0 THEN t ELSE h, n + 1, g)
                /\ Named(n + 1, g) = Named(n, f) \cup {t}
<1> DEFINE g == Extended(n, f, t, k)
           hh == IF k = 0 THEN t ELSE h
<1>1. /\ n \in Nat /\ k \in 0 .. n /\ f \in [1 .. n -> Address]
      /\ t \in Address /\ \A i \in 1 .. n : f[i] # t
  BY DEF Lists, Spliced, Named
<1>2. Named(n + 1, g) = Named(n, f) \cup {t}
  BY <1>1, ExtendedNames
<1>3. g \in [1 .. n + 1 -> Address]
  <2> SUFFICES ASSUME NEW i \in 1 .. n + 1
               PROVE  g[i] \in Address
    BY DEF Extended
  <2>1. CASE i <= k
    BY <2>1, <1>1 DEF Extended
  <2>2. CASE i = k + 1
    BY <2>2, <1>1 DEF Extended
  <2>3. CASE i > k + 1
    BY <2>3, <1>1 DEF Extended
  <2>4. QED
    BY <1>1, <2>1, <2>2, <2>3
<1>4. /\ \A i \in 1 .. k : g[i] = f[i]
      /\ g[k + 1] = t
      /\ \A i \in k + 2 .. n + 1 : g[i] = f[i - 1]
  BY <1>1 DEF Extended
<1>5. hh = IF n + 1 = 0 THEN NULL ELSE g[1]
  BY <1>1, <1>4 DEF Lists
<1> HIDE DEF g
<1>6. \A i \in 1 .. n + 1 : mm[g[i]].next = IF i = n + 1 THEN NULL ELSE g[i + 1]
  <2> SUFFICES ASSUME NEW i \in 1 .. n + 1
               PROVE  mm[g[i]].next = IF i = n + 1 THEN NULL ELSE g[i + 1]
    OBVIOUS
  <2>1. CASE i < k
    <3>1. g[i] = f[i] /\ g[i + 1] = f[i + 1] /\ i \in 1 .. n /\ i # n /\ i # n + 1 /\ i # k
      BY <2>1, <1>1, <1>4
    <3>2. mm[f[i]].next = m[f[i]].next /\ m[f[i]].next = f[i + 1]
      BY <3>1 DEF Lists, Spliced
    <3>3. QED
      BY <3>1, <3>2
  <2>2. CASE i = k
    <3>1. g[i] = f[k] /\ g[i + 1] = t /\ k > 0 /\ i # n + 1
      BY <2>2, <1>1, <1>4
    <3>2. QED
      BY <3>1 DEF Spliced
  <2>3. CASE i = k + 1
    <3>1. g[i] = t /\ (k # n => g[i + 1] = f[k + 1]) /\ (k = n <=> i = n + 1)
      BY <2>3, <1>1, <1>4
    <3>2. QED
      BY <3>1 DEF Spliced
  <2>4. CASE i > k + 1
    <3>1. /\ g[i] = f[i - 1] /\ i - 1 \in 1 .. n /\ i - 1 # k
          /\ i # n + 1 => g[i + 1] = f[(i - 1) + 1]
          /\ i = n + 1 <=> i - 1 = n
      BY <2>4, <1>1, <1>4
    <3>2. /\ mm[f[i - 1]].next = m[f[i - 1]].next
          /\ m[f[i - 1]].next = IF i - 1 = n THEN NULL ELSE f[(i - 1) + 1]
      BY <3>1 DEF Lists, Spliced
    <3>3. QED
      BY <3>1, <3>2
  <2>5. QED
    BY <1>1, <2>1, <2>2, <2>3, <2>4
<1>7. \A i \in 2 .. n + 1 : mm[g[i]].previous = g[i - 1]
  <2> SUFFICES ASSUME NEW i \in 2 .. n + 1
               PROVE  mm[g[i]].previous = g[i - 1]
    OBVIOUS
  <2>1. CASE i <= k
    <3>1. g[i] = f[i] /\ g[i - 1] = f[i - 1] /\ i \in 2 .. n /\ i # k + 1
      BY <2>1, <1>1, <1>4
    <3>2. mm[f[i]].previous = m[f[i]].previous /\ m[f[i]].previous = f[i - 1]
      BY <3>1 DEF Lists, Spliced
    <3>3. QED
      BY <3>1, <3>2
  <2>2. CASE i = k + 1
    <3>1. g[i] = t /\ g[i - 1] = f[k] /\ k > 0
      BY <2>2, <1>1, <1>4
    <3>2. QED
      BY <3>1 DEF Spliced
  <2>3. CASE i = k + 2
    <3>1. g[i] = f[k + 1] /\ g[i - 1] = t /\ k < n
      BY <2>3, <1>1, <1>4
    <3>2. QED
      BY <3>1 DEF Spliced
  <2>4. CASE i > k + 2
    <3>1. /\ g[i] = f[i - 1] /\ i - 1 \in 2 .. n /\ i - 1 # k + 1
          /\ g[i - 1] = f[(i - 1) - 1]
      BY <2>4, <1>1, <1>4
    <3>2. /\ mm[f[i - 1]].previous = m[f[i - 1]].previous
          /\ m[f[i - 1]].previous = f[(i - 1) - 1]
      BY <3>1 DEF Lists, Spliced
    <3>3. QED
      BY <3>1, <3>2
  <2>5. QED
    BY <1>1, <2>1, <2>2, <2>3, <2>4
<1>8. \A i, j \in 1 .. n + 1 : i < j => g[i] # g[j]
  <2> SUFFICES ASSUME NEW i \in 1 .. n + 1, NEW j \in 1 .. n + 1, i < j
               PROVE  g[i] # g[j]
    OBVIOUS
  <2>1. \A x, y \in 1 .. n : x < y => f[x] # f[y]
    BY DEF Lists
  <2>2. CASE i <= k /\ j <= k
    BY <2>1, <2>2, <1>1, <1>4
  <2>3. CASE i <= k /\ j = k + 1
    BY <2>3, <1>1, <1>4
  <2>4. CASE i <= k /\ j > k + 1
    <3>1. g[i] = f[i] /\ g[j] = f[j - 1] /\ i < j - 1 /\ i \in 1 .. n /\ j - 1 \in 1 .. n
      BY <2>4, <1>1, <1>4
    <3>2. QED
      BY <3>1, <2>1
  <2>5. CASE i = k + 1
    <3>1. g[i] = t /\ g[j] = f[j - 1] /\ j - 1 \in 1 .. n
      BY <2>5, <1>1, <1>4
    <3>2. QED
      BY <3>1, <1>1
  <2>6. CASE i > k + 1
    <3>1. g[i] = f[i - 1] /\ g[j] = f[j - 1] /\ i - 1 < j - 1 /\ i - 1 \in 1 .. n /\ j - 1 \in 1 .. n
      BY <2>6, <1>1, <1>4
    <3>2. QED
      BY <3>1, <2>1
  <2>7. QED
    BY <1>1, <2>2, <2>3, <2>4, <2>5, <2>6
<1>9. \A i, j \in 1 .. n + 1 : i <= j => mm[g[i]].estimated_count <= mm[g[j]].estimated_count
  <2> SUFFICES ASSUME NEW i \in 1 .. n + 1, NEW j \in 1 .. n + 1, i <= j
               PROVE  mm[g[i]].estimated_count <= mm[g[j]].estimated_count
    OBVIOUS
  <2>1. \A x, y \in 1 .. n : x <= y => mm[f[x]].estimated_count <= mm[f[y]].estimated_count
    BY DEF Lists, Spliced
  <2>2. CASE i = j
    BY <2>2, <1>3 DEF Memory, Record
  <2>3. CASE i < j /\ j <= k
    BY <2>1, <2>3, <1>1, <1>4
  <2>4. CASE i <= k /\ j = k + 1
    BY <2>4, <1>1, <1>4 DEF Spliced
  <2>5. CASE i <= k /\ j > k + 1
    <3>1. g[i] = f[i] /\ g[j] = f[j - 1] /\ i <= j - 1 /\ i \in 1 .. n /\ j - 1 \in 1 .. n
      BY <2>5, <1>1, <1>4
    <3>2. QED
      BY <3>1, <2>1
  <2>6. CASE i = k + 1 /\ j > i
    <3>1. g[i] = t /\ g[j] = f[j - 1] /\ j - 1 \in k + 1 .. n
      BY <2>6, <1>1, <1>4
    <3>2. QED
      BY <3>1 DEF Spliced
  <2>7. CASE i > k + 1
    <3>1. g[i] = f[i - 1] /\ g[j] = f[j - 1] /\ i - 1 <= j - 1 /\ i - 1 \in 1 .. n /\ j - 1 \in 1 .. n
      BY <2>7, <1>1, <1>4
    <3>2. QED
      BY <3>1, <2>1
  <2>8. QED
    BY <1>1, <2>2, <2>3, <2>4, <2>5, <2>6, <2>7
<1>10. n + 1 \in Nat
  BY <1>1
<1>11. Lists(mm, hh, n + 1, g)
  BY <1>3, <1>5, <1>6, <1>7, <1>8, <1>9, <1>10 DEF Lists
<1>12. QED
  BY <1>2, <1>11
-----------------------------------------------------------------------------
(* The names of a list without the k-th of its n timers.                   *)
Shortened(n, f, k) == [i \in 1 .. n - 1 |-> IF i < k THEN f[i] ELSE f[i + 1]]

(* The neighbours of the k-th timer know of each other.                    *)
Bridged(m, mm, n, f, k) ==
  /\ k \in 1 .. n
  /\ k > 1 => mm[f[k - 1]].next = m[f[k]].next
  /\ k > 1 /\ k < n => mm[f[k + 1]].previous = f[k - 1]
  /\ \A i \in 1 .. n : i # k /\ i + 1 # k => mm[f[i]].next = m[f[i]].next
  /\ \A i \in 2 .. n : i # k /\ i # k + 1 => mm[f[i]].previous = m[f[i]].previous
  /\ \A i \in 1 .. n : i # k => mm[f[i]].estimated_count = m[f[i]].estimated_count

(* A memory in which the k-th timer is bridged over holds the list        *)
(* without it.                                                            *)
LEMMA BridgeLists ==
  ASSUME NEW m, NEW mm, NEW h, NEW n, NEW f, NEW k,
         Lists(m, h, n, f), Bridged(m, mm, n, f, k)
  PROVE  \E g : /\ Lists(mm, IF k = 1 THEN m[f[1]].next ELSE h, n - 1, g)
                /\ Named(n - 1, g) = Named(n, f) \ {f[k]}
<1> DEFINE g == Shortened(n, f, k)
           hh == IF k = 1 THEN m[f[1]].next ELSE h
<1>1. n \in Nat /\ k \in 1 .. n /\ n - 1 \in Nat /\ f \in [1 .. n -> Address]
  BY DEF Lists, Bridged
<1>2. /\ \A i \in 1 .. n - 1 : i < k => g[i] = f[i]
      /\ \A i \in 1 .. n - 1 : ~(i < k) => g[i] = f[i + 1]
      /\ g \in [1 .. n - 1 -> Address]
  BY <1>1 DEF Shortened
<1> HIDE DEF g
<1>3. Named(n - 1, g) = Named(n, f) \ {f[k]}
  <2>1. ASSUME NEW i \in 1 .. n - 1
        PROVE  g[i] \in Named(n, f) \ {f[k]}
    <3>1. CASE i < k
      <4>1. g[i] = f[i] /\ i \in 1 .. n /\ f[i] # f[k]
        BY <3>1, <1>1, <1>2 DEF Lists
      <4>2. QED
        BY <4>1 DEF Named
    <3>2. CASE ~(i < k)
      <4>1. g[i] = f[i + 1] /\ i + 1 \in 1 .. n /\ f[i + 1] # f[k]
        BY <3>2, <1>1, <1>2 DEF Lists
      <4>2. QED
        BY <4>1 DEF Named
    <3>3. QED
      BY <3>1, <3>2
  <2>2. ASSUME NEW i \in 1 .. n, f[i] # f[k]
        PROVE  \E j \in 1 .. n - 1 : g[j] = f[i]
    <3>1. CASE i < k
      <4>1. i \in 1 .. n - 1 /\ g[i] = f[i]
        BY <3>1, <1>1, <1>2
      <4>2. QED
        BY <4>1
    <3>2. CASE ~(i < k)
      <4>1. i - 1 \in 1 .. n - 1 /\ ~(i - 1 < k) /\ (i - 1) + 1 = i
        BY <3>2, <2>2, <1>1
      <4>2. g[i - 1] = f[i]
        BY <4>1, <1>2
      <4>3. QED
        BY <4>1, <4>2
    <3>3. QED
      BY <3>1, <3>2
  <2>3. QED
    BY <2>1, <2>2 DEF Named
<1>4. hh = IF n - 1 = 0 THEN NULL ELSE g[1]
  <2>1. h = f[1] /\ m[f[1]].next = IF 1 = n THEN NULL ELSE f[2]
    BY <1>1 DEF Lists
  <2>2. QED
    BY <2>1, <1>1, <1>2
<1>5. \A i \in 1 .. n - 1 : mm[g[i]].next = IF i = n - 1 THEN NULL ELSE g[i + 1]
  <2> SUFFICES ASSUME NEW i \in 1 .. n - 1
               PROVE  mm[g[i]].next = IF i = n - 1 THEN NULL ELSE g[i + 1]
    OBVIOUS
  <2>1. CASE i + 1 < k
    <3>1. g[i] = f[i] /\ g[i + 1] = f[i + 1] /\ i \in 1 .. n /\ i # n - 1 /\ i # n
      BY <2>1, <1>1, <1>2
    <3>2. mm[f[i]].next = m[f[i]].next /\ m[f[i]].next = f[i + 1]
      BY <3>1, <2>1, <1>1 DEF Lists, Bridged
    <3>3. QED
      BY <3>1, <3>2
  <2>2. CASE i + 1 = k
    <3>1. g[i] = f[k - 1] /\ (i # n - 1 => g[i + 1] = f[k + 1]) /\ k > 1 /\ (i = n - 1 <=> k = n)
      BY <2>2, <1>1, <1>2
    <3>2. m[f[k]].next = IF k = n THEN NULL ELSE f[k + 1]
      BY <1>1 DEF Lists
    <3>3. mm[f[k - 1]].next = m[f[k]].next
      BY <3>1 DEF Bridged
    <3>4. QED
      BY <3>1, <3>2, <3>3
  <2>3. CASE i + 1 > k
    <3>1. /\ g[i] = f[i + 1] /\ i + 1 \in 1 .. n /\ i + 1 # k /\ (i + 1) + 1 # k
          /\ i # n - 1 => g[i + 1] = f[(i + 1) + 1]
          /\ i = n - 1 <=> i + 1 = n
      BY <2>3, <1>1, <1>2
    <3>2. /\ mm[f[i + 1]].next = m[f[i + 1]].next
          /\ m[f[i + 1]].next = IF i + 1 = n THEN NULL ELSE f[(i + 1) + 1]
      BY <3>1 DEF Lists, Bridged
    <3>3. QED
      BY <3>1, <3>2
  <2>4. QED
    BY <1>1, <2>1, <2>2, <2>3
<1>6. \A i \in 2 .. n - 1 : mm[g[i]].previous = g[i - 1]
  <2> SUFFICES ASSUME NEW i \in 2 .. n - 1
               PROVE  mm[g[i]].previous = g[i - 1]
    OBVIOUS
  <2>1. CASE i < k
    <3>1. g[i] = f[i] /\ g[i - 1] = f[i - 1] /\ i \in 2 .. n
      BY <2>1, <1>1, <1>2
    <3>2. mm[f[i]].previous = m[f[i]].previous /\ m[f[i]].previous = f[i - 1]
      BY <3>1, <2>1, <1>1 DEF Lists, Bridged
    <3>3. QED
      BY <3>1, <3>2
  <2>2. CASE i = k
    <3>1. g[i] = f[k + 1] /\ g[i - 1] = f[k - 1] /\ k > 1 /\ k < n
      BY <2>2, <1>1, <1>2
    <3>2. QED
      BY <3>1 DEF Bridged
  <2>3. CASE i > k
    <3>1. /\ g[i] = f[i + 1] /\ i + 1 \in 2 .. n /\ i + 1 # k /\ i + 1 # k + 1
          /\ g[i - 1] = f[(i + 1) - 1]
      BY <2>3, <1>1, <1>2
    <3>2. /\ mm[f[i + 1]].previous = m[f[i + 1]].previous
          /\ m[f[i + 1]].previous = f[(i + 1) - 1]
      BY <3>1 DEF Lists, Bridged
    <3>3. QED
      BY <3>1, <3>2
  <2>4. QED
    BY <1>1, <2>1, <2>2, <2>3
<1>7. \A i \in 1 .. n - 1 : \E x \in 1 .. n : /\ g[i] = f[x] /\ x # k
                                             /\ x = IF i < k THEN i ELSE i + 1
  BY <1>1, <1>2
<1>8. \A i, j \in 1 .. n - 1 : i < j => g[i] # g[j]
  <2> SUFFICES ASSUME NEW i \in 1 .. n - 1, NEW j \in 1 .. n - 1, i < j
               PROVE  g[i] # g[j]
    OBVIOUS
  <2>1. PICK x \in 1 .. n : g[i] = f[x] /\ x = IF i < k THEN i ELSE i + 1
    BY <1>7
  <2>2. PICK y \in 1 .. n : g[j] = f[y] /\ y = IF j < k THEN j ELSE j + 1
    BY <1>7
  <2>3. x < y
    BY <2>1, <2>2, <1>1
  <2>4. QED
    BY <2>1, <2>2, <2>3 DEF Lists
<1>9. \A i, j \in 1 .. n - 1 : i <= j => mm[g[i]].estimated_count <= mm[g[j]].estimated_count
  <2> SUFFICES ASSUME NEW i \in 1 .. n - 1, NEW j \in 1 .. n - 1, i <= j
               PROVE  mm[g[i]].estimated_count <= mm[g[j]].estimated_count
    OBVIOUS
  <2>1. PICK x \in 1 .. n : g[i] = f[x] /\ x # k /\ x = IF i < k THEN i ELSE i + 1
    BY <1>7
  <2>2. PICK y \in 1 .. n : g[j] = f[y] /\ y # k /\ y = IF j < k THEN j ELSE j + 1
    BY <1>7
  <2>3. x <= y
    BY <2>1, <2>2, <1>1
  <2>4. /\ mm[f[x]].estimated_count = m[f[x]].estimated_count
        /\ mm[f[y]].estimated_count = m[f[y]].estimated_count
        /\ m[f[x]].estimated_count <= m[f[y]].estimated_count
    BY <2>1, <2>2, <2>3 DEF Lists, Bridged
  <2>5. QED
    BY <2>1, <2>2, <2>4
<1>10. Lists(mm, hh, n - 1, g)
  BY <1>1, <1>2, <1>4, <1>5, <1>6, <1>8, <1>9 DEF Lists
<1>11. QED
  BY <1>3, <1>10
-----------------------------------------------------------------------------
(* What the writes of Unlink and Insert leave in each field.               *)
LEMMA UnlinkWrites ==
  ASSUME TimerAssumption, NEW m \in Memory, NEW t \in Address,
         m[t].previous # t, m[t].next # t
  PROVE  /\ Unlink(m, t) \in Memory
         /\ \A a \in Address :
              /\ Unlink(m, t)[a].estimated_count = m[a].estimated_count
              /\ Unlink(m, t)[a].interval_count = m[a].interval_count
              /\ Unlink(m, t)[a].next = IF a = m[t].previous THEN m[t].next ELSE m[a].next
              /\ Unlink(m, t)[a].previous = IF a = m[t].next THEN m[t].previous
                                            ELSE m[a].previous
<1> DEFINE p == m[t].previous
           n == m[t].next
           m1 == SetNext(m, p, n)
<1>1. p \in Address \cup {NULL} /\ n \in Address \cup {NULL} /\ NULL \notin Address
  BY DEF Memory, Record, TimerAssumption
<1>2. /\ m1 \in Memory
      /\ \A a \in Address :
           /\ m1[a].estimated_count = m[a].estimated_count
           /\ m1[a].interval_count = m[a].interval_count
           /\ m1[a].previous = m[a].previous
           /\ m1[a].next = IF a = p THEN n ELSE m[a].next
  <2>1. CASE p = NULL
    BY <2>1, <1>1 DEF SetNext
  <2>2. CASE p \in Address
    <3>1. m1 = [m EXCEPT ![p].next = n]
      BY <2>2, <1>1 DEF SetNext
    <3> HIDE DEF p, n, m1
    <3>2. QED
      BY <3>1, <2>2, <1>1 DEF Memory, Record
  <2>3. QED
    BY <1>1, <2>1, <2>2
<1>3. m1[t].next = n /\ m1[t].previous = p
  BY <1>2
<1>4. Unlink(m, t) = SetPrevious(m1, n, p)
  BY <1>3 DEF Unlink
<1> HIDE DEF p, n, m1
<1>5. /\ SetPrevious(m1, n, p) \in Memory
      /\ \A a \in Address :
           /\ SetPrevious(m1, n, p)[a].estimated_count = m1[a].estimated_count
           /\ SetPrevious(m1, n, p)[a].interval_count = m1[a].interval_count
           /\ SetPrevious(m1, n, p)[a].next = m1[a].next
           /\ SetPrevious(m1, n, p)[a].previous = IF a = n THEN p ELSE m1[a].previous
  <2>1. CASE n = NULL
    BY <2>1, <1>1, <1>2 DEF SetPrevious
  <2>2. CASE n \in Address
    <3>1. SetPrevious(m1, n, p) = [m1 EXCEPT ![n].previous = p]
      BY <2>2, <1>1 DEF SetPrevious
    <3>2. QED
      BY <3>1, <2>2, <1>1, <1>2 DEF Memory, Record
  <2>3. QED
    BY <1>1, <2>1, <2>2
<1>6. QED
  BY <1>2, <1>4, <1>5 DEF p, n

(* The memory once t is threaded between p and n.                          *)
Threaded(m, t, p, n) ==
  [SetPrevious([m EXCEPT ![t].next = n], n, t) EXCEPT ![t].previous = p, ![p].next = t]

(* ... of which these are the fields.                                      *)
FieldsThreaded(m, mm, t, p, n) ==
  /\ mm \in Memory
  /\ \A a \in Address :
       /\ mm[a].estimated_count = m[a].estimated_count
       /\ mm[a].interval_count = m[a].interval_count
       /\ mm[a].next = IF a = t THEN n ELSE IF a = p THEN t ELSE m[a].next
       /\ mm[a].previous = IF a = t THEN p ELSE IF a = n THEN t ELSE m[a].previous

(* Threading t between two timers writes these fields and no other.       *)
LEMMA InsertWrites ==
  ASSUME TimerAssumption, NEW m \in Memory, NEW t \in Address, NEW p \in Address,
         NEW n \in Address \cup {NULL}, t # p, n # t, n # p
  PROVE  FieldsThreaded(m, Threaded(m, t, p, n), t, p, n)
<1> DEFINE m1 == [m EXCEPT ![t].next = n]
           m2 == SetPrevious(m1, n, t)
           m3 == [m2 EXCEPT ![t].previous = p, ![p].next = t]
<1>1. NULL \notin Address
  BY DEF TimerAssumption
<1>2. /\ m1 \in Memory
      /\ \A a \in Address :
           /\ m1[a].estimated_count = m[a].estimated_count
           /\ m1[a].interval_count = m[a].interval_count
           /\ m1[a].previous = m[a].previous
           /\ m1[a].next = IF a = t THEN n ELSE m[a].next
  BY DEF Memory, Record
<1> HIDE DEF m1
<1>3. /\ m2 \in Memory
      /\ \A a \in Address :
           /\ m2[a].estimated_count = m1[a].estimated_count
           /\ m2[a].interval_count = m1[a].interval_count
           /\ m2[a].next = m1[a].next
           /\ m2[a].previous = IF a = n THEN t ELSE m1[a].previous
  <2>1. CASE n = NULL
    BY <2>1, <1>1, <1>2 DEF SetPrevious
  <2>2. CASE n \in Address
    <3>1. m2 = [m1 EXCEPT ![n].previous = t]
      BY <2>2, <1>1 DEF SetPrevious
    <3> HIDE DEF m2
    <3>2. QED
      BY <3>1, <2>2, <1>2 DEF Memory, Record
  <2>3. QED
    BY <2>1, <2>2
<1> HIDE DEF m2
<1>4. /\ m3 \in Memory
      /\ \A a \in Address :
           /\ m3[a].estimated_count = m2[a].estimated_count
           /\ m3[a].interval_count = m2[a].interval_count
           /\ m3[a].next = IF a = p THEN t ELSE m2[a].next
           /\ m3[a].previous = IF a = t THEN p ELSE m2[a].previous
  BY <1>3 DEF Memory, Record
<1> HIDE DEF m3
<1>5. /\ m3 \in Memory
      /\ \A a \in Address :
           /\ m3[a].estimated_count = m[a].estimated_count
           /\ m3[a].interval_count = m[a].interval_count
           /\ m3[a].next = IF a = t THEN n ELSE IF a = p THEN t ELSE m[a].next
           /\ m3[a].previous = IF a = t THEN p ELSE IF a = n THEN t
                               ELSE m[a].previous
  BY <1>2, <1>3, <1>4
<1>6. QED
  BY <1>5 DEF m3, m2, m1, Threaded, FieldsThreaded

(* What the insertion of t into the list of f makes of memory and head.    *)
Inserted(m, h, n, f, t, mm, hh) ==
  /\ mm \in Memory /\ hh \in Address
  /\ \A a \in Address : /\ mm[a].estimated_count = m[a].estimated_count
                        /\ mm[a].interval_count = m[a].interval_count
  /\ \E g : Lists(mm, hh, n + 1, g) /\ Named(n + 1, g) = Named(n, f) \cup {t}
  /\ mm[hh].previous = NULL \/ (h # NULL /\ mm[hh].previous = m[h].previous)

(* create_timer() and timers_tick() find the place of t and insert it:    *)
(* the list then holds t too, still in order and linked both ways, and no *)
(* time has changed.                                                      *)
LEMMA InsertLists ==
  ASSUME TimerAssumption, NEW m \in Memory, NEW h, NEW n, NEW f, Lists(m, h, n, f),
         NEW t \in Address \ Named(n, f)
  PROVE  /\ Stops(m, h, m[t].estimated_count)
         /\ Inserted(m, h, n, f, t, Insert(m, h, t).timer, Insert(m, h, t).head)
<1> DEFINE count == m[t].estimated_count
           p == PreviousTimer(m, h, count)
           nn == m[p].next
           r == Insert(m, h, t)
<1>1. /\ n \in Nat /\ f \in [1 .. n -> Address] /\ NULL \notin Address
      /\ \A i \in 1 .. n : f[i] # t
      /\ count \in Nat
  BY DEF Lists, TimerAssumption, Named, Memory, Record
<1>2. h = NULL <=> n = 0
  BY <1>1 DEF Lists
<1>3. \A a \in Address : m[a].estimated_count \in Nat
  BY DEF Memory, Record
<1>4. CASE h = NULL
  <2> DEFINE mm == [m EXCEPT ![t].previous = NULL, ![t].next = NULL]
  <2>1. r.timer = mm /\ r.head = t
    BY <1>4 DEF Insert
  <2>2. /\ mm \in Memory /\ mm[t].next = NULL /\ mm[t].previous = NULL
        /\ \A a \in Address : /\ mm[a].estimated_count = m[a].estimated_count
                              /\ mm[a].interval_count = m[a].interval_count
    BY DEF Memory, Record
  <2> HIDE DEF mm
  <2>3. Spliced(m, mm, n, f, t, 0)
    BY <1>1, <1>2, <1>4, <2>2 DEF Spliced
  <2>4. \E g : Lists(mm, t, n + 1, g) /\ Named(n + 1, g) = Named(n, f) \cup {t}
    BY <2>2, <2>3, SpliceLists
  <2>5. Inserted(m, h, n, f, t, r.timer, r.head)
    BY <2>1, <2>2, <2>4 DEF Inserted
  <2>6. QED
    BY <2>5, <1>4 DEF Stops
<1>5. CASE h # NULL /\ p = h /\ count < m[h].estimated_count
  <2> DEFINE mm == [m EXCEPT ![t].next = h, ![h].previous = t, ![t].previous = NULL]
  <2>1. r.timer = mm /\ r.head = t
    BY <1>5 DEF Insert
  <2>2. n > 0 /\ h = f[1] /\ h \in Address /\ h # t
    BY <1>1, <1>2, <1>5 DEF Lists
  <2>3. /\ mm \in Memory
        /\ \A a \in Address :
             /\ mm[a].estimated_count = m[a].estimated_count
             /\ mm[a].interval_count = m[a].interval_count
             /\ mm[a].next = IF a = t THEN h ELSE m[a].next
             /\ mm[a].previous = IF a = t THEN NULL ELSE IF a = h THEN t ELSE m[a].previous
    BY <2>2 DEF Memory, Record
  <2> HIDE DEF mm
  <2>4. Spliced(m, mm, n, f, t, 0)
    <3>1. \A i \in 1 .. n : f[i] \in Address /\ (i # 1 => f[i] # h)
      BY <1>1, <2>2 DEF Lists
    <3>2. \A i \in 1 .. n : mm[f[i]].estimated_count = m[f[i]].estimated_count
      BY <2>3, <3>1
    <3>3. mm[t].estimated_count = count
      BY <2>3
    <3>4. \A i \in 1 .. n : count <= mm[f[i]].estimated_count
      <4> SUFFICES ASSUME NEW i \in 1 .. n
                   PROVE  count <= mm[f[i]].estimated_count
        OBVIOUS
      <4>1. m[f[1]].estimated_count <= m[f[i]].estimated_count
        BY <1>1 DEF Lists
      <4>2. m[f[i]].estimated_count \in Nat /\ m[h].estimated_count \in Nat
        BY <1>3, <3>1, <2>2
      <4>3. QED
        BY <4>1, <4>2, <3>2, <2>2, <1>5, <1>1
    <3>5. QED
      BY <1>1, <2>2, <2>3, <3>1, <3>2, <3>3, <3>4 DEF Spliced
  <2>5. \E g : Lists(mm, t, n + 1, g) /\ Named(n + 1, g) = Named(n, f) \cup {t}
    BY <2>3, <2>4, SpliceLists
  <2>6. Inserted(m, h, n, f, t, r.timer, r.head)
    BY <2>1, <2>3, <2>5 DEF Inserted
  <2>7. QED
    BY <2>2, <2>6, <1>1, PreviousListed
<1>6. CASE h # NULL /\ ~(p = h /\ count < m[h].estimated_count)
  <2> DEFINE mm == Threaded(m, t, p, nn)
  <2>1. r.timer = mm /\ r.head = h
    BY <1>6 DEF Insert, Threaded
  <2>2. n > 0 /\ h = f[1] /\ h \in Address
    BY <1>1, <1>2, <1>6 DEF Lists
  <2>3. PICK k \in 1 .. n : p = f[k] /\ Follows(m, n, f, k, count)
    BY <2>2, <1>1, PreviousListed
  <2>4. Stops(m, h, count)
    BY <2>2, <1>1, PreviousListed
  <2> HIDE DEF p
  <2>5. /\ p \in Address /\ p # t
        /\ nn = IF k = n THEN NULL ELSE f[k + 1]
        /\ nn \in Address \cup {NULL} /\ nn # t /\ nn # p
    <3>1. nn = IF k = n THEN NULL ELSE f[k + 1]
      BY <2>3 DEF Lists
    <3>2. k # n => k + 1 \in 1 .. n /\ f[k + 1] # f[k]
      BY <1>1 DEF Lists
    <3>3. QED
      BY <3>1, <3>2, <2>3, <1>1
  <2> HIDE DEF nn
  <2>6. /\ mm \in Memory
        /\ \A a \in Address :
             /\ mm[a].estimated_count = m[a].estimated_count
             /\ mm[a].interval_count = m[a].interval_count
             /\ mm[a].next = IF a = t THEN nn ELSE IF a = p THEN t ELSE m[a].next
             /\ mm[a].previous = IF a = t THEN p ELSE IF a = nn THEN t
                                 ELSE m[a].previous
    <3>1. FieldsThreaded(m, mm, t, p, nn)
      BY <2>5, InsertWrites, Zenon
    <3>2. QED
      BY <3>1 DEF FieldsThreaded
  <2> HIDE DEF mm
  <2>7. Spliced(m, mm, n, f, t, k)
    <3>1. \A i \in 1 .. n : /\ f[i] \in Address /\ (i # k => f[i] # p)
                            /\ i # k + 1 => f[i] # nn
      BY <1>1, <2>3, <2>5 DEF Lists
    <3>2. \A i \in 1 .. n : mm[f[i]].estimated_count = m[f[i]].estimated_count
      BY <2>6, <3>1
    <3>3. mm[t].estimated_count = count
      BY <2>6
    <3>4. m[f[k]].estimated_count <= count
      <4>1. CASE k = 1
        <5>1. p = h /\ ~(count < m[h].estimated_count)
          BY <4>1, <2>2, <2>3, <1>6
        <5>2. m[h].estimated_count \in Nat
          BY <1>3, <2>2
        <5>3. QED
          BY <4>1, <5>1, <5>2, <2>2, <1>1
      <4>2. CASE k > 1
        BY <4>2, <2>3 DEF Follows
      <4>3. QED
        BY <4>1, <4>2
    <3>5. \A i \in 1 .. k : mm[f[i]].estimated_count <= count
      <4> SUFFICES ASSUME NEW i \in 1 .. k
                   PROVE  mm[f[i]].estimated_count <= count
        OBVIOUS
      <4>1. i \in 1 .. n /\ m[f[i]].estimated_count <= m[f[k]].estimated_count
        BY <1>1 DEF Lists
      <4>2. m[f[i]].estimated_count \in Nat /\ m[f[k]].estimated_count \in Nat
        BY <4>1, <1>3, <3>1
      <4>3. QED
        BY <4>1, <4>2, <3>2, <3>4, <1>1
    <3>6. \A i \in k + 1 .. n : count <= mm[f[i]].estimated_count
      <4> SUFFICES ASSUME NEW i \in k + 1 .. n
                   PROVE  count <= mm[f[i]].estimated_count
        OBVIOUS
      <4>1. /\ i \in 1 .. n /\ k + 1 \in 1 .. n /\ k < n
            /\ m[f[k + 1]].estimated_count <= m[f[i]].estimated_count
        BY <1>1 DEF Lists
      <4>2. count < m[f[k + 1]].estimated_count
        BY <4>1, <2>3 DEF Follows
      <4>3. m[f[i]].estimated_count \in Nat /\ m[f[k + 1]].estimated_count \in Nat
        BY <4>1, <1>3, <3>1
      <4>4. QED
        BY <4>1, <4>2, <4>3, <3>2, <1>1
    <3>7. \A i \in 1 .. n : i # k => mm[f[i]].next = m[f[i]].next
      BY <2>6, <3>1, <1>1
    <3>8. \A i \in 2 .. n : i # k + 1 => mm[f[i]].previous = m[f[i]].previous
      BY <2>6, <3>1, <1>1
    <3>9. /\ mm[t].next = IF k = n THEN NULL ELSE f[k + 1]
          /\ mm[t].previous = f[k] /\ mm[f[k]].next = t
          /\ k < n => mm[f[k + 1]].previous = t
      BY <2>3, <2>5, <2>6, <1>1
    <3>10. QED
      BY <1>1, <3>2, <3>3, <3>5, <3>6, <3>7, <3>8, <3>9 DEF Spliced
  <2>8. \E g : Lists(mm, h, n + 1, g) /\ Named(n + 1, g) = Named(n, f) \cup {t}
    <3>1. k # 0
      OBVIOUS
    <3>2. QED
      BY <2>6, <2>7, <3>1, SpliceLists
  <2>9. mm[h].previous = m[h].previous
    <3>1. h # t /\ h # nn
      BY <2>2, <2>5, <1>1 DEF Lists
    <3>2. QED
      BY <3>1, <2>2, <2>6
  <2>10. Inserted(m, h, n, f, t, r.timer, r.head)
    BY <2>1, <2>2, <2>6, <2>8, <2>9 DEF Inserted
  <2>11. QED
    BY <2>4, <2>10
<1>7. QED
  BY <1>4, <1>5, <1>6

(* delete_timer() and timers_tick() take a timer of the list out of it by *)
(* telling its two neighbours of each other.                              *)
LEMMA UnlinkLists ==
  ASSUME TimerAssumption, NEW m \in Memory, NEW h, NEW n, NEW f, Lists(m, h, n, f),
         NEW k \in 1 .. n, k = 1 => m[f[k]].previous \notin Named(n, f)
  PROVE  /\ m[f[k]].previous # f[k] /\ m[f[k]].next # f[k]
         /\ Bridged(m, Unlink(m, f[k]), n, f, k)
<1> DEFINE t == f[k]
           p == m[t].previous
           nn == m[t].next
           mm == Unlink(m, t)
<1>1. /\ n \in Nat /\ f \in [1 .. n -> Address] /\ NULL \notin Address
      /\ \A i, j \in 1 .. n : i # j => f[i] # f[j]
  <2>1. n \in Nat /\ \A i, j \in 1 .. n : i < j => f[i] # f[j]
    BY DEF Lists
  <2>2. \A i, j \in 1 .. n : i # j => i < j \/ j < i
    BY <2>1
  <2>3. QED
    BY <2>1, <2>2 DEF Lists, TimerAssumption
<1>2. /\ nn = IF k = n THEN NULL ELSE f[k + 1]
      /\ k > 1 => p = f[k - 1]
      /\ k = 1 => \A i \in 1 .. n : f[i] # p
  BY DEF Lists, Named
<1>3. p # t /\ nn # t /\ t \in Address
  BY <1>1, <1>2
<1> HIDE DEF p, nn, t, mm
<1>4. \A a \in Address :
        /\ mm[a].estimated_count = m[a].estimated_count
        /\ mm[a].next = IF a = p THEN nn ELSE m[a].next
        /\ mm[a].previous = IF a = nn THEN p ELSE m[a].previous
  BY <1>3, UnlinkWrites DEF mm, p, nn
<1>5. Bridged(m, mm, n, f, k)
  <2>1. k > 1 => mm[f[k - 1]].next = nn
    BY <1>1, <1>2, <1>4
  <2>2. k > 1 /\ k < n => mm[f[k + 1]].previous = f[k - 1]
    BY <1>1, <1>2, <1>4
  <2>3. \A i \in 1 .. n : i # k /\ i + 1 # k => mm[f[i]].next = m[f[i]].next
    <3> SUFFICES ASSUME NEW i \in 1 .. n, i # k, i + 1 # k
                 PROVE  mm[f[i]].next = m[f[i]].next
      OBVIOUS
    <3>1. f[i] # p /\ f[i] \in Address
      BY <1>1, <1>2
    <3>2. QED
      BY <3>1, <1>4
  <2>4. \A i \in 2 .. n : i # k /\ i # k + 1 => mm[f[i]].previous = m[f[i]].previous
    <3> SUFFICES ASSUME NEW i \in 2 .. n, i # k, i # k + 1
                 PROVE  mm[f[i]].previous = m[f[i]].previous
      OBVIOUS
    <3>1. f[i] # nn /\ f[i] \in Address
      BY <1>1, <1>2
    <3>2. QED
      BY <3>1, <1>4
  <2>5. \A i \in 1 .. n : mm[f[i]].estimated_count = m[f[i]].estimated_count
    BY <1>1, <1>4
  <2>6. QED
    BY <2>1, <2>2, <2>3, <2>4, <2>5 DEF Bridged, nn, t
<1>6. QED
  BY <1>3, <1>5 DEF p, nn, t, mm

(* The list depends on the links and times of the timers in it alone.     *)
LEMMA SameLinksLists ==
  ASSUME NEW m, NEW mm, NEW h, NEW n, NEW f, Lists(m, h, n, f),
         \A a \in Named(n, f) : /\ mm[a].next = m[a].next
                                /\ mm[a].previous = m[a].previous
                                /\ mm[a].estimated_count = m[a].estimated_count
  PROVE  Lists(mm, h, n, f)
<1>1. n \in Nat /\ \A i \in 1 .. n : f[i] \in Named(n, f)
  BY DEF Lists, Named
<1>2. \A i \in 1 .. n : /\ mm[f[i]].next = m[f[i]].next
                        /\ mm[f[i]].previous = m[f[i]].previous
                        /\ mm[f[i]].estimated_count = m[f[i]].estimated_count
  BY <1>1
<1>3. QED
  BY <1>1, <1>2 DEF Lists
-----------------------------------------------------------------------------
(* The list with head h in memory m consists of the timers of S, in the    *)
(* order of their times and linked both ways.                              *)
Ordered(m, h, S) ==
  \E n \in 0 .. Cardinality(Address) : \E f \in [1 .. n -> Address] :
    Lists(m, h, n, f) /\ Named(n, f) = S

(* A listing found without a bound on its length is one within the bound. *)
LEMMA OrderedIntro ==
  ASSUME TimerAssumption, NEW m, NEW h, NEW n, NEW f, Lists(m, h, n, f)
  PROVE  Ordered(m, h, Named(n, f))
<1>1. n \in 0 .. Cardinality(Address) /\ f \in [1 .. n -> Address]
  <2>1. Cardinality(Address) \in Nat /\ n <= Cardinality(Address)
    BY ListShort
  <2>2. QED
    BY <2>1 DEF Lists
<1>2. QED
  BY <1>1 DEF Ordered

TimersTyped ==
  /\ timer \in Memory
  /\ tick_count \in 0 .. MaxTick
  /\ ticking \in {"NO", "COUNTED", "FIRING"}
  /\ creating \subseteq live /\ expired \subseteq live /\ live \subseteq Address

(* The list is never empty for the timer of the main task, and only a      *)
(* timer that expired is still behind the head.                            *)
TimerInv ==
  /\ TimersTyped
  /\ creating \cap expired = {}
  /\ main_timer \in Armed /\ timer[main_timer].interval_count # 0
  /\ \A t \in expired : timer[t].interval_count = 0
  /\ Ordered(timer, next_estimated_timer, Armed)
  /\ timer[next_estimated_timer].previous \in expired \cup {NULL}

(* The head of a list that is not empty is the first of its timers.       *)
LEMMA HeadArmed ==
  ASSUME TimerAssumption, NEW m, NEW h, NEW S, NEW n, NEW f, Lists(m, h, n, f),
         Named(n, f) # {}
  PROVE  n > 0 /\ h = f[1] /\ h \in Named(n, f) /\ h \in Address
<1>1. n \in Nat /\ n # 0
  BY DEF Lists, Named
<1>2. QED
  BY <1>1 DEF Lists, Named

(* The list with the timer of the main task alone satisfies the           *)
(* invariant.                                                             *)
LEMMA InitTimer == TimerAssumption /\ Init => TimerInv
<1> SUFFICES ASSUME TimerAssumption, Init
             PROVE  TimerInv
  OBVIOUS
<1>1. /\ main_timer \in Address /\ NULL \notin Address /\ Intervals \subseteq Nat
      /\ MaxTick \in Nat
  BY DEF TimerAssumption
<1>2. /\ timer \in Memory
      /\ \A a \in Address : /\ timer[a].next = NULL /\ timer[a].previous = NULL
                            /\ timer[a].interval_count # 0
                            /\ timer[a].estimated_count \in Nat
  BY <1>1 DEF Init, Memory, Record
<1>3. TimersTyped
  BY <1>1, <1>2 DEF Init, TimersTyped
<1>4. Armed = {main_timer}
  BY DEF Init, Armed
<1> DEFINE f == [i \in 1 .. 1 |-> main_timer]
<1>5. Lists(timer, next_estimated_timer, 1, f)
  BY <1>1, <1>2 DEF Init, Lists
<1>6. Named(1, f) = {main_timer}
  BY DEF Named
<1>7. Ordered(timer, next_estimated_timer, Armed)
  BY <1>4, <1>5, <1>6, OrderedIntro
<1>8. QED
  BY <1>1, <1>2, <1>3, <1>4, <1>7 DEF Init, TimerInv

(* The computation of a time before prohibit_switch_task() does not touch *)
(* the list: the timer is not in it yet.                                  *)
LEMMA AllocateKeeps ==
  ASSUME TimerAssumption, TimerInv, NEW t \in Address, NEW delay \in Delays,
         NEW interval \in Intervals, AllocateTimer(t, delay, interval)
  PROVE  TimerInv'
<1>1. /\ timer \in Memory /\ tick_count \in Nat /\ t \notin live
      /\ delay \in Nat /\ interval \in Nat
  BY DEF TimerAssumption, TimerInv, TimersTyped, AllocateTimer
<1>2. /\ timer' \in Memory
      /\ \A a \in Address : a # t => timer'[a] = timer[a]
      /\ \A a \in Address : timer'[a].previous = timer[a].previous
  <2> DEFINE time == tick_count + delay
             mm == [timer EXCEPT ![t].estimated_count = time, ![t].interval_count = interval]
  <2>1. timer' = mm /\ time \in Nat
    BY <1>1 DEF AllocateTimer
  <2> HIDE DEF time
  <2>2. /\ mm \in Memory
        /\ \A a \in Address : a # t => mm[a] = timer[a]
        /\ \A a \in Address : mm[a].previous = timer[a].previous
    BY <1>1, <2>1 DEF Memory, Record
  <2> HIDE DEF mm
  <2>3. QED
    BY <2>1, <2>2
<1>3. TimersTyped'
  BY <1>2 DEF TimerInv, TimersTyped, AllocateTimer
<1>4. Armed' = Armed /\ t \notin Armed
  BY <1>1 DEF AllocateTimer, Armed
<1>5. PICK n, f :
        Lists(timer, next_estimated_timer, n, f) /\ Named(n, f) = Armed
  BY DEF TimerInv, Ordered
<1>6. Lists(timer', next_estimated_timer', n, f)
  <2>1. \A a \in Named(n, f) : timer'[a] = timer[a]
    BY <1>2, <1>4, <1>5 DEF TimerInv, TimersTyped, Armed
  <2>2. Lists(timer', next_estimated_timer, n, f)
    BY <1>5, <2>1, SameLinksLists
  <2>3. QED
    BY <2>2 DEF AllocateTimer
<1>7. Ordered(timer', next_estimated_timer', Armed')
  BY <1>4, <1>5, <1>6, OrderedIntro
<1>8. main_timer # t /\ main_timer \in Address
  BY <1>4, <1>1 DEF TimerInv, TimerAssumption
<1>9. next_estimated_timer \in Address
  <2>1. Armed # {}
    BY DEF TimerInv
  <2>2. QED
    BY <2>1, <1>5, HeadArmed
<1>10. timer'[next_estimated_timer'].previous \in expired' \cup {NULL}
  BY <1>2, <1>9 DEF TimerInv, AllocateTimer
<1>11. (creating \cap expired)' = {}
  BY <1>1 DEF TimerInv, TimersTyped, AllocateTimer
<1>12. \A e \in expired' : timer'[e].interval_count = 0
  BY <1>1, <1>2 DEF TimerInv, TimersTyped, AllocateTimer
<1>13. QED
  BY <1>2, <1>3, <1>4, <1>7, <1>8, <1>10, <1>11, <1>12 DEF TimerInv

(* The facts about the list that the steps on it start from.               *)
LEMMA TheList ==
  ASSUME TimerAssumption, TimerInv
  PROVE  /\ timer \in Memory /\ next_estimated_timer \in Armed
         /\ Armed \subseteq Address /\ expired \cap Armed = {} /\ creating \cap Armed = {}
         /\ NULL \notin Address
         /\ \E n, f :
              /\ Lists(timer, next_estimated_timer, n, f) /\ Named(n, f) = Armed
              /\ n > 0 /\ next_estimated_timer = f[1]
<1>1. PICK n, f :
        Lists(timer, next_estimated_timer, n, f) /\ Named(n, f) = Armed
  BY DEF TimerInv, Ordered
<1>2. Armed # {} /\ Armed \subseteq Address
  BY DEF TimerInv, TimersTyped, Armed
<1>3. n > 0 /\ next_estimated_timer = f[1] /\ next_estimated_timer \in Armed
  BY <1>1, <1>2, HeadArmed
<1>4. timer \in Memory /\ NULL \notin Address
  BY DEF TimerInv, TimersTyped, TimerAssumption
<1>5. expired \cap Armed = {} /\ creating \cap Armed = {}
  BY DEF Armed
<1>6. QED
  BY <1>1, <1>2, <1>3, <1>4, <1>5

(* create_timer() keeps the invariant, adds its timer and changes no      *)
(* time.                                                                  *)
LEMMA InsertKeeps ==
  ASSUME TimerAssumption, TimerInv, NEW t \in Address, InsertTimer(t)
  PROVE  /\ TimerInv' /\ Armed' = Armed \cup {t}
         /\ \A a \in Address : /\ timer'[a].estimated_count = timer[a].estimated_count
                               /\ timer'[a].interval_count = timer[a].interval_count
<1>1. PICK n, f :
        /\ Lists(timer, next_estimated_timer, n, f) /\ Named(n, f) = Armed
        /\ n > 0 /\ next_estimated_timer = f[1]
        /\ n \in Nat /\ f \in [1 .. n -> Address]
  BY TheList DEF Lists
<1>2. timer \in Memory /\ t \in Address \ Named(n, f)
  BY <1>1, TheList DEF InsertTimer
<1>3. Inserted(timer, next_estimated_timer, n, f, t, timer', next_estimated_timer')
  BY <1>1, <1>2, InsertLists DEF InsertTimer
<1>4. /\ timer' \in Memory
      /\ \A a \in Address : /\ timer'[a].estimated_count = timer[a].estimated_count
                            /\ timer'[a].interval_count = timer[a].interval_count
      /\ timer'[next_estimated_timer'].previous
            \in {NULL, timer[next_estimated_timer].previous}
  BY <1>3 DEF Inserted
<1>5. Armed' = Armed \cup {t}
  BY DEF InsertTimer, Armed, TimerInv, TimersTyped
<1>6. Ordered(timer', next_estimated_timer', Armed')
  <2>1. PICK g : /\ Lists(timer', next_estimated_timer', n + 1, g)
                 /\ Named(n + 1, g) = Armed \cup {t}
    BY <1>1, <1>3 DEF Inserted
  <2>2. Ordered(timer', next_estimated_timer', Named(n + 1, g))
    BY <2>1, OrderedIntro
  <2>3. QED
    BY <1>5, <2>1, <2>2
<1>7. TimersTyped'
  BY <1>4 DEF TimerInv, TimersTyped, InsertTimer
<1>8. (creating \cap expired)' = {}
  BY DEF TimerInv, InsertTimer
<1>9. \A e \in expired' : timer'[e].interval_count = 0
  BY <1>4 DEF TimerInv, TimersTyped, InsertTimer
<1>10. main_timer \in Address
  BY DEF TimerAssumption
<1>11. timer'[next_estimated_timer'].previous \in expired' \cup {NULL}
  BY <1>4 DEF TimerInv, InsertTimer
<1>12. QED
  BY <1>4, <1>5, <1>6, <1>7, <1>8, <1>9, <1>10, <1>11 DEF TimerInv

(* delete_timer() keeps the invariant as long as the timer has not        *)
(* expired: the timer is then in the list, so what it unlinks it from is  *)
(* the list.                                                              *)
LEMMA DeleteKeeps ==
  ASSUME TimerAssumption, ~DeletesExpired, TimerInv, NEW t \in Address, DeleteTimer(t)
  PROVE  /\ TimerInv' /\ t \in Armed /\ expired' = expired
         /\ \A a \in Address : /\ timer'[a].estimated_count = timer[a].estimated_count
                               /\ timer'[a].interval_count = timer[a].interval_count
<1>1. PICK n, f :
        /\ Lists(timer, next_estimated_timer, n, f) /\ Named(n, f) = Armed
        /\ n > 0 /\ next_estimated_timer = f[1]
        /\ n \in Nat /\ f \in [1 .. n -> Address]
  BY TheList DEF Lists
<1>2. /\ t \in Armed /\ t # main_timer /\ expired' = expired
      /\ Armed' = Armed \ {t} /\ timer' = Unlink(timer, t)
  BY DEF DeleteTimer, Armed
<1>3. PICK k \in 1 .. n : t = f[k]
  BY <1>1, <1>2 DEF Named
<1>4. timer[next_estimated_timer].previous \notin Armed
  BY TheList DEF TimerInv
<1>5. /\ timer[t].previous # t /\ timer[t].next # t
      /\ Bridged(timer, timer', n, f, k)
  BY <1>1, <1>2, <1>3, <1>4, TheList, UnlinkLists
<1>6. /\ timer' \in Memory
      /\ \A a \in Address :
           /\ timer'[a].estimated_count = timer[a].estimated_count
           /\ timer'[a].interval_count = timer[a].interval_count
           /\ timer'[a].previous = IF a = timer[t].next THEN timer[t].previous
                                   ELSE timer[a].previous
  BY <1>2, <1>5, TheList, UnlinkWrites
<1>7. k = 1 <=> t = next_estimated_timer
  BY <1>1, <1>3 DEF Lists
<1>8. next_estimated_timer' = IF k = 1 THEN timer[f[1]].next ELSE next_estimated_timer
  BY <1>1, <1>7 DEF DeleteTimer
<1>9. PICK g : /\ Lists(timer', next_estimated_timer', n - 1, g)
               /\ Named(n - 1, g) = Named(n, f) \ {f[k]}
  BY <1>1, <1>5, <1>8, BridgeLists
<1>10. Ordered(timer', next_estimated_timer', Armed')
  <2>1. Ordered(timer', next_estimated_timer', Named(n - 1, g))
    BY <1>9, OrderedIntro
  <2>2. QED
    BY <1>1, <1>2, <1>3, <1>9, <2>1
<1>11. main_timer \in Armed' /\ main_timer \in Address
  BY <1>2 DEF TimerInv, TimerAssumption
<1>12. next_estimated_timer' \in Armed' /\ next_estimated_timer' \in Address
  <2>1. Named(n - 1, g) # {} /\ Named(n - 1, g) = Armed'
    BY <1>1, <1>2, <1>3, <1>9, <1>11
  <2>2. QED
    BY <1>9, <2>1, HeadArmed
<1>13. timer'[next_estimated_timer'].previous \in expired' \cup {NULL}
  <2>1. CASE k = 1
    <3>1. next_estimated_timer' = timer[t].next
      BY <2>1, <1>3, <1>8
    <3>2. timer'[next_estimated_timer'].previous = timer[t].previous
      BY <3>1, <1>6, <1>12
    <3>3. QED
      BY <3>2, <2>1, <1>2, <1>7 DEF TimerInv
  <2>2. CASE k # 1
    <3>1. next_estimated_timer' = f[1] /\ f[1] \in Address
      BY <2>2, <1>1, <1>8
    <3>2. timer[t].next = IF k = n THEN NULL ELSE f[k + 1]
      BY <1>1, <1>3 DEF Lists
    <3>3. k # n => k + 1 \in 1 .. n /\ 1 < k + 1
      BY <1>1
    <3>4. timer[t].next # f[1]
      BY <1>1, <3>1, <3>2, <3>3, TheList DEF Lists
    <3>5. timer'[f[1]].previous = timer[f[1]].previous
      BY <3>1, <3>4, <1>6
    <3>6. QED
      BY <3>1, <3>5, <1>1, <1>2 DEF TimerInv
  <2>3. QED
    BY <2>1, <2>2
<1>14. TimersTyped'
  BY <1>2, <1>6 DEF TimerInv, TimersTyped, DeleteTimer, Armed
<1>15. /\ (creating \cap expired)' = {}
       /\ \A e \in expired' : timer'[e].interval_count = 0
  BY <1>2, <1>6 DEF TimerInv, TimersTyped, DeleteTimer
<1>16. QED
  BY <1>2, <1>6, <1>10, <1>11, <1>13, <1>14, <1>15 DEF TimerInv

(* A timer that expires leaves the list by a move of the head alone, and  *)
(* is then what the new head points back at.                              *)
LEMMA FireOnceKeeps ==
  ASSUME TimerAssumption, TimerInv, FireOnce
  PROVE  TimerInv'
<1> DEFINE t == next_estimated_timer
<1>1. PICK n, f :
        /\ Lists(timer, next_estimated_timer, n, f) /\ Named(n, f) = Armed
        /\ n > 0 /\ next_estimated_timer = f[1]
        /\ n \in Nat /\ f \in [1 .. n -> Address]
  BY TheList DEF Lists
<1>2. /\ timer' = timer /\ expired' = expired \cup {t} /\ Armed' = Armed \ {t}
      /\ timer[t].interval_count = 0 /\ next_estimated_timer' = timer[f[1]].next
  BY <1>1 DEF FireOnce, Armed
<1>3. t \in Armed /\ t # main_timer
  BY <1>2, TheList DEF TimerInv
<1>4. Bridged(timer, timer', n, f, 1)
  BY <1>1, <1>2 DEF Bridged
<1>5. PICK g : /\ Lists(timer', next_estimated_timer', n - 1, g)
               /\ Named(n - 1, g) = Named(n, f) \ {f[1]}
  BY <1>1, <1>2, <1>4, BridgeLists
<1>6. Ordered(timer', next_estimated_timer', Armed')
  <2>1. Ordered(timer', next_estimated_timer', Named(n - 1, g))
    BY <1>5, OrderedIntro
  <2>2. QED
    BY <1>1, <1>2, <1>5, <2>1
<1>7. main_timer \in Armed'
  BY <1>2, <1>3 DEF TimerInv
<1>8. timer'[next_estimated_timer'].previous = t
  <2>1. n # 1
    <3>1. Named(n - 1, g) # {}
      BY <1>1, <1>2, <1>5, <1>7
    <3>2. QED
      BY <3>1, <1>5, HeadArmed
  <2>2. next_estimated_timer' = f[2] /\ timer[f[2]].previous = f[1]
    BY <2>1, <1>1, <1>2 DEF Lists
  <2>3. QED
    BY <2>2, <1>1, <1>2
<1>9. TimersTyped'
  BY <1>2, <1>3 DEF TimerInv, TimersTyped, FireOnce, Armed
<1>10. /\ (creating \cap expired)' = {}
       /\ \A e \in expired' : timer'[e].interval_count = 0
  BY <1>2, TheList DEF TimerInv, FireOnce
<1>11. QED
  BY <1>2, <1>6, <1>7, <1>8, <1>9, <1>10 DEF TimerInv

(* A repeating timer leaves the list and comes back at its next time: the *)
(* write through the link back from the head reaches an expired timer,    *)
(* never an armed one.                                                    *)
LEMMA FireRepeatingKeeps ==
  ASSUME TimerAssumption, TimerInv, FireRepeating
  PROVE  /\ TimerInv' /\ Armed' = Armed
         /\ \A a \in Address :
              /\ timer'[a].interval_count = timer[a].interval_count
              /\ timer'[a].estimated_count =
                    IF a = next_estimated_timer
                      THEN timer[a].estimated_count + timer[a].interval_count
                      ELSE timer[a].estimated_count
<1> DEFINE t == next_estimated_timer
           u == Unlink(timer, t)
           time == u[t].estimated_count + timer[t].interval_count
           unlinked == [u EXCEPT ![t].previous = NULL, ![t].next = NULL,
                                 ![t].estimated_count = time]
           rest == timer[t].next
<1>1. PICK n, f :
        /\ Lists(timer, next_estimated_timer, n, f) /\ Named(n, f) = Armed
        /\ n > 0 /\ next_estimated_timer = f[1]
        /\ n \in Nat /\ f \in [1 .. n -> Address]
  BY TheList DEF Lists
<1>2. /\ unlinked = [Unlink(timer, t) EXCEPT ![t].previous = NULL, ![t].next = NULL,
                        ![t].estimated_count = @ + timer[t].interval_count]
      /\ timer' = Insert(unlinked, rest, t).timer
      /\ next_estimated_timer' = Insert(unlinked, rest, t).head
  <2>1. unlinked = [Unlink(timer, t) EXCEPT ![t].previous = NULL, ![t].next = NULL,
                        ![t].estimated_count = @ + timer[t].interval_count]
    OBVIOUS
  <2>2. QED
    BY <2>1 DEF FireRepeating
<1>3. /\ timer \in Memory /\ t \in Address /\ t \in Armed
      /\ timer[t].previous \notin Named(n, f)
      /\ timer[t].previous \in expired \cup {NULL}
  BY <1>1, TheList DEF TimerInv
<1>4. /\ timer[t].previous # t /\ timer[t].next # t
      /\ Bridged(timer, u, n, f, 1)
  BY <1>1, <1>3, UnlinkLists
<1>5. /\ u \in Memory
      /\ \A a \in Address :
           /\ u[a].estimated_count = timer[a].estimated_count
           /\ u[a].interval_count = timer[a].interval_count
           /\ u[a].next = IF a = timer[t].previous THEN timer[t].next ELSE timer[a].next
           /\ u[a].previous = IF a = timer[t].next THEN timer[t].previous
                              ELSE timer[a].previous
  BY <1>3, <1>4, UnlinkWrites
<1> HIDE DEF u
<1>6. time = timer[t].estimated_count + timer[t].interval_count /\ time \in Nat
  BY <1>3, <1>5 DEF Memory, Record
<1> HIDE DEF time
<1>7. /\ unlinked \in Memory /\ unlinked[t].estimated_count = time
      /\ unlinked[t].interval_count = u[t].interval_count
      /\ \A a \in Address : a # t => unlinked[a] = u[a]
  <2> HIDE DEF t
  <2> DEFINE alone == [u[t] EXCEPT !.previous = NULL, !.next = NULL, !.estimated_count = time]
  <2>1. u[t] \in Record
    BY <1>3, <1>5 DEF Memory
  <2>2. /\ alone \in Record /\ alone.estimated_count = time
        /\ alone.interval_count = u[t].interval_count
    BY <2>1, <1>6 DEF Record
  <2> HIDE DEF alone
  <2>3. unlinked = [u EXCEPT ![t] = alone]
    BY <1>3, <1>5 DEF alone, Memory, Record
  <2> HIDE DEF unlinked
  <2>4. QED
    BY <2>2, <2>3, <1>3, <1>5 DEF Memory
<1> HIDE DEF unlinked, rest
<1>8. PICK g : /\ Lists(u, rest, n - 1, g)
               /\ Named(n - 1, g) = Armed \ {t}
  BY <1>1, <1>4, BridgeLists DEF rest
<1>9. Lists(unlinked, rest, n - 1, g)
  <2>1. \A a \in Named(n - 1, g) : unlinked[a] = u[a]
    BY <1>7, <1>8, TheList
  <2>2. QED
    BY <1>8, <2>1, SameLinksLists
<1>10. Inserted(unlinked, rest, n - 1, g, t, timer', next_estimated_timer')
  <2>1. t \in Address \ Named(n - 1, g)
    BY <1>3, <1>8
  <2>2. QED
    BY <2>1, <1>2, <1>7, <1>9, InsertLists
<1>11. /\ timer' \in Memory
       /\ \A a \in Address : /\ timer'[a].estimated_count = unlinked[a].estimated_count
                             /\ timer'[a].interval_count = unlinked[a].interval_count
       /\ \/ timer'[next_estimated_timer'].previous = NULL
          \/ /\ rest # NULL
             /\ timer'[next_estimated_timer'].previous = unlinked[rest].previous
  BY <1>10 DEF Inserted
<1>12. \A a \in Address :
         /\ timer'[a].interval_count = timer[a].interval_count
         /\ timer'[a].estimated_count =
               IF a = t THEN timer[a].estimated_count + timer[a].interval_count
                        ELSE timer[a].estimated_count
  BY <1>3, <1>5, <1>6, <1>7, <1>11
<1>13. Armed' = Armed
  BY DEF FireRepeating, Armed
<1>14. Ordered(timer', next_estimated_timer', Armed')
  <2>1. PICK ff : /\ Lists(timer', next_estimated_timer', (n - 1) + 1, ff)
                  /\ Named((n - 1) + 1, ff) = (Armed \ {t}) \cup {t}
    BY <1>8, <1>10 DEF Inserted
  <2>2. Ordered(timer', next_estimated_timer', Named((n - 1) + 1, ff))
    BY <2>1, OrderedIntro
  <2>3. QED
    BY <1>3, <1>13, <2>1, <2>2
<1>15. timer'[next_estimated_timer'].previous \in expired' \cup {NULL}
  <2>1. CASE rest = NULL
    BY <2>1, <1>11
  <2>2. CASE rest # NULL
    <3>1. rest \in Address /\ rest # t
      BY <2>2, <1>3, <1>4 DEF rest, Memory, Record
    <3>2. unlinked[rest].previous = timer[t].previous
      BY <3>1, <1>5, <1>7 DEF rest
    <3>3. expired' = expired
      BY DEF FireRepeating
    <3>4. QED
      BY <3>2, <3>3, <1>3, <1>11
  <2>3. QED
    BY <2>1, <2>2
<1>16. TimersTyped'
  BY <1>11 DEF TimerInv, TimersTyped, FireRepeating
<1>17. /\ (creating \cap expired)' = {}
       /\ \A e \in expired' : timer'[e].interval_count = 0
  BY <1>12 DEF TimerInv, TimersTyped, FireRepeating
<1>18. main_timer \in Address
  BY DEF TimerAssumption
<1>19. TimerInv'
  BY <1>12, <1>13, <1>14, <1>15, <1>16, <1>17, <1>18 DEF TimerInv
<1>20. QED
  BY <1>12, <1>13, <1>19

(* Every step keeps the invariant.                                        *)
LEMMA StepTimer ==
  ASSUME TimerAssumption, ~DeletesExpired, TimerInv, [Next]_vars
  PROVE  TimerInv'
<1>1. CASE \E t \in Address, delay \in Delays, interval \in Intervals :
             AllocateTimer(t, delay, interval)
  BY <1>1, AllocateKeeps
<1>2. CASE \E t \in Address : InsertTimer(t)
  BY <1>2, InsertKeeps
<1>3. CASE \E t \in Address : DeleteTimer(t)
  BY <1>3, DeleteKeeps
<1>4. CASE CountTick
  BY <1>4 DEF TimerAssumption, CountTick, TimerInv, TimersTyped, Armed
<1>5. CASE BeginFiring
  BY <1>5 DEF BeginFiring, TimerInv, TimersTyped, Armed
<1>6. CASE FireRepeating
  BY <1>6, FireRepeatingKeeps
<1>7. CASE FireOnce
  BY <1>7, FireOnceKeeps
<1>8. CASE EndTick
  BY <1>8 DEF EndTick, TimerInv, TimersTyped, Armed
<1>9. CASE UNCHANGED vars
  BY <1>9 DEF vars, TimerInv, TimersTyped, Armed
<1>10. QED
  BY <1>1, <1>2, <1>3, <1>4, <1>5, <1>6, <1>7, <1>8, <1>9 DEF Next
-----------------------------------------------------------------------------
(* The inductive invariant of the timers, as long as no one-shot timer is *)
(* deleted after it has fired: the list consists of the armed timers in   *)
(* the order of their times, linked both ways, and behind its head there  *)
(* is nothing or an expired timer that nobody frees.                      *)
THEOREM TimerInvariant ==
  ASSUME TimerAssumption, ~DeletesExpired
  PROVE  Spec => []TimerInv
<1>1. Init => TimerInv
  BY InitTimer
<1>2. TimerInv /\ [Next]_vars => TimerInv'
  BY StepTimer
<1>3. QED
  BY <1>1, <1>2, PTL DEF Spec

(* The timers met from the head are the armed ones.                       *)
LEMMA ListedIsArmed ==
  ASSUME TimerAssumption, TimerInv
  PROVE  Listed = Armed
<1>1. PICK n, f :
        /\ Lists(timer, next_estimated_timer, n, f) /\ Named(n, f) = Armed
        /\ n \in Nat /\ f \in [1 .. n -> Address]
  BY TheList DEF Lists
<1>2. n <= Cardinality(Address) /\ Cardinality(Address) \in Nat
  BY <1>1, ListShort
<1> DEFINE c == Cardinality(Address)
           N(k) == Node(timer, next_estimated_timer, k)
<1> HIDE DEF c
<1>3. \A k \in 0 .. c : N(k) = IF k < n THEN f[k + 1] ELSE NULL
  BY <1>1, NodeListed DEF c
<1>4. NULL \notin Address
  BY DEF TimerAssumption
<1>5. ASSUME NEW a \in Listed
      PROVE  a \in Armed
  <2>1. PICK k \in 0 .. c : a = N(k) /\ a # NULL
    BY <1>5 DEF Listed, c
  <2>2. k < n /\ a = f[k + 1] /\ k + 1 \in 1 .. n
    BY <1>1, <1>2, <1>3, <2>1 DEF c
  <2>3. QED
    BY <1>1, <2>2 DEF Named
<1>6. ASSUME NEW a \in Armed
      PROVE  a \in Listed
  <2>1. PICK i \in 1 .. n : a = f[i]
    BY <1>1 DEF Named
  <2>2. i - 1 \in 0 .. c /\ i - 1 < n /\ (i - 1) + 1 = i
    BY <1>1, <1>2 DEF c
  <2>3. N(i - 1) = a /\ a # NULL
    BY <1>1, <1>3, <1>4, <2>1, <2>2
  <2>4. QED
    BY <2>2, <2>3 DEF Listed, c
<1>7. QED
  BY <1>5, <1>6

(* TypeOK: in particular the head is never NULL, so timers_tick() may     *)
(* read through it again after its one test.                              *)
THEOREM TimerTypes ==
  ASSUME TimerAssumption, ~DeletesExpired
  PROVE  Spec => []TypeOK
<1>1. TimerInv => TypeOK
  BY TheList DEF TimerInv, TimersTyped, TypeOK, Memory, Record
<1>2. QED
  BY <1>1, TimerInvariant, PTL

(* ListHoldsArmed: no insertion, deletion or expiry loses an armed timer  *)
(* or leaves one in the list that is not armed.                           *)
THEOREM ListIsWhatIsArmed ==
  ASSUME TimerAssumption, ~DeletesExpired
  PROVE  Spec => []ListHoldsArmed
<1>1. TimerInv => ListHoldsArmed
  BY ListedIsArmed DEF ListHoldsArmed
<1>2. QED
  BY <1>1, TimerInvariant, PTL

(* LinkedBack: each timer is known to the one behind it, and the first    *)
(* one has no armed timer before it.                                      *)
THEOREM LinksAgree ==
  ASSUME TimerAssumption, ~DeletesExpired
  PROVE  Spec => []LinkedBack
<1>1. TimerInv => LinkedBack
  <2> SUFFICES ASSUME TimerInv
               PROVE  LinkedBack
    OBVIOUS
  <2>1. PICK n, f :
          /\ Lists(timer, next_estimated_timer, n, f) /\ Named(n, f) = Armed
          /\ n \in Nat /\ f \in [1 .. n -> Address]
    BY TheList DEF Lists
  <2>2. Listed = Armed
    BY ListedIsArmed
  <2>3. ASSUME NEW t \in Listed, timer[t].next # NULL
        PROVE  timer[timer[t].next].previous = t
    <3>1. PICK i \in 1 .. n : t = f[i]
      BY <2>1, <2>2 DEF Named
    <3>2. i # n /\ timer[t].next = f[i + 1]
      BY <2>1, <2>3, <3>1 DEF Lists
    <3>3. i + 1 \in 2 .. n /\ (i + 1) - 1 = i
      BY <2>1, <3>2
    <3>4. QED
      BY <2>1, <3>1, <3>2, <3>3 DEF Lists
  <2>4. timer[next_estimated_timer].previous \notin Armed
    BY TheList DEF TimerInv
  <2>5. QED
    BY <2>3, <2>4 DEF LinkedBack
<1>2. QED
  BY <1>1, TimerInvariant, PTL
-----------------------------------------------------------------------------
(* The first timer of the list is an armed one that is due first.          *)
LEMMA HeadFirst ==
  ASSUME TimerAssumption, TimerInv
  PROVE  \A t \in Armed : timer[next_estimated_timer].estimated_count
                              <= timer[t].estimated_count
<1>1. PICK n, f :
        /\ Lists(timer, next_estimated_timer, n, f) /\ Named(n, f) = Armed
        /\ n > 0 /\ next_estimated_timer = f[1]
        /\ n \in Nat
  BY TheList DEF Lists
<1> SUFFICES ASSUME NEW t \in Armed
             PROVE  timer[next_estimated_timer].estimated_count <= timer[t].estimated_count
  OBVIOUS
<1>2. PICK i \in 1 .. n : t = f[i]
  BY <1>1 DEF Named
<1>3. 1 \in 1 .. n /\ 1 <= i
  BY <1>1
<1>4. QED
  BY <1>1, <1>2, <1>3 DEF Lists

(* What the abstract clock sees of the timers.                            *)
LEMMA AlarmsAre ==
  ASSUME TimerAssumption, TimerInv
  PROVE  /\ DOMAIN Alarms = live \ creating
         /\ \A t \in live \ creating :
              /\ Alarms[t] = [time |-> Alarms[t].time, period |-> Alarms[t].period]
              /\ Alarms[t].time = IF t \in expired THEN NEVER ELSE timer[t].estimated_count
              /\ Alarms[t].period = timer[t].interval_count
         /\ Clock!Armed = Armed
         /\ \A t \in Armed : t \in live \ creating /\ Alarms[t].time = timer[t].estimated_count
<1>1. /\ DOMAIN Alarms = live \ creating
      /\ \A t \in live \ creating :
           /\ Alarms[t] = [time |-> Alarms[t].time, period |-> Alarms[t].period]
           /\ Alarms[t].time = IF t \in expired THEN NEVER ELSE timer[t].estimated_count
           /\ Alarms[t].period = timer[t].interval_count
  BY DEF Alarms
<1>2. \A t \in live \ creating : timer[t].estimated_count # NEVER
  <2>1. \A t \in live : timer[t].estimated_count \in Nat
    BY DEF TimerInv, TimersTyped, Memory, Record
  <2>2. QED
    BY <2>1 DEF NEVER
<1>3. Clock!Armed = Armed
  BY <1>1, <1>2 DEF Clock!Armed, Armed
<1>4. QED
  BY <1>1, <1>3 DEF Armed

(* The insertion of a timer sets its alarm and no other.                  *)
LEMMA InsertSets ==
  ASSUME TimerAssumption, TimerInv, TimerInv', NEW t \in Address, InsertTimer(t)
  PROVE  Clock!Set(t)
<1>1. /\ t \in creating /\ t \in live /\ live' = live /\ creating' = creating \ {t}
      /\ expired' = expired /\ t \notin expired /\ ticking # "FIRING"
      /\ UNCHANGED <<tick_count, ticking>>
  BY DEF InsertTimer, TimerInv, TimersTyped
<1>2. \A a \in live : /\ timer'[a].estimated_count = timer[a].estimated_count
                     /\ timer'[a].interval_count = timer[a].interval_count
  BY InsertKeeps DEF TimerInv, TimersTyped
<1>3. \A a \in live \ creating : Alarms'[a] = Alarms[a]
  BY <1>1, <1>2 DEF Alarms
<1>4. Alarms'[t].time = timer'[t].estimated_count
  BY <1>1 DEF Alarms
<1>5. Alarms'[t].time \in Nat
  BY <1>4, <1>1 DEF TimerInv, TimersTyped, Memory, Record
<1>6. DOMAIN Alarms = live \ creating /\ DOMAIN Alarms' = (live \ creating) \cup {t}
  BY <1>1 DEF Alarms
<1>7. QED
  BY <1>1, <1>3, <1>5, <1>6 DEF Clock!Set

(* The deletion of a timer cancels its alarm and no other.                *)
LEMMA DeleteCancels ==
  ASSUME TimerAssumption, ~DeletesExpired, TimerInv, NEW t \in Address, DeleteTimer(t)
  PROVE  Clock!Cancel(t)
<1>1. /\ live' = live \ {t} /\ creating' = creating /\ expired' = expired
      /\ ticking # "FIRING" /\ UNCHANGED <<tick_count, ticking>>
  BY DeleteKeeps DEF DeleteTimer
<1>2. \A a \in live : /\ timer'[a].estimated_count = timer[a].estimated_count
                     /\ timer'[a].interval_count = timer[a].interval_count
  BY DeleteKeeps DEF TimerInv, TimersTyped
<1>3. Alarms' = [a \in DOMAIN Alarms \ {t} |-> Alarms[a]]
  <2>1. DOMAIN Alarms = live \ creating /\ live' \ creating' = DOMAIN Alarms \ {t}
    BY <1>1 DEF Alarms
  <2>2. \A a \in live' \ creating' : Alarms'[a] = Alarms[a]
    BY <1>1, <1>2 DEF Alarms
  <2>3. QED
    BY <2>1, <2>2 DEF Alarms
<1>4. QED
  BY <1>1, <1>3 DEF Clock!Cancel

(* The timer that fires is one whose alarm rings: it is due, and none is  *)
(* due before it.                                                         *)
LEMMA FireRings ==
  ASSUME TimerAssumption, TimerInv, FireOnce \/ FireRepeating
  PROVE  Clock!Ring(next_estimated_timer)
<1> DEFINE t == next_estimated_timer
           time == IF Alarms[t].period = 0 THEN NEVER
                   ELSE Alarms[t].time + Alarms[t].period
<1>1. /\ t \in Armed /\ t \in live \ creating /\ t \notin expired
      /\ Alarms[t].time = timer[t].estimated_count
      /\ Alarms[t].period = timer[t].interval_count
      /\ Clock!Armed = Armed /\ DOMAIN Alarms = live \ creating
  BY TheList, AlarmsAre
<1>2. /\ ticking = "FIRING" /\ timer[t].estimated_count <= tick_count
      /\ UNCHANGED <<live, creating, tick_count, ticking>>
  BY DEF FireOnce, FireRepeating, Due
<1>3. \A j \in Armed : Alarms[t].time <= Alarms[j].time
  BY <1>1, AlarmsAre, HeadFirst
<1>4. \A a \in live \ creating :
        /\ Alarms'[a] = IF a = t THEN [time |-> time, period |-> Alarms[t].period]
                        ELSE Alarms[a]
  <2>1. CASE FireOnce
    <3>1. timer' = timer /\ expired' = expired \cup {t} /\ timer[t].interval_count = 0
      BY <2>1 DEF FireOnce
    <3>2. QED
      BY <3>1, <1>1, <1>2 DEF Alarms
  <2>2. CASE FireRepeating
    <3>1. /\ expired' = expired /\ timer[t].interval_count # 0
          /\ \A a \in live :
               /\ timer'[a].interval_count = timer[a].interval_count
               /\ timer'[a].estimated_count =
                     IF a = t THEN timer[a].estimated_count + timer[a].interval_count
                     ELSE timer[a].estimated_count
      BY <2>2, FireRepeatingKeeps DEF FireRepeating, TimerInv, TimersTyped
    <3>2. QED
      BY <3>1, <1>1, <1>2 DEF Alarms
  <2>3. QED
    BY <2>1, <2>2
<1>5. Alarms' = [Alarms EXCEPT ![t].time = time]
  <2>1. DOMAIN Alarms' = DOMAIN Alarms
    BY <1>2 DEF Alarms
  <2>2. Alarms[t] = [time |-> Alarms[t].time, period |-> Alarms[t].period]
    BY <1>1, AlarmsAre
  <2> HIDE DEF time
  <2>3. [Alarms[t] EXCEPT !.time = time] = [time |-> time, period |-> Alarms[t].period]
    BY <2>2
  <2>4. \A a \in live \ creating : Alarms'[a] = [Alarms EXCEPT ![t].time = time][a]
    BY <1>1, <1>4, <2>3
  <2>5. Alarms = [a \in live \ creating |-> Alarms[a]] /\ Alarms' = [a \in live \ creating |-> Alarms'[a]]
    BY <1>2 DEF Alarms
  <2>6. QED
    BY <1>1, <2>1, <2>4, <2>5
<1>6. QED
  BY <1>1, <1>2, <1>3, <1>5 DEF Clock!Ring

(* The alarms depend on the timers that are set alone.                    *)
LEMMA AlarmsFrame ==
  ASSUME UNCHANGED <<live, creating, expired>>,
         \A a \in live \ creating : timer'[a] = timer[a]
  PROVE  Alarms' = Alarms
BY DEF Alarms

(* The list of timer.c implements the alarms of AlarmClock: each step on  *)
(* the list is a step of the clock or none.                               *)
THEOREM TimersImplementClock ==
  ASSUME TimerAssumption, ~DeletesExpired
  PROVE  Spec => ImplementsClock
<1>1. Init => Clock!Init
  <2> SUFFICES ASSUME Init
               PROVE  Clock!Init
    OBVIOUS
  <2>1. TimerInv /\ live = {main_timer} /\ creating = {} /\ expired = {}
    BY InitTimer DEF Init
  <2>2. timer[main_timer] \in Record /\ main_timer \in Address
    BY <2>1 DEF TimerInv, TimersTyped, Memory, TimerAssumption
  <2>3. Alarms \in [DOMAIN Alarms -> [time : Nat, period : Nat]]
    BY <2>1, <2>2 DEF Alarms, Record
  <2>4. QED
    BY <2>3 DEF Init, Clock!Init
<1>2. TimerInv /\ TimerInv' /\ [Next]_vars => [Clock!Next]_(Clock!vars)
  <2> SUFFICES ASSUME TimerInv, TimerInv', [Next]_vars
               PROVE  Clock!Next \/ UNCHANGED Clock!vars
    OBVIOUS
  <2>1. ASSUME NEW t \in Address, NEW delay \in Delays, NEW interval \in Intervals,
               AllocateTimer(t, delay, interval)
        PROVE  UNCHANGED Clock!vars
    <3>1. live' \ creating' = live \ creating /\ expired' = expired
      BY <2>1 DEF AllocateTimer, TimerInv, TimersTyped
    <3>2. \A a \in live \ creating : timer'[a] = timer[a]
      BY <2>1 DEF AllocateTimer, TimerInv, TimersTyped, Memory
    <3>3. Alarms' = Alarms
      BY <3>1, <3>2 DEF Alarms
    <3>4. QED
      BY <2>1, <3>3 DEF AllocateTimer, Clock!vars
  <2>2. ASSUME NEW t \in Address, InsertTimer(t)
        PROVE  Clock!Next
    BY <2>2, InsertSets DEF Clock!Next
  <2>3. ASSUME NEW t \in Address, DeleteTimer(t)
        PROVE  Clock!Next
    BY <2>3, DeleteCancels DEF Clock!Next
  <2>4. CASE CountTick
    <3>1. Alarms' = Alarms
      BY <2>4, AlarmsFrame DEF CountTick
    <3>2. Clock!Tick
      BY <2>4, <3>1 DEF CountTick, Clock!Tick
    <3>3. QED
      BY <3>2 DEF Clock!Next
  <2>5. CASE BeginFiring
    <3>1. Alarms' = Alarms
      BY <2>5, AlarmsFrame DEF BeginFiring
    <3>2. Clock!StartRinging
      BY <2>5, <3>1 DEF BeginFiring, Clock!StartRinging
    <3>3. QED
      BY <3>2 DEF Clock!Next
  <2>6. CASE FireOnce \/ FireRepeating
    <3>1. next_estimated_timer \in Address
      BY TheList
    <3>2. QED
      BY <2>6, <3>1, FireRings DEF Clock!Next
  <2>7. CASE EndTick
    <3>1. Alarms' = Alarms
      BY <2>7, AlarmsFrame DEF EndTick
    <3>2. next_estimated_timer \in Armed /\ next_estimated_timer # NULL
      BY TheList
    <3>3. \A i \in Armed : tick_count < timer[i].estimated_count
      <4>1. \A i \in Armed : timer[i].estimated_count \in Nat
        BY TheList DEF Memory, Record
      <4>2. tick_count \in Nat
        BY DEF TimerInv, TimersTyped, TimerAssumption
      <4>3. ~(timer[next_estimated_timer].estimated_count <= tick_count)
        BY <2>7, <3>2 DEF EndTick, Due
      <4>4. QED
        BY <3>2, <4>1, <4>2, <4>3, HeadFirst
    <3>4. \A i \in Clock!Armed : tick_count < Alarms[i].time
      BY <3>3, AlarmsAre
    <3>5. Clock!Settle
      BY <2>7, <3>1, <3>4 DEF EndTick, Clock!Settle
    <3>6. QED
      BY <3>5 DEF Clock!Next
  <2>8. CASE UNCHANGED vars
    <3>1. Alarms' = Alarms
      BY <2>8, AlarmsFrame DEF vars
    <3>2. QED
      BY <2>8, <3>1 DEF vars, Clock!vars
  <2>9. QED
    BY <2>1, <2>2, <2>3, <2>4, <2>5, <2>6, <2>7, <2>8 DEF Next
<1>3. QED
  BY <1>1, <1>2, TimerInvariant, PTL DEF Spec, ImplementsClock, Clock!Spec
=============================================================================
