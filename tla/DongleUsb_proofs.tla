-------------------------- MODULE DongleUsb_proofs --------------------------
(***************************************************************************)
(* What the dongle sends to the USB host, for every size of its queues and *)
(* every set of messages: a SysEx message is written from a slot that      *)
(* nobody reuses, is left open only by a host that stalls, and neither a   *)
(* full queue nor stale messages leave a note sounding or a controller at  *)
(* a value that is not its last.                                           *)
(*                                                                         *)
(* What waits for the host is one line of packets: those in TinyUSB's      *)
(* buffer and then those of the queue.  A step of the dongle takes some    *)
(* packets out of the line, adds one at its end, or moves one from the     *)
(* queue to the buffer; the proofs say what each does to the note or the   *)
(* controller that a packet is about.                                      *)
(***************************************************************************)
EXTENDS DongleUsb, SequencesExt, SequenceTheorems, FiniteSetTheorems, TLAPS

(* A set of natural numbers has a least one.                               *)
LEMMA LeastNat ==
    ASSUME NEW T \in SUBSET Nat, T # {}
    PROVE  \E n \in T : \A m \in T : n <= m
<1>1. PICK n \in T : \A m \in T : ~(<<m, n>> \in OpToRel(<, Nat))
  BY NatLessThanWellFounded, WFMin
<1>2. \A m \in T : ~(m < n)
  BY <1>1 DEF OpToRel
<1>3. QED
  BY <1>2

(* Where the entry i comes from when the entry r is taken out.             *)
Up(r, i) == IF i < r THEN i ELSE i + 1

LEMMA RemoveAtProperties ==
    ASSUME NEW S, NEW s \in Seq(S), NEW r \in 1..Len(s)
    PROVE  /\ RemoveAt(s, r) \in Seq(S)
           /\ Len(RemoveAt(s, r)) = Len(s) - 1
           /\ \A i \in 1..(Len(s) - 1) : RemoveAt(s, r)[i] = s[Up(r, i)]
<1> DEFINE a == SubSeq(s, 1, r - 1)
           b == SubSeq(s, r + 1, Len(s))
<1>1. /\ a \in Seq(S) /\ Len(a) = r - 1 /\ \A i \in 1..(r - 1) : a[i] = s[i]
      /\ b \in Seq(S) /\ Len(b) = Len(s) - r /\ \A i \in 1..(Len(s) - r) : b[i] = s[r + i]
  BY SubSeqProperties
<1> HIDE DEF a, b
<1>2. /\ a \o b \in Seq(S) /\ Len(a \o b) = Len(a) + Len(b)
      /\ \A i \in 1..(Len(a) + Len(b)) : (a \o b)[i] = IF i <= Len(a) THEN a[i] ELSE b[i - Len(a)]
  BY <1>1, ConcatProperties
<1>3. RemoveAt(s, r) = a \o b
  BY DEF RemoveAt, a, b
<1>4. \A i \in 1..(Len(s) - 1) : (a \o b)[i] = s[Up(r, i)]
  BY <1>1, <1>2 DEF Up
<1>5. QED
  BY <1>1, <1>2, <1>3, <1>4

-----------------------------------------------------------------------------
\* The queue, and what has been taken out of it.

(* An entry of the queue.                                                  *)
QueueEntry == [msg : Messages, age : 0..(StaleMs + 1)]

(* One queue has come out of another by taking entries out of it; f says   *)
(* where each one was.                                                     *)
Picks(q, r, f) ==
    /\ f \in [DOMAIN r -> DOMAIN q]
    /\ \A i, j \in DOMAIN r : i < j => f[i] < f[j]
    /\ \A i \in DOMAIN r : r[i].msg = q[f[i]].msg

(* The numbers of a set, in their order.                                   *)
Enumerates(f, m, K) ==
    /\ f \in [1..m -> K]
    /\ \A i, j \in 1..m : i < j => f[i] < f[j]
    /\ \A k \in K : \E i \in 1..m : f[i] = k

(* Every set of numbers up to n can be enumerated.                         *)
LEMMA EnumerationExists ==
    ASSUME NEW n \in Nat
    PROVE  \A K \in SUBSET (1..n) : \E m \in Nat : \E f : Enumerates(f, m, K)
<1> DEFINE Has(K) == \E m \in Nat : \E f : Enumerates(f, m, K)
           Bad == {k \in Nat : \E K \in SUBSET (1..k) : ~Has(K)}
<1>1. SUFFICES ASSUME Bad # {} PROVE FALSE
  OBVIOUS
<1>2. PICK k \in Bad : \A j \in Bad : k <= j
  BY <1>1, LeastNat
<1>3. PICK K \in SUBSET (1..k) : ~Has(K)
  BY <1>2
<1>4. CASE k = 0
  <2>1. K = {}
    BY <1>3, <1>4
  <2>2. Enumerates([i \in 1..0 |-> 0], 0, K)
    BY <2>1 DEF Enumerates
  <2>3. QED
    BY <1>3, <2>2
<1>5. CASE k > 0
  <2>1. k - 1 \in Nat /\ ~(k <= k - 1)
    BY <1>2, <1>5
  <2>2. k - 1 \notin Bad
    BY <1>2, <2>1
  <2>3. K \ {k} \in SUBSET (1..(k - 1))
    BY <1>2, <1>3
  <2>4. PICK m \in Nat : \E f : Enumerates(f, m, K \ {k})
    BY <2>1, <2>2, <2>3
  <2>10. PICK f : Enumerates(f, m, K \ {k})
    BY <2>4
  <2>5. CASE k \notin K
    <3>1. K \ {k} = K
      BY <2>5
    <3>2. QED
      BY <1>3, <2>10, <3>1
  <2>6. CASE k \in K
    <3> DEFINE g == [i \in 1..(m + 1) |-> IF i <= m THEN f[i] ELSE k]
    <3>1. \A i \in 1..m : i \in 1..(m + 1) /\ f[i] \in K /\ f[i] \in Int /\ f[i] < k /\ g[i] = f[i]
      <4>1. \A i \in 1..m : i \in 1..(m + 1) /\ i <= m
        OBVIOUS
      <4>2. \A x \in K \ {k} : x \in K /\ x \in Int /\ x < k
        BY <1>2, <1>3
      <4>3. \A i \in 1..m : f[i] \in K \ {k}
        BY <2>10 DEF Enumerates
      <4>4. QED
        BY <4>1, <4>2, <4>3
    <3>2. m + 1 \in 1..(m + 1) /\ g[m + 1] = k
      OBVIOUS
    <3>3. \A i \in 1..(m + 1) : i \in 1..m \/ i = m + 1
      OBVIOUS
    <3>4. g \in [1..(m + 1) -> K]
      <4>1. \A i \in 1..(m + 1) : g[i] \in K
        BY <2>6, <3>1, <3>2, <3>3
      <4>2. QED
        BY <4>1
    <3>5. ASSUME NEW i \in 1..(m + 1), NEW j \in 1..(m + 1), i < j PROVE g[i] < g[j]
      <4>1. i \in 1..m
        BY <3>5
      <4>2. CASE j = m + 1
        BY <3>1, <3>2, <4>1, <4>2
      <4>3. CASE j \in 1..m
        BY <2>10, <3>1, <3>5, <4>1, <4>3 DEF Enumerates
      <4>4. QED
        BY <3>3, <4>2, <4>3
    <3>6. ASSUME NEW x \in K PROVE \E i \in 1..(m + 1) : g[i] = x
      <4>1. CASE x = k
        BY <3>2, <4>1
      <4>2. CASE x # k
        <5>1. PICK i \in 1..m : f[i] = x
          BY <2>10, <4>2, <3>6 DEF Enumerates
        <5>2. QED
          BY <3>1, <5>1
      <4>3. QED
        BY <4>1, <4>2
    <3> HIDE DEF g
    <3>7. Enumerates(g, m + 1, K)
      BY <3>4, <3>5, <3>6 DEF Enumerates
    <3>8. m + 1 \in Nat
      OBVIOUS
    <3>9. QED
      BY <1>3, <3>7, <3>8
  <2>7. QED
    BY <2>5, <2>6
<1>6. QED
  BY <1>2, <1>4, <1>5

(* It has as many positions as the set has members.                        *)
LEMMA EnumerationLength ==
    ASSUME NEW n \in Nat, NEW K \in SUBSET (1..n)
    PROVE  /\ Cardinality(K) \in Nat /\ Cardinality(K) <= n
           /\ \E f : Enumerates(f, Cardinality(K), K)
           /\ \A f \in [1..Cardinality(K) -> K] :
                (\A i, j \in 1..Cardinality(K) : i < j => f[i] < f[j])
                  => Enumerates(f, Cardinality(K), K)
<1>1. IsFiniteSet(1..n) /\ Cardinality(1..n) = n
  <2>1. PICK a \in Int, b \in Int : a = 1 /\ b = n
    OBVIOUS
  <2>2. IsFiniteSet(a..b) /\ Cardinality(a..b) = IF a > b THEN 0 ELSE b - a + 1
    BY FS_Interval
  <2>3. QED
    BY <2>1, <2>2
<1>2. IsFiniteSet(K) /\ Cardinality(K) <= n /\ Cardinality(K) \in Nat
  BY <1>1, FS_Subset, FS_CardinalityType
<1>3. PICK m \in Nat : \E g : Enumerates(g, m, K)
  BY EnumerationExists
<1>9. PICK g : Enumerates(g, m, K)
  BY <1>3
<1>4. \A k \in Nat : IsFiniteSet(1..k) /\ Cardinality(1..k) = k
  <2> SUFFICES ASSUME NEW k \in Nat PROVE IsFiniteSet(1..k) /\ Cardinality(1..k) = k
    OBVIOUS
  <2>1. PICK a \in Int, b \in Int : a = 1 /\ b = k
    OBVIOUS
  <2>2. IsFiniteSet(a..b) /\ Cardinality(a..b) = IF a > b THEN 0 ELSE b - a + 1
    BY FS_Interval
  <2>3. QED
    BY <2>1, <2>2
<1>5. \A k \in Nat : \A f \in [1..k -> K] :
        (\A i, j \in 1..k : i < j => f[i] < f[j]) => f \in Injection(1..k, K)
  <2> SUFFICES ASSUME NEW k \in Nat, NEW f \in [1..k -> K], \A i, j \in 1..k : i < j => f[i] < f[j]
               PROVE  f \in Injection(1..k, K)
    OBVIOUS
  <2>1. \A x \in K : x \in Int
    OBVIOUS
  <2>3. \A i \in 1..k : f[i] \in K /\ i \in Int
    OBVIOUS
  <2>4. \A i \in 1..k : f[i] \in Int /\ i \in Int
    BY <2>1, <2>3
  <2>2. \A i, j \in 1..k : f[i] = f[j] => i = j
    BY <2>4
  <2>5. QED
    BY <2>2 DEF Injection, IsInjective
<1>6. Cardinality(K) = m
  <2>1. g \in Injection(1..m, K) /\ g \in Surjection(1..m, K)
    BY <1>9, <1>5 DEF Enumerates, Surjection
  <2>2. ExistsBijection(1..m, K)
    BY <2>1 DEF ExistsBijection, Bijection
  <2>3. QED
    BY <1>4, <2>2, FS_Bijection
<1>7. ASSUME NEW f \in [1..Cardinality(K) -> K],
             \A i, j \in 1..Cardinality(K) : i < j => f[i] < f[j]
      PROVE  Enumerates(f, Cardinality(K), K)
  <2>1. f \in Injection(1..Cardinality(K), K)
    BY <1>2, <1>5, <1>7
  <2>2. f \in Surjection(1..Cardinality(K), K)
    BY <1>2, <1>4, <2>1, FS_Injection
  <2>3. QED
    BY <1>7, <2>2 DEF Enumerates, Surjection
<1>8. QED
  BY <1>2, <1>9, <1>6, <1>7

(* The entries of r are those of q, some perhaps missing, but none of the  *)
(* ones at the positions T.                                                *)
Keeping(q, r, T) ==
    \E f : Picks(q, r, f) /\ \A k \in T : \E i \in DOMAIN r : f[i] = k

Releasing(q) == {k \in DOMAIN q : IsRelease(q[k].msg)}
Latest(q) == {k \in DOMAIN q : IsState(q[k].msg) /\ ~HasNewerState(q, k)}

(* compactStaleLocked() keeps releases and the latest values.              *)
LEMMA CompactStaleKeeps ==
    ASSUME NEW q \in Seq(QueueEntry)
    PROVE  /\ CompactStale(q) \in Seq(QueueEntry)
           /\ Len(CompactStale(q)) <= Len(q)
           /\ Keeping(q, CompactStale(q), Releasing(q) \cup Latest(q))
<1>1. Len(q) \in Nat /\ DOMAIN q = 1..Len(q) /\ \A k \in 1..Len(q) : q[k] \in QueueEntry
  BY LenProperties
<1>2. PICK K : K = {k \in 1..Len(q) : Keeps(q, k)}
  OBVIOUS
<1>3. K \in SUBSET (1..Len(q))
  BY <1>2
<1>4. PICK c : c = Cardinality(K)
  OBVIOUS
<1>5. PICK f : f = CHOOSE g \in [1..c -> K] : \A i, j \in DOMAIN g : i < j => g[i] < g[j]
  OBVIOUS
<1>6. c \in Nat /\ c <= Len(q)
  BY <1>1, <1>3, <1>4, EnumerationLength
<1>7. Enumerates(f, c, K)
  <2>1. PICK h : Enumerates(h, c, K)
    BY <1>1, <1>3, <1>4, EnumerationLength
  <2>2. h \in [1..c -> K] /\ \A i, j \in DOMAIN h : i < j => h[i] < h[j]
    BY <2>1 DEF Enumerates
  <2>3. f \in [1..c -> K] /\ \A i, j \in DOMAIN f : i < j => f[i] < f[j]
    BY <1>5, <2>2
  <2>4. \A i, j \in 1..c : i < j => f[i] < f[j]
    BY <2>3
  <2>5. QED
    BY <1>1, <1>3, <1>4, <2>3, <2>4, EnumerationLength
<1>8. PICK r : r = CompactStale(q)
  OBVIOUS
<1>9. r = [i \in 1..c |-> q[f[i]]]
  BY <1>2, <1>4, <1>5, <1>8 DEF CompactStale
<1>10. \A i \in 1..c : f[i] \in 1..Len(q) /\ f[i] \in DOMAIN q /\ q[f[i]] \in QueueEntry
  BY <1>1, <1>3, <1>7 DEF Enumerates
<1>11. r \in Seq(QueueEntry) /\ Len(r) = c /\ DOMAIN r = 1..c
  BY <1>6, <1>9, <1>10
<1>12. Picks(q, r, f)
  <2>1. \A i, j \in 1..c : i < j => f[i] < f[j]
    BY <1>7 DEF Enumerates
  <2>2. \A i \in 1..c : r[i].msg = q[f[i]].msg
    BY <1>9
  <2>3. f \in [1..c -> DOMAIN q]
    BY <1>7, <1>10 DEF Enumerates
  <2>4. QED
    BY <1>11, <2>1, <2>2, <2>3 DEF Picks
<1>13. ASSUME NEW k \in Releasing(q) \cup Latest(q) PROVE \E i \in DOMAIN r : f[i] = k
  <2>1. k \in K
    BY <1>1, <1>2, <1>13 DEF Releasing, Latest, Keeps
  <2>2. QED
    BY <1>7, <1>11, <2>1 DEF Enumerates
<1>14. Keeping(q, r, Releasing(q) \cup Latest(q))
  BY <1>12, <1>13 DEF Keeping
<1>15. QED
  BY <1>6, <1>8, <1>11, <1>14

(* Nothing is missing when nothing is taken out.                           *)
LEMMA KeepingAll ==
    ASSUME NEW q \in Seq(QueueEntry), NEW r \in Seq(QueueEntry), Len(r) = Len(q),
           \A k \in 1..Len(q) : r[k].msg = q[k].msg
    PROVE  Keeping(q, r, DOMAIN q)
<1>1. Len(q) \in Nat /\ DOMAIN q = 1..Len(q) /\ DOMAIN r = 1..Len(q)
  BY LenProperties
<1> DEFINE f == [k \in 1..Len(q) |-> k]
<1>2. f \in [1..Len(q) -> 1..Len(q)] /\ \A k \in 1..Len(q) : f[k] = k
  OBVIOUS
<1> HIDE DEF f
<1>3. Picks(q, r, f)
  BY <1>1, <1>2 DEF Picks
<1>4. QED
  BY <1>1, <1>2, <1>3 DEF Keeping

(* What is kept of many positions is kept of fewer.                        *)
LEMMA KeepingFewer ==
    ASSUME NEW q, NEW r, NEW T, NEW U, Keeping(q, r, T), U \subseteq T
    PROVE  Keeping(q, r, U)
BY DEF Keeping

(* dropStale() keeps them as well, of whatever age.                        *)
LEMMA DropStaleKeeps ==
    ASSUME NEW q \in Seq(QueueEntry)
    PROVE  /\ DropStale(q) \in Seq(QueueEntry)
           /\ Len(DropStale(q)) <= Len(q)
           /\ Keeping(q, DropStale(q), Releasing(q) \cup Latest(q))
<1>1. Len(q) \in Nat /\ Len(q) <= Len(q)
  BY LenProperties
<1>2. Releasing(q) \cup Latest(q) \subseteq DOMAIN q
  BY DEF Releasing, Latest
<1>3. Keeping(q, q, Releasing(q) \cup Latest(q))
  BY <1>2, KeepingAll, KeepingFewer
<1>4. DropStale(q) = q \/ DropStale(q) = CompactStale(q)
  BY DEF DropStale
<1>5. QED
  BY <1>1, <1>3, <1>4, CompactStaleKeeps

(* Entries age.                                                            *)
LEMMA AgedKeeps ==
    ASSUME NEW q \in Seq(QueueEntry)
    PROVE  /\ Aged(q) \in Seq(QueueEntry) /\ Len(Aged(q)) = Len(q)
           /\ \A k \in 1..Len(q) : Aged(q)[k].msg = q[k].msg
<1>1. Len(q) \in Nat /\ \A k \in 1..Len(q) : q[k] \in QueueEntry
  BY LenProperties
<1>2. ASSUME NEW k \in 1..Len(q)
      PROVE  [q[k] EXCEPT !.age = Older(@)] \in QueueEntry
             /\ [q[k] EXCEPT !.age = Older(@)].msg = q[k].msg
  BY <1>1, QueueAssumption DEF QueueEntry, Older
<1>3. PICK r : r = Aged(q)
  OBVIOUS
<1>4. DOMAIN r = 1..Len(q) /\ \A k \in 1..Len(q) : r[k] = [q[k] EXCEPT !.age = Older(@)]
  BY <1>3 DEF Aged
<1>5. r = [k \in 1..Len(q) |-> r[k]]
  BY <1>3, <1>4 DEF Aged
<1>6. \A k \in 1..Len(q) : r[k] \in QueueEntry /\ r[k].msg = q[k].msg
  BY <1>2, <1>4
<1>7. r \in Seq(QueueEntry) /\ Len(r) = Len(q)
  BY <1>1, <1>5, <1>6
<1>8. QED
  BY <1>3, <1>6, <1>7

(* evictOldestDroppableLocked() takes out an entry that is no release.     *)
LEMMA EvictionKeeps ==
    ASSUME NEW q \in Seq(QueueEntry), ~AllReleases(q)
    PROVE  LET r == RemoveAt(q, FirstDroppable(q))
           IN  r \in Seq(QueueEntry) /\ Len(r) = Len(q) - 1 /\ Keeping(q, r, Releasing(q))
<1>1. Len(q) \in Nat /\ DOMAIN q = 1..Len(q)
  BY LenProperties
<1>2. PICK T : T = {k \in 1..Len(q) : ~IsRelease(q[k].msg)}
  OBVIOUS
<1>3. T \in SUBSET Nat /\ T # {}
  BY <1>1, <1>2 DEF AllReleases
<1>4. PICK k \in T : \A j \in T : k <= j
  BY <1>3, LeastNat
<1>5. k \in 1..Len(q) /\ ~IsRelease(q[k].msg) /\ \A j \in 1..(k - 1) : IsRelease(q[j].msg)
  BY <1>1, <1>2, <1>4
<1>6. PICK d : d = FirstDroppable(q)
  OBVIOUS
<1>7. d \in 1..Len(q) /\ ~IsRelease(q[d].msg)
  BY <1>5, <1>6 DEF FirstDroppable
<1>8. PICK r : r = RemoveAt(q, d)
  OBVIOUS
<1>9. /\ r \in Seq(QueueEntry) /\ Len(r) = Len(q) - 1
      /\ \A i \in 1..(Len(q) - 1) : r[i] = q[Up(d, i)]
  BY <1>7, <1>8, RemoveAtProperties
<1>10. DOMAIN r = 1..(Len(q) - 1)
  BY <1>9, LenProperties
<1> DEFINE f == [i \in 1..(Len(q) - 1) |-> Up(d, i)]
<1>11. \A i \in 1..(Len(q) - 1) : f[i] \in 1..Len(q) /\ f[i] = Up(d, i)
  BY <1>1, <1>7 DEF Up
<1>12. f \in [1..(Len(q) - 1) -> 1..Len(q)]
  BY <1>11
<1> HIDE DEF f
<1>13. \A i, j \in 1..(Len(q) - 1) : i < j => f[i] < f[j]
  BY <1>1, <1>7, <1>11 DEF Up
<1>14. Picks(q, r, f)
  BY <1>1, <1>9, <1>10, <1>11, <1>12, <1>13 DEF Picks
<1>15. ASSUME NEW x \in Releasing(q) PROVE \E i \in DOMAIN r : f[i] = x
  <2>1. x \in 1..Len(q) /\ x # d
    BY <1>1, <1>7 DEF Releasing
  <2>2. CASE x < d
    <3>1. x \in 1..(Len(q) - 1) /\ Up(d, x) = x
      BY <1>1, <1>7, <2>1, <2>2 DEF Up
    <3>2. QED
      BY <1>10, <1>11, <3>1
  <2>3. CASE x > d
    <3>1. x - 1 \in 1..(Len(q) - 1) /\ Up(d, x - 1) = x
      BY <1>1, <1>7, <2>1, <2>3 DEF Up
    <3>2. QED
      BY <1>10, <1>11, <3>1
  <2>4. QED
    BY <1>7, <2>1, <2>2, <2>3
<1>16. Keeping(q, r, Releasing(q))
  BY <1>14, <1>15 DEF Keeping
<1>17. QED
  BY <1>6, <1>8, <1>9, <1>16

(* What enqueue() does with a message.                                     *)
LEMMA EnqueueCases ==
    ASSUME NEW q \in Seq(QueueEntry), Len(q) <= Capacity, NEW m \in Messages
    PROVE  /\ Entry(m) \in QueueEntry /\ Entry(m).msg = m
           /\ Enqueue(q, m) \in Seq(QueueEntry) /\ Len(Enqueue(q, m)) <= Capacity
           /\ Len(q) # Capacity => Enqueue(q, m) = Append(q, Entry(m))
           /\ \/ AllReleases(q) /\ Len(q) = Capacity /\ (IsRelease(m) \/ Enqueue(q, m) = q)
              \/ \E r \in Seq(QueueEntry) : /\ Enqueue(q, m) = Append(r, Entry(m))
                                            /\ Keeping(q, r, Releasing(q))
<1>1. Len(q) \in Nat /\ Capacity \in Nat /\ Capacity > 0
  BY LenProperties, QueueAssumption
<1>2. Entry(m) \in QueueEntry /\ Entry(m).msg = m
  BY QueueAssumption DEF Entry, QueueEntry
<1>3. CASE Len(q) < Capacity
  <2>1. Enqueue(q, m) = Append(q, Entry(m))
    BY <1>3 DEF Enqueue
  <2>2. Enqueue(q, m) \in Seq(QueueEntry) /\ Len(Enqueue(q, m)) = Len(q) + 1
    BY <1>2, <2>1, AppendProperties
  <2>3. Releasing(q) \subseteq DOMAIN q
    BY DEF Releasing
  <2>4. Keeping(q, q, Releasing(q))
    BY <2>3, KeepingAll, KeepingFewer
  <2>5. QED
    BY <1>1, <1>2, <1>3, <2>1, <2>2, <2>4
<1>4. CASE Len(q) = Capacity /\ ~AllReleases(q)
  <2>1. PICK r : r = RemoveAt(q, FirstDroppable(q))
    OBVIOUS
  <2>2. r \in Seq(QueueEntry) /\ Len(r) = Len(q) - 1 /\ Keeping(q, r, Releasing(q))
    BY <1>4, <2>1, EvictionKeeps
  <2>3. Enqueue(q, m) = Append(r, Entry(m))
    BY <1>1, <1>4, <2>1 DEF Enqueue
  <2>4. Enqueue(q, m) \in Seq(QueueEntry) /\ Len(Enqueue(q, m)) = Len(r) + 1
    BY <1>2, <2>2, <2>3, AppendProperties
  <2>5. QED
    BY <1>1, <1>2, <1>4, <2>2, <2>3, <2>4
<1>5. CASE Len(q) = Capacity /\ AllReleases(q)
  <2>1. CASE IsRelease(m)
    <3>1. Enqueue(q, m) = Append(Tail(q), Entry(m))
      BY <1>1, <1>5, <2>1 DEF Enqueue
    <3>2. q # <<>>
      BY <1>1, <1>5, EmptySeq
    <3>3. Tail(q) \in Seq(QueueEntry) /\ Len(Tail(q)) = Len(q) - 1
      BY <3>2, HeadTailProperties
    <3>4. Enqueue(q, m) \in Seq(QueueEntry) /\ Len(Enqueue(q, m)) = Len(Tail(q)) + 1
      BY <1>2, <3>1, <3>3, AppendProperties
    <3>5. QED
      BY <1>1, <1>2, <1>5, <2>1, <3>3, <3>4
  <2>2. CASE ~IsRelease(m)
    <3>1. Enqueue(q, m) = q
      BY <1>1, <1>5, <2>2 DEF Enqueue
    <3>2. QED
      BY <1>1, <1>2, <1>5, <3>1
  <2>3. QED
    BY <2>1, <2>2
<1>6. QED
  BY <1>1, <1>3, <1>4, <1>5

-----------------------------------------------------------------------------
\* The line of packets that wait for the host.

(* The packets of a buffer and then those of a queue.                      *)
Line(buf, q) == buf \o [k \in 1..Len(q) |-> Packet(q[k].msg)]

(* What waits for the host is a line.                                      *)
LEMMA WaitingIsLine == Waiting = Line(fifo, queue) /\ Waiting' = Line(fifo', queue')
BY DEF Waiting, Line

(* Where the packets of a line are.                                        *)
LEMMA LineProperties ==
    ASSUME NEW buf \in Seq(Packets), NEW q \in Seq(QueueEntry)
    PROVE  /\ Line(buf, q) \in Seq(Packets)
           /\ Len(buf) \in Nat /\ Len(q) \in Nat /\ Len(Line(buf, q)) = Len(buf) + Len(q)
           /\ DOMAIN Line(buf, q) = 1..(Len(buf) + Len(q))
           /\ \A k \in 1..Len(buf) : Line(buf, q)[k] = buf[k]
           /\ \A k \in 1..Len(q) : Line(buf, q)[Len(buf) + k] = Packet(q[k].msg)
<1>1. Len(buf) \in Nat /\ Len(q) \in Nat /\ \A k \in 1..Len(q) : q[k] \in QueueEntry
  BY LenProperties
<1>2. PICK p : p = [k \in 1..Len(q) |-> Packet(q[k].msg)]
  OBVIOUS
<1>3. \A k \in 1..Len(q) : Packet(q[k].msg) \in Packets /\ p[k] = Packet(q[k].msg)
  BY <1>1, <1>2 DEF QueueEntry, Packet, Packets
<1>4. p \in Seq(Packets) /\ Len(p) = Len(q)
  BY <1>1, <1>2, <1>3
<1>5. Line(buf, q) = buf \o p
  BY <1>2 DEF Line
<1>6. /\ buf \o p \in Seq(Packets) /\ Len(buf \o p) = Len(buf) + Len(q)
      /\ \A k \in 1..(Len(buf) + Len(q)) :
           (buf \o p)[k] = IF k <= Len(buf) THEN buf[k] ELSE p[k - Len(buf)]
  <2>1. PICK n : n = Len(q)
    OBVIOUS
  <2>2. /\ buf \o p \in Seq(Packets) /\ Len(buf \o p) = Len(buf) + Len(p)
        /\ \A k \in 1..(Len(buf) + Len(p)) :
             (buf \o p)[k] = IF k <= Len(buf) THEN buf[k] ELSE p[k - Len(buf)]
    BY <1>4, ConcatProperties
  <2>3. Len(p) = n
    BY <1>4, <2>1
  <2>4. QED
    BY <2>1, <2>2, <2>3
<1>7. DOMAIN (buf \o p) = 1..(Len(buf) + Len(q))
  BY <1>6, LenProperties
<1>8. ASSUME NEW k \in 1..Len(buf) PROVE (buf \o p)[k] = buf[k]
  <2>1. k \in 1..(Len(buf) + Len(q)) /\ k <= Len(buf)
    BY <1>1
  <2>2. QED
    BY <1>6, <2>1
<1>9. ASSUME NEW k \in 1..Len(q) PROVE (buf \o p)[Len(buf) + k] = Packet(q[k].msg)
  <2>1. /\ Len(buf) + k \in 1..(Len(buf) + Len(q)) /\ ~(Len(buf) + k <= Len(buf))
        /\ (Len(buf) + k) - Len(buf) = k
    BY <1>1
  <2>2. QED
    BY <1>3, <1>6, <2>1
<1>10. QED
  BY <1>1, <1>5, <1>6, <1>7, <1>8, <1>9

(* A message that joins the queue is the last to arrive.                   *)
LEMMA LineAppend ==
    ASSUME NEW buf \in Seq(Packets), NEW q \in Seq(QueueEntry), NEW e \in QueueEntry
    PROVE  Line(buf, Append(q, e)) = Append(Line(buf, q), Packet(e.msg))
<1>1. /\ Append(q, e) \in Seq(QueueEntry) /\ Len(Append(q, e)) = Len(q) + 1
      /\ \A k \in 1..Len(q) : Append(q, e)[k] = q[k]
      /\ Append(q, e)[Len(q) + 1] = e
  BY AppendProperties
<1>2. PICK r \in Seq(QueueEntry) : r = Append(q, e)
  BY <1>1
<1>3. PICK w \in Seq(Packets) : w = Line(buf, q)
  BY LineProperties
<1>4. /\ Len(buf) \in Nat /\ Len(q) \in Nat /\ Len(w) = Len(buf) + Len(q)
      /\ \A k \in 1..Len(buf) : w[k] = buf[k]
      /\ \A k \in 1..Len(q) : w[Len(buf) + k] = Packet(q[k].msg)
  BY <1>3, LineProperties
<1>5. PICK x \in Seq(Packets) : x = Line(buf, r)
  BY LineProperties
<1>6. /\ Len(x) = Len(buf) + (Len(q) + 1)
      /\ \A k \in 1..Len(buf) : x[k] = buf[k]
      /\ \A k \in 1..(Len(q) + 1) : x[Len(buf) + k] = Packet(r[k].msg)
  <2>1. PICK n, m : n = Len(buf) /\ m = Len(q) + 1
    OBVIOUS
  <2>2. /\ Len(x) = Len(buf) + Len(r)
        /\ \A k \in 1..Len(buf) : x[k] = buf[k]
        /\ \A k \in 1..Len(r) : x[Len(buf) + k] = Packet(r[k].msg)
    BY <1>5, LineProperties
  <2>3. Len(buf) = n /\ Len(r) = m
    BY <1>1, <1>2, <2>1
  <2>4. QED
    BY <2>1, <2>2, <2>3
<1>7. Packet(e.msg) \in Packets
  BY DEF QueueEntry, Packet, Packets
<1>8. PICK y \in Seq(Packets) : y = Append(w, Packet(e.msg))
  BY <1>7, AppendProperties
<1>9. /\ Len(y) = Len(w) + 1 /\ y[Len(w) + 1] = Packet(e.msg)
      /\ \A k \in 1..Len(w) : y[k] = w[k]
  BY <1>7, <1>8, AppendProperties
<1>10. ASSUME NEW k \in 1..Len(x) PROVE x[k] = y[k]
  <2>1. CASE k \in 1..Len(buf)
    <3>1. k \in 1..Len(w)
      BY <1>4, <2>1
    <3>2. QED
      BY <1>4, <1>6, <1>9, <2>1, <3>1
  <2>2. CASE k = Len(w) + 1
    <3>1. Len(q) + 1 \in 1..(Len(q) + 1) /\ Len(w) + 1 = Len(buf) + (Len(q) + 1)
      BY <1>4
    <3>2. r[Len(q) + 1] = e
      BY <1>1, <1>2
    <3>3. QED
      BY <1>6, <1>9, <2>2, <3>1, <3>2
  <2>3. CASE k \notin 1..Len(buf) /\ k # Len(w) + 1
    <3>5. k \in 1..(Len(buf) + (Len(q) + 1))
      BY <1>6
    <3>6. k - Len(buf) \in Int
      BY <1>4, <3>5
    <3>1. PICK j \in Int : j = k - Len(buf)
      BY <3>6
    <3>2. /\ j \in 1..Len(q) /\ j \in 1..(Len(q) + 1) /\ k = Len(buf) + j /\ k \in 1..Len(w)
      BY <1>4, <2>3, <3>1, <3>5
    <3>3. r[j] = q[j]
      BY <1>1, <1>2, <3>2
    <3>4. QED
      BY <1>4, <1>6, <1>9, <3>2, <3>3
  <2>4. QED
    BY <2>1, <2>2, <2>3
<1>11. Len(x) = Len(y)
  BY <1>4, <1>6, <1>9
<1>12. x = y
  BY <1>10, <1>11, SeqEqual
<1>13. QED
  BY <1>2, <1>3, <1>5, <1>8, <1>12

(* Nothing changes when the head of the queue is written to the buffer.    *)
LEMMA LineMove ==
    ASSUME NEW buf \in Seq(Packets), NEW q \in Seq(QueueEntry), q # <<>>
    PROVE  Line(Append(buf, Packet(q[1].msg)), Tail(q)) = Line(buf, q)
<1>1. /\ Len(q) \in Nat /\ Len(q) > 0 /\ q[1] \in QueueEntry
      /\ Tail(q) \in Seq(QueueEntry) /\ Len(Tail(q)) = Len(q) - 1
      /\ \A k \in 1..(Len(q) - 1) : Tail(q)[k] = q[k + 1]
  OBVIOUS
<1>2. Packet(q[1].msg) \in Packets
  BY <1>1 DEF QueueEntry, Packet, Packets
<1>3. PICK r \in Seq(QueueEntry) : r = Tail(q)
  BY <1>1
<1>4. PICK b \in Seq(Packets) : b = Append(buf, Packet(q[1].msg))
  BY <1>2, AppendProperties
<1>5. /\ Len(b) = Len(buf) + 1 /\ b[Len(buf) + 1] = Packet(q[1].msg)
      /\ \A k \in 1..Len(buf) : b[k] = buf[k]
  BY <1>2, <1>4, AppendProperties
<1>6. PICK w \in Seq(Packets) : w = Line(buf, q)
  BY LineProperties
<1>7. /\ Len(buf) \in Nat /\ Len(w) = Len(buf) + Len(q)
      /\ \A k \in 1..Len(buf) : w[k] = buf[k]
      /\ \A k \in 1..Len(q) : w[Len(buf) + k] = Packet(q[k].msg)
  BY <1>6, LineProperties
<1>8. PICK x \in Seq(Packets) : x = Line(b, r)
  BY LineProperties
<1>9. /\ Len(x) = (Len(buf) + 1) + (Len(q) - 1)
      /\ \A k \in 1..(Len(buf) + 1) : x[k] = b[k]
      /\ \A k \in 1..(Len(q) - 1) : x[(Len(buf) + 1) + k] = Packet(r[k].msg)
  <2>1. PICK n, m : n = Len(buf) + 1 /\ m = Len(q) - 1
    OBVIOUS
  <2>2. /\ Len(x) = Len(b) + Len(r)
        /\ \A k \in 1..Len(b) : x[k] = b[k]
        /\ \A k \in 1..Len(r) : x[Len(b) + k] = Packet(r[k].msg)
    BY <1>8, LineProperties
  <2>3. Len(b) = n /\ Len(r) = m
    BY <1>1, <1>3, <1>5, <2>1
  <2>4. QED
    BY <2>1, <2>2, <2>3
<1>10. ASSUME NEW k \in 1..Len(x) PROVE x[k] = w[k]
  <2>1. CASE k \in 1..Len(buf)
    <3>1. k \in 1..(Len(buf) + 1)
      BY <1>7, <2>1
    <3>2. QED
      BY <1>5, <1>7, <1>9, <2>1, <3>1
  <2>2. CASE k = Len(buf) + 1
    <3>1. k \in 1..(Len(buf) + 1) /\ 1 \in 1..Len(q)
      BY <1>1, <1>7, <2>2
    <3>2. QED
      BY <1>5, <1>7, <1>9, <2>2, <3>1
  <2>3. CASE k \notin 1..Len(buf) /\ k # Len(buf) + 1
    <3>7. k \in 1..((Len(buf) + 1) + (Len(q) - 1))
      BY <1>9
    <3>8. k - (Len(buf) + 1) \in Int
      BY <1>7, <3>7
    <3>1. PICK j \in Int : j = k - (Len(buf) + 1)
      BY <3>8
    <3>2. /\ j \in 1..(Len(q) - 1) /\ j + 1 \in 1..Len(q)
          /\ k = (Len(buf) + 1) + j /\ k = Len(buf) + (j + 1)
      BY <1>1, <1>7, <2>3, <3>1, <3>7
    <3>3. r[j] = q[j + 1]
      BY <1>1, <1>3, <3>2
    <3>4. x[k] = Packet(q[j + 1].msg)
      BY <1>9, <3>2, <3>3
    <3>5. w[k] = Packet(q[j + 1].msg)
      BY <1>7, <3>2
    <3>6. QED
      BY <3>4, <3>5
  <2>4. QED
    BY <2>1, <2>2, <2>3
<1>11. Len(x) = Len(w)
  BY <1>1, <1>7, <1>9
<1>12. x = w
  BY <1>10, <1>11, SeqEqual
<1>13. QED
  BY <1>3, <1>4, <1>6, <1>8, <1>12

(* What the host reads is the first.                                       *)
LEMMA LineTail ==
    ASSUME NEW buf \in Seq(Packets), NEW q \in Seq(QueueEntry), buf # <<>>
    PROVE  /\ Line(buf, q) # <<>> /\ Head(Line(buf, q)) = Head(buf)
           /\ Line(Tail(buf), q) = Tail(Line(buf, q))
<1>1. PICK p : p = [k \in 1..Len(q) |-> Packet(q[k].msg)]
  OBVIOUS
<1>2. p \in Seq(Packets)
  <2>1. \A k \in 1..Len(q) : q[k] \in QueueEntry
    BY LenProperties
  <2>2. \A k \in 1..Len(q) : Packet(q[k].msg) \in Packets
    BY <2>1 DEF QueueEntry, Packet, Packets
  <2>3. Len(q) \in Nat
    BY LenProperties
  <2>4. QED
    BY <1>1, <2>2, <2>3
<1>3. PICK w \in Seq(Packets) : w = buf \o p
  BY <1>2, ConcatProperties
<1>4. PICK t \in Seq(Packets) : t = Tail(buf)
  BY HeadTailProperties
<1>5. PICK x \in Seq(Packets) : x = t \o p
  BY <1>2, ConcatProperties
<1>6. /\ Len(buf) \in Nat /\ Len(buf) > 0 /\ Len(p) \in Nat /\ Head(buf) = buf[1]
      /\ Len(t) = Len(buf) - 1 /\ \A k \in 1..(Len(buf) - 1) : t[k] = buf[k + 1]
  BY <1>2, <1>4
<1>7. /\ Len(w) = Len(buf) + Len(p)
      /\ \A k \in 1..(Len(buf) + Len(p)) : w[k] = IF k <= Len(buf) THEN buf[k] ELSE p[k - Len(buf)]
  BY <1>2, <1>3, ConcatProperties
<1>8. /\ Len(x) = (Len(buf) - 1) + Len(p)
      /\ \A k \in 1..((Len(buf) - 1) + Len(p)) :
           x[k] = IF k <= Len(buf) - 1 THEN t[k] ELSE p[k - (Len(buf) - 1)]
  <2>1. PICK n : n = Len(buf) - 1
    OBVIOUS
  <2>2. /\ Len(x) = Len(t) + Len(p)
        /\ \A k \in 1..(Len(t) + Len(p)) : x[k] = IF k <= Len(t) THEN t[k] ELSE p[k - Len(t)]
    BY <1>2, <1>5, ConcatProperties
  <2>3. Len(t) = n
    BY <1>6, <2>1
  <2>4. QED
    BY <2>1, <2>2, <2>3
<1>9. w # <<>> /\ Head(w) = buf[1]
  <2>1. Len(w) > 0 /\ 1 \in 1..(Len(buf) + Len(p)) /\ 1 <= Len(buf)
    BY <1>6, <1>7
  <2>2. w[1] = buf[1]
    BY <1>7, <2>1
  <2>3. w # <<>>
    BY <2>1, <1>6, <1>7, EmptySeq
  <2>4. QED
    BY <2>2, <2>3
<1>10. PICK y \in Seq(Packets) : y = Tail(w)
  BY <1>9, HeadTailProperties
<1>11. Len(y) = Len(w) - 1 /\ \A k \in 1..(Len(w) - 1) : y[k] = w[k + 1]
  BY <1>9, <1>10, HeadTailProperties
<1>12. Len(x) = Len(y)
  BY <1>6, <1>7, <1>8, <1>11
<1>13. ASSUME NEW k \in 1..Len(x) PROVE x[k] = y[k]
  <2>1. /\ k \in 1..(Len(w) - 1) /\ k \in 1..((Len(buf) - 1) + Len(p))
        /\ k + 1 \in 1..(Len(buf) + Len(p))
        /\ k - (Len(buf) - 1) = (k + 1) - Len(buf)
    BY <1>6, <1>7, <1>8
  <2>2. y[k] = w[k + 1]
    BY <1>11, <2>1
  <2>3. CASE k <= Len(buf) - 1
    <3>1. k + 1 <= Len(buf) /\ k \in 1..(Len(buf) - 1)
      BY <1>6, <2>3
    <3>2. x[k] = buf[k + 1]
      BY <1>6, <1>8, <2>1, <2>3, <3>1
    <3>3. w[k + 1] = buf[k + 1]
      BY <1>7, <2>1, <3>1
    <3>4. QED
      BY <2>2, <3>2, <3>3
  <2>4. CASE ~(k <= Len(buf) - 1)
    <3>1. ~(k + 1 <= Len(buf))
      BY <1>6, <2>4
    <3>2. x[k] = p[(k + 1) - Len(buf)]
      BY <1>8, <2>1, <2>4
    <3>3. w[k + 1] = p[(k + 1) - Len(buf)]
      BY <1>7, <2>1, <3>1
    <3>4. QED
      BY <2>2, <3>2, <3>3
  <2>5. QED
    BY <2>3, <2>4
<1>14. x = y
  BY <1>12, <1>13, SeqEqual
<1>15. Line(buf, q) = w /\ Line(Tail(buf), q) = x
  BY <1>1, <1>3, <1>4, <1>5 DEF Line
<1>16. QED
  BY <1>6, <1>9, <1>10, <1>14, <1>15

-----------------------------------------------------------------------------
\* A line of which some packets are missing.

(* x has the packets of w, some perhaps missing; g says where each was.    *)
Selects(w, x, g) ==
    /\ g \in [DOMAIN x -> DOMAIN w]
    /\ \A i, j \in DOMAIN x : i < j => g[i] < g[j]
    /\ \A i \in DOMAIN x : x[i] = w[g[i]]

(* What is missing in the queue is missing in the line.                    *)
LEMMA LineSelects ==
    ASSUME NEW buf \in Seq(Packets), NEW q \in Seq(QueueEntry), NEW r \in Seq(QueueEntry),
           NEW f, Picks(q, r, f)
    PROVE  \E g : /\ Selects(Line(buf, q), Line(buf, r), g)
                  /\ \A k \in 1..Len(buf) : k \in DOMAIN Line(buf, r) /\ g[k] = k
                  /\ \A i \in DOMAIN r : /\ Len(buf) + i \in DOMAIN Line(buf, r)
                                         /\ g[Len(buf) + i] = Len(buf) + f[i]
<1>1. PICK b, n, m : b = Len(buf) /\ n = Len(q) /\ m = Len(r)
  OBVIOUS
<1>2. b \in Nat /\ n \in Nat /\ m \in Nat /\ DOMAIN q = 1..n /\ DOMAIN r = 1..m
  BY <1>1, LenProperties
<1>3. PICK w : w = Line(buf, q)
  OBVIOUS
<1>4. /\ DOMAIN w = 1..(b + n)
      /\ \A k \in 1..b : w[k] = buf[k]
      /\ \A k \in 1..n : w[b + k] = Packet(q[k].msg)
  BY <1>1, <1>3, LineProperties
<1>5. PICK x : x = Line(buf, r)
  OBVIOUS
<1>6. /\ DOMAIN x = 1..(b + m)
      /\ \A k \in 1..b : x[k] = buf[k]
      /\ \A k \in 1..m : x[b + k] = Packet(r[k].msg)
  BY <1>1, <1>5, LineProperties
<1>7. /\ f \in [1..m -> 1..n]
      /\ \A i, j \in 1..m : i < j => f[i] < f[j]
      /\ \A i \in 1..m : r[i].msg = q[f[i]].msg
  BY <1>2 DEF Picks
<1> DEFINE g == [k \in 1..(b + m) |-> IF k <= b THEN k ELSE b + f[k - b]]
<1>8. \A i \in 1..m : f[i] \in 1..n /\ f[i] \in Int /\ f[i] >= 1 /\ f[i] <= n
  BY <1>2, <1>7
<1>9. ASSUME NEW k \in 1..b PROVE k \in 1..(b + m) /\ g[k] = k /\ k \in 1..(b + n)
  <2>1. k \in 1..(b + m) /\ k <= b /\ k \in 1..(b + n)
    BY <1>2
  <2>2. QED
    BY <2>1
<1>10. ASSUME NEW i \in 1..m
       PROVE b + i \in 1..(b + m) /\ g[b + i] = b + f[i] /\ b + f[i] \in 1..(b + n)
  <2>1. b + i \in 1..(b + m) /\ ~(b + i <= b) /\ (b + i) - b = i
    BY <1>2
  <2>2. g[b + i] = b + f[i]
    BY <2>1
  <2>3. b + f[i] \in 1..(b + n)
    BY <1>2, <1>8
  <2>4. QED
    BY <2>1, <2>2, <2>3
<1>11. \A k \in 1..(b + m) : k \in 1..b \/ \E i \in 1..m : k = b + i
  <2> SUFFICES ASSUME NEW k \in 1..(b + m), k \notin 1..b PROVE \E i \in 1..m : k = b + i
    OBVIOUS
  <2>1. k - b \in 1..m /\ k = b + (k - b)
    BY <1>2
  <2>2. QED
    BY <2>1
<1>12. ASSUME NEW k \in 1..(b + m) PROVE g[k] \in 1..(b + n)
  <2>1. CASE k \in 1..b
    BY <1>9, <2>1
  <2>2. ASSUME NEW i \in 1..m, k = b + i PROVE g[k] \in 1..(b + n)
    BY <1>10, <2>2
  <2>3. QED
    BY <1>11, <2>1, <2>2
<1>13. g \in [1..(b + m) -> 1..(b + n)]
  BY <1>12
<1> HIDE DEF g
<1>14. ASSUME NEW k \in 1..(b + m), NEW l \in 1..(b + m), k < l PROVE g[k] < g[l]
  <2>1. CASE l \in 1..b
    <3>1. k \in 1..b
      BY <1>2, <1>14, <2>1
    <3>2. QED
      BY <1>9, <1>14, <2>1, <3>1
  <2>2. ASSUME NEW j \in 1..m, l = b + j PROVE g[k] < g[l]
    <3>1. CASE k \in 1..b
      <4>1. g[k] = k /\ g[l] = b + f[j] /\ k <= b /\ f[j] >= 1 /\ f[j] \in Int
        BY <1>8, <1>9, <1>10, <2>2, <3>1
      <4>2. QED
        BY <1>2, <4>1
    <3>2. ASSUME NEW i \in 1..m, k = b + i PROVE g[k] < g[l]
      <4>1. i < j
        BY <1>2, <1>14, <2>2, <3>2
      <4>2. f[i] < f[j] /\ f[i] \in Int /\ f[j] \in Int
        BY <1>7, <1>8, <4>1
      <4>3. g[k] = b + f[i] /\ g[l] = b + f[j]
        BY <1>10, <2>2, <3>2
      <4>4. QED
        BY <1>2, <4>2, <4>3
    <3>3. QED
      BY <1>11, <3>1, <3>2
  <2>3. QED
    BY <1>11, <2>1, <2>2
<1>15. ASSUME NEW k \in 1..(b + m) PROVE x[k] = w[g[k]]
  <2>1. CASE k \in 1..b
    BY <1>4, <1>6, <1>9, <2>1
  <2>2. ASSUME NEW i \in 1..m, k = b + i PROVE x[k] = w[g[k]]
    <3>1. g[k] = b + f[i] /\ f[i] \in 1..n
      BY <1>8, <1>10, <2>2
    <3>2. x[k] = Packet(r[i].msg) /\ w[b + f[i]] = Packet(q[f[i]].msg)
      BY <1>4, <1>6, <2>2, <3>1
    <3>3. QED
      BY <1>7, <3>1, <3>2
  <2>3. QED
    BY <1>11, <2>1, <2>2
<1>16. Selects(w, x, g)
  BY <1>4, <1>6, <1>13, <1>14, <1>15 DEF Selects
<1>17. \A k \in 1..b : k \in DOMAIN x /\ g[k] = k
  BY <1>6, <1>9
<1>18. \A i \in DOMAIN r : b + i \in DOMAIN x /\ g[b + i] = b + f[i]
  BY <1>2, <1>6, <1>10
<1>19. QED
  BY <1>1, <1>3, <1>5, <1>16, <1>17, <1>18

(* A note does not sound because of packets that are missing, as long as   *)
(* none of them releases it.                                               *)
LEMMA SoundsSelected ==
    ASSUME NEW w \in Seq(Packets), NEW x \in Seq(Packets), NEW g, Selects(w, x, g),
           NEW notes, NEW n,
           \A k \in DOMAIN w : Releases(w[k], n) => \E i \in DOMAIN x : g[i] = k,
           Sounds(notes, x, n)
    PROVE  Sounds(notes, w, n)
<1>1. /\ \A i \in DOMAIN x : g[i] \in DOMAIN w /\ x[i] = w[g[i]]
      /\ \A i, j \in DOMAIN x : i < j => g[i] < g[j]
  BY DEF Selects
<1>2. \A k \in DOMAIN w : k \in Int
  BY LenProperties
<1>3. \A i \in DOMAIN x : i \in Int
  BY LenProperties
<1>4. CASE n \in notes /\ \A i \in DOMAIN x : ~Releases(x[i], n)
  <2>1. \A k \in DOMAIN w : ~Releases(w[k], n)
    BY <1>1, <1>4
  <2>2. QED
    BY <1>4, <2>1 DEF Sounds
<1>5. ASSUME NEW i \in DOMAIN x, Strikes(x[i], n),
             \A j \in DOMAIN x : j > i => ~Releases(x[j], n)
      PROVE  Sounds(notes, w, n)
  <2>1. g[i] \in DOMAIN w /\ Strikes(w[g[i]], n)
    BY <1>1, <1>5
  <2>2. ASSUME NEW k \in DOMAIN w, k > g[i], Releases(w[k], n) PROVE FALSE
    <3>1. PICK j \in DOMAIN x : g[j] = k
      BY <2>2
    <3>2. ~(j < i) /\ j # i
      <4>1. g[i] \in Int /\ g[j] \in Int
        BY <1>1, <1>2
      <4>2. j < i => g[j] < g[i]
        BY <1>1
      <4>3. QED
        BY <2>2, <3>1, <4>1, <4>2
    <3>3. j > i
      BY <1>3, <3>2
    <3>4. QED
      BY <1>1, <1>5, <2>2, <3>1, <3>3
  <2>3. QED
    BY <2>1, <2>2 DEF Sounds
<1>6. QED
  BY <1>4, <1>5 DEF Sounds

(* A controller ends where it did, as long as the last packet that sets it *)
(* is not missing.                                                         *)
LEMMA EndsAtSelected ==
    ASSUME NEW w \in Seq(Packets), NEW x \in Seq(Packets), NEW g, Selects(w, x, g),
           NEW values, NEW c, NEW v,
           \A k \in DOMAIN w : (Sets(w[k], c) /\ \A l \in DOMAIN w : l > k => ~Sets(w[l], c))
                                 => \E i \in DOMAIN x : g[i] = k,
           EndsAt(values, w, c, v)
    PROVE  EndsAt(values, x, c, v)
<1>1. /\ \A i \in DOMAIN x : g[i] \in DOMAIN w /\ x[i] = w[g[i]]
      /\ \A i, j \in DOMAIN x : i < j => g[i] < g[j]
  BY DEF Selects
<1>2. \A k \in DOMAIN w : k \in Int
  BY LenProperties
<1>3. CASE values[c] = v /\ \A k \in DOMAIN w : ~Sets(w[k], c)
  <2>1. \A i \in DOMAIN x : ~Sets(x[i], c)
    BY <1>1, <1>3
  <2>2. QED
    BY <1>3, <2>1 DEF EndsAt
<1>4. ASSUME NEW k \in DOMAIN w, Sets(w[k], c), w[k].msg.second = v,
             \A l \in DOMAIN w : l > k => ~Sets(w[l], c)
      PROVE  EndsAt(values, x, c, v)
  <2>1. PICK i \in DOMAIN x : g[i] = k
    BY <1>4
  <2>2. Sets(x[i], c) /\ x[i].msg.second = v
    BY <1>1, <1>4, <2>1
  <2>3. ASSUME NEW j \in DOMAIN x, j > i PROVE ~Sets(x[j], c)
    <3>1. g[j] \in DOMAIN w /\ g[j] > k
      <4>1. i < j
        BY <2>3, LenProperties
      <4>2. g[i] < g[j] /\ g[j] \in DOMAIN w
        BY <1>1, <4>1
      <4>3. QED
        BY <1>2, <2>1, <4>2
    <3>2. QED
      BY <1>1, <1>4, <3>1
  <2>4. QED
    BY <2>2, <2>3 DEF EndsAt
<1>5. QED
  BY <1>3, <1>4 DEF EndsAt

(* One more packet arrives.                                                *)
LEMMA SoundsAppend ==
    ASSUME NEW w \in Seq(Packets), NEW p \in Packets, NEW notes, NEW n
    PROVE  Sounds(notes, Append(w, p), n)
             <=> Strikes(p, n) \/ (Sounds(notes, w, n) /\ ~Releases(p, n))
<1>1. PICK x \in Seq(Packets) : x = Append(w, p)
  BY AppendProperties
<1>2. PICK l \in Nat : l = Len(w)
  BY LenProperties
<1>3. /\ DOMAIN w = 1..l /\ DOMAIN x = 1..(l + 1)
      /\ \A k \in 1..l : x[k] = w[k]
      /\ x[l + 1] = p
  BY <1>1, <1>2, AppendProperties, LenProperties
<1>4. /\ \A k \in 1..l : k \in 1..(l + 1) /\ k < l + 1 /\ l + 1 > k
      /\ \A k \in 1..(l + 1) : k \in 1..l \/ k = l + 1
      /\ l + 1 \in 1..(l + 1) /\ \A k \in 1..(l + 1) : ~(k > l + 1)
  BY <1>2
<1>5. Strikes(p, n) => ~Releases(p, n)
  BY DEF Strikes, Releases
<1>6. ASSUME Strikes(p, n) PROVE Sounds(notes, x, n)
  BY <1>3, <1>4, <1>6 DEF Sounds
<1>7. ASSUME Sounds(notes, w, n), ~Releases(p, n) PROVE Sounds(notes, x, n)
  <2>1. CASE n \in notes /\ \A k \in 1..l : ~Releases(w[k], n)
    <3>1. \A k \in 1..(l + 1) : ~Releases(x[k], n)
      BY <1>3, <1>4, <1>7, <2>1
    <3>2. QED
      BY <1>3, <2>1, <3>1 DEF Sounds
  <2>2. ASSUME NEW k \in 1..l, Strikes(w[k], n), \A j \in 1..l : j > k => ~Releases(w[j], n)
        PROVE  Sounds(notes, x, n)
    <3>1. k \in 1..(l + 1) /\ Strikes(x[k], n)
      BY <1>3, <1>4, <2>2
    <3>2. \A j \in 1..(l + 1) : j > k => ~Releases(x[j], n)
      BY <1>3, <1>4, <1>7, <2>2
    <3>3. QED
      BY <1>3, <3>1, <3>2 DEF Sounds
  <2>3. QED
    BY <1>3, <1>7, <2>1, <2>2 DEF Sounds
<1>8. ASSUME Sounds(notes, x, n), ~Strikes(p, n) PROVE Sounds(notes, w, n) /\ ~Releases(p, n)
  <2>1. CASE n \in notes /\ \A k \in 1..(l + 1) : ~Releases(x[k], n)
    <3>1. \A k \in 1..l : ~Releases(w[k], n)
      BY <1>3, <1>4, <2>1
    <3>2. ~Releases(p, n)
      BY <1>3, <1>4, <2>1
    <3>3. QED
      BY <1>3, <2>1, <3>1, <3>2 DEF Sounds
  <2>2. ASSUME NEW k \in 1..(l + 1), Strikes(x[k], n),
               \A j \in 1..(l + 1) : j > k => ~Releases(x[j], n)
        PROVE  Sounds(notes, w, n) /\ ~Releases(p, n)
    <3>1. k \in 1..l
      BY <1>3, <1>4, <1>8, <2>2
    <3>2. Strikes(w[k], n)
      BY <1>3, <2>2, <3>1
    <3>3. \A j \in 1..l : j > k => ~Releases(w[j], n)
      BY <1>3, <1>4, <2>2
    <3>4. ~Releases(p, n)
      BY <1>3, <1>4, <2>2, <3>1
    <3>5. QED
      BY <1>3, <3>1, <3>2, <3>3, <3>4 DEF Sounds
  <2>3. QED
    BY <1>3, <1>8, <2>1, <2>2 DEF Sounds
<1>9. QED
  BY <1>1, <1>5, <1>6, <1>7, <1>8

(* It sets a controller or leaves it where it ended.                       *)
LEMMA EndsAtAppend ==
    ASSUME NEW w \in Seq(Packets), NEW p \in Packets, NEW values, NEW c, NEW v
    PROVE  /\ Sets(p, c) => (EndsAt(values, Append(w, p), c, v) <=> p.msg.second = v)
           /\ ~Sets(p, c) => (EndsAt(values, Append(w, p), c, v) <=> EndsAt(values, w, c, v))
<1>1. PICK x \in Seq(Packets) : x = Append(w, p)
  BY AppendProperties
<1>2. PICK l \in Nat : l = Len(w)
  BY LenProperties
<1>3. /\ DOMAIN w = 1..l /\ DOMAIN x = 1..(l + 1)
      /\ \A k \in 1..l : x[k] = w[k]
      /\ x[l + 1] = p
  BY <1>1, <1>2, AppendProperties, LenProperties
<1>4. /\ \A k \in 1..l : k \in 1..(l + 1) /\ k < l + 1 /\ l + 1 > k
      /\ \A k \in 1..(l + 1) : k \in 1..l \/ k = l + 1
      /\ l + 1 \in 1..(l + 1) /\ \A k \in 1..(l + 1) : ~(k > l + 1)
  BY <1>2
<1>5. ASSUME Sets(p, c), p.msg.second = v PROVE EndsAt(values, x, c, v)
  BY <1>3, <1>4, <1>5 DEF EndsAt
<1>6. ASSUME Sets(p, c), EndsAt(values, x, c, v) PROVE p.msg.second = v
  <2>1. PICK k \in 1..(l + 1) : /\ Sets(x[k], c) /\ x[k].msg.second = v
                                /\ \A j \in 1..(l + 1) : j > k => ~Sets(x[j], c)
    BY <1>3, <1>4, <1>6 DEF EndsAt
  <2>2. k = l + 1
    BY <1>3, <1>4, <1>6, <2>1
  <2>3. QED
    BY <1>3, <2>1, <2>2
<1>7. ASSUME ~Sets(p, c), EndsAt(values, w, c, v) PROVE EndsAt(values, x, c, v)
  <2>1. CASE values[c] = v /\ \A k \in 1..l : ~Sets(w[k], c)
    <3>1. \A k \in 1..(l + 1) : ~Sets(x[k], c)
      BY <1>3, <1>4, <1>7, <2>1
    <3>2. QED
      BY <1>3, <2>1, <3>1 DEF EndsAt
  <2>2. ASSUME NEW k \in 1..l, Sets(w[k], c), w[k].msg.second = v,
               \A j \in 1..l : j > k => ~Sets(w[j], c)
        PROVE  EndsAt(values, x, c, v)
    <3>1. k \in 1..(l + 1) /\ Sets(x[k], c) /\ x[k].msg.second = v
      BY <1>3, <1>4, <2>2
    <3>2. \A j \in 1..(l + 1) : j > k => ~Sets(x[j], c)
      BY <1>3, <1>4, <1>7, <2>2
    <3>3. QED
      BY <1>3, <3>1, <3>2 DEF EndsAt
  <2>3. QED
    BY <1>3, <1>7, <2>1, <2>2 DEF EndsAt
<1>8. ASSUME ~Sets(p, c), EndsAt(values, x, c, v) PROVE EndsAt(values, w, c, v)
  <2>1. CASE values[c] = v /\ \A k \in 1..(l + 1) : ~Sets(x[k], c)
    <3>1. \A k \in 1..l : ~Sets(w[k], c)
      BY <1>3, <1>4, <2>1
    <3>2. QED
      BY <1>3, <2>1, <3>1 DEF EndsAt
  <2>2. ASSUME NEW k \in 1..(l + 1), Sets(x[k], c), x[k].msg.second = v,
               \A j \in 1..(l + 1) : j > k => ~Sets(x[j], c)
        PROVE  EndsAt(values, w, c, v)
    <3>1. k \in 1..l
      BY <1>3, <1>4, <1>8, <2>2
    <3>2. Sets(w[k], c) /\ w[k].msg.second = v
      BY <1>3, <2>2, <3>1
    <3>3. \A j \in 1..l : j > k => ~Sets(w[j], c)
      BY <1>3, <1>4, <2>2
    <3>4. QED
      BY <1>3, <3>1, <3>2, <3>3 DEF EndsAt
  <2>3. QED
    BY <1>3, <1>8, <2>1, <2>2 DEF EndsAt
<1>9. QED
  BY <1>1, <1>5, <1>6, <1>7, <1>8

(* The first packet is read.                                               *)
LEMMA SoundsTail ==
    ASSUME NEW w \in Seq(Packets), w # <<>>, NEW notes, NEW then, NEW n,
           n \in then <=> Strikes(Head(w), n) \/ (n \in notes /\ ~Releases(Head(w), n))
    PROVE  Sounds(then, Tail(w), n) <=> Sounds(notes, w, n)
<1>1. PICK l \in Nat : l = Len(w) - 1
  BY EmptySeq
<1>2. PICK x \in Seq(Packets) : x = Tail(w)
  BY HeadTailProperties
<1>3. PICK p : p = Head(w)
  OBVIOUS
<1>4. /\ DOMAIN w = 1..(l + 1) /\ DOMAIN x = 1..l
      /\ \A k \in 1..l : x[k] = w[k + 1]
      /\ w[1] = p
  <2>1. Len(w) = l + 1 /\ Len(x) = l
    BY <1>1, <1>2, HeadTailProperties, LenProperties
  <2>2. QED
    BY <1>2, <1>3, <2>1, HeadTailProperties, LenProperties
<1>5. /\ \A k \in 1..l : k + 1 \in 1..(l + 1) /\ k + 1 > 1 /\ k + 1 # 1
      /\ 1 \in 1..(l + 1)
      /\ \A j, k \in 1..l : j > k <=> j + 1 > k + 1
  BY <1>1
<1>6. \A k \in 1..(l + 1) : k = 1 \/ \E j \in 1..l : k = j + 1
  <2> SUFFICES ASSUME NEW k \in 1..(l + 1), k # 1 PROVE \E j \in 1..l : k = j + 1
    OBVIOUS
  <2>1. k - 1 \in 1..l /\ k = (k - 1) + 1
    BY <1>1
  <2>2. QED
    BY <2>1
<1>7. ASSUME n \in then, \A k \in 1..l : ~Releases(x[k], n) PROVE Sounds(notes, w, n)
  <2>1. \A j \in 1..(l + 1) : j > 1 => ~Releases(w[j], n)
    BY <1>4, <1>6, <1>7
  <2>2. CASE Strikes(p, n)
    BY <1>4, <1>5, <2>1, <2>2 DEF Sounds
  <2>3. CASE n \in notes /\ ~Releases(p, n)
    <3>1. \A j \in 1..(l + 1) : ~Releases(w[j], n)
      BY <1>4, <1>6, <1>7, <2>3
    <3>2. QED
      BY <1>4, <2>3, <3>1 DEF Sounds
  <2>4. QED
    BY <1>3, <1>7, <2>2, <2>3
<1>8. ASSUME NEW k \in 1..l, Strikes(x[k], n), \A j \in 1..l : j > k => ~Releases(x[j], n)
      PROVE  Sounds(notes, w, n)
  <2>1. k + 1 \in 1..(l + 1) /\ Strikes(w[k + 1], n)
    BY <1>4, <1>5, <1>8
  <2>2. ASSUME NEW j \in 1..(l + 1), j > k + 1 PROVE ~Releases(w[j], n)
    <3>1. j # 1
      BY <1>1, <2>2
    <3>2. PICK i \in 1..l : j = i + 1
      BY <1>6, <3>1
    <3>3. QED
      BY <1>4, <1>5, <1>8, <2>2, <3>2
  <2>3. QED
    BY <1>4, <2>1, <2>2 DEF Sounds
<1>9. ASSUME n \in notes, \A k \in 1..(l + 1) : ~Releases(w[k], n) PROVE Sounds(then, x, n)
  <2>1. n \in then
    BY <1>3, <1>4, <1>5, <1>9
  <2>2. \A k \in 1..l : ~Releases(x[k], n)
    BY <1>4, <1>5, <1>9
  <2>3. QED
    BY <1>4, <2>1, <2>2 DEF Sounds
<1>10. ASSUME NEW k \in 1..(l + 1), Strikes(w[k], n),
              \A j \in 1..(l + 1) : j > k => ~Releases(w[j], n)
       PROVE  Sounds(then, x, n)
  <2>1. CASE k = 1
    <3>1. n \in then
      BY <1>3, <1>4, <1>10, <2>1
    <3>2. \A j \in 1..l : ~Releases(x[j], n)
      BY <1>4, <1>5, <1>10, <2>1
    <3>3. QED
      BY <1>4, <3>1, <3>2 DEF Sounds
  <2>2. ASSUME NEW i \in 1..l, k = i + 1 PROVE Sounds(then, x, n)
    <3>1. Strikes(x[i], n)
      BY <1>4, <1>10, <2>2
    <3>2. \A j \in 1..l : j > i => ~Releases(x[j], n)
      BY <1>4, <1>5, <1>10, <2>2
    <3>3. QED
      BY <1>4, <3>1, <3>2 DEF Sounds
  <2>3. QED
    BY <1>6, <2>1, <2>2
<1>11. Sounds(then, x, n) => Sounds(notes, w, n)
  BY <1>4, <1>7, <1>8 DEF Sounds
<1>12. Sounds(notes, w, n) => Sounds(then, x, n)
  BY <1>4, <1>9, <1>10 DEF Sounds
<1>13. QED
  BY <1>2, <1>11, <1>12

(* No controller ends anywhere else for it.                                *)
LEMMA EndsAtTail ==
    ASSUME NEW w \in Seq(Packets), w # <<>>, NEW values, NEW then, NEW c, NEW v,
           Sets(Head(w), c) => then[c] = Head(w).msg.second,
           ~Sets(Head(w), c) => then[c] = values[c],
           EndsAt(values, w, c, v)
    PROVE  EndsAt(then, Tail(w), c, v)
<1>1. PICK l \in Nat : l = Len(w) - 1
  BY EmptySeq
<1>2. PICK x \in Seq(Packets) : x = Tail(w)
  BY HeadTailProperties
<1>3. PICK p : p = Head(w)
  OBVIOUS
<1>4. /\ DOMAIN w = 1..(l + 1) /\ DOMAIN x = 1..l
      /\ \A k \in 1..l : x[k] = w[k + 1]
      /\ w[1] = p
  <2>1. Len(w) = l + 1 /\ Len(x) = l
    BY <1>1, <1>2, HeadTailProperties, LenProperties
  <2>2. QED
    BY <1>2, <1>3, <2>1, HeadTailProperties, LenProperties
<1>5. /\ \A k \in 1..l : k + 1 \in 1..(l + 1) /\ k + 1 > 1 /\ k + 1 # 1
      /\ 1 \in 1..(l + 1)
      /\ \A j, k \in 1..l : j > k <=> j + 1 > k + 1
  BY <1>1
<1>6. \A k \in 1..(l + 1) : k = 1 \/ \E j \in 1..l : k = j + 1
  <2> SUFFICES ASSUME NEW k \in 1..(l + 1), k # 1 PROVE \E j \in 1..l : k = j + 1
    OBVIOUS
  <2>1. k - 1 \in 1..l /\ k = (k - 1) + 1
    BY <1>1
  <2>2. QED
    BY <2>1
<1>7. CASE values[c] = v /\ \A k \in 1..(l + 1) : ~Sets(w[k], c)
  <2>1. then[c] = v
    BY <1>3, <1>4, <1>5, <1>7
  <2>2. \A k \in 1..l : ~Sets(x[k], c)
    BY <1>4, <1>5, <1>7
  <2>3. QED
    BY <1>2, <1>4, <2>1, <2>2 DEF EndsAt
<1>8. ASSUME NEW k \in 1..(l + 1), Sets(w[k], c), w[k].msg.second = v,
             \A j \in 1..(l + 1) : j > k => ~Sets(w[j], c)
      PROVE  EndsAt(then, x, c, v)
  <2>1. CASE k = 1
    <3>1. then[c] = v
      BY <1>3, <1>4, <1>8, <2>1
    <3>2. \A j \in 1..l : ~Sets(x[j], c)
      BY <1>4, <1>5, <1>8, <2>1
    <3>3. QED
      BY <1>4, <3>1, <3>2 DEF EndsAt
  <2>2. ASSUME NEW i \in 1..l, k = i + 1 PROVE EndsAt(then, x, c, v)
    <3>1. Sets(x[i], c) /\ x[i].msg.second = v
      BY <1>4, <1>8, <2>2
    <3>2. \A j \in 1..l : j > i => ~Sets(x[j], c)
      BY <1>4, <1>5, <1>8, <2>2
    <3>3. QED
      BY <1>4, <3>1, <3>2 DEF EndsAt
  <2>3. QED
    BY <1>6, <2>1, <2>2
<1>9. QED
  BY <1>2, <1>4, <1>7, <1>8 DEF EndsAt

(* What happens to the queue alone cannot make a note sound ...            *)
LEMMA SoundsKept ==
    ASSUME NEW buf \in Seq(Packets), NEW q \in Seq(QueueEntry), NEW r \in Seq(QueueEntry),
           Keeping(q, r, Releasing(q)), NEW notes, NEW n, Sounds(notes, Line(buf, r), n)
    PROVE  Sounds(notes, Line(buf, q), n)
<1>1. PICK f : Picks(q, r, f) /\ \A k \in Releasing(q) : \E i \in DOMAIN r : f[i] = k
  BY DEF Keeping
<1>2. PICK g : /\ Selects(Line(buf, q), Line(buf, r), g)
               /\ \A k \in 1..Len(buf) : k \in DOMAIN Line(buf, r) /\ g[k] = k
               /\ \A i \in DOMAIN r : /\ Len(buf) + i \in DOMAIN Line(buf, r)
                                      /\ g[Len(buf) + i] = Len(buf) + f[i]
  BY <1>1, LineSelects
<1>3. Line(buf, q) \in Seq(Packets) /\ Line(buf, r) \in Seq(Packets)
  BY LineProperties
<1>4. ASSUME NEW k \in DOMAIN Line(buf, q), Releases(Line(buf, q)[k], n)
      PROVE  \E i \in DOMAIN Line(buf, r) : g[i] = k
  <2>1. /\ k \in 1..(Len(buf) + Len(q)) /\ Len(buf) \in Nat /\ Len(q) \in Nat
        /\ DOMAIN q = 1..Len(q)
        /\ \A j \in 1..Len(q) : Line(buf, q)[Len(buf) + j] = Packet(q[j].msg)
    BY <1>4, LineProperties, LenProperties
  <2>2. CASE k \in 1..Len(buf)
    BY <1>2, <2>2
  <2>3. CASE k \notin 1..Len(buf)
    <3>1. k - Len(buf) \in 1..Len(q) /\ k = Len(buf) + (k - Len(buf))
      BY <2>1, <2>3
    <3>2. PICK j \in 1..Len(q) : k = Len(buf) + j
      BY <3>1
    <3>7. Line(buf, q)[k] = Packet(q[j].msg)
      BY <2>1, <3>2
    <3>8. Releases(Packet(q[j].msg), n)
      BY <1>4, <3>7
    <3>3. Off(q[j].msg)
      BY <3>8 DEF Releases, Packet
    <3>4. j \in Releasing(q)
      BY <2>1, <3>3 DEF Off, Releasing, IsRelease
    <3>5. PICK i \in DOMAIN r : f[i] = j
      BY <1>1, <3>4
    <3>6. QED
      BY <1>2, <3>2, <3>5
  <2>4. QED
    BY <2>2, <2>3
<1>5. QED
  BY <1>2, <1>3, <1>4, SoundsSelected

(* ... nor move a controller.                                              *)
LEMMA EndsAtKept ==
    ASSUME NEW buf \in Seq(Packets), NEW q \in Seq(QueueEntry), NEW r \in Seq(QueueEntry),
           Keeping(q, r, Latest(q)), NEW values, NEW c, NEW v,
           EndsAt(values, Line(buf, q), c, v)
    PROVE  EndsAt(values, Line(buf, r), c, v)
<1>1. PICK f : Picks(q, r, f) /\ \A k \in Latest(q) : \E i \in DOMAIN r : f[i] = k
  BY DEF Keeping
<1>2. PICK g : /\ Selects(Line(buf, q), Line(buf, r), g)
               /\ \A k \in 1..Len(buf) : k \in DOMAIN Line(buf, r) /\ g[k] = k
               /\ \A i \in DOMAIN r : /\ Len(buf) + i \in DOMAIN Line(buf, r)
                                      /\ g[Len(buf) + i] = Len(buf) + f[i]
  BY <1>1, LineSelects
<1>3. Line(buf, q) \in Seq(Packets) /\ Line(buf, r) \in Seq(Packets)
  BY LineProperties
<1>4. ASSUME NEW k \in DOMAIN Line(buf, q), Sets(Line(buf, q)[k], c),
             \A l \in DOMAIN Line(buf, q) : l > k => ~Sets(Line(buf, q)[l], c)
      PROVE  \E i \in DOMAIN Line(buf, r) : g[i] = k
  <2>1. /\ k \in 1..(Len(buf) + Len(q)) /\ Len(buf) \in Nat /\ Len(q) \in Nat
        /\ DOMAIN q = 1..Len(q) /\ DOMAIN Line(buf, q) = 1..(Len(buf) + Len(q))
        /\ \A j \in 1..Len(q) : Line(buf, q)[Len(buf) + j] = Packet(q[j].msg)
    BY <1>4, LineProperties, LenProperties
  <2>2. CASE k \in 1..Len(buf)
    BY <1>2, <2>2
  <2>3. CASE k \notin 1..Len(buf)
    <3>1. k - Len(buf) \in 1..Len(q) /\ k = Len(buf) + (k - Len(buf))
      BY <2>1, <2>3
    <3>2. PICK j \in 1..Len(q) : k = Len(buf) + j
      BY <3>1
    <3>8. Line(buf, q)[k] = Packet(q[j].msg)
      BY <2>1, <3>2
    <3>9. Sets(Packet(q[j].msg), c)
      BY <1>4, <3>8
    <3>3. q[j].msg.status = "ControlChange" /\ q[j].msg.first = c
      BY <3>9 DEF Sets, Packet
    <3>4. ASSUME NEW i \in (j + 1)..Len(q), SameState(q[j].msg, q[i].msg) PROVE FALSE
      <4>1. q[i].msg.status = "ControlChange" /\ q[i].msg.first = c
        BY <3>3, <3>4 DEF SameState
      <4>2. i \in 1..Len(q) /\ Len(buf) + i \in 1..(Len(buf) + Len(q)) /\ Len(buf) + i > k
        BY <2>1, <3>2
      <4>5. Line(buf, q)[Len(buf) + i] = Packet(q[i].msg)
        BY <2>1, <4>2
      <4>6. Sets(Packet(q[i].msg), c)
        BY <4>1 DEF Sets, Packet
      <4>3. Sets(Line(buf, q)[Len(buf) + i], c)
        BY <4>5, <4>6
      <4>4. QED
        BY <1>4, <2>1, <4>2, <4>3
    <3>5. j \in Latest(q)
      BY <2>1, <3>3, <3>4 DEF Latest, IsState, HasNewerState
    <3>6. PICK i \in DOMAIN r : f[i] = j
      BY <1>1, <3>5
    <3>7. QED
      BY <1>2, <3>2, <3>6
  <2>4. QED
    BY <2>2, <2>3
<1>5. PICK w, x : w = Line(buf, q) /\ x = Line(buf, r)
  OBVIOUS
<1>6. w \in Seq(Packets) /\ x \in Seq(Packets) /\ Selects(w, x, g) /\ EndsAt(values, w, c, v)
  BY <1>2, <1>3, <1>5
<1>7. \A k \in DOMAIN w : (Sets(w[k], c) /\ \A l \in DOMAIN w : l > k => ~Sets(w[l], c))
                           => \E i \in DOMAIN x : g[i] = k
  BY <1>4, <1>5
<1>8. EndsAt(values, x, c, v)
  BY <1>6, <1>7, EndsAtSelected
<1>9. QED
  BY <1>5, <1>8

-----------------------------------------------------------------------------
\* Every variable keeps its type.

(* What the arithmetic of the proofs needs of the constants.               *)
LEMMA Sizes ==
    /\ InboxSize \in Nat /\ InboxSize > 0 /\ SysExSlots \in Nat /\ SysExSlots > 0
    /\ FifoSize \in Nat /\ FifoSize > 0 /\ Budget \in Nat /\ EndExtra \in Nat
    /\ Backoff \in Nat /\ SysExPackets \in Nat /\ SysExPackets > 1
    /\ EndExtra <= Budget /\ Budget + EndExtra < Backoff
    /\ Capacity \in Nat /\ Capacity > 0 /\ StaleMs \in Nat
BY UsbAssumption, QueueAssumption

(* The messages and the loads of a behaviour.                              *)
LEMMA Members ==
    /\ \A m \in Messages : m \in [status : Statuses, channel : 1..16, first : Nat, second : Nat]
    /\ \A l \in Loads : l \in [short : Nat, msgs : SUBSET Messages, sysex : Nat, faults : Nat]
BY UsbAssumption, QueueAssumption

(* The entries of the type invariant.                                      *)
LEMMA QueueEntryType == [msg : Messages, age : 0..(StaleMs + 1)] = QueueEntry
BY DEF QueueEntry

(* Hearing a message leads from one state to another.                      *)
LEMMA HearType ==
    ASSUME NEW s \in States, NEW m, m \in Messages \/ m = ClockMessage
    PROVE  Hear(s, m) \in States
<1>1. CASE m = ClockMessage
  BY <1>1 DEF Hear, Off, ClockMessage, Message
<1>2. CASE m \in Messages
  <2>1. m.first \in Nat /\ m.second \in Nat
    BY <1>2, Members
  <2>2. m.status = "NoteOn" => m.first \in Notes
    BY <1>2 DEF Notes
  <2>3. [s EXCEPT !.notes = @ \ {m.first}] \in States
    BY DEF States
  <2>4. m.status = "NoteOn" => [s EXCEPT !.notes = @ \cup {m.first}] \in States
    BY <2>2 DEF States
  <2>5. [s EXCEPT !.values[m.first] = m.second] \in States
    BY <2>1 DEF States
  <2>6. QED
    BY <2>3, <2>4, <2>5 DEF Hear
<1>3. QED
  BY <1>1, <1>2

(* A host that has heard nothing is a host.                                *)
LEMMA SilenceType == Silence \in States /\ NewHost \in [state : States, open : Nat]
<1>1. [c \in Controllers |-> 0] \in [Controllers -> Nat]
  OBVIOUS
<1>2. QED
  BY <1>1 DEF Silence, States, NewHost

(* Reading a packet leads from one host to another.                        *)
LEMMA ReadType ==
    ASSUME NEW h \in [state : States, open : Nat], NEW p \in Packets
    PROVE  Read(h, p) \in [state : States, open : Nat]
<1>1. CASE p \in [kind : {"short"}, msg : Messages \cup {ClockMessage}]
  <2>1. p.kind = "short" /\ Hear(h.state, p.msg) \in States
    BY <1>1, HearType
  <2>2. QED
    BY <2>1 DEF Read
<1>2. CASE p \in [kind : {"part", "end"}, id : Nat]
  BY <1>2 DEF Read
<1>3. QED
  BY <1>1, <1>2 DEF Packets

(* The initial state has its types.                                        *)
LEMMA TypeInit == Init => TypeOK
<1> SUFFICES ASSUME Init PROVE TypeOK
  OBVIOUS
<1>1. /\ <<>> \in Seq(Messages) /\ <<>> \in Seq([msg : Messages, age : 0..(StaleMs + 1)])
      /\ <<>> \in Seq(Packets) /\ Len(<<>>) = 0
  BY EmptySeq
<1>2. [i \in 0..(SysExSlots - 1) |-> 0] \in [0..(SysExSlots - 1) -> Nat]
      /\ 0 \in 0..(SysExSlots - 1)
  BY Sizes
<1>3. sysex \in [head : 0..(SysExSlots - 1), tail : 0..(SysExSlots - 1),
                 slots : [0..(SysExSlots - 1) -> Nat]]
  BY <1>2 DEF Init
<1>4. left \in [short : Nat, msgs : SUBSET Messages, sysex : Nat, faults : Nat]
  BY Members DEF Init
<1>5. writing \in SysExWrites
  BY Sizes DEF Init, NotWriting, SysExWrites
<1>6. host \in [state : States, open : Nat] /\ played \in States
  BY SilenceType DEF Init
<1>7. -1 \in -1..(StaleMs + 1) /\ -1 \in -1..Backoff /\ 0 \in 0..(InboxSize + 1)
      /\ 0 \in 0..(Budget + EndExtra) /\ 0 <= InboxSize /\ 0 <= Capacity /\ 0 <= FifoSize
  BY Sizes
<1>8. /\ inbox \in Seq(Messages) /\ Len(inbox) <= InboxSize
      /\ queue \in Seq([msg : Messages, age : 0..(StaleMs + 1)]) /\ Len(queue) <= Capacity
      /\ fifo \in Seq(Packets) /\ Len(fifo) <= FifoSize
  BY <1>1, <1>7 DEF Init
<1>9. /\ clock \in -1..(StaleMs + 1) /\ checked \in BOOLEAN /\ pacer \in -1..Backoff
      /\ popped \in 0..(InboxSize + 1) /\ quiet \in 0..(Budget + EndExtra) /\ loop = "top"
      /\ {mounted, suspended, initialized} \subseteq BOOLEAN
  BY <1>7 DEF Init
<1>10. QED
  BY <1>3, <1>4, <1>5, <1>6, <1>8, <1>9 DEF TypeOK

(* A full inbox takes no more.                                             *)
LEMMA TypeReceiveShort == ASSUME TypeOK, NEW m \in Messages, ReceiveShort(m) PROVE TypeOK'
<1>1. inbox' \in Seq(Messages) /\ Len(inbox') <= InboxSize
  <2>1. Len(inbox) \in Nat /\ Append(inbox, m) \in Seq(Messages)
        /\ Len(Append(inbox, m)) = Len(inbox) + 1
    BY AppendProperties, LenProperties DEF TypeOK
  <2>2. inbox \in Seq(Messages) /\ Len(inbox) <= InboxSize
    BY DEF TypeOK
  <2>3. inbox' = IF Len(inbox) < InboxSize THEN Append(inbox, m) ELSE inbox
    BY DEF ReceiveShort
  <2>4. CASE Len(inbox) < InboxSize
    BY <2>1, <2>3, <2>4, Sizes
  <2>5. CASE ~(Len(inbox) < InboxSize)
    BY <2>2, <2>3, <2>5
  <2>6. QED
    BY <2>4, <2>5
<1>2. left' \in [short : Nat, msgs : SUBSET Messages, sysex : Nat, faults : Nat]
  <2>1. left \in [short : Nat, msgs : SUBSET Messages, sysex : Nat, faults : Nat]
    BY DEF TypeOK
  <2>2. left.short - 1 \in Nat
    BY <2>1 DEF ReceiveShort
  <2>3. QED
    BY <2>1, <2>2 DEF ReceiveShort
<1>3. QED
  BY <1>1, <1>2 DEF ReceiveShort, TypeOK, loopVars, usbVars

(* The ring goes round.                                                    *)
LEMMA FollowingType ==
    ASSUME NEW i \in 0..(SysExSlots - 1)
    PROVE  Following(i) \in 0..(SysExSlots - 1)
BY Sizes DEF Following

(* A SysEx message is written to the slot of the head.                     *)
LEMMA TypeReceiveSysEx == ASSUME TypeOK, ReceiveSysEx PROVE TypeOK'
<1>1. /\ sysex.head \in 0..(SysExSlots - 1) /\ Following(sysex.head) \in 0..(SysExSlots - 1)
      /\ left.sysex \in Nat /\ left.sysex > 0
  BY FollowingType DEF TypeOK, ReceiveSysEx
<1>2. [sysex EXCEPT !.slots[sysex.head] = left.sysex, !.head = Following(sysex.head)]
        \in [head : 0..(SysExSlots - 1), tail : 0..(SysExSlots - 1),
             slots : [0..(SysExSlots - 1) -> Nat]]
  BY <1>1 DEF TypeOK
<1>3. left' \in [short : Nat, msgs : SUBSET Messages, sysex : Nat, faults : Nat]
  <2>1. left \in [short : Nat, msgs : SUBSET Messages, sysex : Nat, faults : Nat]
    BY DEF TypeOK
  <2>2. left.sysex - 1 \in Nat
    BY <1>1
  <2>3. QED
    BY <2>1, <2>2 DEF ReceiveSysEx
<1>4. QED
  BY <1>2, <1>3 DEF ReceiveSysEx, TypeOK, loopVars, usbVars

(* The queues are emptied when the host is gone.                           *)
LEMMA TypeTop == ASSUME TypeOK, Top PROVE TypeOK'
<1>1. [sysex EXCEPT !.head = 0, !.tail = 0]
        \in [head : 0..(SysExSlots - 1), tail : 0..(SysExSlots - 1),
             slots : [0..(SysExSlots - 1) -> Nat]]
  <2>1. 0 \in 0..(SysExSlots - 1)
    BY Sizes
  <2>2. QED
    BY <2>1 DEF TypeOK
<1>2. /\ queue' \in Seq([msg : Messages, age : 0..(StaleMs + 1)]) /\ Len(queue') <= Capacity
      /\ clock' \in -1..(StaleMs + 1)
      /\ sysex' \in [head : 0..(SysExSlots - 1), tail : 0..(SysExSlots - 1),
                     slots : [0..(SysExSlots - 1) -> Nat]]
  <2>1. CASE initialized /\ ~mounted
    <3>1. queue' = <<>> /\ clock' = -1 /\ sysex' = [sysex EXCEPT !.head = 0, !.tail = 0]
      BY <2>1 DEF Top, ClearQueues
    <3>2. -1 \in -1..(StaleMs + 1)
      BY Sizes
    <3>3. <<>> \in Seq([msg : Messages, age : 0..(StaleMs + 1)]) /\ Len(<<>>) <= Capacity
      BY Sizes, EmptySeq
    <3>4. QED
      BY <1>1, <3>1, <3>2, <3>3
  <2>2. CASE ~(initialized /\ ~mounted)
    BY <2>2 DEF Top, TypeOK
  <2>3. QED
    BY <2>1, <2>2
<1>3. initialized' \in BOOLEAN /\ popped' \in 0..(InboxSize + 1) /\ loop' = "inbox"
  BY Sizes DEF Top, Goto, TypeOK
<1>4. QED
  BY <1>2, <1>3 DEF Top, TypeOK, usbVars

(* A message goes from the inbox to the queue.                             *)
LEMMA TypePopInbox == ASSUME TypeOK, PopInbox PROVE TypeOK'
<1>1. /\ inbox # <<>> /\ Head(inbox) \in Messages
      /\ Tail(inbox) \in Seq(Messages) /\ Len(Tail(inbox)) = Len(inbox) - 1 /\ Len(inbox) \in Nat
  BY HeadTailProperties, LenProperties DEF TypeOK, PopInbox
<1>2. inbox' \in Seq(Messages) /\ Len(inbox') <= InboxSize
  BY <1>1, Sizes DEF PopInbox, TypeOK
<1>3. popped' \in 0..(InboxSize + 1)
  BY Sizes DEF PopInbox, TypeOK
<1>4. /\ queue' \in Seq([msg : Messages, age : 0..(StaleMs + 1)]) /\ Len(queue') <= Capacity
      /\ clock' \in -1..(StaleMs + 1)
  <2>1. /\ Enqueue(queue, Head(inbox)) \in Seq(QueueEntry)
        /\ Len(Enqueue(queue, Head(inbox))) <= Capacity
    BY <1>1, QueueEntryType, EnqueueCases DEF TypeOK
  <2>2. 0 \in -1..(StaleMs + 1)
    BY Sizes
  <2>3. queue \in Seq(QueueEntry) /\ Len(queue) <= Capacity /\ clock \in -1..(StaleMs + 1)
    BY QueueEntryType DEF TypeOK
  <2>4. /\ queue' = Enqueue(queue, Head(inbox)) \/ queue' = queue
        /\ clock' = 0 \/ clock' = clock
    BY DEF PopInbox, Bridge, Discard
  <2>5. queue' \in Seq(QueueEntry) /\ Len(queue') <= Capacity
    BY <2>1, <2>3, <2>4
  <2>6. QED
    BY <2>2, <2>3, <2>4, <2>5, QueueEntryType
<1>5. played' \in States
  BY <1>1, HearType DEF PopInbox, Bridge, Discard, TypeOK
<1>6. QED
  BY <1>2, <1>3, <1>4, <1>5 DEF PopInbox, TypeOK, usbVars

(* What is stale is dropped.                                               *)
LEMMA TypeDrainMidi == ASSUME TypeOK, DrainMidi PROVE TypeOK'
<1>1. /\ queue' \in Seq([msg : Messages, age : 0..(StaleMs + 1)]) /\ Len(queue') <= Capacity
  <2>1. /\ DropStale(queue) \in Seq(QueueEntry) /\ Len(DropStale(queue)) <= Len(queue)
        /\ Len(DropStale(queue)) \in Nat /\ Len(queue) \in Nat
    BY DropStaleKeeps, QueueEntryType, LenProperties DEF TypeOK
  <2>2. Len(DropStale(queue)) <= Capacity
    BY <2>1, Sizes DEF TypeOK
  <2>3. QED
    BY <2>1, <2>2, QueueEntryType DEF DrainMidi, TypeOK
<1>2. clock' \in -1..(StaleMs + 1) /\ checked' \in BOOLEAN
  <2>1. -1 \in -1..(StaleMs + 1)
    BY Sizes
  <2>2. QED
    BY <2>1 DEF DrainMidi, TypeOK
<1>3. loop' \in {"midi", "sysex"}
  BY DEF DrainMidi, Goto
<1>4. QED
  BY <1>1, <1>2, <1>3 DEF DrainMidi, TypeOK, usbVars

(* A packet is written when there is room for it.                          *)
LEMMA AppendFifo ==
    ASSUME TypeOK, HasRoom, NEW p \in Packets
    PROVE  Append(fifo, p) \in Seq(Packets) /\ Len(Append(fifo, p)) <= FifoSize
<1>1. /\ Append(fifo, p) \in Seq(Packets) /\ Len(Append(fifo, p)) = Len(fifo) + 1
      /\ Len(fifo) \in Nat
  BY AppendProperties, LenProperties DEF TypeOK
<1>2. QED
  BY <1>1, Sizes DEF HasRoom

(* The head of the queue is written.                                       *)
LEMMA TypeWriteHead == ASSUME TypeOK, WriteHead PROVE TypeOK'
<1>1. /\ queue \in Seq(QueueEntry) /\ queue # <<>> /\ HasRoom
  BY QueueEntryType DEF TypeOK, WriteHead
<1>2. /\ queue[1] \in QueueEntry
      /\ Tail(queue) \in Seq(QueueEntry) /\ Len(Tail(queue)) = Len(queue) - 1 /\ Len(queue) \in Nat
  BY <1>1
<1>3. Packet(queue[1].msg) \in Packets
  BY <1>2 DEF QueueEntry, Packet, Packets
<1>4. fifo' \in Seq(Packets) /\ Len(fifo') <= FifoSize
  BY <1>1, <1>3, AppendFifo DEF WriteHead
<1>5. queue' \in Seq([msg : Messages, age : 0..(StaleMs + 1)]) /\ Len(queue') <= Capacity
  BY <1>2, QueueEntryType, Sizes DEF WriteHead, TypeOK
<1>6. QED
  BY <1>4, <1>5 DEF WriteHead, TypeOK, loopVars

(* The pending clock is written.                                           *)
LEMMA TypeWriteClock == ASSUME TypeOK, WriteClock PROVE TypeOK'
<1>1. Packet(ClockMessage) \in Packets
  BY DEF Packet, Packets
<1>2. fifo' \in Seq(Packets) /\ Len(fifo') <= FifoSize
  BY <1>1, AppendFifo DEF WriteClock
<1>3. clock' \in -1..(StaleMs + 1)
  BY Sizes DEF WriteClock
<1>4. QED
  BY <1>2, <1>3 DEF WriteClock, TypeOK, loopVars

(* A SysEx message is taken off the queue.                                 *)
LEMMA TypeConsume ==
    ASSUME TypeOK
    PROVE  [sysex EXCEPT !.tail = Following(@)]
             \in [head : 0..(SysExSlots - 1), tail : 0..(SysExSlots - 1),
                  slots : [0..(SysExSlots - 1) -> Nat]]
<1>1. Following(sysex.tail) \in 0..(SysExSlots - 1)
  BY FollowingType DEF TypeOK
<1>2. QED
  BY <1>1 DEF TypeOK

(* Nothing is being written.                                               *)
LEMMA NotWritingType == NotWriting \in SysExWrites
BY Sizes DEF NotWriting, SysExWrites

(* A write ends.                                                           *)
LEMMA TypeFinish ==
    ASSUME TypeOK, NEW ok \in BOOLEAN, Finish(ok)
    PROVE  /\ sysex' \in [head : 0..(SysExSlots - 1), tail : 0..(SysExSlots - 1),
                          slots : [0..(SysExSlots - 1) -> Nat]]
           /\ pacer' \in -1..Backoff
           /\ writing' \in SysExWrites
           /\ loop' \in {"next", "read"}
<1>1. sysex' \in [head : 0..(SysExSlots - 1), tail : 0..(SysExSlots - 1),
                  slots : [0..(SysExSlots - 1) -> Nat]]
  BY TypeConsume DEF Finish, ConsumeHead, TypeOK
<1>2. pacer' \in -1..Backoff
  BY Sizes DEF Finish
<1>3. QED
  BY <1>1, <1>2, NotWritingType DEF Finish, Goto

(* A write begins.                                                         *)
LEMMA TypeStart ==
    ASSUME TypeOK, NEW reply \in Nat, Start(reply)
    PROVE  writing' \in SysExWrites /\ loop' = "write"
<1>1. 1 \in 0..SysExPackets
  BY Sizes
<1>2. \A w \in SysExWrites : \A b \in BOOLEAN :
        [w EXCEPT !.next = 1, !.failFast = b, !.reply = reply] \in SysExWrites
  BY <1>1 DEF SysExWrites
<1>3. (pacer \in 0..(Backoff - 1)) \in BOOLEAN
  OBVIOUS
<1>4. writing' \in SysExWrites
  BY <1>2, <1>3, NotWritingType, Zenon DEF Start
<1>5. QED
  BY <1>4 DEF Start, Goto

(* A message of the queue is written ...                                   *)
LEMMA TypeStartSysEx == ASSUME TypeOK, StartSysEx PROVE TypeOK'
<1>1. writing' \in SysExWrites /\ loop' = "write"
  BY TypeStart DEF StartSysEx
<1>2. QED
  BY <1>1 DEF StartSysEx, TypeOK, queueVars, usbVars

(* ... or a reply to the host.                                             *)
LEMMA TypeReply == ASSUME TypeOK, Reply PROVE TypeOK'
<1>1. left \in [short : Nat, msgs : SUBSET Messages, sysex : Nat, faults : Nat]
      /\ left.sysex \in Nat /\ left.sysex - 1 \in Nat
  BY DEF TypeOK, Reply
<1>2. writing' \in SysExWrites /\ loop' = "write"
  BY <1>1, TypeStart DEF Reply
<1>3. left' \in [short : Nat, msgs : SUBSET Messages, sysex : Nat, faults : Nat]
  BY <1>1 DEF Reply
<1>4. QED
  BY <1>2, <1>3 DEF Reply, TypeOK, queueVars, usbVars

(* The packets of the message that is being written.                       *)
LEMMA SysExPacketType ==
    ASSUME TypeOK, NEW last \in BOOLEAN
    PROVE  /\ InHand \in Nat
           /\ SysExPacket(InHand, last) \in Packets
<1>1. sysex.slots[sysex.tail] \in Nat /\ writing.reply \in Nat
  BY DEF TypeOK, SysExWrites
<1>2. InHand \in Nat
  BY <1>1 DEF InHand
<1>3. QED
  BY <1>2 DEF SysExPacket, Packets

(* There is no room for a packet.                                          *)
LEMMA TypeWriteFails == ASSUME TypeOK, WriteFails PROVE TypeOK'
<1>1. quiet \in -1..(Budget + EndExtra)
  BY Sizes DEF TypeOK
<1>2. writing' \in SysExWrites
  BY <1>1 DEF WriteFails, TypeOK, SysExWrites
<1>3. QED
  BY <1>2 DEF WriteFails, TypeOK, queueVars, usbVars

(* A packet of a SysEx message is written.                                 *)
LEMMA TypeWritePacket == ASSUME TypeOK, WritePacket PROVE TypeOK'
<1>1. fifo' \in Seq(Packets) /\ Len(fifo') <= FifoSize
  <2>1. SysExPacket(InHand, writing.next = SysExPackets) \in Packets
    BY SysExPacketType
  <2>2. QED
    BY <2>1, AppendFifo DEF WritePacket, Writes
<1>2. CASE writing.next = SysExPackets
  BY <1>1, <1>2, TypeFinish DEF WritePacket, TypeOK
<1>3. CASE writing.next # SysExPackets
  <2>1. /\ writing.next \in 0..SysExPackets /\ writing.next + 1 \in 0..SysExPackets
        /\ -1 \in -1..(Budget + EndExtra)
    <3>1. writing.next \in 0..SysExPackets
      BY DEF TypeOK, SysExWrites
    <3>2. QED
      BY <1>3, <3>1, Sizes
  <2>2. writing' \in SysExWrites
    BY <1>3, <2>1 DEF WritePacket, TypeOK, SysExWrites
  <2>3. QED
    BY <1>1, <1>3, <2>2 DEF WritePacket, TypeOK
<1>4. QED
  BY <1>2, <1>3

(* A write is given up.                                                    *)
LEMMA TypeGiveUp == ASSUME TypeOK, GiveUp PROVE TypeOK'
<1>1. CASE ~writing.ending /\ writing.next > 1
  <2>1. -1 \in -1..(Budget + EndExtra)
    BY Sizes
  <2>2. writing' \in SysExWrites
    BY <1>1, <2>1 DEF GiveUp, TypeOK, SysExWrites
  <2>3. QED
    BY <1>1, <2>2 DEF GiveUp, TypeOK, usbVars
<1>2. CASE ~(~writing.ending /\ writing.next > 1)
  BY <1>2, TypeFinish DEF GiveUp, TypeOK, usbVars
<1>3. QED
  BY <1>1, <1>2

(* A message that was given up is ended.                                   *)
LEMMA TypeWriteEnd == ASSUME TypeOK, WriteEnd PROVE TypeOK'
<1>1. fifo' \in Seq(Packets) /\ Len(fifo') <= FifoSize
  BY SysExPacketType, AppendFifo DEF WriteEnd, Writes
<1>2. QED
  BY <1>1, TypeFinish DEF WriteEnd, TypeOK

(* The host reads a packet.                                                *)
LEMMA TypeHostRead == ASSUME TypeOK, HostRead PROVE TypeOK'
<1>1. /\ fifo # <<>> /\ Head(fifo) \in Packets
      /\ Tail(fifo) \in Seq(Packets) /\ Len(Tail(fifo)) = Len(fifo) - 1 /\ Len(fifo) \in Nat
  BY HeadTailProperties, LenProperties DEF TypeOK, HostRead
<1>2. fifo' \in Seq(Packets) /\ Len(fifo') <= FifoSize
  BY <1>1, Sizes DEF HostRead, TypeOK
<1>3. host' \in [state : States, open : Nat]
  BY <1>1, ReadType DEF HostRead, TypeOK
<1>4. quiet' \in 0..(Budget + EndExtra)
  BY Sizes DEF HostRead
<1>5. QED
  BY <1>2, <1>3, <1>4 DEF HostRead, TypeOK, queueVars, loopVars

(* A fault uses one of those that a behaviour has.                         *)
LEMMA TypeFault == ASSUME TypeOK, Fault
                   PROVE left' \in [short : Nat, msgs : SUBSET Messages, sysex : Nat, faults : Nat]
<1>1. left \in [short : Nat, msgs : SUBSET Messages, sysex : Nat, faults : Nat]
  BY DEF TypeOK
<1>2. left.faults - 1 \in Nat
  BY <1>1 DEF Fault
<1>3. QED
  BY <1>1, <1>2 DEF Fault

(* The cable is unplugged.                                                 *)
LEMMA TypeUnplug == ASSUME TypeOK, Unplug PROVE TypeOK'
<1>1. fifo' \in Seq(Packets) /\ Len(fifo') <= FifoSize
  BY EmptySeq, Sizes DEF Unplug
<1>2. left' \in [short : Nat, msgs : SUBSET Messages, sysex : Nat, faults : Nat]
  BY TypeFault DEF Unplug
<1>3. host' \in [state : States, open : Nat]
  BY SilenceType DEF Unplug
<1>4. QED
  BY <1>1, <1>2, <1>3 DEF Unplug, TypeOK, queueVars, loopVars

(* A wait is counted up to its limit.                                      *)
LEMMA WaitedType ==
    ASSUME NEW max \in Nat, NEW t \in 0..max
    PROVE  Waited(t, max) \in 0..max
BY DEF Waited

(* An age is counted up to its limit.                                      *)
LEMMA OlderType ==
    ASSUME NEW age \in 0..(StaleMs + 1)
    PROVE  Older(age) \in 0..(StaleMs + 1)
BY Sizes DEF Older

(* Time passes.                                                            *)
LEMMA TypeTick == ASSUME TypeOK, Tick PROVE TypeOK'
<1>1. queue' \in Seq([msg : Messages, age : 0..(StaleMs + 1)]) /\ Len(queue') <= Capacity
  <2>1. Aged(queue) \in Seq(QueueEntry) /\ Len(Aged(queue)) = Len(queue)
    BY AgedKeeps, QueueEntryType DEF TypeOK
  <2>2. QED
    BY <2>1, QueueEntryType DEF Tick, TypeOK
<1>2. clock' \in -1..(StaleMs + 1)
  <2>1. clock \in -1..(StaleMs + 1) /\ clock' = IF clock < 0 THEN clock ELSE Older(clock)
    BY DEF Tick, TypeOK
  <2>2. ~(clock < 0) => clock \in 0..(StaleMs + 1)
    BY <2>1, Sizes
  <2>3. ~(clock < 0) => Older(clock) \in 0..(StaleMs + 1)
    BY <2>2, OlderType
  <2>4. \A n \in 0..(StaleMs + 1) : n \in -1..(StaleMs + 1)
    BY Sizes
  <2>5. QED
    BY <2>1, <2>3, <2>4
<1>3. pacer' \in -1..Backoff
  <2>1. pacer \in -1..Backoff /\ pacer' = IF pacer < 0 THEN pacer ELSE Waited(pacer, Backoff)
    BY DEF Tick, TypeOK
  <2>2. ~(pacer < 0) => pacer \in 0..Backoff
    BY <2>1, Sizes
  <2>3. ~(pacer < 0) => Waited(pacer, Backoff) \in 0..Backoff
    BY <2>2, WaitedType, Sizes
  <2>4. \A n \in 0..Backoff : n \in -1..Backoff
    BY Sizes
  <2>5. QED
    BY <2>1, <2>3, <2>4
<1>4. quiet' \in 0..(Budget + EndExtra)
  <2>1. quiet \in 0..(Budget + EndExtra) /\ quiet' = Waited(quiet, Budget + EndExtra)
    BY DEF Tick, TypeOK
  <2>2. Budget + EndExtra \in Nat
    BY Sizes
  <2>3. QED
    BY <2>1, <2>2, WaitedType
<1>5. writing' \in SysExWrites
  <2>1. Waited(writing.spent, Budget + EndExtra) \in 0..(Budget + EndExtra)
    <3>1. Budget + EndExtra \in Nat /\ writing.spent \in 0..(Budget + EndExtra)
      BY Sizes DEF TypeOK, SysExWrites
    <3>2. QED
      BY <3>1, WaitedType
  <2>2. -1 \in -1..(Budget + EndExtra)
    BY Sizes
  <2>3. QED
    BY <2>1, <2>2 DEF Tick, TypeOK, SysExWrites
<1>6. QED
  BY <1>1, <1>2, <1>3, <1>4, <1>5 DEF Tick, TypeOK

(* The steps that move the loop on and change nothing else.                *)
LEMMA TypeRest ==
    ASSUME TypeOK,
           \/ InboxDone \/ ReadDone \/ MidiDone \/ DrainSysEx \/ SkipSysEx \/ RejectSysEx
           \/ SysExDone \/ Suspend \/ Resume \/ Plug \/ UNCHANGED vars
    PROVE  TypeOK'
<1>1. CASE InboxDone \/ ReadDone \/ MidiDone \/ DrainSysEx \/ SysExDone
  BY <1>1 DEF InboxDone, ReadDone, MidiDone, DrainSysEx, SysExDone, Goto, TypeOK, queueVars, usbVars
<1>2. CASE SkipSysEx \/ RejectSysEx
  <2>1. sysex' \in [head : 0..(SysExSlots - 1), tail : 0..(SysExSlots - 1),
                    slots : [0..(SysExSlots - 1) -> Nat]]
    BY <1>2, TypeConsume DEF SkipSysEx, RejectSysEx, ConsumeHead
  <2>2. 0 \in -1..Backoff
    BY Sizes
  <2>3. QED
    BY <1>2, <2>1, <2>2 DEF SkipSysEx, RejectSysEx, TypeOK, loopVars, usbVars
<1>3. CASE Suspend
  <2>1. left' \in [short : Nat, msgs : SUBSET Messages, sysex : Nat, faults : Nat]
    BY <1>3, TypeFault DEF Suspend
  <2>2. QED
    BY <1>3, <2>1 DEF Suspend, TypeOK, queueVars, loopVars
<1>4. CASE Resume \/ Plug
  BY <1>4 DEF Resume, Plug, TypeOK, queueVars, loopVars
<1>5. CASE UNCHANGED vars
  BY <1>5 DEF vars, TypeOK, queueVars, loopVars, usbVars
<1>6. QED
  BY <1>1, <1>2, <1>3, <1>4, <1>5

(* Every step keeps the types.                                             *)
LEMMA TypeStep == ASSUME TypeOK, [Next]_vars PROVE TypeOK'
BY TypeReceiveShort, TypeReceiveSysEx, TypeTop, TypePopInbox, TypeDrainMidi, TypeWriteHead,
   TypeWriteClock, TypeStartSysEx, TypeReply, TypeWriteFails, TypeWritePacket, TypeGiveUp,
   TypeWriteEnd, TypeHostRead, TypeUnplug, TypeTick, TypeRest DEF Next, LoopStep

-----------------------------------------------------------------------------
\* SysEx messages.

(* Unended, of any buffer and any message that was open before.            *)
OpenAfter(buf, open) ==
    IF \A k \in DOMAIN buf : buf[k].kind = "short"
    THEN {open} \ {0}
    ELSE {buf[k].id : k \in {k \in DOMAIN buf :
                               /\ buf[k].kind = "part"
                               /\ \A j \in DOMAIN buf : j > k => buf[j].kind = "short"}}

(* The message that the host waits for, of this buffer.                    *)
LEMMA UnendedIsOpen ==
    Unended = OpenAfter(fifo, host.open) /\ Unended' = OpenAfter(fifo', host'.open)
BY DEF Unended, OpenAfter

(* The last packet of a buffer says what is open after it, unless it is a  *)
(* short message.                                                          *)
LEMMA OpenAppend ==
    ASSUME NEW buf \in Seq(Packets), NEW p \in Packets, p.kind # "short", NEW open
    PROVE  /\ OpenAfter(Append(buf, p), open) \subseteq {p.id}
           /\ p.kind = "end" => OpenAfter(Append(buf, p), open) = {}
<1>1. p.kind = "end" => p.kind # "part"
  OBVIOUS
<1>2. PICK x \in Seq(Packets) : x = Append(buf, p)
  BY AppendProperties
<1>3. PICK l \in Nat : l = Len(buf)
  BY LenProperties
<1>4. /\ DOMAIN x = 1..(l + 1) /\ x[l + 1] = p
  BY <1>2, <1>3, AppendProperties, LenProperties
<1>5. /\ \A k \in 1..(l + 1) : k = l + 1 \/ l + 1 > k
      /\ l + 1 \in 1..(l + 1)
  BY <1>3
<1>6. ~ \A k \in DOMAIN x : x[k].kind = "short"
  BY <1>1, <1>4, <1>5
<1>7. ASSUME NEW k \in DOMAIN x, x[k].kind = "part",
             \A j \in DOMAIN x : j > k => x[j].kind = "short"
      PROVE  p.kind # "end" /\ x[k].id = p.id
  <2>1. k = l + 1
    BY <1>1, <1>4, <1>5, <1>7
  <2>2. QED
    BY <1>1, <1>4, <1>7, <2>1
<1>8. OpenAfter(x, open) \subseteq {p.id} /\ (p.kind = "end" => OpenAfter(x, open) = {})
  BY <1>6, <1>7 DEF OpenAfter
<1>9. QED
  BY <1>2, <1>8

(* Reading opens nothing that would not have been open anyway.             *)
LEMMA OpenTail ==
    ASSUME NEW buf \in Seq(Packets), buf # <<>>, NEW h \in [state : States, open : Nat]
    PROVE  OpenAfter(Tail(buf), Read(h, Head(buf)).open) \subseteq OpenAfter(buf, h.open)
<1>1. PICK l \in Nat : l = Len(buf) - 1
  BY EmptySeq
<1>2. PICK x \in Seq(Packets) : x = Tail(buf)
  BY HeadTailProperties
<1>3. PICK p \in Packets : p = Head(buf)
  BY HeadTailProperties
<1>4. /\ DOMAIN buf = 1..(l + 1) /\ DOMAIN x = 1..l
      /\ \A k \in 1..l : x[k] = buf[k + 1]
      /\ buf[1] = p
  <2>1. Len(buf) = l + 1 /\ Len(x) = l
    BY <1>1, <1>2, HeadTailProperties, LenProperties
  <2>2. QED
    BY <1>2, <1>3, <2>1, HeadTailProperties, LenProperties
<1>5. /\ \A k \in 1..l : k + 1 \in 1..(l + 1) /\ k + 1 > 1
      /\ 1 \in 1..(l + 1)
      /\ \A j, k \in 1..l : j > k <=> j + 1 > k + 1
  BY <1>1
<1>6. \A k \in 1..(l + 1) : k = 1 \/ \E j \in 1..l : k = j + 1
  <2> SUFFICES ASSUME NEW k \in 1..(l + 1), k # 1 PROVE \E j \in 1..l : k = j + 1
    OBVIOUS
  <2>1. k - 1 \in 1..l /\ k = (k - 1) + 1
    BY <1>1
  <2>2. QED
    BY <2>1
<1>7. PICK o : o = Read(h, p).open
  OBVIOUS
<1>8. /\ p.kind \in {"short", "part", "end"}
      /\ p.kind = "short" => o = h.open
      /\ p.kind = "part" => o = p.id
      /\ p.kind = "end" => o = 0
  BY <1>7 DEF Read, Packets
<1>9. CASE \A k \in 1..l : x[k].kind = "short"
  <2>1. OpenAfter(x, o) = {o} \ {0}
    BY <1>4, <1>9 DEF OpenAfter
  <2>2. ASSUME NEW k \in 1..(l + 1), k > 1 PROVE buf[k].kind = "short"
    <3>1. k # 1
      BY <2>2
    <3>2. PICK i \in 1..l : k = i + 1
      BY <1>6, <3>1
    <3>3. QED
      BY <1>4, <1>9, <3>2
  <2>3. CASE p.kind = "short"
    <3>1. \A k \in 1..(l + 1) : buf[k].kind = "short"
      BY <1>4, <1>6, <1>9, <2>3
    <3>2. QED
      BY <1>2, <1>3, <1>4, <1>7, <1>8, <2>1, <2>3, <3>1 DEF OpenAfter
  <2>4. CASE p.kind = "part"
    <3>1. ~ \A k \in DOMAIN buf : buf[k].kind = "short"
      BY <1>4, <1>5, <2>4
    <3>2. p.id \in OpenAfter(buf, h.open)
      BY <1>4, <1>5, <2>2, <2>4, <3>1 DEF OpenAfter
    <3>3. QED
      BY <1>2, <1>3, <1>7, <1>8, <2>1, <2>4, <3>2
  <2>5. CASE p.kind = "end"
    BY <1>2, <1>3, <1>7, <1>8, <2>1, <2>5
  <2>6. QED
    BY <1>8, <2>3, <2>4, <2>5
<1>10. CASE ~ \A k \in 1..l : x[k].kind = "short"
  <2>1. ~ \A k \in DOMAIN buf : buf[k].kind = "short"
    BY <1>4, <1>5, <1>10
  <2>2. ASSUME NEW k \in 1..l, x[k].kind = "part", \A j \in 1..l : j > k => x[j].kind = "short"
        PROVE  x[k].id \in OpenAfter(buf, h.open)
    <3>1. k + 1 \in 1..(l + 1) /\ x[k] = buf[k + 1]
      BY <1>4, <1>5
    <3>2. ASSUME NEW j \in 1..(l + 1), j > k + 1 PROVE buf[j].kind = "short"
      <4>1. j # 1
        BY <1>1, <3>2
      <4>2. PICK i \in 1..l : j = i + 1
        BY <1>6, <4>1
      <4>3. i > k
        BY <1>5, <3>2, <4>2
      <4>4. QED
        BY <1>4, <2>2, <4>2, <4>3
    <3>3. QED
      BY <1>4, <2>1, <2>2, <3>1, <3>2 DEF OpenAfter
  <2>3. OpenAfter(x, o) \subseteq OpenAfter(buf, h.open)
    <3>1. OpenAfter(x, o)
            = {x[k].id : k \in {k \in DOMAIN x :
                                  /\ x[k].kind = "part"
                                  /\ \A j \in DOMAIN x : j > k => x[j].kind = "short"}}
      BY <1>4, <1>10 DEF OpenAfter
    <3>2. QED
      BY <1>4, <2>2, <3>1
  <2>4. QED
    BY <1>2, <1>3, <1>7, <2>3
<1>11. QED
  BY <1>9, <1>10

-----------------------------------------------------------------------------
(* A host that is gone has heard nothing and nothing is left for it.       *)
Gone == ~mounted => fifo = <<>> /\ host = NewHost

(* The host has nothing before it and no message open.                     *)
Clear == fifo = <<>> /\ host.open = 0

(* The message that is written is still in the queue, unless it is a       *)
(* reply.  The host has read nothing for as long as the writer waited for  *)
(* room, except before the packet it writes, or before it began to end the *)
(* message; and it had not at the last try that failed, unless the bus was *)
(* gone then.                                                              *)
Deaf(t) ==
  /\ ~writing.ending /\ writing.next = 1 => t >= writing.spent
  /\ writing.ending => t >= writing.spent - Budget

Writing ==
  loop = "write" =>
    /\ writing.reply = 0 => SysExWaits
    /\ writing.next >= 1
    /\ ~writing.ending => writing.spent <= Budget
    /\ mounted /\ Len(fifo) = FifoSize => Deaf(quiet)
    /\ Tried /\ ~Clear => Deaf(writing.still)

UsbInv == TypeOK /\ Gone /\ Writing /\ OneSysExAtATime

(* The invariant holds initially.                                          *)
LEMMA InvInit == Init => UsbInv
BY TypeInit DEF Init, UsbInv, Gone, Writing, OneSysExAtATime

(* Nothing is written to a host that is gone.                              *)
LEMMA GoneStep == ASSUME UsbInv, [Next]_vars PROVE Gone'
<1>1. TypeOK /\ Gone
  BY DEF UsbInv
<1>2. CASE HostRead \/ Unplug \/ Plug \/ Suspend \/ Resume \/ Tick
  BY <1>1, <1>2 DEF HostRead, Unplug, Plug, Suspend, Resume, Tick, Gone
<1>3. CASE WriteHead \/ WriteClock \/ WritePacket \/ WriteEnd
  BY <1>1, <1>3 DEF WriteHead, WriteClock, WritePacket, WriteEnd, Writes, HasRoom, Gone
<1>4. CASE \/ Top \/ PopInbox \/ InboxDone \/ Reply \/ ReadDone \/ DrainMidi \/ MidiDone
           \/ DrainSysEx \/ SkipSysEx \/ RejectSysEx \/ StartSysEx \/ SysExDone \/ WriteFails
           \/ GiveUp
  BY <1>1, <1>4 DEF Top, PopInbox, InboxDone, Reply, ReadDone, DrainMidi, MidiDone, DrainSysEx,
     SkipSysEx, RejectSysEx, StartSysEx, SysExDone, WriteFails, GiveUp, usbVars, Gone
<1>5. CASE (\E m \in Messages : ReceiveShort(m)) \/ ReceiveSysEx \/ UNCHANGED vars
  BY <1>1, <1>5 DEF ReceiveShort, ReceiveSysEx, vars, usbVars, Gone
<1>6. QED
  BY <1>2, <1>3, <1>4, <1>5 DEF Next, LoopStep

(* The numbers of a write.                                                 *)
LEMMA WritingNumbers ==
    ASSUME TypeOK
    PROVE  /\ quiet \in Int /\ quiet >= 0 /\ quiet <= Budget + EndExtra
           /\ writing.spent \in Int /\ writing.spent >= 0 /\ writing.spent <= Budget + EndExtra
           /\ writing.still \in Int /\ writing.next \in Int /\ writing.reply \in Nat
           /\ Len(fifo) \in Int /\ Len(fifo) <= FifoSize
           /\ Budget \in Nat /\ EndExtra \in Nat /\ EndExtra <= Budget
           /\ FifoSize \in Nat /\ FifoSize > 0 /\ SysExPackets \in Nat /\ SysExPackets > 1
<1>1. /\ quiet \in 0..(Budget + EndExtra) /\ writing \in SysExWrites
      /\ fifo \in Seq(Packets) /\ Len(fifo) <= FifoSize
  BY DEF TypeOK
<1>2. /\ writing.spent \in 0..(Budget + EndExtra) /\ writing.still \in -1..(Budget + EndExtra)
      /\ writing.next \in 0..SysExPackets /\ writing.reply \in Nat
  BY <1>1 DEF SysExWrites
<1>3. Len(fifo) \in Nat
  BY <1>1, LenProperties
<1>4. QED
  BY <1>1, <1>2, <1>3, Sizes

(* A write begins: no time has passed.                                     *)
LEMMA WritingStart ==
    ASSUME UsbInv, NEW reply \in Nat, Start(reply), reply = 0 => SysExWaits',
           quiet' = quiet
    PROVE  Writing'
<1>1. /\ writing'.next = 1 /\ writing'.ending = FALSE /\ writing'.spent = 0
      /\ writing'.still = -1 /\ writing'.reply = reply
  BY DEF Start, NotWriting
<1>2. quiet >= 0 /\ quiet \in Int /\ Budget \in Nat
  BY WritingNumbers DEF UsbInv
<1>3. Deaf(quiet)'
  BY <1>1, <1>2 DEF Deaf
<1>4. ~Tried'
  BY <1>1 DEF Tried
<1>5. writing'.next >= 1 /\ writing'.spent <= Budget
  BY <1>1, <1>2
<1>6. QED
  BY <1>1, <1>3, <1>4, <1>5 DEF Writing

(* A packet of a message is written, and it is not the last.               *)
LEMMA WritingPacket ==
    ASSUME UsbInv, WritePacket, writing.next # SysExPackets
    PROVE  Writing'
<1>1. TypeOK /\ Writing
  BY DEF UsbInv
<1>2. /\ loop = "write" /\ sysex' = sysex /\ ~writing.ending /\ loop' = "write"
      /\ writing' = [writing EXCEPT !.next = @ + 1, !.still = -1]
  BY DEF WritePacket, Writes
<1>3. /\ writing'.next = writing.next + 1 /\ writing'.ending = writing.ending
      /\ writing'.spent = writing.spent /\ writing'.still = -1
      /\ writing'.reply = writing.reply
  BY <1>1, <1>2 DEF TypeOK, SysExWrites
<1>4. writing'.next >= 1 /\ writing'.next # 1
  BY <1>1, <1>2, <1>3, WritingNumbers DEF Writing
<1>5. ~Tried' /\ Deaf(quiet)'
  BY <1>2, <1>3, <1>4 DEF Tried, Deaf
<1>6. SysExWaits' = SysExWaits
  BY <1>2 DEF SysExWaits
<1>7. QED
  BY <1>1, <1>2, <1>3, <1>4, <1>5, <1>6 DEF Writing

(* There is no room: the buffer is full, or the bus is gone.               *)
LEMMA WritingFails == ASSUME UsbInv, WriteFails PROVE Writing'
<1>1. TypeOK /\ Writing /\ Gone
  BY DEF UsbInv
<1>2. /\ loop = "write" /\ sysex' = sysex /\ fifo' = fifo /\ host' = host /\ quiet' = quiet
      /\ mounted' = mounted /\ writing' = [writing EXCEPT !.still = quiet] /\ ~HasRoom
  BY DEF WriteFails, queueVars, usbVars
<1>3. /\ writing'.next = writing.next /\ writing'.ending = writing.ending
      /\ writing'.spent = writing.spent /\ writing'.still = quiet
      /\ writing'.reply = writing.reply
  BY <1>1, <1>2 DEF TypeOK, SysExWrites
<1>4. SysExWaits' = SysExWaits /\ Clear' = Clear
  BY <1>2 DEF SysExWaits, Clear
<1>5. Deaf(quiet)' = Deaf(quiet) /\ Deaf(writing.still)' = Deaf(quiet)
  BY <1>2, <1>3 DEF Deaf
<1>6. CASE mounted
  <2>1. Len(fifo) = FifoSize
    BY <1>1, <1>2, <1>6, WritingNumbers DEF HasRoom
  <2>2. QED
    BY <1>1, <1>2, <1>3, <1>4, <1>5, <1>6, <2>1 DEF Writing
<1>7. CASE ~mounted
  <2>1. Clear
    BY <1>1, <1>7 DEF Gone, Clear, NewHost
  <2>2. QED
    BY <1>1, <1>2, <1>3, <1>4, <1>5, <1>7, <2>1 DEF Writing
<1>8. QED
  BY <1>6, <1>7

(* A message is given up that is still to be ended.                        *)
LEMMA WritingGivenUp ==
    ASSUME UsbInv, GiveUp, ~writing.ending, writing.next > 1
    PROVE  Writing'
<1>1. TypeOK /\ Writing
  BY DEF UsbInv
<1>2. /\ loop = "write" /\ sysex' = sysex /\ quiet' = quiet
      /\ writing' = [writing EXCEPT !.ending = TRUE, !.still = -1]
  BY DEF GiveUp, usbVars
<1>3. /\ writing'.next = writing.next /\ writing'.ending /\ writing'.spent = writing.spent
      /\ writing'.still = -1 /\ writing'.reply = writing.reply
  BY <1>1, <1>2 DEF TypeOK, SysExWrites
<1>4. quiet >= writing.spent - Budget
  BY <1>1, <1>2, WritingNumbers DEF Writing
<1>5. Deaf(quiet)' /\ ~Tried'
  BY <1>2, <1>3, <1>4 DEF Deaf, Tried
<1>6. SysExWaits' = SysExWaits
  BY <1>2 DEF SysExWaits
<1>7. QED
  BY <1>1, <1>2, <1>3, <1>5, <1>6 DEF Writing

(* Time passes for the writer and for the host alike.                      *)
LEMMA WritingTick == ASSUME UsbInv, Tick, loop = "write" PROVE Writing'
<1>1. TypeOK /\ Writing
  BY DEF UsbInv
<1>2. /\ sysex' = sysex /\ mounted' = mounted /\ fifo' = fifo /\ ~StopsWaiting
      /\ writing' = [writing EXCEPT !.spent = Waited(@, Budget + EndExtra), !.still = -1]
      /\ quiet' = Waited(quiet, Budget + EndExtra)
  BY DEF Tick
<1>3. /\ writing'.next = writing.next /\ writing'.ending = writing.ending
      /\ writing'.spent = Waited(writing.spent, Budget + EndExtra)
      /\ writing'.still = -1 /\ writing'.reply = writing.reply
  BY <1>1, <1>2 DEF TypeOK, SysExWrites
<1>4. ~writing.ending => writing.spent < Budget
  <2>1. ~(writing.spent >= Budget + (IF writing.ending THEN EndExtra ELSE 0))
    BY <1>2 DEF StopsWaiting, TimeIsUp
  <2>2. ASSUME ~writing.ending PROVE writing.spent < Budget
    BY <1>1, <2>1, <2>2, WritingNumbers
  <2>3. QED
    BY <2>2
<1>5. ~writing'.ending => writing'.spent <= Budget
  BY <1>1, <1>3, <1>4, WritingNumbers DEF Waited
<1>6. /\ quiet >= writing.spent => quiet' >= writing'.spent
      /\ quiet >= writing.spent - Budget => quiet' >= writing'.spent - Budget
  BY <1>1, <1>2, <1>3, WritingNumbers DEF Waited
<1>7. Deaf(quiet) => Deaf(quiet)'
  BY <1>3, <1>6 DEF Deaf
<1>8. SysExWaits' = SysExWaits /\ ~Tried'
  BY <1>2, <1>3 DEF SysExWaits, Tried
<1>9. QED
  BY <1>1, <1>2, <1>3, <1>5, <1>7, <1>8 DEF Writing

(* What happens to the queue, the buffer and the host meanwhile.           *)
LEMMA WritingMeanwhile ==
    ASSUME UsbInv, writing' = writing, loop' = loop, SysExWaits => SysExWaits',
           mounted' /\ Len(fifo') = FifoSize
             => mounted /\ Len(fifo) = FifoSize /\ quiet' = quiet,
           Clear => Clear'
    PROVE  Writing'
<1>1. Deaf(writing.still)' = Deaf(writing.still) /\ Tried' = Tried
  BY DEF Deaf, Tried
<1>2. quiet' = quiet => Deaf(quiet)' = Deaf(quiet)
  BY DEF Deaf
<1>3. QED
  BY <1>1, <1>2 DEF UsbInv, Writing

(* The host reads, and leaves and comes back, while a message is written.  *)
LEMMA WritingBus ==
    ASSUME UsbInv, HostRead \/ Unplug \/ Plug \/ Suspend \/ Resume
    PROVE  Writing'
<1>1. TypeOK /\ Gone
  BY DEF UsbInv
<1>2. /\ writing' = writing /\ loop' = loop /\ SysExWaits' = SysExWaits
  BY DEF HostRead, Unplug, Plug, Suspend, Resume, queueVars, loopVars, SysExWaits
<1>3. /\ mounted' /\ Len(fifo') = FifoSize => mounted /\ Len(fifo) = FifoSize /\ quiet' = quiet
      /\ Clear => Clear'
  <2>1. CASE HostRead
    <3>1. Len(fifo') = Len(fifo) - 1 /\ fifo # <<>>
      BY <1>1, <2>1, HeadTailProperties DEF HostRead, TypeOK
    <3>2. Len(fifo') # FifoSize
      BY <1>1, <3>1, WritingNumbers
    <3>3. QED
      BY <3>1, <3>2 DEF Clear
  <2>2. CASE Unplug
    BY <2>2 DEF Unplug, Clear, NewHost
  <2>3. CASE Plug
    <3>1. fifo' = <<>> /\ fifo = <<>> /\ host' = host /\ Len(<<>>) = 0
      BY <1>1, <2>3, EmptySeq DEF Plug, Gone
    <3>2. Len(fifo') # FifoSize
      BY <1>1, <3>1, WritingNumbers
    <3>3. QED
      BY <3>1, <3>2 DEF Clear
  <2>4. CASE Suspend \/ Resume
    BY <2>4 DEF Suspend, Resume, Clear
  <2>5. QED
    BY <2>1, <2>2, <2>3, <2>4
<1>4. QED
  BY <1>2, <1>3, WritingMeanwhile

(* A message joins the queue while one is written.                         *)
LEMMA WritingReceive ==
    ASSUME UsbInv, ReceiveSysEx \/ (\E m \in Messages : ReceiveShort(m)) \/ UNCHANGED vars
    PROVE  Writing'
<1>1. TypeOK
  BY DEF UsbInv
<1>2. /\ writing' = writing /\ loop' = loop /\ mounted' = mounted /\ fifo' = fifo
      /\ quiet' = quiet /\ host' = host
  BY DEF ReceiveSysEx, ReceiveShort, vars, loopVars, usbVars
<1>3. SysExWaits => SysExWaits'
  <2>1. CASE ReceiveSysEx /\ ~SysExFull
    <3>1. sysex'.head = Following(sysex.head) /\ sysex'.tail = sysex.tail
      BY <1>1, <2>1 DEF ReceiveSysEx, TypeOK
    <3>2. QED
      BY <2>1, <3>1 DEF SysExFull, SysExWaits
  <2>2. CASE ~(ReceiveSysEx /\ ~SysExFull)
    <3>1. sysex' = sysex
      BY <2>2 DEF ReceiveSysEx, ReceiveShort, vars, queueVars
    <3>2. QED
      BY <3>1 DEF SysExWaits
  <2>3. QED
    BY <2>1, <2>2
<1>4. QED
  BY <1>2, <1>3, WritingMeanwhile DEF Clear

(* A write ends.                                                           *)
LEMMA FinishLeaves == ASSUME NEW ok, Finish(ok) PROVE loop' # "write"
BY DEF Finish, Goto

(* The other steps of the loop.                                            *)
LEMMA NotWritten ==
    ASSUME \/ Top \/ PopInbox \/ InboxDone \/ ReadDone \/ DrainMidi \/ MidiDone \/ DrainSysEx
           \/ SkipSysEx \/ RejectSysEx \/ SysExDone \/ WriteHead \/ WriteClock
    PROVE  loop # "write" /\ loop' # "write"
BY DEF Top, PopInbox, InboxDone, ReadDone, DrainMidi, MidiDone, DrainSysEx, SkipSysEx, RejectSysEx,
   SysExDone, WriteHead, WriteClock, Goto, loopVars

(* Every step keeps what is known of the write.                            *)
LEMMA WritingStep == ASSUME UsbInv, [Next]_vars PROVE Writing'
<1>1. CASE StartSysEx
  <2>1. Start(0) /\ SysExWaits /\ sysex' = sysex /\ quiet' = quiet /\ 0 \in Nat
    BY <1>1 DEF StartSysEx, queueVars, usbVars
  <2>2. SysExWaits'
    BY <2>1 DEF SysExWaits
  <2>3. QED
    BY <2>1, <2>2, WritingStart
<1>2. CASE Reply
  <2>1. Start(left.sysex) /\ left.sysex > 0 /\ quiet' = quiet
    BY <1>2 DEF Reply, usbVars
  <2>2. left.sysex \in Nat
    BY DEF UsbInv, TypeOK
  <2>3. QED
    BY <2>1, <2>2, WritingStart
<1>3. CASE WritePacket
  <2>1. CASE writing.next = SysExPackets
    BY <1>3, <2>1, FinishLeaves DEF WritePacket, Writing
  <2>2. CASE writing.next # SysExPackets
    BY <1>3, <2>2, WritingPacket
  <2>3. QED
    BY <2>1, <2>2
<1>4. CASE WriteEnd
  BY <1>4, FinishLeaves DEF WriteEnd, Writing
<1>5. CASE GiveUp
  <2>1. CASE ~writing.ending /\ writing.next > 1
    BY <1>5, <2>1, WritingGivenUp
  <2>2. CASE ~(~writing.ending /\ writing.next > 1)
    BY <1>5, <2>2, FinishLeaves DEF GiveUp, Writing
  <2>3. QED
    BY <2>1, <2>2
<1>6. CASE Tick
  <2>1. CASE loop = "write"
    BY <1>6, <2>1, WritingTick
  <2>2. CASE loop # "write"
    BY <1>6, <2>2 DEF Tick, Writing
  <2>3. QED
    BY <2>1, <2>2
<1>7. CASE \/ Top \/ PopInbox \/ InboxDone \/ ReadDone \/ DrainMidi \/ MidiDone \/ DrainSysEx
           \/ SkipSysEx \/ RejectSysEx \/ SysExDone \/ WriteHead \/ WriteClock
  BY <1>7, NotWritten DEF Writing
<1>8. QED
  BY <1>1, <1>2, <1>3, <1>4, <1>5, <1>6, <1>7, WritingFails, WritingBus, WritingReceive
     DEF Next, LoopStep

(* What the host has of a SysEx message is of the one that is written.     *)
LEMMA OneSysExStep == ASSUME UsbInv, [Next]_vars PROVE OneSysExAtATime'
<1>1. TypeOK /\ Writing /\ OneSysExAtATime
  BY DEF UsbInv
<1>2. fifo \in Seq(Packets) /\ host \in [state : States, open : Nat]
  BY <1>1 DEF TypeOK
<1>3. CASE ReceiveSysEx
  <2>1. Unended' = Unended
    BY <1>3, UnendedIsOpen DEF ReceiveSysEx, usbVars
  <2>2. writing' = writing /\ loop' = loop
    BY <1>3 DEF ReceiveSysEx, loopVars
  <2>3. ASSUME loop = "write" PROVE InHand' = InHand
    <3>1. CASE writing.reply > 0
      BY <2>2, <3>1 DEF InHand
    <3>2. CASE ~(writing.reply > 0)
      <4>1. writing.reply = 0
        BY <1>1, <3>2, WritingNumbers
      <4>2. /\ sysex.head # sysex.tail /\ sysex.head \in 0..(SysExSlots - 1)
            /\ sysex.tail \in 0..(SysExSlots - 1)
        BY <1>1, <2>3, <4>1 DEF Writing, SysExWaits, TypeOK
      <4>3. sysex'.slots[sysex'.tail] = sysex.slots[sysex.tail]
        BY <1>1, <1>3, <4>2 DEF ReceiveSysEx, TypeOK
      <4>4. QED
        BY <2>2, <3>2, <4>3 DEF InHand
    <3>3. QED
      BY <3>1, <3>2
  <2>4. QED
    BY <1>1, <2>1, <2>2, <2>3 DEF OneSysExAtATime
<1>4. CASE StartSysEx \/ Reply
  <2>1. writing'.next = 1
    BY <1>4 DEF StartSysEx, Reply, Start, NotWriting
  <2>2. QED
    BY <2>1 DEF OneSysExAtATime
<1>5. CASE WritePacket
  <2>1. CASE writing.next = SysExPackets
    BY <1>5, <2>1, FinishLeaves DEF WritePacket, OneSysExAtATime
  <2>2. CASE writing.next # SysExPackets
    <3>1. PICK p : p = SysExPacket(InHand, FALSE)
      OBVIOUS
    <3>2. p \in Packets /\ p.kind # "short" /\ p.id = InHand
      BY <1>1, <3>1, SysExPacketType DEF SysExPacket
    <3>3. OpenAfter(Append(fifo, p), host'.open) \subseteq {p.id}
      BY <1>2, <3>2, OpenAppend
    <3>4. /\ fifo' = Append(fifo, p) /\ sysex' = sysex
          /\ writing' = [writing EXCEPT !.next = @ + 1, !.still = -1]
      BY <1>5, <2>2, <3>1 DEF WritePacket, SysExPacket
    <3>5. InHand' = InHand
      <4>1. writing'.reply = writing.reply
        BY <1>1, <3>4 DEF TypeOK, SysExWrites
      <4>2. QED
        BY <3>4, <4>1 DEF InHand
    <3>6. QED
      BY <3>2, <3>3, <3>4, <3>5, UnendedIsOpen DEF OneSysExAtATime
  <2>3. QED
    BY <2>1, <2>2
<1>6. CASE WriteEnd
  BY <1>6, FinishLeaves DEF WriteEnd, OneSysExAtATime
<1>7. CASE GiveUp \/ WriteFails \/ Tick
  <2>1. CASE GiveUp /\ ~(~writing.ending /\ writing.next > 1)
    BY <2>1, FinishLeaves DEF GiveUp, OneSysExAtATime
  <2>2. CASE (GiveUp /\ ~writing.ending /\ writing.next > 1) \/ WriteFails \/ Tick
    <3>1. /\ loop' = loop /\ sysex' = sysex /\ fifo' = fifo /\ host' = host
      BY <2>2 DEF GiveUp, WriteFails, Tick, queueVars, usbVars
    <3>2. writing'.next = writing.next /\ writing'.reply = writing.reply
      BY <1>1, <2>2 DEF GiveUp, WriteFails, Tick, TypeOK, SysExWrites
    <3>3. Unended' = Unended /\ InHand' = InHand
      BY <3>1, <3>2, UnendedIsOpen DEF InHand
    <3>4. QED
      BY <1>1, <3>1, <3>2, <3>3 DEF OneSysExAtATime
  <2>3. QED
    BY <1>7, <2>1, <2>2
<1>8. CASE HostRead
  <2>1. Unended' \subseteq Unended
    BY <1>2, <1>8, OpenTail, UnendedIsOpen DEF HostRead
  <2>2. writing' = writing /\ loop' = loop /\ InHand' = InHand
    BY <1>8 DEF HostRead, queueVars, loopVars, InHand
  <2>3. QED
    BY <1>1, <2>1, <2>2 DEF OneSysExAtATime
<1>9. CASE Unplug
  <2>1. fifo' = <<>> /\ host'.open = 0
    BY <1>9 DEF Unplug, NewHost
  <2>2. DOMAIN fifo' = {}
    BY <2>1
  <2>3. Unended' = {}
    BY <2>1, <2>2 DEF Unended
  <2>4. QED
    BY <2>3 DEF OneSysExAtATime
<1>10. CASE Suspend \/ Resume \/ Plug \/ (\E m \in Messages : ReceiveShort(m)) \/ UNCHANGED vars
  <2>1. /\ loop' = loop /\ writing' = writing /\ sysex' = sysex /\ fifo' = fifo /\ host' = host
    BY <1>10 DEF Suspend, Resume, Plug, ReceiveShort, vars, queueVars, loopVars, usbVars
  <2>2. Unended' = Unended /\ InHand' = InHand
    BY <2>1, UnendedIsOpen DEF InHand
  <2>3. QED
    BY <1>1, <2>1, <2>2 DEF OneSysExAtATime
<1>11. CASE \/ Top \/ PopInbox \/ InboxDone \/ ReadDone \/ DrainMidi \/ MidiDone \/ DrainSysEx
            \/ SkipSysEx \/ RejectSysEx \/ SysExDone \/ WriteHead \/ WriteClock
  BY <1>11, NotWritten DEF OneSysExAtATime
<1>12. QED
  BY <1>3, <1>4, <1>5, <1>6, <1>7, <1>8, <1>9, <1>10, <1>11 DEF Next, LoopStep

(* Every step keeps the invariant.                                         *)
LEMMA InvStep == ASSUME UsbInv, [Next]_vars PROVE UsbInv'
BY TypeStep, GoneStep, WritingStep, OneSysExStep DEF UsbInv

(* It holds in every state.                                                *)
LEMMA InvAlways == Spec => []UsbInv
<1>1. UsbInv /\ [Next]_vars => UsbInv'
  BY InvStep
<1>2. QED
  BY InvInit, <1>1, PTL DEF Spec

\* Every variable keeps its type: no queue, ring or buffer of the dongle holds
\* more than it has room for.
THEOREM QueuesStayInBounds == Spec => []TypeOK
<1>1. UsbInv => TypeOK
  BY DEF UsbInv
<1>2. QED
  BY InvAlways, <1>1, PTL

\* What the host has of an unfinished SysEx message is always of the one that
\* is still in the slot it is written from (UsbSysExQueue.h).
THEOREM SysExNeverMixed == Spec => []OneSysExAtATime
<1>1. UsbInv => OneSysExAtATime
  BY DEF UsbInv
<1>2. QED
  BY InvAlways, <1>1, PTL

(* A message that was given up was tried again until the host had been     *)
(* deaf for long enough.                                                   *)
LEMMA GivenUpDeaf ==
    ASSUME UsbInv, GiveUp, loop' # "write", Unended' # {}, ~writing.failFast, mounted, ~suspended
    PROVE  writing.still >= EndExtra
<1>1. TypeOK /\ Writing
  BY DEF UsbInv
<1>2. /\ loop = "write" /\ Tried /\ StopsWaiting /\ fifo' = fifo /\ host' = host
      /\ writing.ending \/ ~(writing.next > 1)
  BY DEF GiveUp, usbVars
<1>3. ~Clear
  <2>1. ASSUME Clear PROVE FALSE
    <3>1. fifo' = <<>> /\ host'.open = 0
      BY <1>2, <2>1 DEF Clear
    <3>2. DOMAIN fifo' = {}
      BY <3>1
    <3>3. QED
      BY <3>1, <3>2 DEF Unended
  <2>2. QED
    BY <2>1
<1>4. Deaf(writing.still) /\ writing.next >= 1
  BY <1>1, <1>2, <1>3 DEF Writing
<1>5. writing.spent >= Budget + (IF writing.ending THEN EndExtra ELSE 0)
  BY <1>2 DEF StopsWaiting, TimeIsUp
<1>6. CASE writing.ending
  BY <1>1, <1>4, <1>5, <1>6, WritingNumbers DEF Deaf
<1>7. CASE ~writing.ending
  <2>1. writing.next = 1
    BY <1>1, <1>2, <1>4, <1>7, WritingNumbers
  <2>2. writing.still >= writing.spent /\ writing.spent >= Budget + 0
    BY <1>4, <1>5, <1>7, <2>1 DEF Deaf
  <2>3. QED
    BY <1>1, <2>2, WritingNumbers
<1>8. QED
  BY <1>6, <1>7

(* A write that ends leaves no message open, or ...                        *)
LEMMA LeftOpenStep ==
    ASSUME UsbInv, [Next]_vars, loop = "write", loop' # "write", Unended' # {}
    PROVE  writing.still >= EndExtra \/ writing.failFast \/ ~mounted \/ suspended
<1>1. TypeOK
  BY DEF UsbInv
<1>2. fifo \in Seq(Packets)
  BY <1>1 DEF TypeOK
<1>3. OpenAfter(Append(fifo, SysExPacket(InHand, TRUE)), host'.open) = {}
  <2>1. PICK p : p = SysExPacket(InHand, TRUE)
    OBVIOUS
  <2>2. p \in Packets /\ p.kind = "end"
    BY <1>1, <2>1, SysExPacketType DEF SysExPacket
  <2>3. QED
    BY <1>2, <2>1, <2>2, OpenAppend
<1>4. CASE WritePacket
  <2>1. writing.next = SysExPackets
    BY <1>4 DEF WritePacket
  <2>2. fifo' = Append(fifo, SysExPacket(InHand, TRUE))
    BY <1>4, <2>1 DEF WritePacket, SysExPacket
  <2>3. QED
    BY <1>3, <2>2, UnendedIsOpen
<1>5. CASE WriteEnd
  BY <1>3, <1>5, UnendedIsOpen DEF WriteEnd
<1>6. CASE GiveUp
  BY <1>6, GivenUpDeaf
<1>7. CASE \/ HostRead \/ Suspend \/ Resume \/ Unplug \/ Plug \/ Tick \/ ReceiveSysEx \/ WriteFails
           \/ (\E m \in Messages : ReceiveShort(m)) \/ UNCHANGED vars
  BY <1>7 DEF HostRead, Suspend, Resume, Unplug, Plug, Tick, ReceiveSysEx, WriteFails,
     ReceiveShort, vars, loopVars
<1>8. CASE StartSysEx \/ Reply
  BY <1>8 DEF StartSysEx, Reply
<1>9. QED
  BY <1>4, <1>5, <1>6, <1>7, <1>8, NotWritten DEF Next, LoopStep

\* A SysEx is left open at the host only when the host had read nothing, up to the
\* last try, while the writer waited to end it, or is gone, or soon after a write
\* that failed (UsbMidiPacket.h).
THEOREM OnlyStallsLeaveOpen == Spec => LeftOpenByStall
<1>1. UsbInv /\ [Next]_vars
        => [loop = "write" /\ loop' # "write" /\ Unended' # {}
              => writing.still >= EndExtra \/ writing.failFast \/ ~mounted \/ suspended]_vars
  BY LeftOpenStep
<1>2. QED
  BY InvAlways, <1>1, PTL DEF Spec, LeftOpenByStall

-----------------------------------------------------------------------------
\* Packets that no note and no controller depends on.

(* A packet that no note and no controller depends on.                     *)
Idle(p) == \A n : ~Strikes(p, n) /\ ~Releases(p, n) /\ ~Sets(p, n)

(* A clock is idle ...                                                     *)
LEMMA IdleClock == Idle(Packet(ClockMessage)) /\ Packet(ClockMessage) \in Packets
BY DEF Idle, Packet, Packets, ClockMessage, Message, Strikes, Releases, Sets, Off

(* ... and so is a packet of a SysEx message.                              *)
LEMMA IdleSysEx == ASSUME NEW p, p.kind # "short" PROVE Idle(p)
BY DEF Idle, Strikes, Releases, Sets

(* An idle packet is written in between the buffer and the queue.          *)
LEMMA LineInsert ==
    ASSUME NEW buf \in Seq(Packets), NEW q \in Seq(QueueEntry), NEW p \in Packets, Idle(p)
    PROVE  \E g : /\ Selects(Line(Append(buf, p), q), Line(buf, q), g)
                  /\ \A k \in DOMAIN Line(Append(buf, p), q) :
                       Idle(Line(Append(buf, p), q)[k]) \/ \E i \in DOMAIN Line(buf, q) : g[i] = k
<1>1. PICK b \in Seq(Packets) : b = Append(buf, p)
  BY AppendProperties
<1>2. PICK l \in Nat : l = Len(buf)
  BY LenProperties
<1>3. PICK m \in Nat : m = Len(q)
  BY LenProperties
<1>4. /\ Len(b) = l + 1 /\ \A k \in 1..l : b[k] = buf[k]
      /\ b[l + 1] = p
  BY <1>1, <1>2, AppendProperties, LenProperties
<1>5. PICK w : w = Line(buf, q)
  OBVIOUS
<1>6. PICK x : x = Line(b, q)
  OBVIOUS
<1>7. /\ DOMAIN w = 1..(l + m)
      /\ \A k \in 1..l : w[k] = buf[k]
      /\ \A k \in 1..m : w[l + k] = Packet(q[k].msg)
  BY <1>2, <1>3, <1>5, LineProperties
<1>8. /\ DOMAIN x = 1..((l + 1) + m)
      /\ \A k \in 1..(l + 1) : x[k] = b[k]
      /\ \A k \in 1..m : x[(l + 1) + k] = Packet(q[k].msg)
  <2>1. PICK n : n = l + 1
    OBVIOUS
  <2>2. /\ DOMAIN x = 1..(Len(b) + m)
        /\ \A k \in 1..Len(b) : x[k] = b[k]
        /\ \A k \in 1..m : x[Len(b) + k] = Packet(q[k].msg)
    BY <1>3, <1>6, LineProperties
  <2>3. Len(b) = n
    BY <1>4, <2>1
  <2>4. QED
    BY <2>1, <2>2, <2>3
<1>9. PICK g : g = [i \in 1..(l + m) |-> IF i <= l THEN i ELSE i + 1]
  OBVIOUS
<1>10. g \in [1..(l + m) -> 1..((l + 1) + m)]
  BY <1>9
<1>11. \A i, j \in 1..(l + m) : i < j => g[i] < g[j]
  BY <1>9
<1>12. ASSUME NEW k \in 1..(l + m) PROVE w[k] = x[g[k]]
  <2>1. CASE k <= l
    <3>1. k \in 1..l /\ k \in 1..(l + 1)
      BY <2>1
    <3>2. QED
      BY <1>4, <1>7, <1>8, <1>9, <2>1, <3>1
  <2>2. CASE ~(k <= l)
    <3>1. k - l \in Int
      OBVIOUS
    <3>2. PICK j \in Int : j = k - l
      BY <3>1
    <3>3. j \in 1..m /\ k = l + j /\ k + 1 = (l + 1) + j
      BY <2>2, <3>2
    <3>4. g[k] = (l + 1) + j
      BY <1>9, <2>2, <3>3
    <3>5. QED
      BY <1>7, <1>8, <3>3, <3>4
  <2>3. QED
    BY <2>1, <2>2
<1>13. ASSUME NEW k \in 1..((l + 1) + m), ~Idle(x[k]) PROVE \E i \in 1..(l + m) : g[i] = k
  <2>1. CASE k <= l
    <3>1. k \in 1..(l + m) /\ g[k] = k
      BY <1>9, <2>1
    <3>2. QED
      BY <3>1
  <2>2. CASE k = l + 1
    <3>1. k \in 1..(l + 1)
      BY <2>2
    <3>2. QED
      BY <1>4, <1>8, <1>13, <2>2, <3>1
  <2>3. CASE k > l + 1
    <3>1. k - 1 \in 1..(l + m) /\ ~(k - 1 <= l) /\ (k - 1) + 1 = k
      BY <2>3
    <3>2. g[k - 1] = k
      BY <1>9, <3>1
    <3>3. QED
      BY <3>1, <3>2
  <2>4. QED
    BY <2>1, <2>2, <2>3
<1>14. Selects(x, w, g)
  BY <1>7, <1>8, <1>10, <1>11, <1>12 DEF Selects
<1>15. \A k \in DOMAIN x : Idle(x[k]) \/ \E i \in DOMAIN w : g[i] = k
  BY <1>7, <1>8, <1>13
<1>16. x = Line(Append(buf, p), q)
  BY <1>1, <1>6
<1>17. QED
  BY <1>5, <1>14, <1>15, <1>16

(* Idle packets make no difference to what sounds ...                      *)
LEMMA SoundsThinned ==
    ASSUME NEW w \in Seq(Packets), NEW x \in Seq(Packets), NEW g, Selects(w, x, g),
           \A k \in DOMAIN w : Idle(w[k]) \/ \E i \in DOMAIN x : g[i] = k,
           NEW notes, NEW n, Sounds(notes, w, n)
    PROVE  Sounds(notes, x, n)
<1>1. /\ g \in [DOMAIN x -> DOMAIN w]
      /\ \A i, j \in DOMAIN x : i < j => g[i] < g[j]
      /\ \A i \in DOMAIN x : x[i] = w[g[i]]
  BY DEF Selects
<1>2. CASE n \in notes /\ \A k \in DOMAIN w : ~Releases(w[k], n)
  <2>1. \A i \in DOMAIN x : ~Releases(x[i], n)
    BY <1>1, <1>2
  <2>2. QED
    BY <1>2, <2>1 DEF Sounds
<1>3. ASSUME NEW k \in DOMAIN w, Strikes(w[k], n),
             \A j \in DOMAIN w : j > k => ~Releases(w[j], n)
      PROVE  Sounds(notes, x, n)
  <2>1. PICK i \in DOMAIN x : g[i] = k
    BY <1>3 DEF Idle
  <2>2. Strikes(x[i], n)
    BY <1>1, <1>3, <2>1
  <2>3. ASSUME NEW j \in DOMAIN x, j > i PROVE ~Releases(x[j], n)
    <3>1. g[j] \in DOMAIN w /\ g[j] > k
      <4>1. i \in Int /\ j \in Int /\ g[i] \in Int /\ g[j] \in Int /\ g[j] \in DOMAIN w
        BY <1>1, LenProperties
      <4>2. i < j
        BY <2>3, <4>1
      <4>3. g[i] < g[j]
        BY <1>1, <4>2
      <4>4. QED
        BY <2>1, <4>1, <4>3
    <3>2. QED
      BY <1>1, <1>3, <3>1
  <2>4. QED
    BY <2>2, <2>3 DEF Sounds
<1>4. QED
  BY <1>2, <1>3 DEF Sounds

(* ... and to where controllers end.                                       *)
LEMMA EndsAtThinned ==
    ASSUME NEW w \in Seq(Packets), NEW x \in Seq(Packets), NEW g, Selects(w, x, g),
           \A k \in DOMAIN w : Idle(w[k]) \/ \E i \in DOMAIN x : g[i] = k,
           NEW values, NEW c, NEW v, EndsAt(values, x, c, v)
    PROVE  EndsAt(values, w, c, v)
<1>1. /\ g \in [DOMAIN x -> DOMAIN w]
      /\ \A i, j \in DOMAIN x : i < j => g[i] < g[j]
      /\ \A i \in DOMAIN x : x[i] = w[g[i]]
  BY DEF Selects
<1>2. CASE values[c] = v /\ \A i \in DOMAIN x : ~Sets(x[i], c)
  <2>1. \A k \in DOMAIN w : ~Sets(w[k], c)
    BY <1>1, <1>2 DEF Idle
  <2>2. QED
    BY <1>2, <2>1 DEF EndsAt
<1>3. ASSUME NEW i \in DOMAIN x, Sets(x[i], c), x[i].msg.second = v,
             \A j \in DOMAIN x : j > i => ~Sets(x[j], c)
      PROVE  EndsAt(values, w, c, v)
  <2>1. g[i] \in DOMAIN w /\ Sets(w[g[i]], c) /\ w[g[i]].msg.second = v
    BY <1>1, <1>3
  <2>2. ASSUME NEW k \in DOMAIN w, k > g[i], Sets(w[k], c) PROVE FALSE
    <3>1. PICK j \in DOMAIN x : g[j] = k
      BY <2>2 DEF Idle
    <3>2. i \in Int /\ j \in Int /\ g[i] \in Int /\ g[j] \in Int
      BY <1>1, LenProperties
    <3>3. ~(j < i) /\ j # i
      <4>1. j < i => g[j] < g[i]
        BY <1>1
      <4>2. g[j] > g[i]
        BY <2>2, <3>1
      <4>3. QED
        BY <3>2, <4>1, <4>2
    <3>4. j > i
      BY <3>2, <3>3
    <3>5. QED
      BY <1>1, <1>3, <2>2, <3>1, <3>4
  <2>3. QED
    BY <2>1, <2>2 DEF EndsAt
<1>4. QED
  BY <1>2, <1>3 DEF EndsAt

(* What a message does to what sounds and to the controllers.              *)
LEMMA HearNotes ==
    ASSUME NEW s \in States, NEW m, NEW n
    PROVE  n \in Hear(s, m).notes
             <=> Strikes(Packet(m), n) \/ (n \in s.notes /\ ~Releases(Packet(m), n))
<1>1. /\ [s EXCEPT !.notes = @ \ {m.first}].notes = s.notes \ {m.first}
      /\ [s EXCEPT !.notes = @ \cup {m.first}].notes = s.notes \cup {m.first}
      /\ [s EXCEPT !.values[m.first] = m.second].notes = s.notes
  BY DEF States
<1>2. /\ Strikes(Packet(m), n) <=> m.status = "NoteOn" /\ ~Off(m) /\ m.first = n
      /\ Releases(Packet(m), n) <=> Off(m) /\ m.first = n
  BY DEF Strikes, Releases, Packet
<1>3. CASE Off(m)
  BY <1>1, <1>2, <1>3 DEF Hear
<1>4. CASE ~Off(m)
  BY <1>1, <1>2, <1>4 DEF Hear
<1>5. QED
  BY <1>3, <1>4

(* A controller takes the value of the message that sets it.               *)
LEMMA HearValues ==
    ASSUME NEW s \in States, NEW m, NEW c \in Controllers
    PROVE  /\ Sets(Packet(m), c) => Hear(s, m).values[c] = m.second
           /\ ~Sets(Packet(m), c) => Hear(s, m).values[c] = s.values[c]
<1>1. /\ [s EXCEPT !.notes = @ \ {m.first}].values = s.values
      /\ [s EXCEPT !.notes = @ \cup {m.first}].values = s.values
      /\ [s EXCEPT !.values[m.first] = m.second].values[c]
           = IF m.first = c THEN m.second ELSE s.values[c]
  BY DEF States
<1>2. Sets(Packet(m), c) <=> m.status = "ControlChange" /\ m.first = c
  BY DEF Sets, Packet
<1>3. Off(m) => m.status \in {"NoteOff", "NoteOn"}
  BY DEF Off
<1>4. CASE Off(m) \/ m.status = "NoteOn"
  BY <1>1, <1>2, <1>3, <1>4 DEF Hear
<1>5. CASE ~Off(m) /\ m.status # "NoteOn"
  BY <1>1, <1>2, <1>5 DEF Hear
<1>6. QED
  BY <1>4, <1>5

(* What a packet does to the host.                                         *)
LEMMA ReadNotes ==
    ASSUME NEW h \in [state : States, open : Nat], NEW p \in Packets, NEW n
    PROVE  n \in Read(h, p).state.notes
             <=> Strikes(p, n) \/ (n \in h.state.notes /\ ~Releases(p, n))
<1>1. CASE p.kind = "short"
  <2>1. p = Packet(p.msg) /\ Read(h, p).state = Hear(h.state, p.msg) /\ h.state \in States
    BY <1>1 DEF Packets, Packet, Read
  <2>2. QED
    BY <2>1, HearNotes
<1>2. CASE p.kind \in {"part", "end"}
  BY <1>2 DEF Read, Strikes, Releases
<1>3. QED
  BY <1>1, <1>2 DEF Packets

(* The controllers that it sets are set.                                   *)
LEMMA ReadValues ==
    ASSUME NEW h \in [state : States, open : Nat], NEW p \in Packets, NEW c \in Controllers
    PROVE  /\ Sets(p, c) => Read(h, p).state.values[c] = p.msg.second
           /\ ~Sets(p, c) => Read(h, p).state.values[c] = h.state.values[c]
<1>1. CASE p.kind = "short"
  <2>1. p = Packet(p.msg) /\ Read(h, p).state = Hear(h.state, p.msg) /\ h.state \in States
    BY <1>1 DEF Packets, Packet, Read
  <2>2. QED
    BY <2>1, HearValues
<1>2. CASE p.kind \in {"part", "end"}
  BY <1>2 DEF Read, Sets
<1>3. QED
  BY <1>1, <1>2 DEF Packets

(* An unplugged host that hears nothing of the buffer hears no more notes. *)
LEMMA SoundsUnplugged ==
    ASSUME NEW buf \in Seq(Packets), NEW q \in Seq(QueueEntry), NEW notes, NEW n,
           Sounds({}, Line(<<>>, q), n)
    PROVE  Sounds(notes, Line(buf, q), n)
<1>1. PICK l \in Nat : l = Len(buf)
  BY LenProperties
<1>2. PICK m \in Nat : m = Len(q)
  BY LenProperties
<1>3. PICK w : w = Line(buf, q)
  OBVIOUS
<1>4. PICK x : x = Line(<<>>, q)
  OBVIOUS
<1>5. /\ DOMAIN w = 1..(l + m)
      /\ \A k \in 1..m : w[l + k] = Packet(q[k].msg)
  BY <1>1, <1>2, <1>3, LineProperties
<1>6. /\ DOMAIN x = 1..m
      /\ \A k \in 1..m : x[k] = Packet(q[k].msg)
  <2>1. <<>> \in Seq(Packets) /\ Len(<<>>) = 0
    BY EmptySeq
  <2>2. PICK e \in Seq(Packets) : e = <<>>
    BY <2>1
  <2>3. /\ DOMAIN x = 1..(Len(e) + m)
        /\ \A k \in 1..m : x[Len(e) + k] = Packet(q[k].msg)
    BY <1>2, <1>4, <2>2, LineProperties
  <2>4. Len(e) = 0
    BY <2>1, <2>2
  <2>5. /\ DOMAIN x = 1..(0 + m)
        /\ \A k \in 1..m : x[0 + k] = Packet(q[k].msg)
    BY <2>3, <2>4
  <2>6. QED
    BY <2>5
<1>7. PICK k \in 1..m : Strikes(x[k], n) /\ \A j \in 1..m : j > k => ~Releases(x[j], n)
  BY <1>4, <1>6 DEF Sounds
<1>8. l + k \in 1..(l + m) /\ w[l + k] = x[k]
  BY <1>5, <1>6
<1>9. ASSUME NEW j \in 1..(l + m), j > l + k PROVE ~Releases(w[j], n)
  <2>1. j - l \in Int
    OBVIOUS
  <2>2. PICK i \in Int : i = j - l
    BY <2>1
  <2>3. i \in 1..m /\ i > k /\ j = l + i
    BY <1>9, <2>2
  <2>4. w[j] = x[i]
    BY <1>5, <1>6, <2>3
  <2>5. QED
    BY <1>7, <2>3, <2>4
<1>10. QED
  BY <1>3, <1>5, <1>7, <1>8, <1>9 DEF Sounds

-----------------------------------------------------------------------------
\* What each step does to the notes and the controllers.

(* The notes that a host with these would be left with.                    *)
Left(notes, buf, q) == {n \in Notes : Sounds(notes, Line(buf, q), n)}

(* The stuck notes are those left that were released.                      *)
LEMMA StuckIsLeft ==
    /\ Stuck = Left(host.state.notes, fifo, queue) \ played.notes
    /\ Stuck' = Left(host'.state.notes, fifo', queue') \ played'.notes
BY WaitingIsLine DEF Stuck, Left

(* The controllers that end at another value than the one played.          *)
LEMMA WrongMembers ==
    /\ \A c : c \in Wrong
         <=> c \in Controllers
             /\ ~EndsAt(host.state.values, Line(fifo, queue), c, played.values[c])
    /\ \A c : c \in Wrong'
         <=> c \in Controllers
             /\ ~EndsAt(host'.state.values, Line(fifo', queue'), c, played'.values[c])
BY WaitingIsLine DEF Wrong

(* The line is one of packets.                                             *)
LEMMA LineTyped ==
    ASSUME TypeOK
    PROVE  /\ fifo \in Seq(Packets) /\ queue \in Seq(QueueEntry)
           /\ Line(fifo, queue) \in Seq(Packets)
<1>1. fifo \in Seq(Packets) /\ queue \in Seq(QueueEntry)
  BY QueueEntryType DEF TypeOK
<1>2. QED
  BY <1>1, LineProperties

(* Steps that change only the queue, and keep the releases in it.          *)
LEMMA LeftKept ==
    ASSUME NEW buf \in Seq(Packets), NEW q \in Seq(QueueEntry), NEW r \in Seq(QueueEntry),
           Keeping(q, r, Releasing(q)), NEW notes
    PROVE  Left(notes, buf, r) \subseteq Left(notes, buf, q)
BY SoundsKept DEF Left

(* A packet that nothing depends on is written to the buffer.              *)
LEMMA LeftInsert ==
    ASSUME NEW buf \in Seq(Packets), NEW q \in Seq(QueueEntry), NEW p \in Packets, Idle(p),
           NEW notes
    PROVE  Left(notes, Append(buf, p), q) \subseteq Left(notes, buf, q)
<1>1. PICK b \in Seq(Packets) : b = Append(buf, p)
  BY AppendProperties
<1>2. Line(buf, q) \in Seq(Packets) /\ Line(b, q) \in Seq(Packets)
  BY LineProperties
<1>3. PICK g : /\ Selects(Line(b, q), Line(buf, q), g)
               /\ \A k \in DOMAIN Line(b, q) :
                    Idle(Line(b, q)[k]) \/ \E i \in DOMAIN Line(buf, q) : g[i] = k
  BY <1>1, LineInsert
<1>4. QED
  BY <1>1, <1>2, <1>3, SoundsThinned DEF Left

(* Nor does any controller.                                                *)
LEMMA EndsAtInsert ==
    ASSUME NEW buf \in Seq(Packets), NEW q \in Seq(QueueEntry), NEW p \in Packets, Idle(p),
           NEW values, NEW c, NEW v, EndsAt(values, Line(buf, q), c, v)
    PROVE  EndsAt(values, Line(Append(buf, p), q), c, v)
<1>1. PICK b \in Seq(Packets) : b = Append(buf, p)
  BY AppendProperties
<1>2. Line(buf, q) \in Seq(Packets) /\ Line(b, q) \in Seq(Packets)
  BY LineProperties
<1>3. PICK g : /\ Selects(Line(b, q), Line(buf, q), g)
               /\ \A k \in DOMAIN Line(b, q) :
                    Idle(Line(b, q)[k]) \/ \E i \in DOMAIN Line(buf, q) : g[i] = k
  BY <1>1, LineInsert
<1>4. QED
  BY <1>1, <1>2, <1>3, EndsAtThinned

(* The packets that the loop writes and that come from no queue entry.     *)
LEMMA IdleWrites ==
    ASSUME TypeOK, WriteClock \/ WritePacket \/ WriteEnd
    PROVE  /\ \E p \in Packets : Idle(p) /\ fifo' = Append(fifo, p)
           /\ queue' = queue /\ host' = host /\ played' = played
<1>1. CASE WriteClock
  BY <1>1, IdleClock DEF WriteClock
<1>2. CASE WritePacket
  <2>1. PICK last \in BOOLEAN : fifo' = Append(fifo, SysExPacket(InHand, last))
    BY <1>2 DEF WritePacket, SysExPacket
  <2>2. PICK p : p = SysExPacket(InHand, last)
    OBVIOUS
  <2>3. p \in Packets /\ p.kind # "short"
    BY <2>2, SysExPacketType DEF SysExPacket
  <2>4. QED
    BY <1>2, <2>1, <2>2, <2>3, IdleSysEx DEF WritePacket
<1>3. CASE WriteEnd
  <2>1. PICK p : p = SysExPacket(InHand, TRUE)
    OBVIOUS
  <2>2. p \in Packets /\ p.kind # "short"
    BY <2>1, SysExPacketType DEF SysExPacket
  <2>3. QED
    BY <1>3, <2>1, <2>2, IdleSysEx DEF WriteEnd
<1>4. QED
  BY <1>1, <1>2, <1>3

(* The steps that leave the waiting messages and the host alone.           *)
LEMMA QuietSteps ==
    ASSUME \/ InboxDone \/ Reply \/ ReadDone \/ MidiDone \/ DrainSysEx \/ SkipSysEx \/ RejectSysEx
           \/ StartSysEx \/ SysExDone \/ WriteFails \/ GiveUp
           \/ Suspend \/ Resume \/ Plug \/ ReceiveSysEx \/ (\E m \in Messages : ReceiveShort(m))
           \/ UNCHANGED vars
    PROVE  fifo' = fifo /\ queue' = queue /\ host' = host /\ played' = played
<1>1. CASE \/ InboxDone \/ Reply \/ ReadDone \/ MidiDone \/ DrainSysEx \/ SkipSysEx \/ RejectSysEx
           \/ StartSysEx \/ SysExDone \/ WriteFails \/ GiveUp
  BY <1>1 DEF InboxDone, Reply, ReadDone, MidiDone, DrainSysEx, SkipSysEx, RejectSysEx, StartSysEx,
     SysExDone, WriteFails, GiveUp, queueVars, usbVars
<1>2. CASE \/ Suspend \/ Resume \/ Plug \/ ReceiveSysEx \/ (\E m \in Messages : ReceiveShort(m))
           \/ UNCHANGED vars
  BY <1>2 DEF Suspend, Resume, Plug, ReceiveSysEx, ReceiveShort, vars, queueVars, loopVars, usbVars
<1>3. QED
  BY <1>1, <1>2

(* The Tick lets entries age, which changes none of their messages.        *)
LEMMA TickKeeps ==
    ASSUME TypeOK, Tick
    PROVE  /\ queue' \in Seq(QueueEntry)
           /\ Keeping(queue, queue', Releasing(queue)) /\ Keeping(queue, queue', Latest(queue))
           /\ fifo' = fifo /\ host' = host /\ played' = played
<1>1. queue \in Seq(QueueEntry)
  BY LineTyped
<1>2. queue' = Aged(queue) /\ fifo' = fifo /\ host' = host /\ played' = played
  BY DEF Tick
<1>3. /\ queue' \in Seq(QueueEntry) /\ Len(queue') = Len(queue)
      /\ \A k \in 1..Len(queue) : queue'[k].msg = queue[k].msg
  BY <1>1, <1>2, AgedKeeps
<1>4. Keeping(queue, queue', DOMAIN queue)
  BY <1>1, <1>3, KeepingAll
<1>5. Releasing(queue) \subseteq DOMAIN queue /\ Latest(queue) \subseteq DOMAIN queue
  BY DEF Releasing, Latest
<1>6. QED
  BY <1>2, <1>3, <1>4, <1>5, KeepingFewer

(* So does dropping what is stale, of what matters.                        *)
LEMMA DrainKeeps ==
    ASSUME TypeOK, DrainMidi
    PROVE  /\ queue' \in Seq(QueueEntry)
           /\ Keeping(queue, queue', Releasing(queue)) /\ Keeping(queue, queue', Latest(queue))
           /\ fifo' = fifo /\ host' = host /\ played' = played
<1>1. queue \in Seq(QueueEntry) /\ DOMAIN queue = 1..Len(queue)
  BY LineTyped
<1>2. /\ queue' = DropStale(queue) \/ queue' = queue
      /\ fifo' = fifo /\ host' = host /\ played' = played
  BY DEF DrainMidi, usbVars
<1>3. /\ DropStale(queue) \in Seq(QueueEntry)
      /\ Keeping(queue, DropStale(queue), Releasing(queue) \cup Latest(queue))
  BY <1>1, DropStaleKeeps
<1>4. Keeping(queue, queue, DOMAIN queue)
  BY <1>1, KeepingAll
<1>5. /\ Releasing(queue) \subseteq DOMAIN queue /\ Latest(queue) \subseteq DOMAIN queue
      /\ Releasing(queue) \subseteq Releasing(queue) \cup Latest(queue)
      /\ Latest(queue) \subseteq Releasing(queue) \cup Latest(queue)
  BY DEF Releasing, Latest
<1>6. QED
  BY <1>1, <1>2, <1>3, <1>4, <1>5, KeepingFewer

(* A message that is taken from the inbox: whoever would still hear its    *)
(* note after it would have heard it before.                               *)
LEMMA StuckPop ==
    ASSUME TypeOK, PopInbox, ~(Evicts /\ AllReleases(queue) /\ IsRelease(Head(inbox)))
    PROVE  Stuck' \subseteq Stuck
<1>1. /\ fifo \in Seq(Packets) /\ queue \in Seq(QueueEntry) /\ Len(queue) <= Capacity
      /\ played \in States
  BY LineTyped DEF TypeOK
<1>2. fifo' = fifo /\ host' = host
  BY DEF PopInbox, usbVars
<1>3. CASE queue' = queue /\ played' = played
  BY <1>2, <1>3, StuckIsLeft
<1>4. PICK m \in Messages : m = Head(inbox)
  BY HeadTailProperties DEF PopInbox, TypeOK
<1>5. CASE Bridge(m)
  <2>1. played' = Hear(played, m)
    BY <1>5 DEF Bridge
  <2>2. CASE m.status = "Clock"
    <3>1. queue' = queue
      BY <1>5, <2>2 DEF Bridge
    <3>2. played' = played
      BY <2>1, <2>2 DEF Hear, Off
    <3>3. QED
      BY <1>3, <3>1, <3>2
  <2>3. CASE m.status # "Clock"
    <3>1. queue' = Enqueue(queue, m)
      BY <1>5, <2>3 DEF Bridge
    <3>2. /\ Entry(m) \in QueueEntry /\ Entry(m).msg = m
          /\ \/ AllReleases(queue) /\ Len(queue) = Capacity /\ (IsRelease(m) \/ queue' = queue)
             \/ \E r \in Seq(QueueEntry) : /\ queue' = Append(r, Entry(m))
                                           /\ Keeping(queue, r, Releasing(queue))
      BY <1>1, <3>1, EnqueueCases
    <3>3. ASSUME NEW n, n \notin played'.notes
          PROVE  /\ ~Strikes(Packet(m), n)
                 /\ ~Releases(Packet(m), n) => n \notin played.notes
      BY <1>1, <2>1, <3>3, HearNotes
    <3>4. CASE AllReleases(queue) /\ Len(queue) = Capacity /\ (IsRelease(m) \/ queue' = queue)
      <4>1. ~IsRelease(m) /\ queue' = queue
        BY <1>4, <3>4 DEF PopInbox, Evicts
      <4>2. \A n : ~Releases(Packet(m), n)
        BY <4>1 DEF IsRelease, Off, Releases, Packet
      <4>3. QED
        BY <1>2, <3>3, <4>1, <4>2, StuckIsLeft
    <3>5. ASSUME NEW r \in Seq(QueueEntry), queue' = Append(r, Entry(m)),
                 Keeping(queue, r, Releasing(queue))
          PROVE  Stuck' \subseteq Stuck
      <4>1. Line(fifo, queue') = Append(Line(fifo, r), Packet(m))
        BY <1>1, <3>2, <3>5, LineAppend
      <4>2. Line(fifo, r) \in Seq(Packets) /\ Packet(m) \in Packets
        BY <1>1, LineProperties DEF Packet, Packets
      <4>3. ASSUME NEW n \in Notes, Sounds(host.state.notes, Line(fifo, queue'), n),
                   n \notin played'.notes
            PROVE  Sounds(host.state.notes, Line(fifo, queue), n) /\ n \notin played.notes
        <5>1. /\ ~Strikes(Packet(m), n)
              /\ ~Releases(Packet(m), n) => n \notin played.notes
          BY <3>3, <4>3
        <5>2. Sounds(host.state.notes, Line(fifo, r), n) /\ ~Releases(Packet(m), n)
          BY <4>1, <4>2, <4>3, <5>1, SoundsAppend
        <5>3. QED
          BY <1>1, <3>5, <5>1, <5>2, SoundsKept
      <4>4. QED
        BY <1>2, <4>3, StuckIsLeft DEF Left
    <3>6. QED
      BY <3>2, <3>4, <3>5
  <2>4. QED
    BY <2>2, <2>3
<1>6. CASE Discard
  BY <1>3, <1>6 DEF Discard
<1>7. QED
  BY <1>4, <1>5, <1>6 DEF PopInbox

(* No step adds to the notes that the host would be left with.             *)
LEMMA StuckStep ==
    ASSUME UsbInv, [Next]_vars, ~(Evicts /\ AllReleases(queue) /\ IsRelease(Head(inbox)))
    PROVE  Stuck' \subseteq Stuck
<1>1. TypeOK /\ Gone
  BY DEF UsbInv
<1>2. fifo \in Seq(Packets) /\ queue \in Seq(QueueEntry) /\ Line(fifo, queue) \in Seq(Packets)
  BY <1>1, LineTyped
<1>3. CASE fifo' = fifo /\ queue' = queue /\ host' = host /\ played' = played
  BY <1>3, StuckIsLeft
<1>4. CASE PopInbox
  BY <1>1, <1>4, StuckPop
<1>5. CASE Top
  <2>1. CASE initialized /\ ~mounted
    <3>1. /\ queue' = <<>> /\ fifo' = <<>> /\ host'.state.notes = {}
      BY <1>1, <1>5, <2>1 DEF Top, ClearQueues, Gone, NewHost, Silence, usbVars
    <3>2. DOMAIN Line(<<>>, <<>>) = {}
      <4>1. <<>> \in Seq(Packets) /\ <<>> \in Seq(QueueEntry) /\ Len(<<>>) = 0
        BY EmptySeq
      <4>2. DOMAIN Line(<<>>, <<>>) = 1..(0 + 0)
        BY <4>1, LineProperties
      <4>3. QED
        BY <4>2
    <3>3. Left({}, <<>>, <<>>) = {}
      BY <3>2 DEF Left, Sounds
    <3>4. QED
      BY <3>1, <3>3, StuckIsLeft
  <2>2. CASE ~(initialized /\ ~mounted)
    BY <1>3, <1>5, <2>2 DEF Top, usbVars
  <2>3. QED
    BY <2>1, <2>2
<1>6. CASE DrainMidi
  BY <1>1, <1>2, <1>6, DrainKeeps, LeftKept, StuckIsLeft
<1>7. CASE WriteHead
  <2>1. /\ Line(fifo', queue') = Line(fifo, queue) /\ host' = host /\ played' = played
    BY <1>2, <1>7, LineMove DEF WriteHead
  <2>2. QED
    BY <2>1, StuckIsLeft DEF Left
<1>8. CASE WriteClock \/ WritePacket \/ WriteEnd
  BY <1>1, <1>2, <1>8, IdleWrites, LeftInsert, StuckIsLeft
<1>9. CASE HostRead
  <2>1. /\ fifo # <<>> /\ fifo' = Tail(fifo) /\ queue' = queue /\ played' = played
        /\ host' = Read(host, Head(fifo)) /\ host \in [state : States, open : Nat]
        /\ Head(fifo) \in Packets
    BY <1>1, <1>2, <1>9, HeadTailProperties DEF HostRead, queueVars, TypeOK
  <2>2. /\ Line(fifo, queue) # <<>> /\ Head(Line(fifo, queue)) = Head(fifo)
        /\ Line(fifo', queue') = Tail(Line(fifo, queue))
    BY <1>2, <2>1, LineTail
  <2>3. ASSUME NEW n \in Notes
        PROVE  n \in host'.state.notes
                 <=> Strikes(Head(Line(fifo, queue)), n)
                       \/ (n \in host.state.notes /\ ~Releases(Head(Line(fifo, queue)), n))
    BY <2>1, <2>2, ReadNotes
  <2>4. ASSUME NEW n \in Notes
        PROVE  Sounds(host'.state.notes, Line(fifo', queue'), n)
                 <=> Sounds(host.state.notes, Line(fifo, queue), n)
    <3>1. PICK w \in Seq(Packets) : w = Line(fifo, queue)
      BY <1>2
    <3>2. PICK then, notes : then = host'.state.notes /\ notes = host.state.notes
      OBVIOUS
    <3>3. w # <<>> /\ (n \in then <=> Strikes(Head(w), n) \/ (n \in notes /\ ~Releases(Head(w), n)))
      BY <2>2, <2>3, <3>1, <3>2
    <3>4. Sounds(then, Tail(w), n) <=> Sounds(notes, w, n)
      BY <3>3, SoundsTail
    <3>5. QED
      BY <2>2, <3>1, <3>2, <3>4
  <2>5. QED
    BY <2>1, <2>4, StuckIsLeft DEF Left
<1>10. CASE Unplug
  <2>1. fifo' = <<>> /\ host'.state.notes = {} /\ queue' = queue /\ played' = played
    BY <1>10 DEF Unplug, NewHost, Silence, queueVars
  <2>2. Left({}, <<>>, queue) \subseteq Left(host.state.notes, fifo, queue)
    BY <1>2, SoundsUnplugged DEF Left
  <2>3. QED
    BY <2>1, <2>2, StuckIsLeft
<1>11. CASE Tick
  BY <1>1, <1>2, <1>11, TickKeeps, LeftKept, StuckIsLeft
<1>12. QED
  BY <1>3, <1>4, <1>5, <1>6, <1>7, <1>8, <1>9, <1>10, <1>11, QuietSteps DEF Next, LoopStep

(* A message that joins a queue with room.                                 *)
LEMMA WrongPop ==
    ASSUME TypeOK, PopInbox, ~Evicts
    PROVE  Wrong' \subseteq Wrong
<1>1. /\ fifo \in Seq(Packets) /\ queue \in Seq(QueueEntry) /\ Len(queue) <= Capacity
      /\ played \in States /\ Line(fifo, queue) \in Seq(Packets)
  BY LineTyped DEF TypeOK
<1>2. fifo' = fifo /\ host' = host
  BY DEF PopInbox, usbVars
<1>3. CASE queue' = queue /\ played' = played
  BY <1>2, <1>3, WrongMembers
<1>4. PICK m \in Messages : m = Head(inbox)
  BY HeadTailProperties DEF PopInbox, TypeOK
<1>5. CASE Bridge(m)
  <2>1. played' = Hear(played, m)
    BY <1>5 DEF Bridge
  <2>2. CASE m.status = "Clock"
    <3>1. queue' = queue
      BY <1>5, <2>2 DEF Bridge
    <3>2. played' = played
      BY <2>1, <2>2 DEF Hear, Off
    <3>3. QED
      BY <1>3, <3>1, <3>2
  <2>3. CASE m.status # "Clock"
    <3>1. queue' = Enqueue(queue, m) /\ Len(queue) # Capacity
      BY <1>5, <2>3 DEF Bridge, PopInbox, Evicts
    <3>2. /\ Entry(m) \in QueueEntry /\ Entry(m).msg = m /\ queue' = Append(queue, Entry(m))
      BY <1>1, <3>1, EnqueueCases
    <3>3. Line(fifo, queue') = Append(Line(fifo, queue), Packet(m))
      BY <1>1, <3>2, LineAppend
    <3>4. Packet(m) \in Packets /\ Packet(m).msg = m
      BY DEF Packet, Packets
    <3>5. ASSUME NEW c \in Controllers,
                 EndsAt(host.state.values, Line(fifo, queue), c, played.values[c])
          PROVE  EndsAt(host.state.values, Line(fifo, queue'), c, played'.values[c])
      <4>1. CASE Sets(Packet(m), c)
        <5>1. played'.values[c] = m.second
          BY <1>1, <2>1, <4>1, HearValues
        <5>2. QED
          BY <1>1, <3>3, <3>4, <4>1, <5>1, EndsAtAppend
      <4>2. CASE ~Sets(Packet(m), c)
        <5>1. played'.values[c] = played.values[c]
          BY <1>1, <2>1, <4>2, HearValues
        <5>2. QED
          BY <1>1, <3>3, <3>4, <3>5, <4>2, <5>1, EndsAtAppend
      <4>3. QED
        BY <4>1, <4>2
    <3>6. QED
      BY <1>2, <3>5, WrongMembers
  <2>4. QED
    BY <2>2, <2>3
<1>6. CASE Discard
  BY <1>3, <1>6 DEF Discard
<1>7. QED
  BY <1>4, <1>5, <1>6 DEF PopInbox

(* No step adds to the controllers that the host would have wrong.         *)
LEMMA WrongStep ==
    ASSUME UsbInv, [Next]_vars, mounted, mounted', ~Evicts
    PROVE  Wrong' \subseteq Wrong
<1>1. TypeOK
  BY DEF UsbInv
<1>2. fifo \in Seq(Packets) /\ queue \in Seq(QueueEntry) /\ Line(fifo, queue) \in Seq(Packets)
  BY <1>1, LineTyped
<1>3. CASE fifo' = fifo /\ queue' = queue /\ host' = host /\ played' = played
  BY <1>3, WrongMembers
<1>4. CASE PopInbox
  BY <1>1, <1>4, WrongPop
<1>5. CASE Top
  BY <1>3, <1>5 DEF Top, usbVars
<1>6. CASE DrainMidi \/ Tick
  <2>1. /\ queue' \in Seq(QueueEntry) /\ Keeping(queue, queue', Latest(queue))
        /\ fifo' = fifo /\ host' = host /\ played' = played
    BY <1>1, <1>6, DrainKeeps, TickKeeps
  <2>2. ASSUME NEW c, EndsAt(host.state.values, Line(fifo, queue), c, played.values[c])
        PROVE  EndsAt(host.state.values, Line(fifo, queue'), c, played.values[c])
    BY <1>2, <2>1, <2>2, EndsAtKept
  <2>3. QED
    BY <2>1, <2>2, WrongMembers
<1>7. CASE WriteHead
  <2>1. /\ Line(fifo', queue') = Line(fifo, queue) /\ host' = host /\ played' = played
    BY <1>2, <1>7, LineMove DEF WriteHead
  <2>2. QED
    BY <2>1, WrongMembers
<1>8. CASE WriteClock \/ WritePacket \/ WriteEnd
  <2>1. PICK p \in Packets : Idle(p) /\ fifo' = Append(fifo, p)
    BY <1>1, <1>8, IdleWrites
  <2>2. queue' = queue /\ host' = host /\ played' = played
    BY <1>1, <1>8, IdleWrites
  <2>3. ASSUME NEW c, EndsAt(host.state.values, Line(fifo, queue), c, played.values[c])
        PROVE  EndsAt(host.state.values, Line(fifo', queue), c, played.values[c])
    BY <1>2, <2>1, <2>3, EndsAtInsert
  <2>4. QED
    BY <2>2, <2>3, WrongMembers
<1>9. CASE HostRead
  <2>1. /\ fifo # <<>> /\ fifo' = Tail(fifo) /\ queue' = queue /\ played' = played
        /\ host' = Read(host, Head(fifo)) /\ host \in [state : States, open : Nat]
        /\ Head(fifo) \in Packets
    BY <1>1, <1>2, <1>9, HeadTailProperties DEF HostRead, queueVars, TypeOK
  <2>2. /\ Line(fifo, queue) # <<>> /\ Head(Line(fifo, queue)) = Head(fifo)
        /\ Line(fifo', queue') = Tail(Line(fifo, queue))
    BY <1>2, <2>1, LineTail
  <2>3. ASSUME NEW c \in Controllers,
               EndsAt(host.state.values, Line(fifo, queue), c, played.values[c])
        PROVE  EndsAt(host'.state.values, Line(fifo', queue'), c, played'.values[c])
    <3>1. /\ Sets(Head(Line(fifo, queue)), c)
               => host'.state.values[c] = Head(Line(fifo, queue)).msg.second
          /\ ~Sets(Head(Line(fifo, queue)), c)
               => host'.state.values[c] = host.state.values[c]
      BY <2>1, <2>2, ReadValues
    <3>2. QED
      BY <1>2, <2>1, <2>2, <2>3, <3>1, EndsAtTail
  <2>4. QED
    BY <2>3, WrongMembers
<1>10. CASE Unplug
  BY <1>10 DEF Unplug
<1>11. QED
  BY <1>3, <1>4, <1>5, <1>6, <1>7, <1>8, <1>9, <1>10, QuietSteps DEF Next, LoopStep

\* Neither evictions nor stale messages leave a released note sounding, unless a
\* release comes to a queue full of releases (UsbMidiQueue.h).
THEOREM NotesNeverStick == Spec => NoStuckNotes
<1>1. UsbInv /\ [Next]_vars
        => [~(Evicts /\ AllReleases(queue) /\ IsRelease(Head(inbox))) => Stuck' \subseteq Stuck]_vars
  BY StuckStep
<1>2. QED
  BY InvAlways, <1>1, PTL DEF Spec, NoStuckNotes

\* No message that is dropped because it is stale changes where a controller ends
\* up (UsbMidiQueue.h).
THEOREM ValuesAlwaysArrive == Spec => ValuesArrive
<1>1. UsbInv /\ [Next]_vars
        => [mounted /\ mounted' /\ ~Evicts => Wrong' \subseteq Wrong]_vars
  BY WrongStep
<1>2. QED
  BY InvAlways, <1>1, PTL DEF Spec, ValuesArrive

=============================================================================
