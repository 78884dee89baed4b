---------------------------- MODULE Client_proofs ----------------------------
(***************************************************************************)
(* Proofs about a client: about ClientConfig for any pins, mappings,       *)
(* firmware builds and devices, and for any number of power failures; and, *)
(* at the end, about IoPins for any grid of readings and MIDI values, any  *)
(* times between two calls of loop() and any number of lost contacts.      *)
(***************************************************************************)
EXTENDS ClientConfig, IoPins, SequencesExt, SequenceTheorems, FiniteSetTheorems, TLAPS

(* A set of natural numbers has a least one.                               *)
LEMMA LeastNat ==
    ASSUME NEW T \in SUBSET Nat, T # {}
    PROVE  \E n \in T : \A m \in T : n <= m
<1>1. PICK n \in T : \A m \in T : ~(<<m, n>> \in OpToRel(<, Nat))
  BY NatLessThanWellFounded, WFMin
<1>2. \A m \in T : ~(m < n)
  BY <1>1 DEF OpToRel
<1>3. QED
  BY <1>2

(* Where the entry i comes from when the entry r is taken out.             *)
Up(r, i) == IF i < r THEN i ELSE i + 1

LEMMA RemoveAtProperties ==
    ASSUME NEW S, NEW s \in Seq(S), NEW r \in 1..Len(s)
    PROVE  /\ RemoveAt(s, r) \in Seq(S)
           /\ Len(RemoveAt(s, r)) = Len(s) - 1
           /\ \A i \in 1..(Len(s) - 1) : RemoveAt(s, r)[i] = s[Up(r, i)]
<1> DEFINE a == SubSeq(s, 1, r - 1)
           b == SubSeq(s, r + 1, Len(s))
<1>1. /\ a \in Seq(S) /\ Len(a) = r - 1 /\ \A i \in 1..(r - 1) : a[i] = s[i]
      /\ b \in Seq(S) /\ Len(b) = Len(s) - r /\ \A i \in 1..(Len(s) - r) : b[i] = s[r + i]
  BY SubSeqProperties
<1> HIDE DEF a, b
<1>2. /\ a \o b \in Seq(S) /\ Len(a \o b) = Len(a) + Len(b)
      /\ \A i \in 1..(Len(a) + Len(b)) : (a \o b)[i] = IF i <= Len(a) THEN a[i] ELSE b[i - Len(a)]
  BY <1>1, ConcatProperties
<1>3. RemoveAt(s, r) = a \o b
  BY DEF RemoveAt, a, b
<1>4. \A i \in 1..(Len(s) - 1) : (a \o b)[i] = s[Up(r, i)]
  BY <1>1, <1>2 DEF Up
<1>5. QED
  BY <1>1, <1>2, <1>3, <1>4

-----------------------------------------------------------------------------

Unique(s) == \A i, j \in DOMAIN s : s[i].pin = s[j].pin => i = j

(* v and n differ in entries of the pin p only.                            *)
Aligned(v, n, p) ==
    /\ Len(v) <= Len(n)
    /\ \A i \in 1..Len(v) : v[i] = n[i] \/ (v[i].pin = p /\ n[i].pin = p)
    /\ \A i \in (Len(v) + 1)..Len(n) : n[i].pin = p

(* n is v without its entry r of the pin p, perhaps with another at the    *)
(* end; the first k - 1 places of v have been written with those of n.     *)
Shifted(v, n, k, r, p) ==
    /\ r \in 1..Len(v) /\ Len(v) - 1 <= Len(n)
    /\ \A i \in 1..Len(v) : i < r \/ i < k => i <= Len(n) /\ v[i] = n[i]
    /\ \A i \in 1..Len(v) : i > r /\ i >= k => v[i] = n[i - 1]
    /\ r >= k => v[r].pin = p
    /\ \A i \in Len(v)..Len(n) : n[i].pin = p

Overwritten(v, n, k, p) == Aligned(v, n, p) \/ \E r \in 1..Len(v) : Shifted(v, n, k, r, p)

(***************************************************************************)
(* The first of a set of positions, and what a lookup finds.               *)
(***************************************************************************)
LEMMA FirstIsLeast ==
    ASSUME NEW I \in SUBSET Nat, I # {}
    PROVE  First(I) \in I /\ \A j \in I : First(I) <= j
<1>1. \E i \in I : \A j \in I : i <= j
  BY LeastNat
<1>2. QED
  BY <1>1 DEF First

(* The positions of a pin are positions of the list.                       *)
LEMMA OfPositions ==
    ASSUME NEW s \in Seq(Record), NEW p
    PROVE  /\ Of(s, p) \in SUBSET Nat
           /\ \A i : i \in Of(s, p) <=> i \in 1..Len(s) /\ s[i].pin = p
<1>1. DOMAIN s = 1..Len(s) /\ Len(s) \in Nat
  OBVIOUS
<1>2. QED
  BY <1>1 DEF Of

(* A pin without an entry is absent.                                       *)
LEMMA LookupNone ==
    ASSUME NEW s \in Seq(Record), NEW p, \A i \in 1..Len(s) : s[i].pin # p
    PROVE  Lookup(s, p) = Absent
<1>1. Of(s, p) = {}
  BY OfPositions
<1>2. QED
  BY <1>1 DEF Lookup

(* The first entry of a pin is the one that is found.                      *)
LEMMA LookupAt ==
    ASSUME NEW s \in Seq(Record), NEW p, NEW i \in 1..Len(s), s[i].pin = p,
           \A j \in 1..(i - 1) : s[j].pin # p
    PROVE  Lookup(s, p) = s[i].config
<1>1. i \in Of(s, p) /\ Of(s, p) \in SUBSET Nat
  BY OfPositions
<1>2. \A j \in Of(s, p) : i <= j
  BY OfPositions
<1>3. First(Of(s, p)) \in Of(s, p) /\ \A j \in Of(s, p) : First(Of(s, p)) <= j
  BY <1>1, FirstIsLeast
<1>4. First(Of(s, p)) = i
  BY <1>1, <1>2, <1>3
<1>5. QED
  BY <1>1, <1>4 DEF Lookup

(* A list has no entry of a pin, or a first one.                           *)
LEMMA FirstEntry ==
    ASSUME NEW s \in Seq(Record), NEW p
    PROVE  \/ \A i \in 1..Len(s) : s[i].pin # p
           \/ \E i \in 1..Len(s) : s[i].pin = p /\ \A j \in 1..(i - 1) : s[j].pin # p
<1>1. SUFFICES ASSUME Of(s, p) # {}
               PROVE  \E i \in 1..Len(s) : s[i].pin = p /\ \A j \in 1..(i - 1) : s[j].pin # p
  BY OfPositions
<1>2. PICK f \in Of(s, p) : \A j \in Of(s, p) : f <= j
  BY <1>1, OfPositions, LeastNat
<1>3. f \in 1..Len(s) /\ s[f].pin = p /\ Len(s) \in Nat
  BY OfPositions
<1>4. ASSUME NEW j \in 1..(f - 1) PROVE s[j].pin # p
  <2>1. j \in 1..Len(s) /\ ~(f <= j)
    BY <1>3
  <2>2. QED
    BY <1>2, <2>1, OfPositions
<1>5. QED
  BY <1>3, <1>4

(* Two lists of which the first entries of a pin agree.                    *)
LEMMA SameLookup ==
    ASSUME NEW v \in Seq(Record), NEW n \in Seq(Record), NEW q,
           (\A i \in 1..Len(v) : v[i].pin # q) => \A i \in 1..Len(n) : n[i].pin # q,
           \A f \in 1..Len(v) : v[f].pin = q /\ (\A j \in 1..(f - 1) : v[j].pin # q)
               => \E g \in 1..Len(n) : n[g] = v[f] /\ \A j \in 1..(g - 1) : n[j].pin # q
    PROVE  Lookup(v, q) = Lookup(n, q)
<1>1. CASE \A i \in 1..Len(v) : v[i].pin # q
  BY <1>1, LookupNone
<1>2. CASE \E f \in 1..Len(v) : v[f].pin = q /\ \A j \in 1..(f - 1) : v[j].pin # q
  <2>1. PICK f \in 1..Len(v) : v[f].pin = q /\ \A j \in 1..(f - 1) : v[j].pin # q
    BY <1>2
  <2>2. PICK g \in 1..Len(n) : n[g] = v[f] /\ \A j \in 1..(g - 1) : n[j].pin # q
    BY <2>1
  <2>3. Lookup(v, q) = v[f].config
    BY <2>1, LookupAt
  <2>4. Lookup(n, q) = n[g].config
    BY <2>1, <2>2, LookupAt
  <2>5. QED
    BY <2>2, <2>3, <2>4
<1>3. QED
  BY <1>1, <1>2, FirstEntry

(* Lists that differ in entries of one pin only agree on every other pin.  *)
LEMMA AlignedLookup ==
    ASSUME NEW v \in Seq(Record), NEW n \in Seq(Record), NEW p, NEW q, q # p, Aligned(v, n, p)
    PROVE  Lookup(v, q) = Lookup(n, q)
<1>1. Len(v) \in Nat /\ Len(n) \in Nat /\ Len(v) <= Len(n)
  BY DEF Aligned
<1>2. \A i \in 1..Len(v) : v[i] = n[i] \/ (v[i].pin = p /\ n[i].pin = p)
  BY DEF Aligned
<1>3. \A i \in 1..Len(n) : ~(i <= Len(v)) => n[i].pin = p
  BY <1>1 DEF Aligned
<1>4. ASSUME \A i \in 1..Len(v) : v[i].pin # q, NEW i \in 1..Len(n)
      PROVE  n[i].pin # q
  <2>1. CASE i <= Len(v)
    <3>1. i \in 1..Len(v)
      BY <1>1, <2>1
    <3>2. QED
      BY <1>2, <1>4, <3>1
  <2>2. CASE ~(i <= Len(v))
    BY <1>3, <2>2
  <2>3. QED
    BY <2>1, <2>2
<1>5. ASSUME NEW f \in 1..Len(v), v[f].pin = q, \A j \in 1..(f - 1) : v[j].pin # q
      PROVE  \E g \in 1..Len(n) : n[g] = v[f] /\ \A j \in 1..(g - 1) : n[j].pin # q
  <2>1. f \in 1..Len(n) /\ n[f] = v[f]
    BY <1>1, <1>2, <1>5
  <2>2. \A j \in 1..(f - 1) : j \in 1..Len(v)
    BY <1>1
  <2>3. \A j \in 1..(f - 1) : n[j].pin # q
    BY <1>2, <1>5, <2>2
  <2>4. QED
    BY <2>1, <2>3
<1>6. QED
  BY <1>4, <1>5, SameLookup

(* So do a list and the one without an entry of that pin, also when the    *)
(* first places of one are written over the other.                         *)
LEMMA ShiftedLookup ==
    ASSUME NEW v \in Seq(Record), NEW n \in Seq(Record), NEW p, NEW q, q # p,
           NEW k \in Nat, NEW r, Shifted(v, n, k, r, p)
    PROVE  Lookup(v, q) = Lookup(n, q)
<1>1. Len(v) \in Nat /\ Len(n) \in Nat /\ r \in 1..Len(v) /\ Len(v) - 1 <= Len(n)
  BY DEF Shifted
<1>2. \A i \in 1..Len(v) : i < r \/ i < k => i <= Len(n) /\ v[i] = n[i]
  BY DEF Shifted
<1>3. \A i \in 1..Len(v) : i > r /\ i >= k => v[i] = n[i - 1]
  BY DEF Shifted
<1>4. r >= k => v[r].pin = p
  BY DEF Shifted
<1>5. \A i \in 1..Len(n) : ~(i < Len(v)) => n[i].pin = p
  <2>1. \A i \in Len(v)..Len(n) : n[i].pin = p
    BY DEF Shifted
  <2>2. QED
    BY <1>1, <2>1
<1>6. ASSUME NEW i \in 1..Len(n), i < Len(v), ~(i < r \/ i < k)
      PROVE  i + 1 \in 1..Len(v) /\ v[i + 1] = n[i]
  <2>1. i + 1 \in 1..Len(v) /\ i + 1 > r /\ i + 1 >= k /\ i + 1 - 1 = i
    BY <1>1, <1>6
  <2>2. QED
    BY <1>3, <2>1
<1>7. ASSUME \A i \in 1..Len(v) : v[i].pin # q, NEW i \in 1..Len(n)
      PROVE  n[i].pin # q
  <2>1. CASE ~(i < Len(v))
    BY <1>5, <2>1
  <2>2. CASE i < Len(v) /\ (i < r \/ i < k)
    <3>1. i \in 1..Len(v)
      BY <1>1, <2>2
    <3>2. QED
      BY <1>2, <1>7, <2>2, <3>1
  <2>3. CASE i < Len(v) /\ ~(i < r \/ i < k)
    BY <1>6, <1>7, <2>3
  <2>4. QED
    BY <2>1, <2>2, <2>3
<1>8. ASSUME NEW f \in 1..Len(v), v[f].pin = q, \A j \in 1..(f - 1) : v[j].pin # q
      PROVE  \E g \in 1..Len(n) : n[g] = v[f] /\ \A j \in 1..(g - 1) : n[j].pin # q
  <2>1. CASE f < r \/ f < k
    <3>1. f \in 1..Len(n) /\ n[f] = v[f]
      BY <1>1, <1>2, <2>1
    <3>2. \A j \in 1..(f - 1) : j \in 1..Len(v) /\ (j < r \/ j < k)
      BY <1>1, <2>1
    <3>3. \A j \in 1..(f - 1) : n[j].pin # q
      BY <1>2, <1>8, <3>2
    <3>4. QED
      BY <3>1, <3>3
  <2>2. CASE ~(f < r \/ f < k)
    <3>1. f # r
      BY <1>1, <1>4, <1>8, <2>2
    <3>2. f > r /\ f >= k /\ f - 1 \in 1..Len(n)
      BY <1>1, <2>2, <3>1
    <3>3. n[f - 1] = v[f]
      BY <1>3, <3>2
    <3>4. ASSUME NEW j \in 1..((f - 1) - 1) PROVE n[j].pin # q
      <4>1. j \in 1..Len(n) /\ j < Len(v) /\ j \in 1..(f - 1) /\ j + 1 \in 1..(f - 1)
        BY <1>1, <3>2
      <4>2. CASE j < r \/ j < k
        BY <1>1, <1>2, <1>8, <4>1, <4>2
      <4>3. CASE ~(j < r \/ j < k)
        BY <1>6, <1>8, <4>1, <4>3
      <4>4. QED
        BY <4>2, <4>3
    <3>5. QED
      BY <3>2, <3>3, <3>4
  <2>3. QED
    BY <2>1, <2>2
<1>9. QED
  BY <1>7, <1>8, SameLookup

(* A list that is partly written over another shows every other pin as     *)
(* the whole list does.                                                    *)
LEMMA OverwrittenLookup ==
    ASSUME NEW v \in Seq(Record), NEW n \in Seq(Record), NEW p, NEW q, q # p,
           NEW k \in Nat, Overwritten(v, n, k, p)
    PROVE  Lookup(v, q) = Lookup(n, q)
BY AlignedLookup, ShiftedLookup DEF Overwritten

(* Writing the next record keeps that so.                                  *)
LEMMA OverwriteNext ==
    ASSUME NEW v \in Seq(Record), NEW n \in Seq(Record), NEW p, NEW w \in Seq(Record),
           NEW k \in 1..Len(n), Overwritten(v, n, k, p), Len(w) = Len(v),
           \A i \in 1..Len(v) : w[i] = IF i = k THEN n[k] ELSE v[i]
    PROVE  Overwritten(w, n, k + 1, p)
<1>1. Len(v) \in Nat /\ Len(n) \in Nat /\ k \in Nat
  OBVIOUS
<1>2. CASE Aligned(v, n, p)
  <2>1. Aligned(w, n, p)
    BY <1>1, <1>2 DEF Aligned
  <2>2. QED
    BY <2>1 DEF Overwritten
<1>3. CASE \E r \in 1..Len(v) : Shifted(v, n, k, r, p)
  <2>1. PICK r \in 1..Len(v) : Shifted(v, n, k, r, p)
    BY <1>3
  <2>2. Len(w) - 1 <= Len(n)
    BY <2>1 DEF Shifted
  <2>3. ASSUME NEW i \in 1..Len(w), i < r \/ i < k + 1 PROVE i <= Len(n) /\ w[i] = n[i]
    BY <1>1, <2>1, <2>3 DEF Shifted
  <2>4. ASSUME NEW i \in 1..Len(w), i > r, i >= k + 1 PROVE w[i] = n[i - 1]
    BY <1>1, <2>1, <2>4 DEF Shifted
  <2>5. r >= k + 1 => w[r].pin = p
    BY <1>1, <2>1 DEF Shifted
  <2>6. \A i \in Len(w)..Len(n) : n[i].pin = p
    BY <2>1 DEF Shifted
  <2>7. Shifted(w, n, k + 1, r, p)
    BY <2>1, <2>2, <2>3, <2>4, <2>5, <2>6 DEF Shifted
  <2>8. QED
    BY <2>1, <2>7 DEF Overwritten
<1>4. QED
  BY <1>2, <1>3 DEF Overwritten

(***************************************************************************)
(* What setPinConfig() and deletePinConfig() do to the vector.             *)
(***************************************************************************)
LEMMA ErasedEntry ==
    ASSUME NEW s \in Seq(Record), NEW p, Of(s, p) # {}
    PROVE  /\ Erase(s, p) \in Seq(Record) /\ Len(Erase(s, p)) = Len(s) - 1
           /\ \E r \in 1..Len(s) : /\ s[r].pin = p
                                   /\ \A i \in 1..(Len(s) - 1) : Erase(s, p)[i] = s[Up(r, i)]
<1>1. First(Of(s, p)) \in Of(s, p)
  BY OfPositions, FirstIsLeast
<1>2. PICK r \in 1..Len(s) : r = First(Of(s, p))
  BY <1>1, OfPositions
<1>3. s[r].pin = p /\ Erase(s, p) = RemoveAt(s, r)
  BY <1>1, <1>2, OfPositions DEF Erase
<1>4. QED
  BY <1>3, RemoveAtProperties

(* n is s with its entry r of the pin p replaced, with another entry of a  *)
(* pin it did not have, or with its entry r taken out and another added.   *)
Replaced(s, n, r, p) ==
    /\ r \in 1..Len(s) /\ s[r].pin = p /\ Len(n) = Len(s) /\ n[r].pin = p
    /\ \A i \in 1..Len(s) : i # r => n[i] = s[i]
Appended(s, n, p) ==
    /\ \A i \in 1..Len(s) : s[i].pin # p /\ n[i] = s[i]
    /\ Len(n) = Len(s) + 1 /\ n[Len(n)].pin = p
Moved(s, n, r, p) ==
    /\ r \in 1..Len(s) /\ s[r].pin = p /\ Len(n) = Len(s) /\ n[Len(n)].pin = p
    /\ \A i \in 1..(Len(s) - 1) : n[i] = s[Up(r, i)]

(* What setPinConfig() makes of the list.                                  *)
LEMMA UpsertCases ==
    ASSUME NEW s \in Seq(Record), NEW p \in Pins, NEW c \in Configs
    PROVE  /\ Upsert(s, p, c) \in Seq(Record)
           /\ \/ \E r \in 1..Len(s) : Replaced(s, Upsert(s, p, c), r, p)
              \/ Appended(s, Upsert(s, p, c), p)
              \/ \E r \in 1..Len(s) : Moved(s, Upsert(s, p, c), r, p)
           /\ \E i \in 1..Len(Upsert(s, p, c)) : Upsert(s, p, c)[i] = [pin |-> p, config |-> c]
<1>1. PICK e \in Record : e = [pin |-> p, config |-> c]
  BY DEF Record
<1>2. e.pin = p
  BY <1>1
<1>3. CASE SameExceptThreshold(s, p, c) # {}
  <2>1. SameExceptThreshold(s, p, c) \in SUBSET Nat /\ SameExceptThreshold(s, p, c) \subseteq Of(s, p)
    BY OfPositions DEF SameExceptThreshold
  <2>2. First(SameExceptThreshold(s, p, c)) \in Of(s, p)
    BY <1>3, <2>1, FirstIsLeast
  <2>3. PICK r \in 1..Len(s) : r = First(SameExceptThreshold(s, p, c)) /\ s[r].pin = p
    BY <2>2, OfPositions
  <2>4. Upsert(s, p, c) = [s EXCEPT ![r] = e]
    BY <1>1, <1>3, <2>3 DEF Upsert
  <2>5. /\ [s EXCEPT ![r] = e] \in Seq(Record) /\ Len([s EXCEPT ![r] = e]) = Len(s)
        /\ \A i \in 1..Len(s) : [s EXCEPT ![r] = e][i] = IF i = r THEN e ELSE s[i]
    BY ExceptSeq
  <2>6. QED
    BY <1>1, <1>2, <2>3, <2>4, <2>5 DEF Replaced
<1>4. CASE SameExceptThreshold(s, p, c) = {} /\ Of(s, p) = {}
  <2>1. Upsert(s, p, c) = Append(s, e)
    BY <1>1, <1>4 DEF Upsert
  <2>2. /\ Append(s, e) \in Seq(Record) /\ Len(Append(s, e)) = Len(s) + 1
        /\ \A i \in 1..Len(s) : Append(s, e)[i] = s[i]
        /\ Append(s, e)[Len(s) + 1] = e
    BY AppendProperties
  <2>3. \A i \in 1..Len(s) : s[i].pin # p
    BY <1>4, OfPositions
  <2>4. QED
    BY <1>1, <1>2, <2>1, <2>2, <2>3 DEF Appended
<1>5. CASE SameExceptThreshold(s, p, c) = {} /\ Of(s, p) # {}
  <2>1. PICK t \in Seq(Record) : t = Erase(s, p)
    BY <1>5, ErasedEntry
  <2>2. Upsert(s, p, c) = Append(t, e)
    BY <1>1, <1>5, <2>1 DEF Upsert
  <2>3. Len(t) = Len(s) - 1
    BY <1>5, <2>1, ErasedEntry
  <2>4. PICK r \in 1..Len(s) : s[r].pin = p /\ \A i \in 1..(Len(s) - 1) : t[i] = s[Up(r, i)]
    BY <1>5, <2>1, ErasedEntry
  <2>5. /\ Append(t, e) \in Seq(Record) /\ Len(Append(t, e)) = Len(t) + 1
        /\ \A i \in 1..Len(t) : Append(t, e)[i] = t[i]
        /\ Append(t, e)[Len(t) + 1] = e
    BY AppendProperties
  <2>6. Len(s) - 1 + 1 = Len(s)
    OBVIOUS
  <2>7. QED
    BY <1>1, <1>2, <2>2, <2>3, <2>4, <2>5, <2>6 DEF Moved
<1>6. QED
  BY <1>3, <1>4, <1>5

(* Before anything is written over the old list, the flash holds that.     *)
LEMMA ShiftStart ==
    ASSUME NEW s \in Seq(Record), NEW n \in Seq(Record), NEW p, NEW r \in 1..Len(s), s[r].pin = p,
           Len(n) \in {Len(s) - 1, Len(s)}, \A i \in 1..(Len(s) - 1) : n[i] = s[Up(r, i)],
           Len(n) = Len(s) => n[Len(n)].pin = p
    PROVE  Overwritten(s, n, 1, p)
<1>1. Len(s) \in Nat /\ Len(n) \in Nat /\ r \in Nat
  OBVIOUS
<1>2. ASSUME NEW i \in 1..Len(s), i < r \/ i < 1 PROVE i <= Len(n) /\ s[i] = n[i]
  BY <1>1, <1>2 DEF Up
<1>3. ASSUME NEW i \in 1..Len(s), i > r, i >= 1 PROVE s[i] = n[i - 1]
  <2>1. i - 1 \in 1..(Len(s) - 1) /\ Up(r, i - 1) = i
    BY <1>1, <1>3 DEF Up
  <2>2. QED
    BY <2>1
<1>4. \A i \in Len(s)..Len(n) : n[i].pin = p
  BY <1>1
<1>5. Shifted(s, n, 1, r, p)
  BY <1>1, <1>2, <1>3, <1>4 DEF Shifted
<1>6. QED
  BY <1>5 DEF Overwritten

(* When a mapping has been set and nothing is saved yet, flash is the list *)
(* that the new one is written over.                                       *)
LEMMA UpsertOverwrites ==
    ASSUME NEW s \in Seq(Record), NEW p \in Pins, NEW c \in Configs
    PROVE  Overwritten(s, Upsert(s, p, c), 1, p)
<1>1. PICK n \in Seq(Record) : n = Upsert(s, p, c)
  BY UpsertCases
<1>2. Len(s) \in Nat /\ Len(n) \in Nat
  OBVIOUS
<1>3. CASE \E r \in 1..Len(s) : Replaced(s, n, r, p)
  <2>1. Aligned(s, n, p)
    BY <1>2, <1>3 DEF Aligned, Replaced
  <2>2. QED
    BY <1>1, <2>1 DEF Overwritten
<1>4. CASE Appended(s, n, p)
  <2>1. Aligned(s, n, p)
    BY <1>2, <1>4 DEF Aligned, Appended
  <2>2. QED
    BY <1>1, <2>1 DEF Overwritten
<1>5. CASE \E r \in 1..Len(s) : Moved(s, n, r, p)
  <2>1. PICK r \in 1..Len(s) : Moved(s, n, r, p)
    BY <1>5
  <2>2. QED
    BY <1>1, <1>2, <2>1, ShiftStart DEF Moved
<1>6. QED
  BY <1>1, <1>3, <1>4, <1>5, UpsertCases

(* The same when a mapping has been deleted.                               *)
LEMMA EraseOverwrites ==
    ASSUME NEW s \in Seq(Record), NEW p, Of(s, p) # {}
    PROVE  Overwritten(s, Erase(s, p), 1, p)
<1>1. PICK n \in Seq(Record) : n = Erase(s, p)
  BY ErasedEntry
<1>2. PICK r \in 1..Len(s) : s[r].pin = p /\ \A i \in 1..(Len(s) - 1) : n[i] = s[Up(r, i)]
  <2>1. \E r \in 1..Len(s) : s[r].pin = p /\ \A i \in 1..(Len(s) - 1) : Erase(s, p)[i] = s[Up(r, i)]
    BY ErasedEntry
  <2>2. QED
    BY <1>1, <2>1
<1>3. Len(n) = Len(s) - 1 /\ Len(s) \in Nat
  BY <1>1, ErasedEntry
<1>4. Len(n) \in {Len(s) - 1, Len(s)} /\ Len(n) # Len(s)
  BY <1>3
<1>5. QED
  BY <1>1, <1>2, <1>4, ShiftStart

(* A pin that had one entry at most still has, and none once it is erased. *)
LEMMA UpsertUnique ==
    ASSUME NEW s \in Seq(Record), NEW p \in Pins, NEW c \in Configs, Unique(s)
    PROVE  Unique(Upsert(s, p, c))
<1>1. PICK n \in Seq(Record) : n = Upsert(s, p, c)
  BY UpsertCases
<1>2. /\ Len(s) \in Nat /\ Len(n) \in Nat /\ DOMAIN n = 1..Len(n)
      /\ \A i, j \in 1..Len(s) : s[i].pin = s[j].pin => i = j
  <2>1. DOMAIN s = 1..Len(s)
    OBVIOUS
  <2>2. QED
    BY <2>1 DEF Unique
<1>3. SUFFICES ASSUME NEW i \in 1..Len(n), NEW j \in 1..Len(n), n[i].pin = n[j].pin PROVE i = j
  BY <1>1, <1>2 DEF Unique
<1>4. CASE \E r \in 1..Len(s) : Replaced(s, n, r, p)
  BY <1>2, <1>3, <1>4 DEF Replaced
<1>5. CASE Appended(s, n, p)
  BY <1>2, <1>3, <1>5 DEF Appended
<1>6. CASE \E r \in 1..Len(s) : Moved(s, n, r, p)
  <2>1. PICK r \in 1..Len(s) : Moved(s, n, r, p)
    BY <1>6
  <2>2. \A a \in 1..(Len(s) - 1) : n[a] = s[Up(r, a)] /\ Up(r, a) \in 1..Len(s) /\ Up(r, a) # r
    BY <1>2, <2>1 DEF Up, Moved
  <2>3. s[r].pin = p /\ n[Len(n)].pin = p /\ Len(n) = Len(s)
    BY <2>1 DEF Moved
  <2>4. \A a \in 1..(Len(s) - 1) : n[a].pin # p
    BY <1>2, <2>2, <2>3
  <2>5. ASSUME NEW a \in 1..Len(n), ~(a \in 1..(Len(s) - 1)) PROVE a = Len(n)
    <3>1. Len(n) = Len(s)
      BY <2>3
    <3>2. a \in 1..Len(s) /\ Len(s) \in Nat
      BY <1>2, <2>5, <3>1
    <3>3. a = Len(s)
      BY <2>5, <3>2
    <3>4. QED
      BY <3>1, <3>3
  <2>6. \A a, b \in 1..(Len(s) - 1) : Up(r, a) = Up(r, b) => a = b
    BY <1>2 DEF Up
  <2>7. \A a, b \in 1..(Len(s) - 1) : n[a].pin = n[b].pin => a = b
    BY <1>2, <2>2, <2>6
  <2>8. CASE i \in 1..(Len(s) - 1)
    <3>1. j \in 1..(Len(s) - 1)
      BY <1>3, <2>3, <2>4, <2>5, <2>8
    <3>2. QED
      BY <1>3, <2>7, <2>8, <3>1
  <2>9. CASE ~(i \in 1..(Len(s) - 1))
    <3>1. i = Len(n)
      BY <1>3, <2>5, <2>9
    <3>2. ~(j \in 1..(Len(s) - 1))
      BY <1>3, <2>3, <2>4, <3>1
    <3>3. QED
      BY <1>3, <2>5, <3>1, <3>2
  <2>10. QED
    BY <2>8, <2>9
<1>7. QED
  BY <1>1, <1>4, <1>5, <1>6, UpsertCases

(* What has been set is found, and in a list without duplicates it is the  *)
(* mapping that was set.                                                   *)
LEMMA UpsertFound ==
    ASSUME NEW s \in Seq(Record), NEW p \in Pins, NEW c \in Configs
    PROVE  /\ Lookup(Upsert(s, p, c), p) # Absent
           /\ Unique(s) => Lookup(Upsert(s, p, c), p) = c
<1>1. PICK n \in Seq(Record) : n = Upsert(s, p, c)
  BY UpsertCases
<1>2. PICK i \in 1..Len(n) : n[i] = [pin |-> p, config |-> c]
  BY <1>1, UpsertCases
<1>3. n[i].pin = p /\ n[i].config = c
  BY <1>2
<1>4. Of(n, p) # {} /\ Of(n, p) \in SUBSET Nat
  BY <1>3, OfPositions
<1>5. First(Of(n, p)) \in Of(n, p)
  BY <1>4, FirstIsLeast
<1>6. PICK j \in 1..Len(n) : j = First(Of(n, p)) /\ n[j].pin = p
  BY <1>5, OfPositions
<1>7. Lookup(n, p) = n[j].config /\ n[j].config \in Configs
  <2>1. n[j] \in Record
    OBVIOUS
  <2>2. QED
    BY <1>4, <1>6, <2>1 DEF Lookup, Record
<1>8. Unique(s) => i = j
  <2>1. DOMAIN n = 1..Len(n)
    OBVIOUS
  <2>2. Unique(s) => Unique(n)
    BY <1>1, UpsertUnique
  <2>3. QED
    BY <1>3, <1>6, <2>1, <2>2 DEF Unique
<1>9. QED
  BY <1>1, <1>3, <1>7, <1>8, ConfigAssumption

(* A pin that had one entry has none when it is erased.                    *)
LEMMA EraseUnique ==
    ASSUME NEW s \in Seq(Record), NEW p, Of(s, p) # {}, Unique(s)
    PROVE  Unique(Erase(s, p)) /\ Of(Erase(s, p), p) = {}
<1>1. PICK n \in Seq(Record) : n = Erase(s, p)
  BY ErasedEntry
<1>2. PICK r \in 1..Len(s) : s[r].pin = p /\ \A i \in 1..(Len(s) - 1) : n[i] = s[Up(r, i)]
  <2>1. \E r \in 1..Len(s) : s[r].pin = p /\ \A i \in 1..(Len(s) - 1) : Erase(s, p)[i] = s[Up(r, i)]
    BY ErasedEntry
  <2>2. QED
    BY <1>1, <2>1
<1>3. Len(n) = Len(s) - 1 /\ Len(s) \in Nat /\ DOMAIN n = 1..(Len(s) - 1)
  BY <1>1, ErasedEntry
<1>4. \A i, j \in 1..Len(s) : s[i].pin = s[j].pin => i = j
  <2>1. DOMAIN s = 1..Len(s)
    OBVIOUS
  <2>2. QED
    BY <2>1 DEF Unique
<1>5. \A a \in 1..(Len(s) - 1) : Up(r, a) \in 1..Len(s) /\ Up(r, a) # r
  BY <1>3 DEF Up
<1>6. \A a, b \in 1..(Len(s) - 1) : Up(r, a) = Up(r, b) => a = b
  BY <1>3 DEF Up
<1>7. \A a \in 1..(Len(s) - 1) : n[a].pin # p
  BY <1>2, <1>4, <1>5
<1>8. Unique(n)
  BY <1>2, <1>3, <1>4, <1>5, <1>6 DEF Unique
<1>9. Of(n, p) = {}
  BY <1>3, <1>7 DEF Of
<1>10. QED
  BY <1>1, <1>8, <1>9

-----------------------------------------------------------------------------
Jobs == { "none", "set", "delete", "clear", "reset", "addPeer", "removePeer",
          "newFirmware", "restore" }

Builds == ToSet(Firmwares)

FlashType == [ records : Seq(Record), count : Nat, flags : SUBSET Flags,
               name : Builds \cup {NoName}, firmware : Builds \cup {NoFirmware} ]

TypeInv ==
    /\ pins \in Seq(Record) /\ flags \subseteq Flags /\ name \in Builds \cup {NoName}
    /\ flash \in FlashType /\ flash.count <= Len(flash.records)
    /\ fw \in Builds /\ phase \in {"off", "starting", "ready"}
    /\ work \in [job : Jobs, step : Nat \cup Macs, pins : SUBSET Pins, reply : Configs \cup {Absent}]
    /\ tears \in Nat /\ torn \in BOOLEAN
    /\ known \in Configs \cup {Absent, Unknown}

(* Which handler runs when, and how far it can have come.                  *)
Flow ==
    /\ phase = "off" => work.job = "none"
    /\ phase = "starting" => work.job \in {"newFirmware", "restore"}
    /\ phase = "ready" => work.job \notin {"newFirmware", "restore"}
    /\ work.job = "newFirmware" => work.step \in 1..2
    /\ work.job = "reset" => work.step \in 1..4
    /\ Saving => work.step \in 1..(Len(pins) + 1)
    /\ phase # "off" /\ work.job \notin {"set", "delete", "clear", "reset"} => work.pins = {}

(* The records that a save has written so far, and what a reset has        *)
(* cleared.                                                                *)
Written ==
    /\ Saving => /\ work.step - 1 <= Len(flash.records)
                 /\ \A i \in 1..(work.step - 1) : flash.records[i] = pins[i]
    /\ work.job = "clear" => pins = <<>>
    /\ work.job = "reset" =>
        /\ pins = <<>> /\ flags = {} /\ name = NoName
        /\ work.step > 1 => LoadPins = <<>>
        /\ work.step > 2 => flash.flags = {} /\ flash.name = NoName
        /\ work.step > 3 => SameFirmware

(* What is in memory is in flash, but for what the running handler is      *)
(* about to write.                                                         *)
Synced ==
    /\ phase # "off" /\ ~Saving /\ work.job # "reset" => LoadPins = pins
    /\ phase # "off" /\ work.job # "reset" => flash.flags = flags
    /\ phase # "off" /\ work.job \notin {"newFirmware", "reset"} => flash.name = name /\ SameFirmware

(* The name in flash belongs to the firmware in flash.                     *)
Named ==
    /\ flash.name \in {NoName, flash.firmware}
    /\ phase # "off" => name \in {NoName, fw}
    /\ work.job = "newFirmware" => name = NoName
    /\ work.job = "newFirmware" /\ work.step = 2 => flash.name = NoName

InWork == IF work.job \in {"addPeer", "removePeer"} THEN {work.step} ELSE {}

Paired == phase = "ready" => stored \ InWork \subseteq live \cup missed

ConfigInv == TypeInv /\ Flow /\ Written /\ Synced /\ Named /\ Paired

(***************************************************************************)
(* What a write to flash leaves alone.                                     *)
(***************************************************************************)
LEMMA WriteRecords ==
    ASSUME flash \in FlashType, NEW x \in Seq(Record), flash' = [flash EXCEPT !.records = x]
    PROVE  /\ flash' \in FlashType /\ flash'.records = x /\ flash'.count = flash.count
           /\ flash'.flags = flash.flags /\ flash'.name = flash.name /\ flash'.firmware = flash.firmware
BY Zenon DEF FlashType

LEMMA WriteCount ==
    ASSUME flash \in FlashType, NEW x \in Nat, flash' = [flash EXCEPT !.count = x]
    PROVE  /\ flash' \in FlashType /\ flash'.records = flash.records /\ flash'.count = x
           /\ flash'.flags = flash.flags /\ flash'.name = flash.name /\ flash'.firmware = flash.firmware
BY Zenon DEF FlashType

LEMMA WriteFlags ==
    ASSUME flash \in FlashType, NEW x \in SUBSET Flags, flash' = [flash EXCEPT !.flags = x]
    PROVE  /\ flash' \in FlashType /\ flash'.records = flash.records /\ flash'.count = flash.count
           /\ flash'.flags = x /\ flash'.name = flash.name /\ flash'.firmware = flash.firmware
BY Zenon DEF FlashType

LEMMA WriteName ==
    ASSUME flash \in FlashType, NEW x \in Builds \cup {NoName}, flash' = [flash EXCEPT !.name = x]
    PROVE  /\ flash' \in FlashType /\ flash'.records = flash.records /\ flash'.count = flash.count
           /\ flash'.flags = flash.flags /\ flash'.name = x /\ flash'.firmware = flash.firmware
BY Zenon DEF FlashType

LEMMA WriteIdentity ==
    ASSUME flash \in FlashType, NEW x \in Builds \cup {NoFirmware}, flash' = [flash EXCEPT !.firmware = x]
    PROVE  /\ flash' \in FlashType /\ flash'.records = flash.records /\ flash'.count = flash.count
           /\ flash'.flags = flash.flags /\ flash'.name = flash.name /\ flash'.firmware = x
BY Zenon DEF FlashType

LEMMA ClearRecords ==
    ASSUME flash \in FlashType, NEW x \in Seq(Record), NEW y \in Nat,
           flash' = [flash EXCEPT !.records = x, !.count = y]
    PROVE  /\ flash' \in FlashType /\ flash'.records = x /\ flash'.count = y
           /\ flash'.flags = flash.flags /\ flash'.name = flash.name /\ flash'.firmware = flash.firmware
BY Zenon DEF FlashType

LEMMA ClearSettings ==
    ASSUME flash \in FlashType, NEW x \in SUBSET Flags, NEW y \in Builds \cup {NoName},
           NEW z \in Builds \cup {NoFirmware},
           flash' = [flash EXCEPT !.flags = x, !.name = y, !.firmware = z]
    PROVE  /\ flash' \in FlashType /\ flash'.records = flash.records /\ flash'.count = flash.count
           /\ flash'.flags = x /\ flash'.name = y /\ flash'.firmware = z
BY Zenon DEF FlashType

(* The fields of a flash have their types.                                 *)
LEMMA FlashFields ==
    ASSUME flash \in FlashType
    PROVE  /\ flash.records \in Seq(Record) /\ flash.count \in Nat /\ flash.flags \in SUBSET Flags
           /\ flash.name \in Builds \cup {NoName} /\ flash.firmware \in Builds \cup {NoFirmware}
BY DEF FlashType

(* Loading reads the first records, as many as the count says.             *)
LEMMA Loaded ==
    ASSUME flash \in FlashType, flash.count <= Len(flash.records)
    PROVE  /\ LoadPins \in Seq(Record) /\ Len(LoadPins) = flash.count
           /\ \A i \in 1..flash.count : LoadPins[i] = flash.records[i]
<1>1. PICK s \in Seq(Record), c \in Nat : s = flash.records /\ c = flash.count /\ c <= Len(s)
  BY FlashFields
<1>2. CASE c = 0
  <2>1. SubSeq(s, 1, 0) = <<>>
    OBVIOUS
  <2>2. QED
    BY <1>1, <1>2, <2>1 DEF LoadPins
<1>3. CASE c # 0
  <2>1. 1 \in 1..(Len(s) + 1) /\ c \in 1..Len(s)
    BY <1>1, <1>3
  <2>2. /\ SubSeq(s, 1, c) \in Seq(Record) /\ Len(SubSeq(s, 1, c)) = c
        /\ \A i \in 1..c : SubSeq(s, 1, c)[i] = s[i]
    BY <2>1
  <2>3. QED
    BY <1>1, <2>2 DEF LoadPins
<1>4. QED
  BY <1>2, <1>3

(* A lookup finds a mapping or nothing.                                    *)
LEMMA LookupTyped ==
    ASSUME NEW s \in Seq(Record), NEW p
    PROVE  Lookup(s, p) \in Configs \cup {Absent}
<1>1. CASE Of(s, p) = {}
  BY <1>1 DEF Lookup
<1>2. CASE Of(s, p) # {}
  <2>1. First(Of(s, p)) \in 1..Len(s)
    BY <1>2, OfPositions, FirstIsLeast
  <2>2. \A i \in 1..Len(s) : s[i].config \in Configs
    <3>1. \A i \in 1..Len(s) : s[i] \in Record
      OBVIOUS
    <3>2. QED
      BY <3>1 DEF Record
  <2>3. QED
    BY <1>2, <2>1, <2>2 DEF Lookup
<1>3. QED
  BY <1>1, <1>2

WorkType == [job : Jobs, step : Nat \cup Macs, pins : SUBSET Pins, reply : Configs \cup {Absent}]

(* What Do writes has its type.                                            *)
LEMMA DoTyped ==
    ASSUME NEW j \in Jobs, NEW k \in Nat \cup Macs, NEW P \in SUBSET Pins, Do(j, k, P)
    PROVE  /\ work' \in WorkType
           /\ work'.job = j /\ work'.step = k /\ work'.pins = P /\ work'.reply = Absent
BY DEF Do, Rest, WorkType

(* A handler that goes on keeps everything but its step.                   *)
LEMMA ProceedTyped ==
    ASSUME work \in WorkType, work.step \in Nat, Proceed
    PROVE  /\ work' \in WorkType
           /\ work'.job = work.job /\ work'.step = work.step + 1 /\ work'.pins = work.pins
           /\ work'.reply = work.reply
<1>1. work.step + 1 \in Nat \cup Macs
  OBVIOUS
<1>2. work' = [work EXCEPT !.step = work.step + 1]
  BY DEF Proceed
<1>3. QED
  BY <1>1, <1>2 DEF WorkType

(* So does one that will reply.                                            *)
LEMMA ReplyingTyped ==
    ASSUME NEW j \in Jobs, NEW p \in Pins, NEW c \in Configs \cup {Absent}, Replying(j, p, c)
    PROVE  /\ work' \in WorkType
           /\ work'.job = j /\ work'.step = 1 /\ work'.pins = {p} /\ work'.reply = c
BY DEF Replying, WorkType

(* So has the handler that is none.                                        *)
LEMMA RestTyped == Rest \in WorkType /\ Rest.job = "none" /\ Rest.step = 0 /\ Rest.pins = {}
BY DEF Rest, WorkType, Jobs

(* The fields of the running handler have their types.                     *)
LEMMA WorkFields ==
    ASSUME work \in WorkType
    PROVE  /\ work.job \in Jobs /\ work.step \in Nat \cup Macs /\ work.pins \in SUBSET Pins
           /\ work.reply \in Configs \cup {Absent}
BY DEF WorkType

(* What a request finds: no handler runs, and flash and memory agree.      *)
LEMMA AtRest ==
    ASSUME ConfigInv, Ready
    PROVE  /\ phase = "ready" /\ work.job = "none" /\ work.pins = {} /\ ~Saving
           /\ LoadPins = pins /\ flash.flags = flags /\ flash.name = name /\ SameFirmware
           /\ stored \subseteq live \cup missed
<1>1. /\ phase = "ready" /\ work.job = "none" /\ work.pins = {}
  BY RestTyped DEF Ready
<1>2. ~Saving
  BY <1>1 DEF Saving
<1>3. stored \subseteq live \cup missed
  BY <1>1 DEF ConfigInv, Paired, InWork
<1>4. QED
  BY <1>1, <1>2, <1>3 DEF ConfigInv, Synced

(* A request that only starts to save a new list of pins.                  *)
LEMMA SaveStarts ==
    ASSUME ConfigInv, Ready, NEW n \in Seq(Record), pins' = n,
           NEW j \in {"set", "delete", "clear"}, NEW P \in SUBSET Pins,
           work' \in WorkType, work'.job = j, work'.step = 1, work'.pins = P,
           j = "clear" => n = <<>>,
           UNCHANGED <<flags, name, peerVars, flash, powerVars, known>>
    PROVE  ConfigInv'
<1>1. /\ phase = "ready" /\ work.job = "none"
      /\ LoadPins = pins /\ flash.flags = flags /\ flash.name = name /\ SameFirmware
      /\ stored \subseteq live \cup missed
  BY AtRest
<1>2. work' \in WorkType /\ work'.job = j /\ work'.step = 1 /\ work'.pins = P
  OBVIOUS
<1>3. /\ flags' = flags /\ name' = name /\ stored' = stored /\ live' = live /\ missed' = missed
      /\ flash' = flash /\ fw' = fw /\ phase' = phase /\ tears' = tears /\ torn' = torn
      /\ known' = known
  BY DEF peerVars, powerVars
<1>4. TypeInv'
  BY <1>2, <1>3 DEF ConfigInv, TypeInv, WorkType
<1>5. Flow'
  <2>1. Len(pins') \in Nat
    BY <1>2
  <2>2. work'.step \in 1..(Len(pins') + 1)
    BY <1>2, <2>1
  <2>3. QED
    BY <1>1, <1>2, <1>3, <2>2 DEF Flow, Saving
<1>6. Written'
  <2>1. Len(flash'.records) \in Nat
    BY <1>4, FlashFields DEF TypeInv, FlashType
  <2>2. work'.step - 1 <= Len(flash'.records)
    BY <1>2, <2>1
  <2>3. \A i \in 1..(work'.step - 1) : flash'.records[i] = pins'[i]
    BY <1>2
  <2>4. QED
    BY <1>2, <2>2, <2>3 DEF Written
<1>7. Synced'
  BY <1>1, <1>2, <1>3 DEF Synced, Saving, SameFirmware
<1>8. Named'
  BY <1>1, <1>2, <1>3 DEF ConfigInv, Named
<1>9. Paired'
  BY <1>1, <1>2, <1>3 DEF Paired, InWork
<1>10. QED
  BY <1>4, <1>5, <1>6, <1>7, <1>8, <1>9 DEF ConfigInv

(***************************************************************************)
(* The requests keep ConfigInv, one lemma for each.                        *)
(***************************************************************************)
LEMMA SetPinConfigKeeps ==
    ASSUME ConfigInv, NEW p \in Pins, NEW c \in Configs, SetPinConfig(p, c)
    PROVE  ConfigInv'
<1>1. Upsert(pins, p, c) \in Seq(Record)
  BY UpsertCases DEF ConfigInv, TypeInv
<1>2. work' \in WorkType /\ work'.job = "set" /\ work'.step = 1 /\ work'.pins = {p}
  BY ReplyingTyped DEF SetPinConfig, Jobs
<1>3. QED
  BY <1>1, <1>2, SaveStarts DEF SetPinConfig

LEMMA ClearPinConfigsKeeps ==
    ASSUME ConfigInv, ClearPinConfigs
    PROVE  ConfigInv'
<1>1. <<>> \in Seq(Record)
  OBVIOUS
<1>2. work' \in WorkType /\ work'.job = "clear" /\ work'.step = 1 /\ work'.pins = Pins
  <2>1. "clear" \in Jobs /\ 1 \in Nat \cup Macs /\ Pins \in SUBSET Pins
    BY DEF Jobs
  <2>2. QED
    BY <2>1, DoTyped DEF ClearPinConfigs
<1>3. QED
  BY <1>1, <1>2, SaveStarts DEF ClearPinConfigs

(* A request or a reply that changes what the host knows, and nothing else. *)
LEMMA OnlyTold ==
    ASSUME ConfigInv, known' \in Configs \cup {Absent, Unknown},
           UNCHANGED <<pins, flags, name, peerVars, flash, powerVars, work>>
    PROVE  ConfigInv'
<1>1. /\ pins' = pins /\ flags' = flags /\ name' = name /\ stored' = stored /\ live' = live
      /\ missed' = missed /\ flash' = flash /\ fw' = fw /\ phase' = phase /\ tears' = tears
      /\ torn' = torn /\ work' = work
  BY DEF peerVars, powerVars
<1>2. TypeInv'
  BY <1>1 DEF ConfigInv, TypeInv
<1>3. Flow' /\ Written' /\ Synced' /\ Named' /\ Paired'
  BY <1>1 DEF ConfigInv, Flow, Written, Synced, Named, Paired, Saving, LoadPins, SameFirmware, InWork
<1>4. QED
  BY <1>2, <1>3 DEF ConfigInv

(* The host hears a reply or knows nothing more.                           *)
LEMMA TellTyped ==
    ASSUME NEW fact \in Configs \cup {Absent}, Tell(fact)
    PROVE  known' \in {fact, Unknown} /\ known' \in Configs \cup {Absent, Unknown}
BY DEF Tell

LEMMA DeletePinConfigKeeps ==
    ASSUME ConfigInv, NEW p \in Pins, DeletePinConfig(p)
    PROVE  ConfigInv'
<1>1. CASE Of(pins, p) = {}
  <2>1. TellOf(p, Absent) /\ UNCHANGED <<pins, flags, name, peerVars, flash, powerVars, work>>
    BY <1>1 DEF DeletePinConfig
  <2>2. known' \in Configs \cup {Absent, Unknown}
    BY <2>1, TellTyped DEF TellOf, ConfigInv, TypeInv
  <2>3. QED
    BY <2>1, <2>2, OnlyTold
<1>2. CASE Of(pins, p) # {}
  <2>1. Erase(pins, p) \in Seq(Record)
    BY <1>2, ErasedEntry DEF ConfigInv, TypeInv
  <2>2. /\ Ready /\ pins' = Erase(pins, p) /\ Replying("delete", p, Absent)
        /\ UNCHANGED <<flags, name, peerVars, flash, powerVars, known>>
    BY <1>2 DEF DeletePinConfig
  <2>3. work' \in WorkType /\ work'.job = "delete" /\ work'.step = 1 /\ work'.pins = {p}
    BY <2>2, ReplyingTyped DEF Jobs
  <2>4. QED
    BY <2>1, <2>2, <2>3, SaveStarts
<1>3. QED
  BY <1>1, <1>2

LEMMA GetPinConfigKeeps ==
    ASSUME ConfigInv, GetPinConfig
    PROVE  ConfigInv'
<1>1. known' \in Configs \cup {Absent, Unknown}
  BY LookupTyped, TellTyped DEF GetPinConfig, ConfigInv, TypeInv
<1>2. QED
  BY <1>1, OnlyTold DEF GetPinConfig

(* Writing the record k of a list that has the ones before it.             *)
LEMMA PutRecord ==
    ASSUME NEW s \in Seq(Record), NEW k \in Nat \ {0}, k - 1 <= Len(s), NEW r \in Record
    PROVE  /\ Put(s, k, r) \in Seq(Record) /\ Len(s) <= Len(Put(s, k, r)) /\ k <= Len(Put(s, k, r))
           /\ \A i \in 1..Len(Put(s, k, r)) : Put(s, k, r)[i] = IF i = k THEN r ELSE s[i]
<1>1. PICK n \in Nat : n = IF k > Len(s) THEN k ELSE Len(s)
  OBVIOUS
<1>2. Put(s, k, r) = [i \in 1..n |-> IF i = k THEN r ELSE s[i]]
  BY <1>1 DEF Put
<1>3. \A i \in 1..n : i # k => i \in 1..Len(s)
  BY <1>1
<1>4. \A i \in 1..n : (IF i = k THEN r ELSE s[i]) \in Record
  BY <1>3
<1>5. [i \in 1..n |-> IF i = k THEN r ELSE s[i]] \in Seq(Record)
  BY <1>4
<1>6. Len(s) <= n /\ k <= n
  BY <1>1
<1>7. Len([i \in 1..n |-> IF i = k THEN r ELSE s[i]]) = n
  OBVIOUS
<1>8. QED
  BY <1>2, <1>5, <1>6, <1>7

(* What a save does to flash: the next record.                             *)
LEMMA RecordSaved ==
    ASSUME ConfigInv, SaveRecord
    PROVE  /\ flash' \in FlashType /\ flash'.count = flash.count /\ flash'.flags = flash.flags
           /\ flash'.name = flash.name /\ flash'.firmware = flash.firmware
           /\ work.step \in 1..Len(pins)
           /\ Len(flash.records) <= Len(flash'.records) /\ work.step <= Len(flash'.records)
           /\ \A i \in 1..Len(flash'.records) :
                flash'.records[i] = IF i = work.step THEN pins[work.step] ELSE flash.records[i]
<1>1. PICK s \in Seq(Record), k \in Nat \ {0} :
          s = flash.records /\ k = work.step /\ k <= Len(pins) /\ k - 1 <= Len(s)
  <2>1. Saving /\ work.step <= Len(pins) /\ Len(pins) \in Nat
    BY DEF SaveRecord, ConfigInv, TypeInv
  <2>2. work.step \in Nat \ {0} /\ work.step - 1 <= Len(flash.records)
    BY <2>1 DEF ConfigInv, Flow, Written
  <2>3. flash.records \in Seq(Record)
    BY FlashFields DEF ConfigInv, TypeInv
  <2>4. QED
    BY <2>1, <2>2, <2>3
<1>2. PICK r \in Record : r = pins[k]
  <2>1. k \in 1..Len(pins) /\ pins \in Seq(Record)
    BY <1>1 DEF ConfigInv, TypeInv
  <2>2. QED
    BY <2>1
<1>3. PICK t \in Seq(Record) : t = Put(s, k, r)
  BY <1>1, PutRecord
<1>4. Len(s) <= Len(t) /\ k <= Len(t) /\ \A i \in 1..Len(t) : t[i] = IF i = k THEN r ELSE s[i]
  <2>1. k \in Nat \ {0} /\ k - 1 <= Len(s)
    BY <1>1
  <2>2. /\ Len(s) <= Len(Put(s, k, r)) /\ k <= Len(Put(s, k, r))
        /\ \A i \in 1..Len(Put(s, k, r)) : Put(s, k, r)[i] = IF i = k THEN r ELSE s[i]
    BY <2>1, PutRecord
  <2>3. QED
    BY <1>3, <2>2
<1>5. flash' = [flash EXCEPT !.records = Put(flash.records, work.step, pins[work.step])]
  BY Zenon DEF SaveRecord, ConfigInv, TypeInv, FlashType
<1>6. flash' = [flash EXCEPT !.records = t] /\ flash \in FlashType
  BY <1>1, <1>2, <1>3, <1>5 DEF ConfigInv, TypeInv
<1>7. /\ flash' \in FlashType /\ flash'.records = t /\ flash'.count = flash.count
      /\ flash'.flags = flash.flags /\ flash'.name = flash.name /\ flash'.firmware = flash.firmware
  BY <1>6, WriteRecords
<1>8. k \in 1..Len(pins)
  BY <1>1
<1>9. QED
  BY <1>1, <1>2, <1>4, <1>7, <1>8

(***************************************************************************)
(* The saves, the settings and the reset keep ConfigInv.                   *)
(***************************************************************************)
LEMMA SaveRecordKeeps ==
    ASSUME ConfigInv, SaveRecord
    PROVE  ConfigInv'
<1>1. Saving /\ work \in WorkType /\ work.step \in 1..Len(pins) /\ Len(pins) \in Nat
  BY RecordSaved DEF SaveRecord, ConfigInv, TypeInv, WorkType
<1>2. work.job \in {"set", "delete", "clear"} /\ work.step \in Nat
  BY <1>1 DEF Saving
<1>3. work' \in WorkType /\ work'.job = work.job /\ work'.step = work.step + 1 /\ work'.pins = work.pins
  BY <1>1, <1>2, ProceedTyped DEF SaveRecord
<1>4. /\ flags' = flags /\ name' = name /\ stored' = stored /\ live' = live /\ missed' = missed
      /\ pins' = pins /\ fw' = fw /\ phase' = phase /\ tears' = tears /\ torn' = torn
      /\ known' = known
  BY DEF peerVars, powerVars, SaveRecord
<1>5. /\ flash' \in FlashType /\ flash'.count = flash.count /\ flash'.flags = flash.flags
      /\ flash'.name = flash.name /\ flash'.firmware = flash.firmware
      /\ Len(flash.records) <= Len(flash'.records) /\ work.step <= Len(flash'.records)
      /\ \A i \in 1..Len(flash'.records) :
           flash'.records[i] = IF i = work.step THEN pins[work.step] ELSE flash.records[i]
  BY RecordSaved
<1>6. PICK a \in Nat, b \in Nat, c \in Nat : a = Len(flash.records) /\ b = Len(flash'.records) /\ c = flash.count
  BY <1>5, FlashFields DEF ConfigInv, TypeInv, FlashType
<1>7. TypeInv'
  <2>1. flash'.count <= Len(flash'.records)
    BY <1>5, <1>6 DEF ConfigInv, TypeInv
  <2>2. QED
    BY <1>3, <1>4, <1>5, <2>1 DEF ConfigInv, TypeInv, WorkType
<1>8. Flow'
  <2>1. work'.step \in 1..(Len(pins') + 1)
    BY <1>1, <1>3, <1>4
  <2>2. QED
    BY <1>2, <1>3, <1>4, <2>1 DEF ConfigInv, Flow, Saving
<1>9. Written'
  <2>1. work'.step - 1 = work.step
    BY <1>2, <1>3
  <2>2. ASSUME NEW i \in 1..work.step PROVE flash'.records[i] = pins[i]
    <3>1. i \in 1..Len(flash'.records) /\ (i = work.step \/ i \in 1..(work.step - 1))
      BY <1>2, <1>5, <1>6
    <3>2. QED
      BY <1>1, <1>5, <3>1 DEF ConfigInv, Written
  <2>3. QED
    BY <1>2, <1>3, <1>4, <1>5, <2>1, <2>2 DEF ConfigInv, Written, Saving
<1>10. Synced'
  BY <1>2, <1>3, <1>4, <1>5 DEF ConfigInv, Synced, Saving, SameFirmware
<1>11. Named' /\ Paired'
  BY <1>2, <1>3, <1>4, <1>5 DEF ConfigInv, Named, Paired, InWork
<1>12. QED
  BY <1>7, <1>8, <1>9, <1>10, <1>11 DEF ConfigInv

(* Loading depends on the records and their count only.                    *)
LEMMA SameLoad ==
    ASSUME flash'.records = flash.records, flash'.count = flash.count
    PROVE  LoadPins' = LoadPins
BY DEF LoadPins

(* The end of a save: what was written is what is loaded.                  *)
LEMMA CountSaved ==
    ASSUME ConfigInv, SaveCount
    PROVE  /\ flash' \in FlashType /\ flash'.count <= Len(flash'.records) /\ flash'.flags = flash.flags
           /\ flash'.name = flash.name /\ flash'.firmware = flash.firmware
           /\ LoadPins' = pins
<1>1. /\ pins \in Seq(Record) /\ Len(pins) \in Nat /\ flash \in FlashType
      /\ flash.records \in Seq(Record)
  BY FlashFields DEF ConfigInv, TypeInv
<1>2. flash' = [flash EXCEPT !.count = Len(pins)]
  BY DEF SaveCount
<1>3. /\ flash' \in FlashType /\ flash'.records = flash.records /\ flash'.count = Len(pins)
      /\ flash'.flags = flash.flags /\ flash'.name = flash.name /\ flash'.firmware = flash.firmware
  BY <1>1, <1>2, WriteCount
<1>4. Saving /\ work.step \in 1..(Len(pins) + 1) /\ work.step > Len(pins)
  BY DEF SaveCount, ConfigInv, Flow
<1>5. work.step - 1 = Len(pins)
  BY <1>1, <1>4
<1>6. Len(pins) <= Len(flash.records) /\ \A i \in 1..Len(pins) : flash.records[i] = pins[i]
  BY <1>4, <1>5 DEF ConfigInv, Written
<1>7. /\ LoadPins' \in Seq(Record) /\ Len(LoadPins') = Len(pins)
      /\ \A i \in 1..Len(pins) : LoadPins'[i] = flash'.records[i]
  <2>1. (flash \in FlashType /\ flash.count <= Len(flash.records) =>
            /\ LoadPins \in Seq(Record) /\ Len(LoadPins) = flash.count
            /\ \A i \in 1..flash.count : LoadPins[i] = flash.records[i])'
    BY Loaded, PTL
  <2>2. QED
    BY <1>3, <1>6, <2>1
<1>8. LoadPins' = pins
  BY <1>1, <1>3, <1>6, <1>7, SeqEqual
<1>9. QED
  BY <1>3, <1>6, <1>8

(* The reply to a save is a mapping or nothing.                            *)
LEMMA AnswerTyped ==
    ASSUME work \in WorkType, known \in Configs \cup {Absent, Unknown}, Answer
    PROVE  known' \in Configs \cup {Absent, Unknown}
BY WorkFields, TellTyped DEF Answer

LEMMA SaveCountKeeps ==
    ASSUME ConfigInv, SaveCount
    PROVE  ConfigInv'
<1>1. /\ flash' \in FlashType /\ flash'.count <= Len(flash'.records) /\ flash'.flags = flash.flags
      /\ flash'.name = flash.name /\ flash'.firmware = flash.firmware
      /\ LoadPins' = pins
  BY CountSaved
<1>2. work' \in WorkType /\ work'.job = "none" /\ work'.pins = {}
  BY RestTyped DEF SaveCount
<1>3. /\ flags' = flags /\ name' = name /\ stored' = stored /\ live' = live /\ missed' = missed
      /\ pins' = pins /\ fw' = fw /\ phase' = phase /\ tears' = tears
      /\ torn' = (torn /\ pins # <<>>)
  BY DEF peerVars, SaveCount
<1>4. work.job \in {"set", "delete", "clear"}
  BY DEF SaveCount, Saving
<1>5. TypeInv'
  <2>1. torn' \in BOOLEAN
    BY <1>3
  <2>2. known' \in Configs \cup {Absent, Unknown}
    BY AnswerTyped DEF SaveCount, ConfigInv, TypeInv, WorkType
  <2>3. QED
    BY <1>1, <1>2, <1>3, <2>1, <2>2 DEF ConfigInv, TypeInv, WorkType
<1>6. Flow' /\ Written'
  BY <1>2, <1>3, <1>4 DEF ConfigInv, Flow, Written, Saving
<1>7. Synced' /\ Named' /\ Paired'
  BY <1>1, <1>2, <1>3, <1>4 DEF ConfigInv, Synced, Named, Paired, InWork, SameFirmware
<1>8. QED
  BY <1>5, <1>6, <1>7 DEF ConfigInv

LEMMA SetFlagKeeps ==
    ASSUME ConfigInv, NEW f \in Flags, NEW on \in BOOLEAN, SetFlag(f, on)
    PROVE  ConfigInv'
<1>1. PICK x \in SUBSET Flags : x = IF on THEN flags \union {f} ELSE flags \ {f}
  BY DEF ConfigInv, TypeInv
<1>2. /\ phase = "ready" /\ work.job = "none" /\ LoadPins = pins /\ flash.flags = flags
      /\ flash.name = name /\ SameFirmware
  BY AtRest DEF SetFlag
<1>3. flags' = x
  BY <1>1 DEF SetFlag
<1>4. /\ flash' \in FlashType /\ flash'.records = flash.records /\ flash'.count = flash.count
      /\ flash'.flags = x /\ flash'.name = flash.name /\ flash'.firmware = flash.firmware
  <2>1. flash' = [flash EXCEPT !.flags = IF on THEN flash.flags \union {f} ELSE flash.flags \ {f}]
    BY Zenon DEF SetFlag, ConfigInv, TypeInv, FlashType
  <2>2. x = IF on THEN flash.flags \union {f} ELSE flash.flags \ {f}
    BY <1>1, <1>2
  <2>3. flash' = [flash EXCEPT !.flags = x]
    BY <2>1, <2>2
  <2>4. QED
    BY <2>3, WriteFlags DEF ConfigInv, TypeInv
<1>5. /\ name' = name /\ stored' = stored /\ live' = live /\ missed' = missed
      /\ pins' = pins /\ fw' = fw /\ phase' = phase /\ tears' = tears /\ torn' = torn
      /\ known' = known /\ work' = work
  BY DEF peerVars, powerVars, SetFlag
<1>6. LoadPins' = LoadPins
  BY <1>4, SameLoad
<1>7. TypeInv'
  BY <1>3, <1>4, <1>5 DEF ConfigInv, TypeInv
<1>8. Flow' /\ Written' /\ Synced' /\ Named' /\ Paired'
  BY <1>2, <1>3, <1>4, <1>5, <1>6 DEF ConfigInv, Flow, Written, Synced, Named, Paired, Saving, SameFirmware, InWork
<1>9. QED
  BY <1>7, <1>8 DEF ConfigInv

LEMMA SetNameKeeps ==
    ASSUME ConfigInv, NEW empty \in BOOLEAN, SetName(empty)
    PROVE  ConfigInv'
<1>1. PICK x \in Builds \cup {NoName} : x = IF empty THEN NoName ELSE fw
  BY DEF ConfigInv, TypeInv
<1>2. /\ phase = "ready" /\ work.job = "none" /\ LoadPins = pins /\ flash.flags = flags
      /\ flash.name = name /\ SameFirmware
  BY AtRest DEF SetName
<1>3. name' = x
  BY <1>1 DEF SetName
<1>4. /\ flash' \in FlashType /\ flash'.records = flash.records /\ flash'.count = flash.count
      /\ flash'.flags = flash.flags /\ flash'.name = x /\ flash'.firmware = flash.firmware
  <2>1. flash' = [flash EXCEPT !.name = x]
    BY <1>3 DEF SetName
  <2>2. QED
    BY <2>1, WriteName DEF ConfigInv, TypeInv
<1>5. /\ flags' = flags /\ stored' = stored /\ live' = live /\ missed' = missed
      /\ pins' = pins /\ fw' = fw /\ phase' = phase /\ tears' = tears /\ torn' = torn
      /\ known' = known /\ work' = work
  BY DEF peerVars, powerVars, SetName
<1>6. LoadPins' = LoadPins
  BY <1>4, SameLoad
<1>7. TypeInv'
  BY <1>3, <1>4, <1>5 DEF ConfigInv, TypeInv
<1>8. Flow' /\ Written' /\ Synced' /\ Named' /\ Paired'
  BY <1>1, <1>2, <1>3, <1>4, <1>5, <1>6 DEF ConfigInv, Flow, Written, Synced, Named, Paired, Saving, SameFirmware, InWork
<1>9. QED
  BY <1>7, <1>8 DEF ConfigInv

LEMMA ResetKeeps ==
    ASSUME ConfigInv, Reset
    PROVE  ConfigInv'
<1>1. /\ phase = "ready" /\ work.job = "none" /\ SameFirmware /\ flash.name = name
      /\ stored \subseteq live \cup missed
  BY AtRest DEF Reset
<1>2. work' \in WorkType /\ work'.job = "reset" /\ work'.step = 1 /\ work'.pins = Pins
  <2>1. Do("reset", 1, Pins) /\ "reset" \in Jobs /\ 1 \in Nat \cup Macs /\ Pins \in SUBSET Pins
    BY DEF Reset, Jobs
  <2>2. QED
    BY <2>1, DoTyped
<1>3. /\ pins' = <<>> /\ flags' = {} /\ name' = NoName /\ stored' = stored /\ live' = live
      /\ missed' = missed /\ flash' = flash /\ fw' = fw /\ phase' = phase /\ tears' = tears
      /\ torn' = torn /\ known' = known
  BY DEF peerVars, powerVars, Reset
<1>4. <<>> \in Seq(Record)
  OBVIOUS
<1>5. TypeInv'
  BY <1>2, <1>3, <1>4 DEF ConfigInv, TypeInv, WorkType
<1>6. Flow' /\ Written' /\ Synced' /\ Named' /\ Paired'
  BY <1>1, <1>2, <1>3 DEF ConfigInv, Flow, Written, Synced, Named, Paired, Saving, SameFirmware, InWork
<1>7. QED
  BY <1>5, <1>6 DEF ConfigInv

LEMMA ResetFlashKeeps ==
    ASSUME ConfigInv, ResetFlash
    PROVE  ConfigInv'
<1>1. work.job = "reset" /\ work.step \in 1..3 /\ work \in WorkType /\ flash \in FlashType
  BY DEF ResetFlash, Resetting, ConfigInv, TypeInv, WorkType
<1>2. work' \in WorkType /\ work'.job = "reset" /\ work'.step = work.step + 1 /\ work'.pins = work.pins
  BY <1>1, ProceedTyped DEF ResetFlash
<1>3. /\ pins' = pins /\ flags' = flags /\ name' = name /\ stored' = stored /\ live' = live
      /\ missed' = missed /\ fw' = fw /\ phase' = phase /\ tears' = tears
      /\ torn' = torn /\ known' = known
  BY DEF peerVars, powerVars, ResetFlash
<1>4. Flow'
  BY <1>1, <1>2, <1>3 DEF ConfigInv, Flow, Saving
<1>5. ~Saving' /\ Paired' /\ pins = <<>> /\ flags = {} /\ name = NoName
  BY <1>1, <1>2, <1>3 DEF Saving, ConfigInv, Paired, InWork, Written
<1>6. CASE work.step = 1
  <2>1. flash' = [flash EXCEPT !.records = <<>>, !.count = 0] /\ <<>> \in Seq(Record) /\ 0 \in Nat
    BY <1>6 DEF ResetFlash, Resetting
  <2>2. /\ flash' \in FlashType /\ flash'.records = <<>> /\ flash'.count = 0
        /\ flash'.flags = flash.flags /\ flash'.name = flash.name /\ flash'.firmware = flash.firmware
    BY <1>1, <2>1, ClearRecords
  <2>3. LoadPins' = <<>>
    BY <2>2 DEF LoadPins
  <2>4. TypeInv'
    BY <1>2, <1>3, <2>2 DEF ConfigInv, TypeInv, WorkType
  <2>5. Written' /\ Synced' /\ Named'
    BY <1>1, <1>2, <1>3, <1>5, <1>6, <2>2, <2>3 DEF ConfigInv, Written, Synced, Named, SameFirmware
  <2>6. QED
    BY <1>4, <1>5, <2>4, <2>5 DEF ConfigInv
<1>7. CASE work.step = 2
  <2>1. flash' = [flash EXCEPT !.flags = {}, !.name = NoName, !.firmware = NoFirmware]
    BY <1>7 DEF ResetFlash, Resetting
  <2>2. {} \in SUBSET Flags /\ NoName \in Builds \cup {NoName} /\ NoFirmware \in Builds \cup {NoFirmware}
    OBVIOUS
  <2>3. /\ flash' \in FlashType /\ flash'.records = flash.records /\ flash'.count = flash.count
        /\ flash'.flags = {} /\ flash'.name = NoName /\ flash'.firmware = NoFirmware
    BY <1>1, <2>1, <2>2, ClearSettings
  <2>4. LoadPins' = LoadPins
    BY <2>3, SameLoad
  <2>5. TypeInv'
    BY <1>2, <1>3, <2>3 DEF ConfigInv, TypeInv, WorkType
  <2>6. Written' /\ Synced' /\ Named'
    BY <1>1, <1>2, <1>3, <1>5, <1>7, <2>3, <2>4 DEF ConfigInv, Written, Synced, Named, SameFirmware
  <2>7. QED
    BY <1>4, <1>5, <2>5, <2>6 DEF ConfigInv
<1>8. CASE work.step = 3
  <2>1. flash' = [flash EXCEPT !.firmware = fw]
    BY <1>8 DEF ResetFlash, Resetting
  <2>2. fw \in Builds \cup {NoFirmware}
    BY DEF ConfigInv, TypeInv
  <2>3. /\ flash' \in FlashType /\ flash'.records = flash.records /\ flash'.count = flash.count
        /\ flash'.flags = flash.flags /\ flash'.name = flash.name /\ flash'.firmware = fw
    BY <1>1, <2>1, <2>2, WriteIdentity
  <2>4. LoadPins' = LoadPins
    BY <2>3, SameLoad
  <2>5. TypeInv'
    BY <1>2, <1>3, <2>3 DEF ConfigInv, TypeInv, WorkType
  <2>6. Written' /\ Synced' /\ Named'
    BY <1>1, <1>2, <1>3, <1>5, <1>8, <2>3, <2>4 DEF ConfigInv, Written, Synced, Named, SameFirmware
  <2>7. QED
    BY <1>4, <1>5, <2>5, <2>6 DEF ConfigInv
<1>9. QED
  BY <1>1, <1>6, <1>7, <1>8

(***************************************************************************)
(* The end of a reset.                                                     *)
(***************************************************************************)
LEMMA ResetPeersKeeps ==
    ASSUME ConfigInv, ResetPeers
    PROVE  ConfigInv'
<1>1. work.job = "reset" /\ work.step = 4
  BY DEF ResetPeers, Resetting
<1>2. work' \in WorkType /\ work'.job = "none" /\ work'.pins = {}
  BY RestTyped DEF ResetPeers
<1>3. /\ pins' = pins /\ flags' = flags /\ name' = name /\ stored' = {} /\ live' = {}
      /\ missed' = {} /\ flash' = flash /\ fw' = fw /\ phase' = phase /\ tears' = tears
      /\ torn' = FALSE
  BY DEF ResetPeers
<1>4. known' \in Configs \cup {Absent, Unknown}
  BY TellTyped DEF ResetPeers
<1>5. LoadPins' = LoadPins
  BY <1>3, SameLoad
<1>6. TypeInv'
  BY <1>2, <1>3, <1>4 DEF ConfigInv, TypeInv, WorkType
<1>7. Flow'
  BY <1>1, <1>2, <1>3 DEF ConfigInv, Flow, Saving
<1>8. Written' /\ Paired' /\ Named'
  BY <1>1, <1>2, <1>3 DEF ConfigInv, Written, Paired, Named, Saving
<1>9. Synced'
  <2>1. work.step > 1 /\ work.step > 2 /\ work.step > 3
    BY <1>1
  <2>2. /\ LoadPins = pins /\ flash.flags = flags /\ flash.name = name
        /\ flash.firmware = fw
    BY <1>1, <2>1 DEF ConfigInv, Written, SameFirmware
  <2>3. QED
    BY <1>2, <1>3, <1>5, <2>2 DEF Synced, SameFirmware
<1>10. QED
  BY <1>6, <1>7, <1>8, <1>9 DEF ConfigInv

(* A step of the handlers of peers: only the peers change, and the stored  *)
(* one that is not live is in work.                                        *)
LEMMA PeerStep ==
    ASSUME ConfigInv, work.job \notin {"set", "delete", "clear", "reset", "newFirmware", "restore"},
           work' \in WorkType, work'.job \in {"none", "addPeer", "removePeer"}, work'.pins = {},
           phase = "ready", stored' \ InWork' \subseteq live' \cup missed',
           UNCHANGED <<pins, flags, name, flash, powerVars, known>>
    PROVE  ConfigInv'
<1>1. /\ pins' = pins /\ flags' = flags /\ name' = name /\ flash' = flash /\ fw' = fw
      /\ phase' = phase /\ tears' = tears /\ torn' = torn /\ known' = known
  BY DEF powerVars
<1>2. LoadPins' = LoadPins
  BY <1>1, SameLoad
<1>3. TypeInv'
  BY <1>1 DEF ConfigInv, TypeInv, WorkType
<1>4. Flow' /\ Written' /\ Synced' /\ Named' /\ Paired'
  BY <1>1, <1>2 DEF ConfigInv, Flow, Written, Synced, Named, Paired, Saving, SameFirmware
<1>5. QED
  BY <1>3, <1>4 DEF ConfigInv

(* A handler of peers runs in the ready phase, and the peer it works on is *)
(* the only one that may be stored and neither live nor missed.            *)
LEMMA InPhase ==
    ASSUME ConfigInv, work.job \in {"addPeer", "removePeer"}
    PROVE  phase = "ready" /\ stored \ {work.step} \subseteq live \cup missed
<1>1. phase = "ready"
  BY DEF ConfigInv, Flow, TypeInv
<1>2. QED
  BY <1>1 DEF ConfigInv, Paired, InWork

(***************************************************************************)
(* The handlers of peers.                                                  *)
(***************************************************************************)
LEMMA AddPeerKeeps ==
    ASSUME ConfigInv, NEW m \in Macs, AddPeer(m)
    PROVE  ConfigInv'
<1>1. phase = "ready" /\ work.job = "none" /\ stored \subseteq live \cup missed
  BY AtRest DEF AddPeer
<1>2. /\ work' \in WorkType /\ work'.pins = {}
      /\ IF m \in live THEN work'.job = "none" ELSE work'.job = "addPeer" /\ work'.step = m
  <2>1. CASE m \in live
    BY <2>1, RestTyped DEF AddPeer, Ready
  <2>2. CASE m \notin live
    <3>1. Do("addPeer", m, {}) /\ "addPeer" \in Jobs /\ m \in Nat \cup Macs /\ {} \in SUBSET Pins
      BY <2>2 DEF AddPeer, Jobs
    <3>2. QED
      BY <2>2, <3>1, DoTyped
  <2>3. QED
    BY <2>1, <2>2
<1>3. stored' \ InWork' \subseteq live' \cup missed'
  BY <1>1, <1>2 DEF AddPeer, InWork
<1>4. UNCHANGED <<pins, flags, name, flash, powerVars, known>>
  BY DEF AddPeer
<1>5. QED
  BY <1>1, <1>2, <1>3, <1>4, PeerStep

LEMMA RemovePeerKeeps ==
    ASSUME ConfigInv, NEW m \in Macs, RemovePeer(m)
    PROVE  ConfigInv'
<1>1. phase = "ready" /\ work.job = "none" /\ stored \subseteq live \cup missed
  BY AtRest DEF RemovePeer
<1>2. work' \in WorkType /\ work'.job = "removePeer" /\ work'.step = m /\ work'.pins = {}
  <2>1. Do("removePeer", m, {}) /\ "removePeer" \in Jobs /\ m \in Nat \cup Macs /\ {} \in SUBSET Pins
    BY DEF RemovePeer, Jobs
  <2>2. QED
    BY <2>1, DoTyped
<1>3. stored' \ InWork' \subseteq live' \cup missed'
  BY <1>1, <1>2 DEF RemovePeer, InWork
<1>4. UNCHANGED <<pins, flags, name, flash, powerVars, known>>
  BY DEF RemovePeer
<1>5. QED
  BY <1>1, <1>2, <1>3, <1>4, PeerStep

(* The last step of a handler of peers.                                    *)
LEMMA PeerDone ==
    ASSUME ConfigInv, work.job \in {"addPeer", "removePeer"}, work' = Rest,
           stored' \subseteq live' \cup missed',
           UNCHANGED <<pins, flags, name, flash, powerVars, known>>
    PROVE  ConfigInv'
<1>1. work' \in WorkType /\ work'.job = "none" /\ work'.pins = {}
  BY RestTyped
<1>2. phase = "ready"
  BY InPhase
<1>3. stored' \ InWork' \subseteq live' \cup missed'
  OBVIOUS
<1>4. QED
  BY <1>1, <1>2, <1>3, PeerStep

LEMMA AddLiveKeeps ==
    ASSUME ConfigInv, AddLive PROVE ConfigInv'
<1>1. work.job \in {"addPeer", "removePeer"} /\ stored' \subseteq live' \cup missed'
  BY InPhase DEF AddLive
<1>2. QED
  BY <1>1, PeerDone DEF AddLive

LEMMA AddUndoKeeps ==
    ASSUME ConfigInv, AddUndo PROVE ConfigInv'
<1>1. work.job \in {"addPeer", "removePeer"} /\ stored' \subseteq live' \cup missed'
  BY InPhase DEF AddUndo
<1>2. QED
  BY <1>1, PeerDone DEF AddUndo

LEMMA RemoveStoredKeeps ==
    ASSUME ConfigInv, RemoveStored PROVE ConfigInv'
<1>1. work.job \in {"addPeer", "removePeer"} /\ stored' \subseteq live' \cup missed'
  BY InPhase DEF RemoveStored
<1>2. QED
  BY <1>1, PeerDone DEF RemoveStored

(***************************************************************************)
(* Discovery, the start and the restart.                                   *)
(***************************************************************************)
LEMMA DiscoverKeeps ==
    ASSUME ConfigInv, NEW m \in Macs, Discover(m)
    PROVE  ConfigInv'
<1>1. /\ pins' = pins /\ flags' = flags /\ name' = name /\ flash' = flash /\ fw' = fw
      /\ phase' = phase /\ tears' = tears /\ torn' = torn /\ known' = known /\ work' = work
      /\ stored' = stored /\ live \subseteq live' /\ missed' = missed
  BY DEF powerVars, Discover
<1>2. LoadPins' = LoadPins
  BY <1>1, SameLoad
<1>3. TypeInv'
  BY <1>1 DEF ConfigInv, TypeInv
<1>4. Flow' /\ Written' /\ Synced' /\ Named' /\ Paired'
  BY <1>1, <1>2 DEF ConfigInv, Flow, Written, Synced, Named, Paired, Saving, SameFirmware, InWork
<1>5. QED
  BY <1>3, <1>4 DEF ConfigInv

LEMMA BootKeeps ==
    ASSUME ConfigInv, Boot
    PROVE  ConfigInv'
<1>1. PICK j \in {"restore", "newFirmware"} : j = IF SameFirmware THEN "restore" ELSE "newFirmware"
  OBVIOUS
<1>2. work' \in WorkType /\ work'.job = j /\ work'.step = 1 /\ work'.pins = {}
  <2>1. j \in Jobs /\ 1 \in Nat \cup Macs /\ {} \in SUBSET Pins /\ Do(j, 1, {})
    BY <1>1 DEF Boot, Jobs
  <2>2. QED
    BY <2>1, DoTyped
<1>3. /\ pins' = LoadPins /\ flags' = flash.flags
      /\ name' = IF SameFirmware THEN flash.name ELSE NoName
      /\ stored' = stored /\ live' = live /\ missed' = missed /\ flash' = flash /\ fw' = fw
      /\ phase' = "starting" /\ tears' = tears /\ torn' = torn /\ known' = known
  BY DEF peerVars, Boot
<1>4. LoadPins' = LoadPins /\ LoadPins \in Seq(Record)
  BY <1>3, SameLoad, Loaded DEF ConfigInv, TypeInv
<1>5. flash.flags \in SUBSET Flags /\ flash.name \in Builds \cup {NoName}
  BY FlashFields DEF ConfigInv, TypeInv
<1>6. TypeInv'
  BY <1>2, <1>3, <1>4, <1>5 DEF ConfigInv, TypeInv, WorkType
<1>7. Flow' /\ Written'
  BY <1>1, <1>2, <1>3, <1>4 DEF ConfigInv, Flow, Written, Saving
<1>8. Synced' /\ Named' /\ Paired'
  BY <1>1, <1>2, <1>3, <1>4 DEF ConfigInv, Synced, Named, Paired, SameFirmware
<1>9. QED
  BY <1>6, <1>7, <1>8 DEF ConfigInv

LEMMA DropNameKeeps ==
    ASSUME ConfigInv, DropName
    PROVE  ConfigInv'
<1>1. work.job = "newFirmware" /\ work.step = 1 /\ flash \in FlashType
  BY DEF DropName, NewFirmware, ConfigInv, TypeInv
<1>2. work' \in WorkType /\ work'.job = "newFirmware" /\ work'.step = 2 /\ work'.pins = {}
  <2>1. "newFirmware" \in Jobs /\ 2 \in Nat \cup Macs /\ {} \in SUBSET Pins /\ Do("newFirmware", 2, {})
    BY DEF DropName, Jobs
  <2>2. QED
    BY <2>1, DoTyped
<1>3. /\ pins' = pins /\ flags' = flags /\ name' = name /\ stored' = stored /\ live' = live
      /\ missed' = missed /\ fw' = fw /\ phase' = phase /\ tears' = tears
      /\ torn' = torn /\ known' = known
  BY DEF peerVars, powerVars, DropName
<1>4. /\ flash' \in FlashType /\ flash'.records = flash.records /\ flash'.count = flash.count
      /\ flash'.flags = flash.flags /\ flash'.name = NoName /\ flash'.firmware = flash.firmware
  <2>1. flash' = [flash EXCEPT !.name = NoName] /\ NoName \in Builds \cup {NoName}
    BY DEF DropName
  <2>2. QED
    BY <1>1, <2>1, WriteName
<1>5. LoadPins' = LoadPins
  BY <1>4, SameLoad
<1>6. TypeInv'
  BY <1>2, <1>3, <1>4 DEF ConfigInv, TypeInv, WorkType
<1>7. Flow' /\ Written' /\ Synced' /\ Named' /\ Paired'
  BY <1>1, <1>2, <1>3, <1>4, <1>5 DEF ConfigInv, Flow, Written, Synced, Named, Paired, Saving, SameFirmware, InWork
<1>8. QED
  BY <1>6, <1>7 DEF ConfigInv

LEMMA WriteFirmwareKeeps ==
    ASSUME ConfigInv, WriteFirmware
    PROVE  ConfigInv'
<1>1. /\ work.job = "newFirmware" /\ work.step = 2 /\ flash \in FlashType
      /\ phase = "starting" /\ fw \in Builds \cup {NoFirmware}
  BY DEF WriteFirmware, NewFirmware, ConfigInv, TypeInv, Flow
<1>2. work' \in WorkType /\ work'.job = "restore" /\ work'.step = 1 /\ work'.pins = {}
  <2>1. "restore" \in Jobs /\ 1 \in Nat \cup Macs /\ {} \in SUBSET Pins /\ Do("restore", 1, {})
    BY DEF WriteFirmware, Jobs
  <2>2. QED
    BY <2>1, DoTyped
<1>3. /\ pins' = pins /\ flags' = flags /\ name' = name /\ stored' = stored /\ live' = live
      /\ missed' = missed /\ fw' = fw /\ phase' = phase /\ tears' = tears
      /\ torn' = torn /\ known' = known
  BY DEF peerVars, powerVars, WriteFirmware
<1>4. /\ flash' \in FlashType /\ flash'.records = flash.records /\ flash'.count = flash.count
      /\ flash'.flags = flash.flags /\ flash'.name = flash.name /\ flash'.firmware = fw
  <2>1. flash' = [flash EXCEPT !.firmware = fw]
    BY DEF WriteFirmware
  <2>2. QED
    BY <1>1, <2>1, WriteIdentity
<1>5. LoadPins' = LoadPins
  BY <1>4, SameLoad
<1>6. TypeInv'
  BY <1>2, <1>3, <1>4 DEF ConfigInv, TypeInv, WorkType
<1>7. Flow' /\ Written' /\ Synced' /\ Named' /\ Paired'
  BY <1>1, <1>2, <1>3, <1>4, <1>5 DEF ConfigInv, Flow, Written, Synced, Named, Paired, Saving, SameFirmware, InWork
<1>8. QED
  BY <1>6, <1>7 DEF ConfigInv

LEMMA RestorePeersKeeps ==
    ASSUME ConfigInv, RestorePeers
    PROVE  ConfigInv'
<1>1. work.job = "restore" /\ phase = "starting"
  BY DEF RestorePeers, ConfigInv, Flow, TypeInv
<1>2. work' \in WorkType /\ work'.job = "none" /\ work'.pins = {}
  BY RestTyped DEF RestorePeers
<1>3. /\ pins' = pins /\ flags' = flags /\ name' = name /\ stored' = stored
      /\ missed' = stored \ live' /\ flash' = flash /\ fw' = fw /\ phase' = "ready"
      /\ tears' = tears /\ torn' = torn /\ known' = known
  BY DEF RestorePeers
<1>4. LoadPins' = LoadPins
  BY <1>3, SameLoad
<1>5. TypeInv'
  BY <1>2, <1>3 DEF ConfigInv, TypeInv, WorkType
<1>6. Flow' /\ Written' /\ Synced' /\ Named' /\ Paired'
  BY <1>1, <1>2, <1>3, <1>4 DEF ConfigInv, Flow, Written, Synced, Named, Paired, Saving, SameFirmware, InWork
<1>7. QED
  BY <1>5, <1>6 DEF ConfigInv

LEMMA RestartKeeps ==
    ASSUME ConfigInv, Restart, fw' \in Builds
    PROVE  ConfigInv'
<1>1. work \in WorkType
  BY DEF ConfigInv, TypeInv, WorkType
<1>2. work' \in WorkType /\ work'.job = "none" /\ work'.step = 0 /\ work'.pins = work.pins
  <2>1. /\ "none" \in Jobs /\ 0 \in Nat \cup Macs /\ work.pins \in SUBSET Pins
        /\ Do("none", 0, work.pins)
    BY <1>1, WorkFields DEF Restart, Jobs
  <2>2. QED
    BY <2>1, DoTyped
<1>3. /\ pins' = pins /\ flags' = flags /\ name' = name /\ stored' = stored /\ live' = {}
      /\ missed' = {} /\ flash' = flash /\ phase' = "off"
      /\ tears' = (IF Saving THEN tears + 1 ELSE tears) /\ torn' = (torn \/ Saving)
      /\ known' = (IF Watched \in work.pins THEN Unknown ELSE known)
  BY DEF Restart
<1>4. TypeInv'
  <2>1. tears' \in Nat
    BY <1>3 DEF ConfigInv, TypeInv
  <2>2. torn' \in BOOLEAN
    BY <1>3 DEF Saving
  <2>3. known' \in Configs \cup {Absent, Unknown}
    BY <1>3 DEF ConfigInv, TypeInv
  <2>4. QED
    BY <1>2, <1>3, <2>1, <2>2, <2>3 DEF ConfigInv, TypeInv, WorkType
<1>5. Flow' /\ Written' /\ Synced' /\ Named' /\ Paired'
  BY <1>2, <1>3 DEF ConfigInv, Flow, Written, Synced, Named, Paired, Saving
<1>6. QED
  BY <1>4, <1>5 DEF ConfigInv

(* The next build is one of the builds.                                    *)
LEMMA FlashedBuild ==
    ASSUME Flash PROVE fw' \in Builds
<1>1. PICK i \in DOMAIN Firmwares : i < Len(Firmwares) /\ fw' = Firmwares[i + 1]
  BY DEF Flash
<1>2. Firmwares \in Seq(Builds)
  BY ConfigAssumption DEF Builds
<1>3. i + 1 \in 1..Len(Firmwares)
  BY <1>1, <1>2
<1>4. QED
  BY <1>1, <1>2, <1>3

(* The first state.                                                        *)
LEMMA ConfigInvInit == Init => ConfigInv
<1>1. SUFFICES ASSUME Init PROVE ConfigInv
  OBVIOUS
<1>2. <<>> \in Seq(Record) /\ Len(<<>>) = 0 /\ Firmwares \in Seq(Builds) /\ Firmwares # <<>>
  BY ConfigAssumption DEF Builds
<1>3. Head(Firmwares) \in Builds
  BY <1>2
<1>4. work \in WorkType /\ work.job = "none"
  BY <1>1, RestTyped DEF Init
<1>5. flash \in FlashType /\ flash.count = 0 /\ flash.records = <<>> /\ flash.name = NoName
  BY <1>1, <1>2 DEF Init, FlashType
<1>6. TypeInv
  <2>1. flash.count <= Len(flash.records)
    BY <1>2, <1>5
  <2>2. QED
    BY <1>1, <1>2, <1>3, <1>4, <1>5, <2>1 DEF Init, TypeInv, WorkType
<1>7. Flow /\ Written /\ Synced /\ Named /\ Paired
  BY <1>1, <1>4, <1>5 DEF Init, Flow, Written, Synced, Named, Paired, Saving
<1>8. QED
  BY <1>6, <1>7 DEF ConfigInv

(* All steps together.                                                     *)
LEMMA ConfigInvKept ==
    ASSUME ConfigInv, [Next]_vars
    PROVE  ConfigInv'
<1>1. CASE Request
  BY <1>1, SetPinConfigKeeps, DeletePinConfigKeeps, ClearPinConfigsKeeps, GetPinConfigKeeps,
     SetFlagKeeps, SetNameKeeps, ResetKeeps, AddPeerKeeps, RemovePeerKeeps DEF Request
<1>2. CASE Continue
  BY <1>2, SaveRecordKeeps, SaveCountKeeps, ResetFlashKeeps, ResetPeersKeeps, AddLiveKeeps,
     AddUndoKeeps, RemoveStoredKeeps DEF Continue
<1>3. CASE Begin
  BY <1>3, BootKeeps, DropNameKeeps, WriteFirmwareKeeps, RestorePeersKeeps DEF Begin
<1>4. CASE \E m \in Macs : Discover(m)
  BY <1>4, DiscoverKeeps
<1>5. CASE PowerLoss
  BY <1>5, RestartKeeps DEF PowerLoss, ConfigInv, TypeInv
<1>6. CASE Flash
  BY <1>6, RestartKeeps, FlashedBuild DEF Flash
<1>7. CASE UNCHANGED vars
  <2>1. /\ UNCHANGED <<pins, flags, name, peerVars, flash, powerVars, work>> /\ known' = known
    BY <1>7 DEF vars, peerVars, powerVars
  <2>2. QED
    BY <2>1, OnlyTold DEF ConfigInv, TypeInv
<1>8. QED
  BY <1>1, <1>2, <1>3, <1>4, <1>5, <1>6, <1>7 DEF Next

(* Flash and memory agree, but for what the running handler is about to    *)
(* write, in every reachable state.                                        *)
THEOREM ConfigInvHolds == Spec => []ConfigInv
BY ConfigInvInit, ConfigInvKept, PTL DEF Spec

-----------------------------------------------------------------------------
(***************************************************************************)
(* The pins among lists that a save has damaged: a pin that is being saved,*)
(* or whose save was cut short, is in work.pins.                           *)
(***************************************************************************)
Others ==
    /\ work.job \in {"set", "delete"} =>
         \E p \in Pins : work.pins = {p} /\ Overwritten(LoadPins, pins, work.step, p)
    /\ work.job \in {"clear", "reset"} => work.pins = Pins
    /\ phase = "off" => \A q \in Pins \ work.pins : Lookup(LoadPins, q) = Lookup(pins, q)

(* Without a torn save no pin has two records, in memory or in flash.      *)
Whole ==
    ~torn => /\ Unique(pins)
             /\ ~Saving => Unique(LoadPins)
             /\ work.job = "delete" => \A p \in work.pins : Of(pins, p) = {}

(* A save will tell the host what it has asked for, and after a torn save  *)
(* that need not be the first record of the pin.                           *)
Replied ==
    /\ work.job = "set" =>
         \A p \in work.pins : Lookup(pins, p) # Absent /\ (~torn => work.reply = Lookup(pins, p))
    /\ work.job \in {"delete", "clear"} => work.reply = Absent

(* What the host knows: it is wrong at most about a pin that has records.  *)
KnownOf(s) == known = Lookup(s, Watched) \/ (torn /\ (known = Absent \/ Lookup(s, Watched) # Absent))

Told ==
    /\ known # Unknown /\ Watched \notin work.pins => KnownOf(pins)
    /\ phase = "off" /\ Watched \in work.pins => known = Unknown

PinInv == Others /\ Whole /\ Replied /\ Told

(* The lists in memory and in flash have their types.                      *)
LEMMA PinTypes ==
    ASSUME ConfigInv
    PROVE  /\ pins \in Seq(Record) /\ LoadPins \in Seq(Record) /\ Watched \in Pins
           /\ work.pins \in SUBSET Pins /\ torn \in BOOLEAN
BY Loaded, ConfigAssumption DEF ConfigInv, TypeInv

(* Steps that leave the pins, the handler and the power alone.             *)
LEMMA PinSame ==
    ASSUME PinInv, pins' = pins, LoadPins' = LoadPins, work' = work, phase' = phase, torn' = torn,
           known' # known /\ known' # Unknown /\ Watched \notin work.pins => known' = Lookup(pins, Watched),
           known' # known => phase # "off"
    PROVE  PinInv'
<1>1. Others' /\ Whole' /\ Replied'
  BY DEF PinInv, Others, Whole, Replied, Saving
<1>2. Told'
  BY DEF PinInv, Told, KnownOf
<1>3. QED
  BY <1>1, <1>2 DEF PinInv

(* Steps of the handlers that have nothing to do with pins.                *)
Quiet == {"none", "addPeer", "removePeer", "newFirmware", "restore"}

(* Such a step keeps the invariant when the lists stay as they are.        *)
LEMMA PinQuiet ==
    ASSUME PinInv, pins' = pins, LoadPins' = LoadPins, torn' = torn, known' = known,
           phase' # "off", work.job \in Quiet, work'.job \in Quiet, work.pins = {}, work'.pins = {}
    PROVE  PinInv'
<1>1. Others'
  BY DEF Others, Quiet
<1>2. Whole'
  BY DEF PinInv, Whole, Saving, Quiet
<1>3. Told'
  BY DEF PinInv, Told, KnownOf
<1>4. Replied'
  BY DEF Replied, Quiet
<1>5. QED
  BY <1>1, <1>2, <1>3, <1>4 DEF PinInv

(* A request for one pin.                                                  *)
LEMMA PinStarts ==
    ASSUME ConfigInv, PinInv, Ready, NEW n \in Seq(Record), NEW p \in Pins, pins' = n,
           Overwritten(pins, n, 1, p), Unique(pins) => Unique(n),
           NEW j \in {"set", "delete"}, j = "delete" /\ Unique(pins) => Of(n, p) = {},
           NEW c \in Configs \cup {Absent}, Replying(j, p, c),
           j = "set" => Lookup(n, p) # Absent /\ (Unique(pins) => c = Lookup(n, p)),
           j = "delete" => c = Absent,
           flash' = flash, UNCHANGED <<powerVars, known>>
    PROVE  PinInv'
<1>1. /\ phase = "ready" /\ work.pins = {} /\ LoadPins = pins /\ ~Saving
  BY AtRest
<1>2. /\ phase' = phase /\ torn' = torn /\ known' = known /\ LoadPins' = LoadPins
  BY SameLoad DEF powerVars
<1>3. work'.job = j /\ work'.step = 1 /\ work'.pins = {p} /\ work'.reply = c
  BY DEF Replying
<1>4. Others'
  BY <1>1, <1>2, <1>3 DEF Others
<1>9. Replied'
  <2>1. ~torn => Unique(pins)
    BY DEF PinInv, Whole
  <2>2. QED
    BY <1>2, <1>3, <2>1 DEF Replied
<1>5. Whole'
  BY <1>1, <1>2, <1>3 DEF PinInv, Whole, Saving
<1>6. Watched # p => Lookup(pins, Watched) = Lookup(n, Watched)
  BY PinTypes, OverwrittenLookup
<1>7. Told'
  BY <1>1, <1>2, <1>3, <1>6 DEF PinInv, Told, KnownOf
<1>8. QED
  BY <1>4, <1>5, <1>7, <1>9 DEF PinInv

(***************************************************************************)
(* The same steps keep PinInv: requests, saves, resets, the start and the  *)
(* restart.                                                                *)
(***************************************************************************)
LEMMA SetPinConfigTold ==
    ASSUME ConfigInv, PinInv, NEW p \in Pins, NEW c \in Configs, SetPinConfig(p, c)
    PROVE  PinInv'
<1>1. PICK n \in Seq(Record) : n = Upsert(pins, p, c)
  BY UpsertCases, PinTypes
<1>2. Overwritten(pins, n, 1, p) /\ (Unique(pins) => Unique(n))
  BY <1>1, UpsertOverwrites, UpsertUnique, PinTypes
<1>3. Ready /\ pins' = n /\ Replying("set", p, c) /\ flash' = flash /\ UNCHANGED <<powerVars, known>>
  BY <1>1 DEF SetPinConfig
<1>4. Lookup(n, p) # Absent /\ (Unique(pins) => c = Lookup(n, p))
  BY <1>1, UpsertFound, PinTypes
<1>5. QED
  BY <1>2, <1>3, <1>4, PinStarts

LEMMA DeletePinConfigTold ==
    ASSUME ConfigInv, PinInv, NEW p \in Pins, DeletePinConfig(p)
    PROVE  PinInv'
<1>1. CASE Of(pins, p) = {}
  <2>1. /\ pins' = pins /\ LoadPins' = LoadPins /\ work' = work /\ phase' = phase /\ torn' = torn
    BY <1>1, SameLoad DEF DeletePinConfig, powerVars
  <2>2. phase # "off"
    BY AtRest DEF DeletePinConfig
  <2>3. known' # known => known' \in {Absent, Unknown} /\ p = Watched
    BY <1>1, TellTyped DEF DeletePinConfig, TellOf
  <2>4. p = Watched => Absent = Lookup(pins, Watched)
    BY <1>1 DEF Lookup
  <2>5. QED
    BY <2>1, <2>2, <2>3, <2>4, PinSame
<1>2. CASE Of(pins, p) # {}
  <2>1. PICK n \in Seq(Record) : n = Erase(pins, p)
    BY <1>2, ErasedEntry, PinTypes
  <2>2. Overwritten(pins, n, 1, p) /\ (Unique(pins) => Unique(n) /\ Of(n, p) = {})
    BY <1>2, <2>1, EraseOverwrites, EraseUnique, PinTypes
  <2>3. Ready /\ pins' = n /\ Replying("delete", p, Absent) /\ flash' = flash /\ UNCHANGED <<powerVars, known>>
    BY <1>2, <2>1 DEF DeletePinConfig
  <2>4. QED
    BY <2>2, <2>3, PinStarts
<1>3. QED
  BY <1>1, <1>2

LEMMA GetPinConfigTold ==
    ASSUME ConfigInv, PinInv, GetPinConfig
    PROVE  PinInv'
<1>1. pins' = pins /\ LoadPins' = LoadPins /\ work' = work /\ phase' = phase /\ torn' = torn
  BY SameLoad DEF GetPinConfig, powerVars
<1>2. phase # "off"
  BY AtRest DEF GetPinConfig
<1>3. known' \in {Lookup(pins, Watched), Unknown}
  BY DEF GetPinConfig, Tell
<1>4. QED
  BY <1>1, <1>2, <1>3, PinSame

(* An empty list has no entry.                                             *)
LEMMA EmptyList == Unique(<<>>) /\ \A p : Of(<<>>, p) = {} /\ Lookup(<<>>, p) = Absent
BY DEF Unique, Of, Lookup

(* All pins are cleared or reset.                                          *)
LEMMA AllPinsStart ==
    ASSUME ConfigInv, PinInv, Ready, pins' = <<>>, NEW j \in {"clear", "reset"}, Do(j, 1, Pins),
           flash' = flash, UNCHANGED <<powerVars, known>>
    PROVE  PinInv'
<1>1. phase = "ready" /\ LoadPins = pins /\ ~Saving
  BY AtRest
<1>2. phase' = phase /\ torn' = torn /\ known' = known /\ LoadPins' = LoadPins
  BY SameLoad DEF powerVars
<1>3. work'.job = j /\ work'.step = 1 /\ work'.pins = Pins /\ work'.reply = Absent
  <2>1. j \in Jobs /\ 1 \in Nat \cup Macs /\ Pins \in SUBSET Pins
    BY DEF Jobs
  <2>2. QED
    BY <2>1, DoTyped
<1>4. Others'
  BY <1>1, <1>2, <1>3 DEF Others
<1>5. Whole'
  BY <1>1, <1>2, <1>3, EmptyList DEF PinInv, Whole, Saving
<1>6. Told'
  BY <1>1, <1>2, <1>3, PinTypes DEF Told
<1>7. Replied'
  BY <1>3 DEF Replied
<1>8. QED
  BY <1>4, <1>5, <1>6, <1>7 DEF PinInv

(* What is loaded, under the invariant.                                    *)
LEMMA LoadedPins ==
    ConfigInv => /\ Len(LoadPins) = flash.count
                 /\ \A i \in 1..flash.count : LoadPins[i] = flash.records[i]
BY Loaded DEF ConfigInv, TypeInv

LEMMA SaveRecordTold ==
    ASSUME ConfigInv, PinInv, SaveRecord
    PROVE  PinInv'
<1>1. /\ flash' \in FlashType /\ flash'.count = flash.count
      /\ work.step \in 1..Len(pins)
      /\ Len(flash.records) <= Len(flash'.records)
      /\ \A i \in 1..Len(flash'.records) :
           flash'.records[i] = IF i = work.step THEN pins[work.step] ELSE flash.records[i]
  BY RecordSaved
<1>2. /\ work'.job = work.job /\ work'.step = work.step + 1 /\ work'.pins = work.pins
      /\ work'.reply = work.reply
      /\ pins' = pins /\ phase' = phase /\ torn' = torn /\ known' = known
      /\ work.job \in {"set", "delete", "clear"}
  <2>1. work \in WorkType /\ work.step \in Nat /\ Proceed
    BY <1>1 DEF SaveRecord, ConfigInv, TypeInv, WorkType
  <2>2. QED
    BY <2>1, ProceedTyped DEF SaveRecord, powerVars, Saving
<1>3. phase # "off"
  BY <1>2 DEF ConfigInv, Flow
<1>4. PICK v \in Seq(Record), w \in Seq(Record), n \in Seq(Record) :
          v = LoadPins /\ w = LoadPins' /\ n = pins
  <2>1. LoadPins \in Seq(Record) /\ pins \in Seq(Record)
    BY PinTypes
  <2>2. LoadPins' \in Seq(Record)
    <3>1. (ConfigInv => LoadPins \in Seq(Record))'
      BY PinTypes, PTL
    <3>2. QED
      BY <3>1, SaveRecordKeeps
  <2>3. QED
    BY <2>1, <2>2
<1>41. PICK k \in 1..Len(n) : k = work.step
  BY <1>1, <1>4
<1>5. Len(w) = Len(v) /\ \A i \in 1..Len(v) : w[i] = IF i = k THEN n[k] ELSE v[i]
  <2>1. Len(v) = flash.count /\ \A i \in 1..flash.count : v[i] = flash.records[i]
    BY <1>4, LoadedPins
  <2>2. Len(w) = flash'.count /\ \A i \in 1..flash'.count : w[i] = flash'.records[i]
    <3>1. (ConfigInv => /\ Len(LoadPins) = flash.count
                        /\ \A i \in 1..flash.count : LoadPins[i] = flash.records[i])'
      BY LoadedPins, PTL
    <3>2. QED
      BY <1>4, <3>1, SaveRecordKeeps
  <2>3. \A i \in 1..flash.count : i \in 1..Len(flash'.records)
    <3>1. flash.count \in Nat /\ flash.count <= Len(flash'.records) /\ Len(flash'.records) \in Nat
      BY <1>1, SaveRecordKeeps, FlashFields DEF ConfigInv, TypeInv, FlashType
    <3>2. QED
      BY <3>1
  <2>4. QED
    BY <1>1, <1>4, <1>41, <2>1, <2>2, <2>3
<1>6. Others'
  <2>1. CASE work.job \in {"set", "delete"}
    <3>1. PICK p \in Pins : work.pins = {p} /\ Overwritten(v, n, k, p)
      BY <1>4, <1>41, <2>1 DEF PinInv, Others
    <3>2. Overwritten(w, n, k + 1, p)
      BY <1>5, <3>1, OverwriteNext
    <3>3. QED
      BY <1>2, <1>3, <1>4, <1>41, <2>1, <3>1, <3>2 DEF Others
  <2>2. CASE work.job = "clear"
    BY <1>2, <1>3, <2>2 DEF PinInv, Others
  <2>3. QED
    BY <1>2, <2>1, <2>2
<1>7. Whole'
  BY <1>2 DEF PinInv, Whole, Saving
<1>8. Told' /\ Replied'
  BY <1>2 DEF PinInv, Told, KnownOf, Replied
<1>9. QED
  BY <1>6, <1>7, <1>8 DEF PinInv

LEMMA SaveCountTold ==
    ASSUME ConfigInv, PinInv, SaveCount
    PROVE  PinInv'
<1>1. LoadPins' = pins
  BY CountSaved
<1>2. /\ work'.job = "none" /\ work'.pins = {} /\ pins' = pins /\ phase' = phase
      /\ torn' = (torn /\ pins # <<>>) /\ work.job \in {"set", "delete", "clear"} /\ Answer
  BY RestTyped DEF SaveCount, Saving
<1>3. phase # "off"
  BY <1>2 DEF ConfigInv, Flow
<1>4. Others'
  BY <1>2, <1>3 DEF Others
<1>5. Whole'
  <2>1. ~torn' => Unique(pins)
    <3>1. CASE ~torn
      BY <3>1 DEF PinInv, Whole
    <3>2. CASE pins = <<>>
      BY <3>2, EmptyList
    <3>3. QED
      BY <1>2, <3>1, <3>2
  <2>2. QED
    BY <1>1, <1>2, <2>1 DEF Whole
<1>6. pins = <<>> => Lookup(pins, Watched) = Absent
  BY EmptyList
<1>7. known' # Unknown => KnownOf(pins)'
  <2>1. CASE Watched \notin work.pins
    <3>1. known' = known
      BY <1>2, <2>1 DEF Answer
    <3>2. known # Unknown => KnownOf(pins)
      BY <2>1 DEF PinInv, Told
    <3>3. QED
      BY <1>2, <1>6, <3>1, <3>2 DEF KnownOf
  <2>2. CASE Watched \in work.pins
    <3>1. known' \in {work.reply, Unknown}
      BY <1>2, <2>2 DEF Answer, Tell
    <3>2. CASE work.job = "set"
      <4>1. Lookup(pins, Watched) # Absent /\ (~torn => work.reply = Lookup(pins, Watched))
        <5>1. \A p \in work.pins : Lookup(pins, p) # Absent /\ (~torn => work.reply = Lookup(pins, p))
          BY <3>2 DEF PinInv, Replied
        <5>2. QED
          BY <2>2, <5>1, Zenon
      <4>2. QED
        BY <1>2, <1>6, <3>1, <4>1 DEF KnownOf
    <3>3. CASE work.job = "delete"
      <4>1. work.reply = Absent /\ (~torn => Lookup(pins, Watched) = Absent)
        BY <2>2, <3>3 DEF PinInv, Whole, Replied, Lookup
      <4>2. QED
        BY <1>2, <1>6, <3>1, <4>1 DEF KnownOf
    <3>4. CASE work.job = "clear"
      <4>1. work.reply = Absent /\ pins = <<>>
        BY <3>4 DEF ConfigInv, Written, PinInv, Replied
      <4>2. QED
        BY <1>2, <1>6, <3>1, <4>1 DEF KnownOf
    <3>5. QED
      BY <1>2, <3>2, <3>3, <3>4
  <2>3. QED
    BY <2>1, <2>2
<1>8. Told' /\ Replied'
  BY <1>2, <1>3, <1>7 DEF Told, Replied
<1>9. QED
  BY <1>4, <1>5, <1>8 DEF PinInv

LEMMA ResetFlashTold ==
    ASSUME ConfigInv, PinInv, ResetFlash
    PROVE  PinInv'
<1>1. /\ work.job = "reset" /\ work'.job = "reset" /\ work'.pins = work.pins
      /\ pins' = pins /\ phase' = phase /\ torn' = torn /\ known' = known
  <2>1. work \in WorkType /\ work.step \in Nat /\ Proceed
    BY DEF ResetFlash, Resetting, ConfigInv, TypeInv, WorkType
  <2>2. QED
    BY <2>1, ProceedTyped DEF ResetFlash, Resetting, powerVars
<1>2. phase # "off" /\ pins = <<>> /\ work.pins = Pins
  BY <1>1 DEF ConfigInv, Flow, Written, PinInv, Others
<1>3. Others'
  BY <1>1, <1>2 DEF Others
<1>4. ~torn => Unique(LoadPins')
  <2>1. CASE Resetting(1)
    <3>1. work.step = 1 /\ flash' = [flash EXCEPT !.records = <<>>, !.count = 0]
      BY <2>1 DEF ResetFlash, Resetting
    <3>2. <<>> \in Seq(Record) /\ 0 \in Nat /\ flash \in FlashType
      BY DEF ConfigInv, TypeInv
    <3>3. flash'.records = <<>> /\ flash'.count = 0
      BY <3>1, <3>2, ClearRecords
    <3>4. LoadPins' = <<>>
      BY <3>3 DEF LoadPins
    <3>5. QED
      BY <3>4, EmptyList
  <2>2. CASE ~Resetting(1)
    <3>1. flash'.records = flash.records /\ flash'.count = flash.count
      <4>1. CASE flash' = [flash EXCEPT !.flags = {}, !.name = NoName, !.firmware = NoFirmware]
        <5>1. {} \in SUBSET Flags /\ NoName \in Builds \cup {NoName} /\ NoFirmware \in Builds \cup {NoFirmware}
          OBVIOUS
        <5>2. QED
          BY <4>1, <5>1, ClearSettings DEF ConfigInv, TypeInv
      <4>2. CASE flash' = [flash EXCEPT !.firmware = fw]
        <5>1. fw \in Builds \cup {NoFirmware}
          BY DEF ConfigInv, TypeInv
        <5>2. QED
          BY <4>2, <5>1, WriteIdentity DEF ConfigInv, TypeInv
      <4>3. QED
        BY <2>2, <4>1, <4>2 DEF ResetFlash, Resetting
    <3>2. LoadPins' = LoadPins
      BY <3>1, SameLoad
    <3>3. QED
      BY <1>1, <3>2 DEF PinInv, Whole, Saving
  <2>3. QED
    BY <2>1, <2>2
<1>5. Whole'
  BY <1>1, <1>2, <1>4, EmptyList DEF Whole, Saving
<1>6. Told' /\ Replied'
  BY <1>1, <1>2, PinTypes DEF Told, Replied
<1>7. QED
  BY <1>3, <1>5, <1>6 DEF PinInv

LEMMA ResetPeersTold ==
    ASSUME ConfigInv, PinInv, ResetPeers
    PROVE  PinInv'
<1>1. /\ work.job = "reset" /\ work.step = 4 /\ work'.job = "none" /\ work'.pins = {}
      /\ pins' = pins /\ phase' = phase /\ torn' = FALSE /\ known' \in {Absent, Unknown} /\ flash' = flash
  BY RestTyped DEF ResetPeers, Resetting, Tell
<1>2. phase # "off" /\ pins = <<>>
  BY <1>1 DEF ConfigInv, Flow, Written
<1>3. LoadPins' = <<>>
  <2>1. work.step > 1
    BY <1>1
  <2>2. LoadPins = <<>> /\ LoadPins' = LoadPins
    BY <1>1, <2>1, SameLoad DEF ConfigInv, Written
  <2>3. QED
    BY <2>2
<1>4. Others'
  BY <1>1, <1>2 DEF Others
<1>5. Whole'
  BY <1>1, <1>2, <1>3, EmptyList DEF Whole
<1>6. Told' /\ Replied'
  BY <1>1, <1>2, EmptyList DEF Told, KnownOf, Replied
<1>7. QED
  BY <1>4, <1>5, <1>6 DEF PinInv

LEMMA BootTold ==
    ASSUME ConfigInv, PinInv, Boot
    PROVE  PinInv'
<1>1. /\ phase = "off" /\ phase' = "starting" /\ pins' = LoadPins /\ flash' = flash
      /\ work'.job \in {"restore", "newFirmware"} /\ work'.pins = {}
      /\ torn' = torn /\ known' = known
  <2>1. PICK j \in {"restore", "newFirmware"} : j = IF SameFirmware THEN "restore" ELSE "newFirmware"
    OBVIOUS
  <2>2. j \in Jobs /\ 1 \in Nat \cup Macs /\ {} \in SUBSET Pins /\ Do(j, 1, {})
    BY <2>1 DEF Boot, Jobs
  <2>3. work'.job = j /\ work'.pins = {}
    BY <2>2, DoTyped
  <2>4. QED
    BY <2>3 DEF Boot
<1>2. work.job = "none"
  BY <1>1 DEF ConfigInv, Flow
<1>3. LoadPins' = LoadPins
  BY <1>1, SameLoad
<1>4. Others'
  BY <1>1 DEF Others
<1>5. Whole'
  BY <1>1, <1>2, <1>3 DEF PinInv, Whole, Saving
<1>6. Watched \notin work.pins => Lookup(LoadPins, Watched) = Lookup(pins, Watched)
  BY <1>1, PinTypes DEF PinInv, Others
<1>7. Told' /\ Replied'
  BY <1>1, <1>6 DEF PinInv, Told, KnownOf, Replied
<1>8. QED
  BY <1>4, <1>5, <1>7 DEF PinInv

LEMMA RestartTold ==
    ASSUME ConfigInv, PinInv, Restart
    PROVE  PinInv'
<1>1. /\ phase # "off" /\ phase' = "off" /\ pins' = pins /\ flash' = flash
      /\ work'.job = "none" /\ work'.pins = work.pins
      /\ torn' = (torn \/ Saving)
      /\ known' = (IF Watched \in work.pins THEN Unknown ELSE known)
  <2>1. work.pins \in SUBSET Pins
    BY PinTypes
  <2>2. "none" \in Jobs /\ 0 \in Nat \cup Macs /\ Do("none", 0, work.pins)
    BY DEF Restart, Jobs
  <2>3. work'.job = "none" /\ work'.pins = work.pins
    BY <2>1, <2>2, DoTyped
  <2>4. QED
    BY <2>3 DEF Restart
<1>2. LoadPins' = LoadPins
  BY <1>1, SameLoad
<1>3. ASSUME NEW q \in Pins \ work.pins PROVE Lookup(LoadPins, q) = Lookup(pins, q)
  <2>1. CASE work.job \in {"set", "delete"}
    <3>1. PICK p \in Pins : work.pins = {p} /\ Overwritten(LoadPins, pins, work.step, p)
      BY <2>1 DEF PinInv, Others
    <3>2. q # p
      BY <3>1
    <3>3. Saving /\ work.step \in 1..(Len(pins) + 1)
      BY <2>1 DEF Saving, ConfigInv, Flow
    <3>4. work.step \in Nat
      BY <3>3
    <3>5. QED
      BY <3>1, <3>2, <3>4, PinTypes, OverwrittenLookup
  <2>2. CASE work.job \in {"clear", "reset"}
    BY <2>2 DEF PinInv, Others
  <2>3. CASE ~(work.job \in {"set", "delete", "clear", "reset"})
    BY <1>1, <2>3 DEF ConfigInv, Synced, Saving
  <2>4. QED
    BY <2>1, <2>2, <2>3
<1>4. Others'
  BY <1>1, <1>2, <1>3 DEF Others
<1>5. Whole'
  BY <1>1, <1>2 DEF PinInv, Whole, Saving
<1>6. Told' /\ Replied'
  BY <1>1 DEF PinInv, Told, KnownOf, Replied
<1>7. QED
  BY <1>4, <1>5, <1>6 DEF PinInv

(* The steps that PinQuiet is about.                                       *)
LEMMA SettingsTold ==
    ASSUME ConfigInv, PinInv, (\E f \in Flags, on \in BOOLEAN : SetFlag(f, on)) \/ \E empty \in BOOLEAN : SetName(empty)
    PROVE  PinInv'
<1>1. /\ Ready /\ pins' = pins /\ work' = work /\ phase' = phase /\ torn' = torn /\ known' = known
  BY DEF SetFlag, SetName, powerVars
<1>2. flash'.records = flash.records /\ flash'.count = flash.count
  BY Zenon DEF SetFlag, SetName, ConfigInv, TypeInv, FlashType
<1>3. LoadPins' = LoadPins
  BY <1>2, SameLoad
<1>4. QED
  BY <1>1, <1>3, PinSame

LEMMA PeersTold ==
    ASSUME ConfigInv, PinInv,
           (\E m \in Macs : AddPeer(m) \/ RemovePeer(m)) \/ AddLive \/ AddUndo \/ RemoveStored
    PROVE  PinInv'
<1>1. /\ pins' = pins /\ flash' = flash /\ phase' = phase /\ torn' = torn /\ known' = known
      /\ work.job \in {"none", "addPeer", "removePeer"} /\ phase # "off" /\ work.pins = {}
  <2>1. CASE \E m \in Macs : AddPeer(m) \/ RemovePeer(m)
    BY <2>1, AtRest DEF AddPeer, RemovePeer, powerVars
  <2>2. CASE AddLive \/ AddUndo \/ RemoveStored
    <3>1. work.job \in {"addPeer", "removePeer"} /\ phase # "off"
      BY <2>2, InPhase DEF AddLive, AddUndo, RemoveStored
    <3>2. work.pins = {}
      BY <3>1 DEF ConfigInv, Flow
    <3>3. QED
      BY <2>2, <3>1, <3>2 DEF AddLive, AddUndo, RemoveStored, powerVars
  <2>3. QED
    BY <2>1, <2>2
<1>2. work'.job \in {"none", "addPeer", "removePeer"} /\ work'.pins = {}
  <2>1. ASSUME NEW m \in Macs, AddPeer(m) \/ RemovePeer(m)
        PROVE  work' = work \/ Do("addPeer", m, {}) \/ Do("removePeer", m, {})
    BY <2>1 DEF AddPeer, RemovePeer
  <2>2. ASSUME NEW m \in Macs, AddPeer(m) \/ RemovePeer(m) PROVE work = Rest
    BY <2>2 DEF AddPeer, RemovePeer, Ready
  <2>3. ASSUME NEW m \in Macs, NEW j \in {"addPeer", "removePeer"}, Do(j, m, {})
        PROVE  work'.job = j /\ work'.pins = {}
    BY <2>3 DEF Do, Rest
  <2>4. QED
    BY <2>1, <2>2, <2>3, RestTyped DEF AddLive, AddUndo, RemoveStored
<1>3. LoadPins' = LoadPins
  BY <1>1, SameLoad
<1>4. QED
  BY <1>1, <1>2, <1>3, PinQuiet DEF Quiet

LEMMA StartingTold ==
    ASSUME ConfigInv, PinInv, DropName \/ WriteFirmware \/ RestorePeers
    PROVE  PinInv'
<1>1. /\ pins' = pins /\ torn' = torn /\ known' = known /\ work.job \in {"newFirmware", "restore"}
      /\ work'.job \in {"none", "newFirmware", "restore"} /\ work'.pins = {}
      /\ phase' \in {phase, "ready"}
  BY RestTyped DEF DropName, WriteFirmware, RestorePeers, NewFirmware, Do, Rest, powerVars
<1>2. phase # "off" /\ work.pins = {}
  BY <1>1 DEF ConfigInv, Flow
<1>3. flash'.records = flash.records /\ flash'.count = flash.count
  BY Zenon DEF DropName, WriteFirmware, RestorePeers, ConfigInv, TypeInv, FlashType
<1>4. LoadPins' = LoadPins
  BY <1>3, SameLoad
<1>5. phase' # "off"
  BY <1>1, <1>2
<1>6. QED
  BY <1>1, <1>2, <1>4, <1>5, PinQuiet DEF Quiet

(* The first state.                                                        *)
LEMMA PinInvInit == Init => PinInv
<1>1. SUFFICES ASSUME Init PROVE PinInv
  OBVIOUS
<1>2. pins = <<>> /\ work.job = "none" /\ work.pins = {} /\ phase = "off" /\ known = Absent
  BY <1>1, RestTyped DEF Init
<1>3. LoadPins = <<>>
  <2>1. flash.records = <<>> /\ flash.count = 0
    BY <1>1 DEF Init
  <2>2. QED
    BY <2>1 DEF LoadPins
<1>4. QED
  BY <1>2, <1>3, EmptyList DEF PinInv, Others, Whole, Told, KnownOf, Replied

(* All steps together.                                                     *)
LEMMA PinInvKept ==
    ASSUME ConfigInv, PinInv, [Next]_vars
    PROVE  PinInv'
<1>1. CASE Request
  <2>1. CASE ClearPinConfigs \/ Reset
    BY <2>1, AllPinsStart DEF ClearPinConfigs, Reset
  <2>2. QED
    BY <1>1, <2>1, SetPinConfigTold, DeletePinConfigTold, GetPinConfigTold, SettingsTold, PeersTold DEF Request
<1>2. CASE Continue
  BY <1>2, SaveRecordTold, SaveCountTold, ResetFlashTold, ResetPeersTold, PeersTold DEF Continue
<1>3. CASE Begin
  BY <1>3, BootTold, StartingTold DEF Begin
<1>4. CASE \E m \in Macs : Discover(m)
  <2>1. pins' = pins /\ flash' = flash /\ work' = work /\ phase' = phase /\ torn' = torn /\ known' = known
    BY <1>4 DEF Discover, powerVars
  <2>2. QED
    BY <2>1, SameLoad, PinSame
<1>5. CASE PowerLoss \/ Flash
  BY <1>5, RestartTold DEF PowerLoss, Flash
<1>6. CASE UNCHANGED vars
  <2>1. pins' = pins /\ flash' = flash /\ work' = work /\ phase' = phase /\ torn' = torn /\ known' = known
    BY <1>6 DEF vars, powerVars
  <2>2. QED
    BY <2>1, SameLoad, PinSame
<1>7. QED
  BY <1>1, <1>2, <1>3, <1>4, <1>5, <1>6 DEF Next

(* Every pin that is not being saved can be looked up in the damaged lists *)
(* in flash as it is in memory, in every reachable state.                  *)
THEOREM PinInvHolds == Spec => [](ConfigInv /\ PinInv)
<1>1. Init => ConfigInv /\ PinInv
  BY ConfigInvInit, PinInvInit
<1>2. ConfigInv /\ PinInv /\ [Next]_vars => ConfigInv' /\ PinInv'
  BY ConfigInvKept, PinInvKept
<1>3. QED
  BY <1>1, <1>2, PTL DEF Spec

(* Whenever no request is being handled, a restart would bring back        *)
(* exactly the mappings, flags and name that are in effect.                *)
THEOREM RestartNeverChanges == Spec => []RestartChangesNothing
<1>1. ConfigInv => RestartChangesNothing
  BY AtRest DEF RestartChangesNothing
<1>2. QED
  BY <1>1, ConfigInvHolds, PTL

(* The name in effect was set under the firmware that runs, also when the  *)
(* power fails during the first start of a new one.                        *)
THEOREM NameIsAlwaysOfThisFirmware == Spec => []NameIsOfThisFirmware
<1>1. ConfigInv => NameIsOfThisFirmware
  BY DEF ConfigInv, Named, NameIsOfThisFirmware
<1>2. QED
  BY <1>1, ConfigInvHolds, PTL

(* Whenever no request is being handled, a stored peer is live unless      *)
(* begin() could not make it so.                                           *)
THEOREM StoredIsAlwaysLive == Spec => []StoredIsLive
<1>1. ConfigInv => StoredIsLive
  BY AtRest DEF StoredIsLive
<1>2. QED
  BY <1>1, ConfigInvHolds, PTL

(* What the host was told of a pin is true until it changes the pin, as    *)
(* long as no save has been cut short.                                     *)
THEOREM ToldIsAlwaysTrue == Spec => []ToldIsTrue
<1>1. PinInv => ToldIsTrue
  BY DEF PinInv, Told, KnownOf, ToldIsTrue
<1>2. QED
  BY <1>1, PinInvHolds, PTL

(* A boot after a power failure in the middle of a save brings back every  *)
(* pin that was not being saved.                                           *)
THEOREM OthersAlwaysSurvive == Spec => OthersSurvive
<1>1. PinInv /\ [Next]_vars => [Boot => \A p \in Pins \ work.pins : Lookup(pins', p) = Lookup(pins, p)]_vars
  <2>1. SUFFICES ASSUME PinInv, Boot PROVE \A p \in Pins \ work.pins : Lookup(pins', p) = Lookup(pins, p)
    OBVIOUS
  <2>2. phase = "off" /\ pins' = LoadPins
    BY <2>1 DEF Boot
  <2>3. QED
    BY <2>1, <2>2 DEF PinInv, Others
<1>2. QED
  BY <1>1, PinInvHolds, PTL DEF Spec, OthersSurvive

-----------------------------------------------------------------------------
(***************************************************************************)
(* Neither the storage nor the live list ever holds more peers than fit.   *)
(***************************************************************************)
Fits(S) == IsFiniteSet(S) /\ Cardinality(S) <= MaxPeers

PeersFit == Fits(stored) /\ Fits(live)

LEMMA OneMoreFits ==
    ASSUME NEW S, NEW m, Fits(S), Cardinality(S) < MaxPeers
    PROVE  Fits(S \cup {m})
<1>1. /\ IsFiniteSet(S) /\ Cardinality(S) \in Nat /\ MaxPeers \in Nat
  BY FS_CardinalityType, ConfigAssumption DEF Fits
<1>2. /\ IsFiniteSet(S \cup {m})
      /\ Cardinality(S \cup {m}) = IF m \in S THEN Cardinality(S) ELSE Cardinality(S) + 1
  BY <1>1, FS_AddElement
<1>3. Cardinality(S \cup {m}) <= MaxPeers
  BY <1>1, <1>2
<1>4. QED
  BY <1>2, <1>3 DEF Fits

LEMMA FewerFit ==
    ASSUME NEW S, NEW T \in SUBSET S, Fits(S)
    PROVE  Fits(T)
<1>1. IsFiniteSet(T) /\ Cardinality(T) <= Cardinality(S)
  BY FS_Subset DEF Fits
<1>2. Cardinality(T) \in Nat /\ Cardinality(S) \in Nat /\ MaxPeers \in Nat
  BY <1>1, FS_CardinalityType, ConfigAssumption DEF Fits
<1>3. QED
  BY <1>1, <1>2 DEF Fits

LEMMA NoneFits == Fits({})
<1>1. IsFiniteSet({}) /\ Cardinality({}) = 0 /\ MaxPeers \in Nat
  BY FS_EmptySet, ConfigAssumption
<1>2. QED
  BY <1>1 DEF Fits

(* addPeer() first looks whether the storage has room, and the ESP-NOW list *)
(* takes no peer beyond its limit; begin() makes stored peers live as far   *)
(* as they fit beside the ones already heard.                               *)
LEMMA PeersFitKept ==
    ASSUME PeersFit, [Next]_vars
    PROVE  PeersFit'
<1>1. CASE UNCHANGED peerVars
  BY <1>1 DEF PeersFit, peerVars
<1>2. ASSUME NEW m \in Macs, AddPeer(m) PROVE PeersFit'
  BY <1>2, OneMoreFits DEF PeersFit, AddPeer
<1>3. ASSUME NEW m \in Macs, RemovePeer(m) PROVE PeersFit'
  <2>1. live' \in SUBSET live /\ stored' = stored
    BY <1>3 DEF RemovePeer
  <2>2. QED
    BY <2>1, FewerFit DEF PeersFit
<1>4. CASE ResetPeers
  BY <1>4, NoneFits DEF PeersFit, ResetPeers
<1>5. CASE AddLive
  BY <1>5, OneMoreFits DEF PeersFit, AddLive
<1>6. CASE AddUndo \/ RemoveStored
  <2>1. stored' \in SUBSET stored /\ live' = live
    BY <1>6 DEF AddUndo, RemoveStored
  <2>2. QED
    BY <2>1, FewerFit DEF PeersFit
<1>7. CASE RestorePeers
  <2>1. PICK S \in SUBSET stored : live' = live \cup S
    BY <1>7 DEF RestorePeers
  <2>2. IsFiniteSet(S)
    BY FewerFit DEF PeersFit, Fits
  <2>3. IsFiniteSet(live')
    BY <2>1, <2>2, FS_Union DEF PeersFit, Fits
  <2>4. Cardinality(live') <= MaxPeers /\ stored' = stored
    BY <1>7 DEF RestorePeers
  <2>5. QED
    BY <2>3, <2>4 DEF PeersFit, Fits
<1>8. ASSUME NEW m \in Macs, Discover(m) PROVE PeersFit'
  BY <1>8, OneMoreFits DEF PeersFit, Discover
<1>9. CASE PowerLoss \/ Flash
  <2>1. stored' = stored /\ live' = {}
    BY <1>9 DEF PowerLoss, Flash, Restart
  <2>2. QED
    BY <2>1, NoneFits DEF PeersFit
<1>10. CASE Request
  <2>1. ASSUME NEW p \in Pins, NEW c \in Configs, SetPinConfig(p, c) PROVE UNCHANGED peerVars
    BY <2>1 DEF SetPinConfig
  <2>2. ASSUME NEW p \in Pins, DeletePinConfig(p) PROVE UNCHANGED peerVars
    BY <2>2 DEF DeletePinConfig
  <2>3. CASE ClearPinConfigs \/ GetPinConfig \/ Reset
    BY <2>3, <1>1 DEF ClearPinConfigs, GetPinConfig, Reset
  <2>4. ASSUME NEW f \in Flags, NEW on \in BOOLEAN, SetFlag(f, on) PROVE UNCHANGED peerVars
    BY <2>4 DEF SetFlag
  <2>5. ASSUME NEW empty \in BOOLEAN, SetName(empty) PROVE UNCHANGED peerVars
    BY <2>5 DEF SetName
  <2>6. QED
    BY <1>1, <1>2, <1>3, <1>10, <2>1, <2>2, <2>3, <2>4, <2>5 DEF Request
<1>11. CASE Continue
  <2>1. CASE SaveRecord \/ SaveCount \/ ResetFlash
    BY <1>1, <2>1 DEF SaveRecord, SaveCount, ResetFlash
  <2>2. QED
    BY <1>4, <1>5, <1>6, <1>11, <2>1 DEF Continue
<1>12. CASE Begin
  <2>1. CASE Boot \/ DropName \/ WriteFirmware
    BY <1>1, <2>1 DEF Boot, DropName, WriteFirmware
  <2>2. QED
    BY <1>7, <1>12, <2>1 DEF Begin
<1>13. CASE UNCHANGED vars
  BY <1>1, <1>13 DEF vars, peerVars
<1>14. QED
  BY <1>8, <1>9, <1>10, <1>11, <1>12, <1>13 DEF Next

(* Mappings, flags and names, in memory and in flash, keep their types, the *)
(* count never exceeds the records, and peers stay within their limit.      *)
THEOREM ConfigAlwaysTyped == Spec => []TypeOK
<1>1. Init => PeersFit
  BY NoneFits DEF Init, PeersFit
<1>2. PeersFit /\ [Next]_vars => PeersFit'
  BY PeersFitKept
<1>3. ConfigInv /\ PeersFit => TypeOK
  <2>1. SUFFICES ASSUME ConfigInv, PeersFit PROVE TypeOK
    OBVIOUS
  <2>2. /\ flash.records \in Seq(Record) /\ flash.flags \in SUBSET Flags
        /\ flash.name \in Builds \cup {NoName}
    BY <2>1, FlashFields DEF ConfigInv, TypeInv
  <2>3. QED
    BY <2>1, <2>2 DEF TypeOK, ConfigInv, TypeInv, PeersFit, Fits, Builds
<1>4. QED
  BY <1>1, <1>2, <1>3, ConfigInvHolds, PTL DEF Spec

------------------------------------------------------------------------------
(***************************************************************************)
(* An input pin.                                                           *)
(***************************************************************************)

(* The values of the PinState.                                             *)
PinStates ==
    [last : -1..Greater(MidiMax, 1), raw : Int, changed : 0..LongAgo, sent : 0..LongAgo,
     smooth : Nat, spikes : 0..(SpikeConfirm - 1), touched : BOOLEAN, base : Nat, peak : Nat,
     soon : BOOLEAN]

PinTyped ==
    /\ mode \in Modes /\ threshold \in Thresholds \union {0}
    /\ position \in Positions /\ reading \in Positions
    /\ dropout \in 0..SpikeConfirm
    /\ pin \in PinStates

(* A pad is divided by what it reads untouched, so that is never zero; the *)
(* wiper of a knob is the only thing that loses contact.                   *)
TouchInv ==
    /\ mode # "analog" => reading = position
    /\ mode = "touch" => pin.base > 0

(* A level that was not sent yet is the newest one, and nothing was sent   *)
(* since it came.                                                          *)
SwitchInv ==
    mode = "switch" =>
        /\ ~pin.soon
        /\ pin.last # None /\ pin.raw # pin.last => pin.sent >= pin.changed

(* While a knob has no contact every dropped sample was taken for a spike, *)
(* and a good sample near the average has cleared the count.               *)
AnalogInv ==
    mode = "analog" =>
        /\ reading # position =>
              /\ pin.last # None /\ Distance(reading, pin.smooth) > SpikeLimit
              /\ pin.spikes <= dropout
        /\ reading = position /\ dropout = 0 /\ pin.last # None
              /\ Distance(position, pin.smooth) <= SpikeLimit => pin.spikes = 0

InputInv == PinTyped /\ TouchInv /\ SwitchInv /\ AnalogInv

Values == -1..Greater(MidiMax, 1)

------------------------------------------------------------------------------
(* The times that the code compares.                                       *)
LEMMA PinConstants ==
    /\ {Debounce, MinInterval, MaxGap, AdcMax, SpikeLimit, SpikeConfirm, MidiMax} \subseteq Nat \ {0}
    /\ Snap \in Nat /\ MinPeakPct \in Nat /\ MidiMax > 2 * Snap
    /\ LongAgo \in Nat /\ LongAgo >= Debounce /\ LongAgo >= MinInterval
    /\ Touches \subseteq Nat \ {0} /\ Thresholds \subseteq 0..127
    /\ -1 \in Values /\ 0..MidiMax \subseteq Values /\ {0, 1} \subseteq Values
<1>1. /\ {Debounce, MinInterval, MaxGap, AdcMax, SpikeLimit, SpikeConfirm, MidiMax} \subseteq Nat \ {0}
      /\ Snap \in Nat /\ MinPeakPct \in Nat /\ MidiMax > 2 * Snap
      /\ Touches \subseteq Nat \ {0} /\ Thresholds \subseteq 0..127
  BY PinAssumption
<1>2. LongAgo \in Nat /\ LongAgo >= Debounce /\ LongAgo >= MinInterval
  BY <1>1 DEF LongAgo, Greater
<1>3. -1 \in Values /\ 0..MidiMax \subseteq Values /\ {0, 1} \subseteq Values
  BY <1>1 DEF Values, Greater
<1>4. QED
  BY <1>1, <1>2, <1>3

(* Time passes for both ages alike, so that their order stays.             *)
LEMMA AgesKeepOrder ==
    ASSUME NEW a \in 0..LongAgo, NEW b \in 0..LongAgo, NEW dt \in Nat
    PROVE  /\ After(a, dt, LongAgo) \in 0..LongAgo
           /\ a >= b => After(a, dt, LongAgo) >= After(b, dt, LongAgo)
BY PinConstants DEF After

LEMMA AgedState ==
    ASSUME PinTyped, NEW dt \in Nat
    PROVE  /\ Aged(dt) \in PinStates
           /\ Aged(dt).last = pin.last /\ Aged(dt).raw = pin.raw /\ Aged(dt).smooth = pin.smooth
           /\ Aged(dt).spikes = pin.spikes /\ Aged(dt).base = pin.base
           /\ Aged(dt).soon = pin.soon /\ Aged(dt).touched = pin.touched
           /\ pin.sent >= pin.changed => Aged(dt).sent >= Aged(dt).changed
<1> DEFINE c == After(pin.changed, dt, LongAgo)
           s == After(pin.sent, dt, LongAgo)
<1>1. pin \in PinStates /\ pin.changed \in 0..LongAgo /\ pin.sent \in 0..LongAgo
  BY DEF PinTyped, PinStates
<1>2. c \in 0..LongAgo /\ s \in 0..LongAgo /\ (pin.sent >= pin.changed => s >= c)
  BY <1>1, AgesKeepOrder
<1>3. Aged(dt) = [pin EXCEPT !.changed = c, !.sent = s]
  BY DEF Aged
<1> HIDE DEF c, s
<1>4. QED
  BY <1>1, <1>2, <1>3 DEF PinStates

LEMMA PositionsTyped ==
    ASSUME PinTyped
    PROVE  /\ position \in Nat /\ reading \in Nat
           /\ mode = "switch" => position \in {0, 1} /\ reading \in {0, 1}
           /\ mode = "touch" => position > 0
           /\ mode = "analog" => reading \in 0..AdcMax
<1>1. mode \in {"switch", "analog", "touch"}
  BY PinAssumption DEF PinTyped
<1>2. position \in Positions /\ reading \in Positions
  BY DEF PinTyped
<1>3. QED
  BY <1>1, <1>2, PinConstants DEF Positions

LEMMA FreshTyped ==
    ASSUME PinTyped
    PROVE  Fresh \in PinStates
BY PositionsTyped, PinConstants DEF Fresh, PinStates, None, Values

(* What processPinInput() does to a typed state.                           *)
LEMMA SendsTyped ==
    ASSUME NEW p \in PinStates, NEW v \in Values
    PROVE  /\ Sends(p, v) \in PinStates
           /\ Sends(p, v).base = p.base /\ Sends(p, v).raw = p.raw
           /\ Sends(p, v).last = v /\ Sends(p, v).smooth = p.smooth
           /\ Sends(p, v).spikes = p.spikes
           /\ Sends(p, v).soon = (p.last # None /\ p.sent < Debounce)
<1>1. (p.last # None /\ p.sent < Debounce) \in BOOLEAN
  OBVIOUS
<1>2. 0 \in 0..LongAgo
  BY PinConstants
<1>3. QED
  BY <1>1, <1>2 DEF Sends, PinStates, Values

LEMMA SnapTyped ==
    ASSUME NEW v \in Int
    PROVE  SnapToEndpoints(v) \in 0..MidiMax
BY PinConstants DEF SnapToEndpoints

LEMMA ScaledTyped ==
    ASSUME NEW x \in Int
    PROVE  Scaled(x) \in 0..MidiMax
<1>1. x * MidiMax \in Int
  BY PinConstants
<1>2. (x * MidiMax) \div AdcMax \in Int
  BY <1>1, PinConstants
<1>3. QED
  BY <1>2, SnapTyped DEF Scaled

LEMMA AveragesTyped ==
    ASSUME NEW s \in Nat, NEW x \in Nat
    PROVE  Averages(s, x) \subseteq Nat
BY DEF Averages

LEMMA SendIfDueTyped ==
    ASSUME NEW p \in PinStates, NEW v \in 0..MidiMax
    PROVE  /\ SendIfDue(p, v) \in PinStates
           /\ SendIfDue(p, v).base = p.base
           /\ SendIfDue(p, v).smooth = p.smooth /\ SendIfDue(p, v).spikes = p.spikes
           /\ SendIfDue(p, v).last \in {p.last, v}
<1>1. v \in Values
  BY PinConstants
<1>2. QED
  BY <1>1, SendsTyped DEF SendIfDue
------------------------------------------------------------------------------
(* A switch: what is sent is the level that has been stable, and nothing   *)
(* was sent since it came.                                                 *)
LEMMA SwitchKeeps ==
    ASSUME NEW p \in PinStates, reading \in {0, 1}, ~p.soon,
           p.last # None /\ p.raw # p.last => p.sent >= p.changed
    PROVE  LET q == Switch(Level(p))
           IN  /\ q \in PinStates /\ ~q.soon
               /\ q.last # None /\ q.raw # q.last => q.sent >= q.changed
<1> DEFINE r == Level(p)
<1>1. /\ r \in PinStates /\ r.last = p.last /\ r.raw = reading /\ ~r.soon /\ r.sent = p.sent
      /\ (reading = p.raw /\ r.changed = p.changed) \/ r.changed = 0
  <2>1. 0 \in 0..LongAgo /\ reading \in Int
    BY PinConstants
  <2>2. CASE reading # p.raw
    <3>1. r = [p EXCEPT !.raw = reading, !.changed = 0]
      BY <2>2 DEF Level
    <3> HIDE DEF r
    <3>2. QED
      BY <2>1, <3>1 DEF PinStates
  <2>3. CASE reading = p.raw
    BY <2>3 DEF Level
  <2>4. QED
    BY <2>2, <2>3
<1>2. r.last # None /\ r.raw # r.last => r.sent >= r.changed
  BY <1>1 DEF PinStates
<1> HIDE DEF r
<1>3. CASE (r.last = None \/ r.changed >= Debounce) /\ reading # r.last
  <2>1. Switch(r) = Sends(r, reading)
    BY <1>3 DEF Switch
  <2>2. ~(r.last # None /\ r.sent < Debounce)
    BY <1>1, <1>2, <1>3, PinConstants DEF PinStates
  <2>3. reading \in Values
    BY PinConstants
  <2>4. Sends(r, reading) \in PinStates /\ Sends(r, reading).raw = r.raw
        /\ Sends(r, reading).last = reading /\ ~Sends(r, reading).soon
    BY <1>1, <2>2, <2>3, SendsTyped
  <2>5. QED
    BY <1>1, <2>1, <2>4 DEF r
<1>4. CASE ~((r.last = None \/ r.changed >= Debounce) /\ reading # r.last)
  <2>1. Switch(r) = r
    BY <1>4 DEF Switch
  <2>2. QED
    BY <1>1, <1>2, <2>1 DEF r
<1>5. QED
  BY <1>3, <1>4

(* A knob.                                                                 *)
LEMMA UpdateTyped ==
    ASSUME NEW p \in PinStates, reading \in Nat, NEW u \in Update(p)
    PROVE  /\ u \in PinStates /\ u.last = p.last /\ u.base = p.base
           /\ Spike(p) => u.spikes = p.spikes + 1 /\ u.smooth = p.smooth
           /\ ~Spike(p) => u.spikes = 0
           /\ ~Far(p) /\ p.last # None => u.smooth \in Averages(p.smooth, reading)
<1>1. CASE Spike(p)
  <2>1. u = [p EXCEPT !.spikes = p.spikes + 1] /\ p.spikes + 1 < SpikeConfirm /\ Far(p)
    BY <1>1 DEF Update, Spike
  <2>2. p.spikes + 1 \in 0..(SpikeConfirm - 1)
    BY <2>1, PinConstants DEF PinStates
  <2>3. QED
    BY <1>1, <2>1, <2>2 DEF PinStates
<1>2. CASE ~Spike(p)
  <2>1. PICK s \in Followed(p) : u = [p EXCEPT !.spikes = 0, !.smooth = s]
    BY <1>2 DEF Update
  <2>2. s \in Nat
    <3>1. Averages(p.smooth, reading) \subseteq Nat
      BY AveragesTyped DEF PinStates
    <3>2. QED
      BY <2>1, <3>1 DEF Followed
  <2>3. 0 \in 0..(SpikeConfirm - 1)
    BY PinConstants
  <2>4. ~Far(p) /\ p.last # None => s \in Averages(p.smooth, reading)
    BY <2>1 DEF Followed
  <2>5. QED
    BY <1>2, <2>1, <2>2, <2>3, <2>4 DEF PinStates
<1>3. QED
  BY <1>1, <1>2

LEMMA AnalogTyped ==
    ASSUME NEW p \in PinStates, reading \in Nat, NEW q \in Analog(p)
    PROVE  /\ q \in PinStates /\ q.base = p.base
           /\ Spike(p) => q.spikes = p.spikes + 1 /\ q.smooth = p.smooth /\ q.last = p.last
           /\ ~Spike(p) => q.spikes = 0
           /\ ~Far(p) /\ p.last # None => q.smooth \in Averages(p.smooth, reading)
           /\ q.last \in {p.last, Scaled(q.smooth)}
<1>1. CASE Spike(p)
  <2>1. q \in Update(p)
    BY <1>1 DEF Analog
  <2>2. QED
    BY <1>1, <2>1, UpdateTyped
<1>2. CASE ~Spike(p)
  <2>1. PICK u \in Update(p) : q = SendIfDue(u, Scaled(u.smooth))
    BY <1>2 DEF Analog
  <2>2. /\ u \in PinStates /\ u.last = p.last /\ u.base = p.base /\ u.spikes = 0
        /\ ~Far(p) /\ p.last # None => u.smooth \in Averages(p.smooth, reading)
    BY <1>2, UpdateTyped
  <2>3. u.smooth \in Int
    BY <2>2 DEF PinStates
  <2>4. Scaled(u.smooth) \in 0..MidiMax
    BY <2>3, ScaledTyped
  <2>5. QED
    BY <1>2, <2>1, <2>2, <2>4, SendIfDueTyped
<1>3. QED
  BY <1>1, <1>2

(* A pad.                                                                  *)
LEMMA TouchTyped ==
    ASSUME NEW p \in PinStates, reading \in Nat \ {0}, p.base > 0, threshold \in 0..127,
           NEW q \in Touch(p)
    PROVE  q \in PinStates /\ q.base > 0
<1>1. Delta(p) \in Nat
  BY DEF Delta, PinStates
<1>2. ASSUME NEW d \in Drifts(p)
      PROVE  d \in PinStates /\ d.base > 0
  BY DEF Drifts, PinStates
<1>4. CASE threshold = 0
  <2>d. PICK d \in Drifts(p), s \in IF p.last = None THEN {Delta(p)}
                                    ELSE Averages(p.smooth, Delta(p)) :
          q = Pressure(p, d, s)
    BY <1>4 DEF Touch
  <2>e. d \in PinStates /\ d.base > 0
    BY <1>2
  <2> DEFINE peak == Peak(p, s, p.base)
             e == [d EXCEPT !.smooth = s, !.peak = peak]
             v == SnapToEndpoints((s * MidiMax) \div peak)
  <2>1. s \in Nat
    <3>1. Averages(p.smooth, Delta(p)) \subseteq Nat
      BY <1>1, AveragesTyped DEF PinStates
    <3>2. QED
      BY <1>1, <2>d, <3>1
  <2>2. peak \in Nat /\ peak > 0
    <3>1. p.base * MinPeakPct \in Int
      BY PinConstants DEF PinStates
    <3>2. (p.base * MinPeakPct) \div 100 \in Int
      BY <3>1
    <3>3. QED
      BY <2>1, <3>2 DEF Peak, Greater, PinStates
  <2>3. v \in 0..MidiMax
    <3>1. s * MidiMax \in Int
      BY <2>1, PinConstants
    <3>2. (s * MidiMax) \div peak \in Int
      BY <2>2, <3>1
    <3>3. QED
      BY <3>2, SnapTyped
  <2>4. q = SendIfDue(e, v)
    BY <2>d DEF Pressure
  <2>5. e \in PinStates /\ e.base = d.base
    <3> HIDE DEF peak
    <3>1. QED
      BY <2>e, <2>1, <2>2 DEF PinStates
  <2> HIDE DEF e, v
  <2>6. QED
    BY <2>e, <2>3, <2>4, <2>5, SendIfDueTyped
<1>5. CASE threshold # 0
  <2>d. PICK d \in Drifts(p) : q = Pad(p, d)
    BY <1>5 DEF Touch
  <2>f. d \in PinStates /\ d.base > 0
    BY <1>2
  <2> DEFINE b == Touched(p)
             e == [d EXCEPT !.changed = 0, !.touched = b]
             v == IF b THEN High ELSE Low
  <2>1. b \in BOOLEAN
    BY DEF Touched
  <2>2. e \in PinStates /\ e.base = d.base
    <3>1. 0 \in 0..LongAgo
      BY PinConstants
    <3> HIDE DEF b
    <3>2. /\ e \in [last : Values, raw : Int, changed : 0..LongAgo, sent : 0..LongAgo,
                    smooth : Nat, spikes : 0..(SpikeConfirm - 1), touched : BOOLEAN,
                    base : Nat, peak : Nat, soon : BOOLEAN]
          /\ e.base = d.base
      BY <2>f, <2>1, <3>1, Zenon DEF PinStates, Values
    <3>3. QED
      BY <3>2 DEF PinStates, Values
  <2>3. v \in Values
    BY PinConstants DEF High, Low
  <2>4. q = Sends(e, v) \/ q = d
    BY <2>d DEF Pad
  <2> HIDE DEF e, v
  <2>5. QED
    BY <2>f, <2>2, <2>3, <2>4, SendsTyped
<1>6. QED
  BY <1>4, <1>5

------------------------------------------------------------------------------
LEMMA InitInputInv == PinInit => InputInv
<1> SUFFICES ASSUME PinInit PROVE InputInv
  OBVIOUS
<1>1. mode \in Modes /\ threshold \in Thresholds \union {0} /\ position \in Positions
      /\ reading = position /\ dropout = 0 /\ pin = Fresh
  BY DEF PinInit
<1>2. mode \in {"switch", "analog", "touch"}
  BY <1>1, PinAssumption
<1>3. position \in Nat /\ (mode = "touch" => position > 0)
  BY <1>1, <1>2, PinConstants DEF Positions
<1>4. Fresh \in PinStates
  BY <1>1, <1>3, PinConstants DEF Fresh, PinStates, None, Values
<1>5. PinTyped
  BY <1>1, <1>4, PinConstants DEF PinTyped
<1>6. TouchInv /\ SwitchInv /\ AnalogInv
  BY <1>1, <1>3 DEF TouchInv, SwitchInv, AnalogInv, Fresh, None
<1>7. QED
  BY <1>5, <1>6 DEF InputInv

LEMMA LoopKeeps ==
    ASSUME InputInv, NEW dt \in Nat, Loop(dt)
    PROVE  InputInv'
<1> DEFINE p == Aged(dt)
<1>0. PinTyped /\ TouchInv /\ SwitchInv /\ AnalogInv
  BY DEF InputInv
<1>1. /\ p \in PinStates
      /\ p.last = pin.last /\ p.raw = pin.raw /\ p.smooth = pin.smooth /\ p.spikes = pin.spikes
      /\ p.base = pin.base /\ p.soon = pin.soon
      /\ pin.sent >= pin.changed => p.sent >= p.changed
  BY <1>0, AgedState
<1>2. /\ reading # position => dropout + 1 < SpikeConfirm
      /\ pin' \in Process(p)
      /\ dropout' = IF reading # position THEN dropout + 1 ELSE 0
      /\ mode' = mode /\ threshold' = threshold /\ position' = position /\ reading' = reading
  BY DEF Loop
<1> HIDE DEF p
<1>3. mode \in {"switch", "analog", "touch"} /\ dropout \in Nat /\ position \in Nat /\ reading \in Nat
  BY <1>0, PinAssumption, PositionsTyped DEF PinTyped
<1>4. dropout' \in 0..SpikeConfirm
  BY <1>2, <1>3, PinConstants
<1>5. ASSUME pin' \in PinStates PROVE PinTyped'
  BY <1>0, <1>2, <1>4, <1>5 DEF PinTyped, Positions, PinStates
<1>6. CASE mode = "switch"
  <2>1. pin' = Switch(Level(p))
    BY <1>2, <1>6 DEF Process
  <2>2. ~p.soon /\ (p.last # None /\ p.raw # p.last => p.sent >= p.changed)
    BY <1>0, <1>1, <1>6 DEF SwitchInv
  <2>3. reading \in {0, 1}
    BY <1>0, <1>6, PositionsTyped
  <2>4. /\ pin' \in PinStates /\ ~pin'.soon
        /\ pin'.last # None /\ pin'.raw # pin'.last => pin'.sent >= pin'.changed
    BY <1>1, <2>1, <2>2, <2>3, SwitchKeeps
  <2>5. SwitchInv'
    BY <2>4 DEF SwitchInv
  <2>6. TouchInv' /\ AnalogInv'
    BY <1>0, <1>2, <1>6 DEF TouchInv, AnalogInv
  <2>7. QED
    BY <1>5, <2>4, <2>5, <2>6 DEF InputInv
<1>7. CASE mode = "analog"
  <2>1. pin' \in Analog(p)
    BY <1>2, <1>7 DEF Process
  <2>2. /\ pin' \in PinStates
        /\ Spike(p) => pin'.last = p.last
    BY <1>1, <1>3, <2>1, AnalogTyped
  <2>3. /\ Spike(p) => pin'.spikes = p.spikes + 1 /\ pin'.smooth = p.smooth
        /\ ~Spike(p) => pin'.spikes = 0
    BY <1>1, <1>3, <2>1, AnalogTyped
  <2>4. ASSUME reading # position
        PROVE  /\ pin'.last # None /\ Distance(reading, pin'.smooth) > SpikeLimit
               /\ pin'.spikes <= dropout'
    <3>1. /\ pin.last # None /\ Distance(reading, pin.smooth) > SpikeLimit
          /\ pin.spikes <= dropout /\ pin.spikes \in Nat /\ pin.smooth \in Nat
      BY <1>0, <1>7, <2>4 DEF AnalogInv, PinTyped, PinStates
    <3>2. Far(p)
      BY <1>1, <3>1 DEF Far
    <3>3. Spike(p)
      BY <1>1, <1>2, <1>3, <2>4, <3>1, <3>2, PinConstants DEF Spike
    <3>4. QED
      BY <1>1, <1>2, <1>3, <2>2, <2>3, <2>4, <3>1, <3>3
  <2>5. ASSUME reading = position, pin'.last # None,
               Distance(position, pin'.smooth) <= SpikeLimit
        PROVE  pin'.spikes = 0
    <3>1. CASE Spike(p)
      <4>1. Distance(reading, p.smooth) > SpikeLimit
        BY <3>1 DEF Spike, Far
      <4>2. Distance(reading, p.smooth) <= SpikeLimit
        BY <2>3, <2>5, <3>1
      <4>3. Distance(reading, p.smooth) \in Int
        BY <1>1, <1>3 DEF Distance, PinStates
      <4>4. QED
        BY <4>1, <4>2, <4>3, PinConstants
    <3>2. QED
      BY <2>3, <3>1
  <2>6. AnalogInv'
    BY <1>2, <2>4, <2>5 DEF AnalogInv, Distance
  <2>7. TouchInv' /\ SwitchInv'
    BY <1>2, <1>7 DEF TouchInv, SwitchInv
  <2>8. QED
    BY <1>5, <2>2, <2>6, <2>7 DEF InputInv
<1>8. CASE mode = "touch"
  <2>1. pin' \in Touch(p)
    BY <1>2, <1>8 DEF Process
  <2>2. reading \in Nat \ {0} /\ p.base > 0 /\ threshold \in 0..127
    BY <1>0, <1>1, <1>8, PositionsTyped, PinConstants DEF TouchInv, PinTyped
  <2>3. pin' \in PinStates /\ pin'.base > 0
    BY <1>1, <2>1, <2>2, TouchTyped
  <2>4. TouchInv'
    BY <1>0, <1>2, <1>8, <2>3 DEF TouchInv
  <2>5. SwitchInv' /\ AnalogInv'
    BY <1>2, <1>8 DEF SwitchInv, AnalogInv
  <2>6. QED
    BY <1>5, <2>3, <2>4, <2>5 DEF InputInv
<1>9. QED
  BY <1>3, <1>6, <1>7, <1>8

LEMMA SetThresholdKeeps ==
    ASSUME InputInv, NEW t \in Thresholds, SetThreshold(t)
    PROVE  InputInv'
<1>1. /\ mode = "touch" /\ threshold' = t
      /\ mode' = mode /\ position' = position /\ reading' = reading /\ dropout' = dropout /\ pin' = pin
  BY DEF SetThreshold
<1>2. PinTyped'
  BY <1>1 DEF InputInv, PinTyped, Positions, PinStates
<1>3. TouchInv' /\ SwitchInv' /\ AnalogInv'
  BY <1>1 DEF InputInv, TouchInv, SwitchInv, AnalogInv
<1>4. QED
  BY <1>2, <1>3 DEF InputInv

LEMMA ReconfigureKeeps ==
    ASSUME InputInv, Reconfigure
    PROVE  InputInv'
<1>1. /\ reading = position /\ pin' = Fresh
      /\ mode' = mode /\ threshold' = threshold /\ position' = position /\ reading' = reading
      /\ dropout' = dropout
  BY DEF Reconfigure
<1>2. Fresh \in PinStates /\ (mode = "touch" => reading > 0)
  BY <1>1, FreshTyped, PositionsTyped DEF InputInv
<1>3. PinTyped'
  BY <1>1, <1>2 DEF InputInv, PinTyped, Positions, PinStates
<1>4. TouchInv' /\ SwitchInv' /\ AnalogInv'
  BY <1>1, <1>2 DEF TouchInv, SwitchInv, AnalogInv, Fresh, None
<1>5. QED
  BY <1>3, <1>4 DEF InputInv

LEMMA MoveKeeps ==
    ASSUME InputInv, NEW x \in Positions, Move(x)
    PROVE  InputInv'
<1>1. /\ position' = x /\ reading' = x /\ dropout' = 1
      /\ mode' = mode /\ threshold' = threshold /\ pin' = pin
  BY DEF Move
<1>2. 1 \in 0..SpikeConfirm
  BY PinConstants
<1>3. PinTyped'
  BY <1>1, <1>2 DEF InputInv, PinTyped, Positions, PinStates
<1>4. TouchInv' /\ SwitchInv' /\ AnalogInv'
  BY <1>1 DEF InputInv, TouchInv, SwitchInv, AnalogInv
<1>5. QED
  BY <1>3, <1>4 DEF InputInv

LEMMA DropoutKeeps ==
    ASSUME InputInv, NEW x \in Positions, Dropout(x)
    PROVE  InputInv'
<1>1. /\ mode = "analog" /\ reading = position /\ dropout = 0 /\ pin.last # None
      /\ Distance(position, pin.smooth) <= SpikeLimit /\ Distance(x, pin.smooth) > SpikeLimit
      /\ reading' = x
      /\ mode' = mode /\ threshold' = threshold /\ position' = position /\ dropout' = dropout
      /\ pin' = pin
  BY DEF Dropout
<1>2. PinTyped'
  BY <1>1 DEF InputInv, PinTyped, Positions, PinStates
<1>3. pin.spikes = 0
  BY <1>1 DEF InputInv, AnalogInv
<1>4. AnalogInv'
  <2>1. Distance(x, pin.smooth)' = Distance(x, pin.smooth)
    BY <1>1 DEF Distance
  <2>2. Distance(reading, pin.smooth)' = Distance(x, pin.smooth)
    BY <1>1 DEF Distance
  <2>3. reading' = position' => Distance(x, pin.smooth) <= SpikeLimit
    BY <1>1
  <2>4. reading' # position'
    <3>1. Distance(x, pin.smooth) \in Int
      BY <1>1, PinConstants DEF Distance, Positions, InputInv, PinTyped, PinStates
    <3>2. QED
      BY <1>1, <2>3, <3>1, PinConstants
  <2>5. QED
    BY <1>1, <1>3, <2>2, <2>4 DEF AnalogInv
<1>5. TouchInv' /\ SwitchInv'
  BY <1>1 DEF TouchInv, SwitchInv
<1>6. QED
  BY <1>2, <1>4, <1>5 DEF InputInv

LEMMA ContactKeeps ==
    ASSUME InputInv, Contact
    PROVE  InputInv'
<1>1. /\ reading # position /\ reading' = position
      /\ mode' = mode /\ threshold' = threshold /\ position' = position /\ dropout' = dropout
      /\ pin' = pin
  BY DEF Contact
<1>2. PinTyped'
  BY <1>1 DEF InputInv, PinTyped, Positions, PinStates
<1>3. AnalogInv'
  <2>1. mode = "analog" => pin.spikes <= dropout /\ pin.spikes \in Nat
    BY <1>1 DEF InputInv, AnalogInv, PinTyped, PinStates
  <2>2. QED
    BY <1>1, <2>1 DEF AnalogInv
<1>4. TouchInv' /\ SwitchInv'
  BY <1>1 DEF InputInv, TouchInv, SwitchInv
<1>5. QED
  BY <1>2, <1>3, <1>4 DEF InputInv

LEMMA NextInputInv == InputInv /\ [PinNext]_pinVars => InputInv'
<1> SUFFICES ASSUME InputInv, [PinNext]_pinVars PROVE InputInv'
  OBVIOUS
<1>1. ASSUME NEW dt \in 0..MaxGap, Loop(dt) PROVE InputInv'
  BY <1>1, LoopKeeps, PinConstants
<1>2. ASSUME NEW x \in Positions, Move(x) PROVE InputInv'
  BY <1>2, MoveKeeps
<1>6. ASSUME NEW x \in Positions, Dropout(x) PROVE InputInv'
  BY <1>6, DropoutKeeps
<1>3. ASSUME NEW t \in Thresholds, SetThreshold(t) PROVE InputInv'
  BY <1>3, SetThresholdKeeps
<1>4. CASE UNCHANGED pinVars
  BY <1>4 DEF pinVars, InputInv, PinTyped, TouchInv, SwitchInv, AnalogInv, Positions, PinStates
<1>5. QED
  BY <1>1, <1>2, <1>3, <1>4, <1>6, ContactKeeps, ReconfigureKeeps DEF PinNext

LEMMA InputInvHolds == PinSpec => []InputInv
BY InitInputInv, NextInputInv, PTL DEF PinSpec

------------------------------------------------------------------------------
(* Every variable of an input pin has its type: a value is a MIDI value or *)
(* a level, a count of spikes never reaches the number that confirms them. *)
THEOREM PinAlwaysTyped == PinSpec => []PinTypeOK
<1>1. InputInv => PinTypeOK
  BY DEF InputInv, PinTyped, PinTypeOK, PinStates
<1>2. QED
  BY <1>1, InputInvHolds, PTL

(* However a contact bounces, processDigitalInput() sends no two changes   *)
(* of the level closer together than the debounce time.                    *)
THEOREM PressNeverRepeated == PinSpec => []BouncesAreOnePress
<1>1. InputInv => BouncesAreOnePress
  BY DEF InputInv, SwitchInv, BouncesAreOnePress
<1>2. QED
  BY <1>1, InputInvHolds, PTL

(* A knob at rest whose value was sent sends at most the value of its own  *)
(* reading and nothing after it: no dropped sample moves the average of    *)
(* updateSmoothedAnalog() or the value made of it, and the average never   *)
(* leaves the reading again.                                               *)
THEOREM RestAlwaysSettles == PinSpec => SettlesOnce
<1>1. InputInv /\ [PinNext]_pinVars
        => [Settled /\ UNCHANGED position
              => \/ pin'.last = None
                 \/ Settled' /\ pin'.last \in {pin.last, Scaled(position)}]_pinVars
  <2> SUFFICES ASSUME InputInv, PinNext, Settled, position' = position, pin'.last # None
               PROVE  Settled' /\ pin'.last \in {pin.last, Scaled(position)}
    BY DEF PinNext
  <2>1. /\ mode = "analog" /\ pin.last \in {Scaled(position - 1), Scaled(pin.smooth)}
        /\ pin.smooth \in {position - 1, position} /\ pin \in PinStates /\ pin.smooth \in Nat
    BY DEF Settled, InputInv, PinTyped, PinStates
  <2>2. position \in Nat /\ reading \in Nat
    BY PositionsTyped DEF InputInv
  <2>3. pin.last # None
    <3>1. position - 1 \in Int /\ pin.smooth \in Int
      BY <2>1, <2>2
    <3>2. Scaled(position - 1) \in 0..MidiMax /\ Scaled(pin.smooth) \in 0..MidiMax
      BY <3>1, ScaledTyped
    <3>3. QED
      BY <2>1, <3>2 DEF None
  <2>4. ASSUME UNCHANGED <<mode, pin>>
        PROVE  Settled' /\ pin'.last \in {pin.last, Scaled(position)}
    BY <2>4 DEF Settled, Scaled, SnapToEndpoints
  <2>5. ASSUME NEW dt \in 0..MaxGap, Loop(dt)
        PROVE  Settled' /\ pin'.last \in {pin.last, Scaled(position)}
    <3> DEFINE p == Aged(dt)
    <3>1. /\ p \in PinStates /\ p.last = pin.last /\ p.smooth = pin.smooth
          /\ p.spikes = pin.spikes
      <4>1. dt \in Nat
        BY PinConstants
      <4>2. QED
        BY <4>1, AgedState DEF InputInv
    <3>2. pin' \in Analog(p) /\ mode' = mode
      BY <2>1, <2>5 DEF Loop, Process
    <3> HIDE DEF p
    <3>3. /\ pin'.last \in {p.last, Scaled(pin'.smooth)}
          /\ Spike(p) => pin'.last = p.last /\ pin'.smooth = p.smooth
      BY <2>2, <3>1, <3>2, AnalogTyped
    <3>4. /\ pin'.smooth \in {pin.smooth, position}
          /\ pin'.smooth = pin.smooth => pin'.last \in {pin.last, Scaled(pin.smooth)}
      <4>1. CASE reading = position
        <5>1. Distance(reading, p.smooth) <= 1 /\ Distance(reading, p.smooth) \in Int
          BY <2>1, <2>2, <3>1, <4>1 DEF Distance
        <5>2. ~Far(p)
          BY <5>1, PinConstants DEF Far
        <5>3. pin'.smooth \in Averages(p.smooth, reading)
          BY <2>2, <2>3, <3>1, <3>2, <5>2, AnalogTyped
        <5>4. Averages(p.smooth, reading) = {pin.smooth, position}
          BY <2>1, <2>2, <3>1, <4>1 DEF Averages
        <5>5. QED
          BY <3>1, <3>3, <5>3, <5>4
      <4>2. CASE reading # position
        <5>1. /\ Distance(reading, pin.smooth) > SpikeLimit /\ pin.spikes <= dropout
              /\ pin.spikes \in Nat /\ dropout \in Nat
          BY <2>1, <4>2 DEF InputInv, AnalogInv, PinTyped, PinStates
        <5>2. dropout + 1 < SpikeConfirm
          BY <2>5, <4>2 DEF Loop
        <5>3. Far(p)
          BY <2>3, <3>1, <5>1 DEF Far
        <5>4. Spike(p)
          BY <3>1, <5>1, <5>2, <5>3, PinConstants DEF Spike
        <5>5. QED
          BY <3>1, <3>3, <5>4
      <4>3. QED
        BY <4>1, <4>2
    <3>5. pin'.last \in {pin.last, Scaled(pin'.smooth)}
      BY <3>1, <3>3
    <3> DEFINE low == Scaled(position - 1)
               high == Scaled(position)
    <3>6. /\ Scaled(pin.smooth) \in {low, high} /\ (pin.smooth # position => Scaled(pin.smooth) = low)
          /\ pin'.smooth = position => Scaled(pin'.smooth) = high
          /\ pin'.smooth = pin.smooth => Scaled(pin'.smooth) = Scaled(pin.smooth)
      BY <2>1
    <3>7. Settled' <=> /\ pin'.smooth \in {position - 1, position}
                       /\ pin'.last \in {low, Scaled(pin'.smooth)}
      BY <2>1, <3>2 DEF Settled, Scaled, SnapToEndpoints
    <3> HIDE DEF low, high
    <3>8. pin'.last \in {low, Scaled(pin'.smooth)}
      BY <2>1, <3>4, <3>5, <3>6 DEF low
    <3>9. pin'.last \in {pin.last, high}
      BY <2>1, <3>4, <3>5, <3>6 DEF low
    <3>10. QED
      BY <2>1, <3>4, <3>7, <3>8, <3>9 DEF high
  <2>6. ASSUME Reconfigure PROVE pin'.last = None
    BY <2>6 DEF Reconfigure, Fresh
  <2>7. ASSUME NEW x \in Positions, Move(x) \/ Dropout(x) PROVE UNCHANGED <<mode, pin>>
    BY <2>7 DEF Move, Dropout
  <2>8. ASSUME NEW t \in Thresholds, SetThreshold(t) PROVE UNCHANGED <<mode, pin>>
    BY <2>8 DEF SetThreshold
  <2>9. ASSUME Contact PROVE UNCHANGED <<mode, pin>>
    BY <2>9 DEF Contact
  <2>10. QED
    BY <2>4, <2>5, <2>6, <2>7, <2>8, <2>9 DEF PinNext
<1>2. QED
  BY <1>1, InputInvHolds, PTL DEF PinSpec, SettlesOnce
==============================================================================
