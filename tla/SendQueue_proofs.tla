-------------------------- MODULE SendQueue_proofs --------------------------
(***************************************************************************)
(* Proofs about SendQueue, for every size of the rings, every range of     *)
(* sequence numbers at least twice that size and every set of packets.     *)
(***************************************************************************)
EXTENDS SendQueue, SequenceTheorems, FiniteSetTheorems, FunctionTheorems, TLAPS

-----------------------------------------------------------------------------
(* Packets.                                                                *)

(* Only messages of the lowest priority replace each other: the scan of    *)
(* pushShort() (line 222) never overwrites a note or a switch.             *)
LEMMA ReplacesIsLow ==
    ASSUME NEW a \in Packet, NEW b \in Packet, IsShort(a), Replaces(a, b)
    PROVE  /\ IsShort(b)
           /\ Classify(a) = "Low"
           /\ Classify(b) = "Low"
<1>1. /\ a[1] \in Byte /\ b[1] \in Byte /\ a[1] = b[1]
      /\ Len(b) = Len(a) /\ Len(a) \in 2..3 /\ a[2] \in Byte /\ b[2] \in Byte
  BY DEF Packet, Replaces, IsShort
<1>2. /\ StatusKind(a[1]) \in {PolyAftertouch, ControlChange, ChannelAftertouch, PitchBend}
      /\ StatusKind(a[1]) = ControlChange => a[2] = b[2] /\ ~IsOrderedController(a[2])
  BY <1>1 DEF Replaces, PolyAftertouch, ControlChange, ChannelAftertouch, PitchBend
<1>3. a[1] \notin {Stop, Reset}
  BY <1>2 DEF StatusKind, Stop, Reset, PolyAftertouch, ControlChange, ChannelAftertouch, PitchBend
<1>4. ~IsOrderedController(a[2]) => ~IsSwitchController(a[2])
  BY <1>1 DEF IsOrderedController, IsSwitchController, Byte
<1>5. ~Silences(a) /\ ~Silences(b)
  BY <1>1, <1>2, <1>3, <1>4 DEF Silences, NoteOff, NoteOn, PolyAftertouch, ControlChange,
     ChannelAftertouch, PitchBend
<1>6. IsStream(a) /\ IsStream(b)
  BY <1>1, <1>2 DEF IsStream
<1>7. QED
  BY <1>1, <1>5, <1>6 DEF Classify, IsShort

(* Replaces() relates the values of one controller: it is symmetric ...    *)
LEMMA ReplacesSymmetric ==
    ASSUME NEW a, NEW b, Replaces(a, b)
    PROVE  Replaces(b, a)
BY DEF Replaces

(* ... and transitive.                                                     *)
LEMMA ReplacesTransitive ==
    ASSUME NEW a, NEW b, NEW c, Replaces(a, b), Replaces(b, c)
    PROVE  Replaces(a, c)
BY DEF Replaces

(* A higher priority never has the lower limit. *)
LEMMA LimitBounds ==
    ASSUME NEW p \in Priorities
    PROVE  Limit(p) \in 1..ShortSlots
BY SlotsAssumption DEF Limit, Priorities

(* classify() knows four priorities.                                       *)
LEMMA ClassifyType ==
    ASSUME NEW data
    PROVE  Classify(data) \in Priorities
BY DEF Classify, Priorities

-----------------------------------------------------------------------------
(* Wrapping sequence numbers.                                              *)

(* _nextSeq++ of a 16-bit counter. *)
LEMMA NextNumber ==
    ASSUME NEW n \in SeqNo
    PROVE  (n + 1) % SeqRange = IF n = SeqRange - 1 THEN 0 ELSE n + 1
BY SeqRangeAssumption DEF SeqNo

(* A number is as old as it says it is: the newest is one issue old, and   *)
(* every issue makes the others one older.                                 *)
LEMMA DistanceSuccessor ==
    ASSUME NEW n \in SeqNo, NEW q \in SeqNo, NEW m, m = (n + 1) % SeqRange
    PROVE  /\ m \in SeqNo
           /\ Distance(n, m) = 1
           /\ Distance(q, n) \in 1..SeqRange
           /\ Distance(q, n) < SeqRange => Distance(q, m) = Distance(q, n) + 1
<1>1. m = IF n = SeqRange - 1 THEN 0 ELSE n + 1
  BY NextNumber
<1>2. QED
  BY <1>1, SeqRangeAssumption, SlotsAssumption DEF SeqNo, Distance

(* A number is at least one issue old, at most a whole range.              *)
LEMMA DistanceType ==
    ASSUME NEW n \in SeqNo, NEW q \in SeqNo
    PROVE  Distance(q, n) \in 1..SeqRange
BY SeqRangeAssumption, SlotsAssumption DEF SeqNo, Distance

(* The signed comparison of line 168 finds the older of two numbers that   *)
(* are less than half of the range old.                                    *)
LEMMA SignedDiffIsOlder ==
    ASSUME NEW n \in SeqNo, NEW a \in SeqNo, NEW b \in SeqNo,
           Distance(a, n) <= SeqRange \div 2, Distance(b, n) <= SeqRange \div 2
    PROVE  SignedDiff(a, b) < 0 <=> Distance(a, n) > Distance(b, n)
<1>1. (a - b) % SeqRange = IF a >= b THEN a - b ELSE a - b + SeqRange
  BY SeqRangeAssumption DEF SeqNo
<1>2. SeqRange \in Nat /\ SeqRange \div 2 \in Nat /\ 2 * (SeqRange \div 2) <= SeqRange
      /\ SeqRange < 2 * (SeqRange \div 2) + 2
  BY SeqRangeAssumption
<1>3. QED
  BY <1>1, <1>2 DEF SignedDiff, Distance, SeqNo

-----------------------------------------------------------------------------
(* Rings.                                                                  *)

(* What is known of the slots of a ring.                                   *)
LEMMA SlotsOfRing ==
    ASSUME NEW ring \in Seq(Slot), NEW i \in DOMAIN ring
    PROVE  /\ ring[i] \in Slot
           /\ ring[i].seq \in SeqNo
           /\ ring[i].call \in Calls
<1>1. ring[i] \in Slot
  BY LenProperties, ElementOfSeq
<1>2. QED
  BY <1>1 DEF Slot

(* A packet joins a ring.                                                  *)
LEMMA AppendToRing ==
    ASSUME NEW ring \in Seq(Slot), NEW x \in Slot
    PROVE  /\ Append(ring, x) \in Seq(Slot)
           /\ Len(Append(ring, x)) = Len(ring) + 1
           /\ DOMAIN Append(ring, x) = 1..(Len(ring) + 1)
           /\ DOMAIN ring = 1..Len(ring)
           /\ \A i \in 1..Len(ring) : Append(ring, x)[i] = ring[i]
           /\ Append(ring, x)[Len(ring) + 1] = x
BY AppendProperties

(* The head of a ring is taken.                                            *)
LEMMA TailOfRing ==
    ASSUME NEW ring \in Seq(Slot), ring # <<>>
    PROVE  /\ Tail(ring) \in Seq(Slot)
           /\ Len(ring) \in Nat \ {0}
           /\ Len(Tail(ring)) = Len(ring) - 1
           /\ DOMAIN Tail(ring) = 1..(Len(ring) - 1)
           /\ DOMAIN ring = 1..Len(ring)
           /\ \A i \in 1..(Len(ring) - 1) : Tail(ring)[i] = ring[i + 1]
<1>1. Len(ring) \in Nat \ {0}
  BY EmptySeq
<1>2. QED
  BY <1>1, HeadTailProperties

(* A slot of a ring is overwritten.                                        *)
LEMMA OverwriteInRing ==
    ASSUME NEW ring \in Seq(Slot), NEW i \in DOMAIN ring, NEW call \in Calls
    PROVE  LET new == [ring EXCEPT ![i].call = call]
           IN  /\ new \in Seq(Slot)
               /\ Len(new) = Len(ring)
               /\ DOMAIN new = DOMAIN ring
               /\ \A j \in DOMAIN ring \ {i} : new[j] = ring[j]
               /\ \A j \in DOMAIN ring : new[j].seq = ring[j].seq
               /\ new[i].call = call
<1> DEFINE new == [ring EXCEPT ![i].call = call]
<1>1. ring[i] \in Slot /\ i \in 1..Len(ring)
  BY ElementOfSeq
<1>2. new = [ring EXCEPT ![i] = [ring[i] EXCEPT !.call = call]]
  OBVIOUS
<1>3. [ring[i] EXCEPT !.call = call] \in Slot
  BY <1>1 DEF Slot
<1>4. new \in Seq(Slot) /\ Len(new) = Len(ring)
  BY <1>1, <1>2, <1>3, ExceptSeq
<1>5. QED
  BY <1>1, <1>2, <1>4 DEF Slot

-----------------------------------------------------------------------------
(* Type correctness.                                                       *)

(* pushShort() queues what a slot can hold.                                *)
LEMMA PushShortTypeOK ==
    ASSUME TypeOK, NEW call \in Calls, PushShort(call)
    PROVE  TypeOK'
<1>1. CASE ReplaceShort(call)
  <2>1. PICK i \in DOMAIN shorts : shorts' = [shorts EXCEPT ![i].call = call]
    BY <1>1 DEF ReplaceShort, Replaceable
  <2>2. shorts' \in Seq(Slot) /\ Len(shorts') = Len(shorts)
    BY <2>1, OverwriteInRing DEF TypeOK
  <2>3. QED
    BY <1>1, <2>2 DEF ReplaceShort, TypeOK, Results
<1>2. CASE QueueShort(call)
  <2>1. NewSlot(call) \in Slot
    BY DEF NewSlot, Slot, TypeOK
  <2>2. shorts' \in Seq(Slot) /\ Len(shorts') = Len(shorts) + 1
    BY <1>2, <2>1, AppendToRing DEF QueueShort, TypeOK
  <2>3. Len(shorts) < ShortSlots /\ Len(shorts) \in Nat
    BY <1>2, LimitBounds, ClassifyType, SlotsAssumption DEF QueueShort, TypeOK
  <2>4. nextSeq' \in SeqNo
    BY <1>2, DistanceSuccessor DEF QueueShort, IssueSeq, TypeOK
  <2>5. QED
    BY <1>2, <2>2, <2>3, <2>4, SlotsAssumption DEF QueueShort, TypeOK, Results
<1>3. CASE Refuse("Full")
  BY <1>3 DEF Refuse, TypeOK, Results
<1>4. QED
  BY <1>1, <1>2, <1>3 DEF PushShort

(* So does pushFrame().                                                    *)
LEMMA PushFrameTypeOK ==
    ASSUME TypeOK, NEW call \in Calls, PushFrame(call)
    PROVE  TypeOK'
<1>1. CASE Refuse("Full")
  BY <1>1 DEF Refuse, TypeOK, Results
<1>2. CASE Len(frames) < FrameSlots /\ frames' = Append(frames, NewSlot(call))
           /\ IssueSeq /\ ret' = [result |-> "Queued"] /\ UNCHANGED shorts
  <2>1. NewSlot(call) \in Slot
    BY DEF NewSlot, Slot, TypeOK
  <2>2. frames' \in Seq(Slot) /\ Len(frames') = Len(frames) + 1
    BY <1>2, <2>1, AppendToRing DEF TypeOK
  <2>3. nextSeq' \in SeqNo
    BY <1>2, DistanceSuccessor DEF IssueSeq, TypeOK
  <2>4. QED
    BY <1>2, <2>2, <2>3, SlotsAssumption DEF TypeOK, Results
<1>3. QED
  BY <1>1, <1>2 DEF PushFrame

(* pop() takes the head of a ring.                                         *)
LEMMA PopTypeOK ==
    ASSUME TypeOK, Pop
    PROVE  TypeOK'
<1>1. CASE PopShort
  <2>1. shorts # <<>>
    BY <1>1 DEF PopShort, TakeShort
  <2>2. shorts' \in Seq(Slot) /\ Len(shorts') = Len(shorts) - 1 /\ shorts[1] \in Slot
        /\ Len(shorts) \in Nat
    BY <1>1, <2>1, TailOfRing, ElementOfSeq DEF PopShort, TypeOK
  <2>3. QED
    BY <1>1, <2>2, SlotsAssumption DEF PopShort, TypeOK, Slot
<1>2. CASE PopFrame
  <2>1. frames # <<>>
    BY <1>2 DEF PopFrame
  <2>2. frames' \in Seq(Slot) /\ Len(frames') = Len(frames) - 1 /\ frames[1] \in Slot
        /\ Len(frames) \in Nat
    BY <1>2, <2>1, TailOfRing, ElementOfSeq DEF PopFrame, TypeOK
  <2>3. QED
    BY <1>2, <2>2, SlotsAssumption DEF PopFrame, TypeOK, Slot
<1>3. CASE PopEmpty
  BY <1>3 DEF PopEmpty, Refuse, TypeOK
<1>4. QED
  BY <1>1, <1>2, <1>3 DEF Pop

(* Every state of the send queue is one its C++ members can hold.          *)
THEOREM TypeCorrect == Spec => []TypeOK
<1> USE DEF Nothing
<1>0. <<>> \in Seq(Slot) /\ Len(<<>>) = 0
  BY EmptySeq
<1>1. Init => TypeOK
  BY <1>0, SlotsAssumption, SeqRangeAssumption DEF Init, TypeOK, SeqNo
<1>2. TypeOK /\ [Next]_vars => TypeOK'
  <2> SUFFICES ASSUME TypeOK, [Next]_vars PROVE TypeOK'
    OBVIOUS
  <2>1. ASSUME NEW call \in Calls, Push(call) PROVE TypeOK'
    <3>1. CASE PushInvalid(call)
      BY <3>1 DEF PushInvalid, Refuse, TypeOK, Results
    <3>2. QED
      BY <2>1, <3>1, PushShortTypeOK, PushFrameTypeOK DEF Push
  <2>2. CASE Pop
    BY <2>2, PopTypeOK
  <2>3. CASE Clear
    <3>1. shorts' \in Seq(Slot) /\ frames' \in Seq(Slot) /\ Len(shorts') = 0 /\ Len(frames') = 0
      BY <2>3, <1>0 DEF Clear
    <3>2. nextSeq' \in SeqNo /\ ret' = [result |-> "Nothing"]
      BY <2>3 DEF Clear, TypeOK
    <3>3. ret' \in {[result |-> r] : r \in Results \cup {"Nothing"}}
      BY <3>2
    <3>4. Len(shorts') <= ShortSlots /\ Len(frames') <= FrameSlots
      BY <3>1, SlotsAssumption
    <3>5. QED
      BY <3>1, <3>2, <3>3, <3>4 DEF TypeOK
  <2>4. CASE UNCHANGED vars
    BY <2>4 DEF vars, TypeOK
  <2>5. QED
    BY <2>1, <2>2, <2>3, <2>4 DEF Next
<1>3. QED
  BY <1>1, <1>2, PTL DEF Spec

-----------------------------------------------------------------------------
(* The numbers that wait.  Contiguous, said of two rings and a counter:    *)

Older(ring, n) ==
    \A i, j \in DOMAIN ring : i < j => Distance(ring[i].seq, n) > Distance(ring[j].seq, n)

Recent(ring, n, size) == \A i \in DOMAIN ring : Distance(ring[i].seq, n) <= size

Disjoint(r1, r2, n) ==
    \A i \in DOMAIN r1, j \in DOMAIN r2 : Distance(r1[i].seq, n) # Distance(r2[j].seq, n)

Covers(r1, r2, n, size) ==
    \A k \in 1..size : \/ \E i \in DOMAIN r1 : Distance(r1[i].seq, n) = k
                       \/ \E j \in DOMAIN r2 : Distance(r2[j].seq, n) = k

InStep(r1, r2, n) ==
    LET size == Len(r1) + Len(r2)
    IN  /\ Older(r1, n) /\ Older(r2, n)
        /\ Disjoint(r1, r2, n)
        /\ Recent(r1, n, size) /\ Recent(r2, n, size)
        /\ Covers(r1, r2, n, size)

(* Contiguous is the two rings in step with the counter.                   *)
LEMMA ContiguousIsInStep ==
    /\ Contiguous <=> InStep(shorts, frames, nextSeq)
    /\ Contiguous' <=> InStep(shorts', frames', nextSeq')
BY DEF Contiguous, InStep, OldestFirst, Older, Disjoint, Recent, Covers, Age, Size

(* It does not matter which ring is which.                                 *)
LEMMA InStepSymmetric ==
    ASSUME NEW r1 \in Seq(Slot), NEW r2 \in Seq(Slot), NEW n, InStep(r1, r2, n)
    PROVE  InStep(r2, r1, n)
<1>1. Len(r1) + Len(r2) = Len(r2) + Len(r1)
  OBVIOUS
<1>2. QED
  BY <1>1 DEF InStep, Disjoint, Covers

(* A packet that joins either ring takes the counter's number and makes    *)
(* every other one a number older.                                         *)
LEMMA AppendInStep ==
    ASSUME NEW r1 \in Seq(Slot), NEW r2 \in Seq(Slot), NEW n \in SeqNo, InStep(r1, r2, n),
           Len(r1) + Len(r2) < SeqRange,
           NEW x \in Slot, x.seq = n,
           NEW m, m = (n + 1) % SeqRange
    PROVE  InStep(Append(r1, x), r2, m)
<1> DEFINE size == Len(r1) + Len(r2)
           new == Append(r1, x)
<1>1. /\ Len(r1) \in Nat /\ Len(r2) \in Nat
      /\ Len(new) = Len(r1) + 1 /\ Len(new) + Len(r2) = size + 1
      /\ DOMAIN r1 = 1..Len(r1) /\ DOMAIN r2 = 1..Len(r2)
      /\ DOMAIN new = 1..(Len(r1) + 1)
      /\ \A i \in DOMAIN r1 : new[i] = r1[i]
      /\ new[Len(r1) + 1] = x
  BY AppendToRing
<1>2. Distance(x.seq, m) = 1
  BY DistanceSuccessor
<1>3. \A i \in DOMAIN r1 : /\ Distance(r1[i].seq, n) \in 1..size
                           /\ Distance(r1[i].seq, m) = Distance(r1[i].seq, n) + 1
  <2> TAKE i \in DOMAIN r1
  <2>1. r1[i].seq \in SeqNo
    BY SlotsOfRing
  <2>2. Distance(r1[i].seq, n) <= size
    BY DEF InStep, Recent
  <2>3. QED
    BY <1>1, <2>1, <2>2, DistanceSuccessor, SeqRangeAssumption
<1>4. \A j \in DOMAIN r2 : /\ Distance(r2[j].seq, n) \in 1..size
                           /\ Distance(r2[j].seq, m) = Distance(r2[j].seq, n) + 1
  <2> TAKE j \in DOMAIN r2
  <2>1. r2[j].seq \in SeqNo
    BY SlotsOfRing
  <2>2. Distance(r2[j].seq, n) <= size
    BY DEF InStep, Recent
  <2>3. QED
    BY <1>1, <2>1, <2>2, DistanceSuccessor, SeqRangeAssumption
<1> HIDE DEF new
<1>5. Older(new, m)
  <2> SUFFICES ASSUME NEW i \in DOMAIN new, NEW j \in DOMAIN new, i < j
               PROVE  Distance(new[i].seq, m) > Distance(new[j].seq, m)
    BY DEF Older
  <2>1. i \in DOMAIN r1 /\ (j \in DOMAIN r1 \/ j = Len(r1) + 1)
    BY <1>1
  <2>2. CASE j \in DOMAIN r1
    BY <1>1, <1>3, <2>1, <2>2 DEF InStep, Older
  <2>3. CASE j = Len(r1) + 1
    BY <1>1, <1>2, <1>3, <2>1, <2>3
  <2>4. QED
    BY <2>1, <2>2, <2>3
<1>6. Older(r2, m)
  BY <1>4 DEF InStep, Older
<1>7. Disjoint(new, r2, m)
  <2> SUFFICES ASSUME NEW i \in DOMAIN new, NEW j \in DOMAIN r2
               PROVE  Distance(new[i].seq, m) # Distance(r2[j].seq, m)
    BY DEF Disjoint
  <2>1. CASE i \in DOMAIN r1
    BY <1>1, <1>3, <1>4, <2>1 DEF InStep, Disjoint
  <2>2. CASE i = Len(r1) + 1
    BY <1>1, <1>2, <1>4, <2>2
  <2>3. QED
    BY <1>1, <2>1, <2>2
<1>8. Recent(new, m, size + 1)
  BY <1>1, <1>2, <1>3 DEF Recent
<1>9. Recent(r2, m, size + 1)
  BY <1>1, <1>4 DEF Recent
<1>10. Covers(new, r2, m, size + 1)
  <2> SUFFICES ASSUME NEW k \in 1..(size + 1)
               PROVE  \/ \E i \in DOMAIN new : Distance(new[i].seq, m) = k
                      \/ \E j \in DOMAIN r2 : Distance(r2[j].seq, m) = k
    BY DEF Covers
  <2>1. CASE k = 1
    BY <1>1, <1>2, <2>1
  <2>2. CASE k # 1
    <3>1. k - 1 \in 1..size
      BY <1>1, <2>2
    <3>2. CASE \E i \in DOMAIN r1 : Distance(r1[i].seq, n) = k - 1
      <4>1. PICK i \in DOMAIN r1 : Distance(r1[i].seq, n) = k - 1
        BY <3>2
      <4>2. i \in DOMAIN new /\ Distance(new[i].seq, m) = k
        BY <1>1, <1>3, <4>1
      <4>3. QED
        BY <4>2
    <3>3. CASE \E j \in DOMAIN r2 : Distance(r2[j].seq, n) = k - 1
      BY <1>4, <3>3
    <3>4. QED
      BY <3>1, <3>2, <3>3 DEF InStep, Covers
  <2>3. QED
    BY <2>1, <2>2
<1>11. QED
  BY <1>1, <1>5, <1>6, <1>7, <1>8, <1>9, <1>10 DEF InStep, new

(* The head that is older than the other ring's is the oldest packet.      *)
LEMMA OldestHead ==
    ASSUME NEW r1 \in Seq(Slot), NEW r2 \in Seq(Slot), NEW n \in SeqNo, InStep(r1, r2, n),
           r1 # <<>>,
           r2 # <<>> => Distance(r1[1].seq, n) > Distance(r2[1].seq, n)
    PROVE  Distance(r1[1].seq, n) = Len(r1) + Len(r2)
<1> DEFINE size == Len(r1) + Len(r2)
           age1(i) == Distance(r1[i].seq, n)
           age2(j) == Distance(r2[j].seq, n)
<1>1. /\ Len(r1) \in Nat \ {0} /\ Len(r2) \in Nat
      /\ DOMAIN r1 = 1..Len(r1) /\ DOMAIN r2 = 1..Len(r2)
      /\ r2 # <<>> => Len(r2) # 0
  BY LenProperties, EmptySeq
<1>2. /\ \A i \in DOMAIN r1 : age1(i) \in Nat
      /\ \A j \in DOMAIN r2 : age2(j) \in Nat
  BY SlotsOfRing, DistanceType, SeqRangeAssumption
<1>3. size \in 1..size /\ 1 \in DOMAIN r1
  BY <1>1
<1>4. age1(1) <= size
  BY <1>3 DEF InStep, Recent
<1>5. CASE \E i \in DOMAIN r1 : age1(i) = size
  <2>1. PICK i \in DOMAIN r1 : age1(i) = size
    BY <1>5
  <2>2. i = 1 \/ age1(1) > age1(i)
    BY <1>1, <1>3 DEF InStep, Older
  <2>3. QED
    BY <1>1, <1>2, <1>3, <1>4, <2>1, <2>2
<1>6. CASE \E j \in DOMAIN r2 : age2(j) = size
  <2>1. PICK j \in DOMAIN r2 : age2(j) = size
    BY <1>6
  <2>2. 1 \in DOMAIN r2 /\ r2 # <<>>
    BY <1>1, <2>1
  <2>3. j = 1 \/ age2(1) > age2(j)
    BY <1>1, <2>2 DEF InStep, Older
  <2>4. age1(1) > age2(1)
    BY <2>2
  <2>5. QED
    BY <1>1, <1>2, <1>3, <1>4, <2>1, <2>2, <2>3, <2>4
<1>7. QED
  BY <1>3, <1>5, <1>6 DEF InStep, Covers

(* Taking the oldest packet leaves the others in step.                     *)
LEMMA TailInStep ==
    ASSUME NEW r1 \in Seq(Slot), NEW r2 \in Seq(Slot), NEW n \in SeqNo, InStep(r1, r2, n),
           r1 # <<>>,
           Distance(r1[1].seq, n) = Len(r1) + Len(r2)
    PROVE  InStep(Tail(r1), r2, n)
<1> DEFINE size == Len(r1) + Len(r2)
           new == Tail(r1)
<1>1. /\ Len(r1) \in Nat \ {0} /\ Len(r2) \in Nat
      /\ Len(new) = Len(r1) - 1 /\ Len(new) + Len(r2) = size - 1
      /\ DOMAIN r1 = 1..Len(r1) /\ DOMAIN r2 = 1..Len(r2)
      /\ DOMAIN new = 1..(Len(r1) - 1)
      /\ \A i \in DOMAIN new : i + 1 \in DOMAIN r1 /\ new[i] = r1[i + 1]
  BY TailOfRing, LenProperties
<1>2. /\ \A i \in DOMAIN r1 : Distance(r1[i].seq, n) \in Nat
      /\ \A j \in DOMAIN r2 : Distance(r2[j].seq, n) \in Nat
  BY SlotsOfRing, DistanceType, SeqRangeAssumption
<1>3. 1 \in DOMAIN r1
  BY <1>1
<1> HIDE DEF new
<1>4. Older(new, n) /\ Older(r2, n)
  BY <1>1 DEF InStep, Older
<1>5. Disjoint(new, r2, n)
  BY <1>1 DEF InStep, Disjoint
<1>6. Recent(new, n, size - 1)
  <2> SUFFICES ASSUME NEW i \in DOMAIN new PROVE Distance(new[i].seq, n) <= size - 1
    BY DEF Recent
  <2>1. Distance(r1[1].seq, n) > Distance(r1[i + 1].seq, n)
    BY <1>1, <1>3 DEF InStep, Older
  <2>2. QED
    BY <1>1, <1>2, <2>1
<1>7. Recent(r2, n, size - 1)
  <2> SUFFICES ASSUME NEW j \in DOMAIN r2 PROVE Distance(r2[j].seq, n) <= size - 1
    BY DEF Recent
  <2>1. Distance(r2[j].seq, n) <= size /\ Distance(r2[j].seq, n) # size
    BY <1>3 DEF InStep, Recent, Disjoint
  <2>2. QED
    BY <1>1, <1>2, <2>1
<1>8. Covers(new, r2, n, size - 1)
  <2> SUFFICES ASSUME NEW k \in 1..(size - 1)
               PROVE  \/ \E i \in DOMAIN new : Distance(new[i].seq, n) = k
                      \/ \E j \in DOMAIN r2 : Distance(r2[j].seq, n) = k
    BY DEF Covers
  <2>1. k \in 1..size /\ k # size
    BY <1>1
  <2>2. CASE \E i \in DOMAIN r1 : Distance(r1[i].seq, n) = k
    <3>1. PICK i \in DOMAIN r1 : Distance(r1[i].seq, n) = k
      BY <2>2
    <3>2. i - 1 \in DOMAIN new /\ new[i - 1] = r1[i]
      BY <1>1, <2>1, <3>1
    <3>3. QED
      BY <3>1, <3>2
  <2>3. QED
    BY <2>1, <2>2 DEF InStep, Covers
<1>9. QED
  BY <1>1, <1>4, <1>5, <1>6, <1>7, <1>8 DEF InStep, new

(* A value that is replaced keeps its number, so nothing changes.          *)
LEMMA OverwriteInStep ==
    ASSUME NEW r1 \in Seq(Slot), NEW r2 \in Seq(Slot), NEW n, InStep(r1, r2, n),
           NEW i \in DOMAIN r1, NEW call \in Calls
    PROVE  InStep([r1 EXCEPT ![i].call = call], r2, n)
<1> DEFINE new == [r1 EXCEPT ![i].call = call]
<1>1. /\ Len(new) = Len(r1) /\ DOMAIN new = DOMAIN r1
      /\ \A j \in DOMAIN r1 : new[j].seq = r1[j].seq
  BY OverwriteInRing
<1> HIDE DEF new
<1>2. Older(new, n) /\ Disjoint(new, r2, n)
  <2>1. Older(r1, n) /\ Disjoint(r1, r2, n)
    BY DEF InStep
  <2>2. Older(new, n)
    <3> SUFFICES ASSUME NEW j \in DOMAIN new, NEW k \in DOMAIN new, j < k
                 PROVE  Distance(new[j].seq, n) > Distance(new[k].seq, n)
      BY DEF Older
    <3>1. new[j].seq = r1[j].seq /\ new[k].seq = r1[k].seq
      BY <1>1
    <3>2. Distance(r1[j].seq, n) > Distance(r1[k].seq, n)
      BY <2>1, <1>1 DEF Older
    <3> QED
      BY <3>1, <3>2
  <2>3. Disjoint(new, r2, n)
    <3> SUFFICES ASSUME NEW j \in DOMAIN new, NEW k \in DOMAIN r2
                 PROVE  Distance(new[j].seq, n) # Distance(r2[k].seq, n)
      BY DEF Disjoint
    <3>1. new[j].seq = r1[j].seq
      BY <1>1
    <3>2. Distance(r1[j].seq, n) # Distance(r2[k].seq, n)
      BY <2>1, <1>1 DEF Disjoint
    <3> QED
      BY <3>1, <3>2
  <2> QED
    BY <2>2, <2>3
<1>3. Recent(new, n, Len(r1) + Len(r2)) /\ Covers(new, r2, n, Len(r1) + Len(r2))
  BY <1>1 DEF InStep, Recent, Covers
<1>4. QED
  BY <1>1, <1>2, <1>3 DEF InStep, new

(* Empty rings are in step.                                                *)
LEMMA EmptyInStep ==
    ASSUME NEW n
    PROVE  InStep(<<>>, <<>>, n)
BY DEF InStep, Older, Disjoint, Recent, Covers

(* No more packets wait than half of the sequence numbers.                 *)
LEMMA RingsAreBounded ==
    ASSUME TypeOK
    PROVE  /\ Len(shorts) \in Nat /\ Len(frames) \in Nat
           /\ Len(shorts) + Len(frames) < SeqRange
           /\ Len(shorts) + Len(frames) <= SeqRange \div 2
<1>1. Len(shorts) \in Nat /\ Len(frames) \in Nat
  BY LenProperties DEF TypeOK
<1>2. SeqRange \div 2 \in Nat /\ 2 * (SeqRange \div 2) <= SeqRange
  BY SeqRangeAssumption
<1>3. QED
  BY <1>1, <1>2, SlotsAssumption, SeqRangeAssumption DEF TypeOK

(* A step never breaks the order of the sequence numbers.                  *)
LEMMA PushContiguous ==
    ASSUME TypeOK, Contiguous, NEW call \in Calls, Push(call)
    PROVE  Contiguous'
<1> USE DEF TypeOK
<1>1. InStep(shorts, frames, nextSeq)
  BY ContiguousIsInStep
<1>2. NewSlot(call) \in Slot /\ NewSlot(call).seq = nextSeq
  BY DEF NewSlot, Slot
<1>3. CASE ReplaceShort(call)
  <2>1. PICK i \in DOMAIN shorts : shorts' = [shorts EXCEPT ![i].call = call]
    BY <1>3 DEF ReplaceShort, Replaceable
  <2>2. InStep(shorts', frames', nextSeq')
    BY <1>1, <1>3, <2>1, OverwriteInStep DEF ReplaceShort
  <2>3. QED
    BY <2>2, ContiguousIsInStep
<1>4. CASE QueueShort(call)
  <2>1. InStep(shorts', frames', nextSeq')
    BY <1>1, <1>2, <1>4, RingsAreBounded, AppendInStep DEF QueueShort, IssueSeq
  <2>2. QED
    BY <2>1, ContiguousIsInStep
<1>5. CASE UNCHANGED <<shorts, frames, nextSeq>>
  BY <1>5 DEF Contiguous, OldestFirst, Age, Size
<1>6. CASE frames' = Append(frames, NewSlot(call)) /\ IssueSeq /\ UNCHANGED shorts
  <2>1. InStep(frames, shorts, nextSeq)
    BY <1>1, InStepSymmetric
  <2>2. InStep(frames', shorts', nextSeq')
    BY <1>2, <1>6, <2>1, RingsAreBounded, AppendInStep DEF IssueSeq
  <2>3. frames' \in Seq(Slot) /\ shorts' \in Seq(Slot)
    BY <1>2, <1>6, AppendToRing
  <2>4. InStep(shorts', frames', nextSeq')
    BY <2>2, <2>3, InStepSymmetric
  <2>5. QED
    BY <2>4, ContiguousIsInStep
<1>7. QED
  BY <1>3, <1>4, <1>5, <1>6 DEF Push, PushShort, PushFrame, PushInvalid, Refuse

(* pop() takes the head whose number was issued first.                     *)
LEMMA PopTakesOldest ==
    ASSUME TypeOK, Contiguous
    PROVE  /\ PopShort => /\ shorts # <<>>
                          /\ Distance(shorts[1].seq, nextSeq) = Len(shorts) + Len(frames)
           /\ PopFrame => /\ frames # <<>>
                          /\ Distance(frames[1].seq, nextSeq) = Len(frames) + Len(shorts)
<1> USE DEF TypeOK
<1>1. InStep(shorts, frames, nextSeq) /\ InStep(frames, shorts, nextSeq)
  BY ContiguousIsInStep, InStepSymmetric
<1>2. ASSUME shorts # <<>>, frames # <<>>
      PROVE  /\ SignedDiff(shorts[1].seq, frames[1].seq) < 0
                 <=> Distance(shorts[1].seq, nextSeq) > Distance(frames[1].seq, nextSeq)
             /\ Distance(shorts[1].seq, nextSeq) # Distance(frames[1].seq, nextSeq)
             /\ Distance(shorts[1].seq, nextSeq) \in Nat
             /\ Distance(frames[1].seq, nextSeq) \in Nat
  <2>1. 1 \in DOMAIN shorts /\ 1 \in DOMAIN frames
    BY <1>2, EmptySeq, LenProperties
  <2>2. shorts[1].seq \in SeqNo /\ frames[1].seq \in SeqNo
    BY <2>1, SlotsOfRing
  <2>3. Distance(shorts[1].seq, nextSeq) \in Nat /\ Distance(frames[1].seq, nextSeq) \in Nat
    <3>1. nextSeq \in SeqNo
      OBVIOUS
    <3>2. \A q \in SeqNo : Distance(q, nextSeq) \in Nat
      BY <3>1, DistanceType
    <3> QED
      BY <2>2, <3>2
  <2>4. /\ Distance(shorts[1].seq, nextSeq) <= Len(shorts) + Len(frames)
        /\ Distance(frames[1].seq, nextSeq) <= Len(shorts) + Len(frames)
        /\ Distance(shorts[1].seq, nextSeq) # Distance(frames[1].seq, nextSeq)
    BY <1>1, <2>1 DEF InStep, Recent, Disjoint
  <2>5. /\ Distance(shorts[1].seq, nextSeq) <= SeqRange \div 2
        /\ Distance(frames[1].seq, nextSeq) <= SeqRange \div 2
    BY <2>3, <2>4, RingsAreBounded, SeqRangeAssumption
  <2>6. QED
    BY <2>2, <2>3, <2>4, <2>5, SignedDiffIsOlder
<1>3. CASE PopShort
  <2>1. shorts # <<>> /\ (frames # <<>> =>
            Distance(shorts[1].seq, nextSeq) > Distance(frames[1].seq, nextSeq))
    BY <1>2, <1>3 DEF PopShort, TakeShort
  <2>2. Distance(shorts[1].seq, nextSeq) = Len(shorts) + Len(frames)
    BY <1>1, <2>1, OldestHead
  <2>3. ~PopFrame
    BY <1>3 DEF PopShort, PopFrame
  <2>4. QED
    BY <2>1, <2>2, <2>3
<1>4. CASE PopFrame
  <2>1. frames # <<>> /\ (shorts # <<>> =>
            Distance(frames[1].seq, nextSeq) > Distance(shorts[1].seq, nextSeq))
    BY <1>2, <1>4 DEF PopFrame, TakeShort
  <2>2. Distance(frames[1].seq, nextSeq) = Len(frames) + Len(shorts)
    BY <1>1, <2>1, OldestHead
  <2>3. ~PopShort
    BY <1>4 DEF PopShort, PopFrame
  <2>4. QED
    BY <2>1, <2>2, <2>3
<1>5. QED
  BY <1>3, <1>4

(* Nor does taking it break the order.                                     *)
LEMMA PopContiguous ==
    ASSUME TypeOK, Contiguous, Pop
    PROVE  Contiguous'
<1> USE DEF TypeOK
<1>1. InStep(shorts, frames, nextSeq) /\ InStep(frames, shorts, nextSeq)
  BY ContiguousIsInStep, InStepSymmetric
<1>2. TypeOK /\ Contiguous
  OBVIOUS
<1>3. CASE PopShort
  <2>1. shorts # <<>> /\ Distance(shorts[1].seq, nextSeq) = Len(shorts) + Len(frames)
    BY <1>2, <1>3, PopTakesOldest
  <2>2. InStep(shorts', frames', nextSeq')
    BY <1>1, <1>3, <2>1, TailInStep DEF PopShort
  <2>3. QED
    BY <2>2, ContiguousIsInStep
<1>4. CASE PopFrame
  <2>1. frames # <<>> /\ Distance(frames[1].seq, nextSeq) = Len(frames) + Len(shorts)
    BY <1>2, <1>4, PopTakesOldest
  <2>2. InStep(frames', shorts', nextSeq')
    BY <1>1, <1>4, <2>1, TailInStep DEF PopFrame
  <2>3. frames' \in Seq(Slot) /\ shorts' \in Seq(Slot)
    BY <1>4, <2>1, TailOfRing DEF PopFrame
  <2>4. InStep(shorts', frames', nextSeq')
    BY <2>2, <2>3, InStepSymmetric
  <2>5. QED
    BY <2>4, ContiguousIsInStep
<1>5. CASE PopEmpty
  BY <1>5 DEF PopEmpty, Refuse, Contiguous, OldestFirst, Age, Size
<1>6. QED
  BY <1>3, <1>4, <1>5 DEF Pop

(* pop() always takes the packet that was queued first, even after the     *)
(* 16-bit sequence number has wrapped (lines 161-187).                     *)
THEOREM OrderKept == Spec => []Contiguous
<1>1. Init => Contiguous
  <2> SUFFICES ASSUME Init PROVE Contiguous
    OBVIOUS
  <2>1. InStep(shorts, frames, nextSeq)
    BY EmptyInStep DEF Init
  <2>2. QED
    BY <2>1, ContiguousIsInStep
<1>2. TypeOK /\ Contiguous /\ [Next]_vars => Contiguous'
  <2> SUFFICES ASSUME TypeOK, Contiguous, [Next]_vars PROVE Contiguous'
    OBVIOUS
  <2>1. ASSUME NEW call \in Calls, Push(call) PROVE Contiguous'
    BY <2>1, PushContiguous
  <2>2. CASE Pop
    BY <2>2, PopContiguous
  <2>3. CASE Clear
    <3>1. InStep(shorts', frames', nextSeq')
      BY <2>3, EmptyInStep DEF Clear
    <3>2. QED
      BY <3>1, ContiguousIsInStep
  <2>4. CASE UNCHANGED vars
    BY <2>4 DEF vars, Contiguous, OldestFirst, Age, Size
  <2>5. QED
    BY <2>1, <2>2, <2>3, <2>4 DEF Next
<1>3. QED
  BY <1>1, <1>2, TypeCorrect, PTL DEF Spec

-----------------------------------------------------------------------------
(* What waits, and where.                                                  *)

(* A step never puts a packet deeper than its priority allows.             *)
LEMMA ReservedStep ==
    ASSUME TypeOK, ReservedSlots, [Next]_vars
    PROVE  ReservedSlots'
<1> USE DEF TypeOK
<1>1. ASSUME NEW call \in Calls, ReplaceShort(call) PROVE ReservedSlots'
  <2>1. PICK i \in DOMAIN shorts : /\ shorts' = [shorts EXCEPT ![i].call = call]
                                  /\ Classify(call.data) = "Low"
                                  /\ Replaces(call.data, shorts[i].call.data)
    BY <1>1 DEF ReplaceShort, Replaceable
  <2>2. /\ DOMAIN shorts' = DOMAIN shorts
        /\ shorts'[i].call = call
        /\ \A j \in DOMAIN shorts \ {i} : shorts'[j] = shorts[j]
    BY <2>1, OverwriteInRing
  <2>3. Classify(shorts[i].call.data) = "Low"
    <3>1. call.data \in Packet /\ shorts[i].call.data \in Packet
      BY CallsAssumption, SlotsOfRing
    <3>2. IsShort(call.data)
      BY <2>1 DEF Classify
    <3>3. QED
      BY <2>1, <3>1, <3>2, ReplacesIsLow
  <2>4. QED
    BY <2>1, <2>2, <2>3 DEF ReservedSlots
<1>2. ASSUME NEW call \in Calls, QueueShort(call) PROVE ReservedSlots'
  <2>1. NewSlot(call) \in Slot /\ NewSlot(call).call = call
    BY DEF NewSlot, Slot
  <2>2. /\ DOMAIN shorts' = 1..(Len(shorts) + 1) /\ DOMAIN shorts = 1..Len(shorts)
        /\ \A i \in 1..Len(shorts) : shorts'[i] = shorts[i]
        /\ shorts'[Len(shorts) + 1] = NewSlot(call)
        /\ Len(shorts) \in Nat
    BY <1>2, <2>1, AppendToRing, RingsAreBounded DEF QueueShort
  <2>3. Len(shorts) + 1 <= Limit(Classify(call.data))
    BY <1>2, <2>2, LimitBounds, ClassifyType, SlotsAssumption DEF QueueShort
  <2>4. QED
    BY <2>1, <2>2, <2>3 DEF ReservedSlots
<1>3. CASE PopShort
  <2>1. shorts # <<>> /\ shorts' = Tail(shorts)
    BY <1>3 DEF PopShort, TakeShort
  <2>2. SUFFICES ASSUME NEW i \in DOMAIN shorts'
                 PROVE  i <= Limit(Classify(shorts'[i].call.data))
    BY DEF ReservedSlots
  <2>3. i \in Nat /\ i + 1 \in DOMAIN shorts /\ shorts'[i] = shorts[i + 1]
    BY <2>1, TailOfRing
  <2>4. i + 1 <= Limit(Classify(shorts[i + 1].call.data))
    BY <2>3 DEF ReservedSlots
  <2>5. Limit(Classify(shorts[i + 1].call.data)) \in Nat
    BY LimitBounds, ClassifyType, SlotsAssumption
  <2>6. QED
    BY <2>3, <2>4, <2>5
<1>4. CASE Clear
  BY <1>4 DEF Clear, ReservedSlots
<1>5. CASE UNCHANGED shorts
  BY <1>5 DEF ReservedSlots
<1>6. QED
  BY <1>1, <1>2, <1>3, <1>4, <1>5
     DEF Next, Push, PushShort, PushFrame, PushInvalid, Pop, PopFrame, PopEmpty, Refuse, vars

(* Half of the ring stays free of controller values and an eighth of it    *)
(* stays free of everything but note-offs and their like, whatever was     *)
(* pushed, replaced and popped before (limit(), line 194).                 *)
THEOREM ReserveKept == Spec => []ReservedSlots
<1>1. Init => ReservedSlots
  BY DEF Init, ReservedSlots
<1>2. QED
  BY <1>1, ReservedStep, TypeCorrect, PTL DEF Spec

(* A step never lets a second value of a controller wait.                  *)
LEMMA OneValueStep ==
    ASSUME TypeOK, OneWaitingValue, [Next]_vars
    PROVE  OneWaitingValue'
<1> USE DEF TypeOK
<1>1. ASSUME NEW call \in Calls, ReplaceShort(call) PROVE OneWaitingValue'
  <2>1. PICK k \in DOMAIN shorts : /\ shorts' = [shorts EXCEPT ![k].call = call]
                                  /\ SameTarget(call, shorts[k].call)
                                  /\ Replaces(call.data, shorts[k].call.data)
    BY <1>1 DEF ReplaceShort, Replaceable
  <2>2. /\ DOMAIN shorts' = DOMAIN shorts
        /\ shorts'[k].call = call
        /\ \A j \in DOMAIN shorts \ {k} : shorts'[j] = shorts[j]
    BY <2>1, OverwriteInRing
  <2>3. ASSUME NEW j \in DOMAIN shorts \ {k}, SameTarget(call, shorts[j].call)
        PROVE  ~Replaces(call.data, shorts[j].call.data)
    <3>1. SUFFICES ASSUME Replaces(call.data, shorts[j].call.data) PROVE FALSE
      OBVIOUS
    <3>2. Replaces(shorts[k].call.data, shorts[j].call.data)
      BY <2>1, <3>1, ReplacesSymmetric, ReplacesTransitive
    <3>3. SameTarget(shorts[k].call, shorts[j].call)
      BY <2>1, <2>3 DEF SameTarget
    <3>4. QED
      BY <3>2, <3>3 DEF OneWaitingValue
  <2>4. SUFFICES ASSUME NEW i \in DOMAIN shorts, NEW j \in DOMAIN shorts, i # j,
                        SameTarget(shorts'[i].call, shorts'[j].call)
                 PROVE  ~Replaces(shorts'[i].call.data, shorts'[j].call.data)
    BY <2>2 DEF OneWaitingValue
  <2>5. CASE i # k /\ j # k
    BY <2>2, <2>4, <2>5 DEF OneWaitingValue
  <2>6. CASE i = k
    BY <2>2, <2>3, <2>4, <2>6
  <2>7. CASE j = k
    BY <2>2, <2>3, <2>4, <2>7, ReplacesSymmetric DEF SameTarget
  <2>8. QED
    BY <2>5, <2>6, <2>7
<1>2. ASSUME NEW call \in Calls, Replaceable(call) = {}, IsShort(call.data), QueueShort(call)
      PROVE  OneWaitingValue'
  <2>1. NewSlot(call) \in Slot /\ NewSlot(call).call = call
    BY DEF NewSlot, Slot
  <2>2. /\ DOMAIN shorts' = 1..(Len(shorts) + 1) /\ DOMAIN shorts = 1..Len(shorts)
        /\ \A i \in 1..Len(shorts) : shorts'[i] = shorts[i]
        /\ shorts'[Len(shorts) + 1] = NewSlot(call)
        /\ Len(shorts) \in Nat
    BY <1>2, <2>1, AppendToRing, RingsAreBounded DEF QueueShort
  <2>3. ASSUME NEW j \in DOMAIN shorts, SameTarget(call, shorts[j].call)
        PROVE  ~Replaces(call.data, shorts[j].call.data)
    <3>1. SUFFICES ASSUME Replaces(call.data, shorts[j].call.data) PROVE FALSE
      OBVIOUS
    <3>2. call.data \in Packet /\ shorts[j].call.data \in Packet
      BY CallsAssumption, SlotsOfRing
    <3>3. Classify(call.data) = "Low"
      BY <1>2, <3>1, <3>2, ReplacesIsLow
    <3>4. QED
      BY <1>2, <2>3, <3>1, <3>3 DEF Replaceable
  <2>4. SUFFICES ASSUME NEW i \in DOMAIN shorts', NEW j \in DOMAIN shorts', i # j,
                        SameTarget(shorts'[i].call, shorts'[j].call)
                 PROVE  ~Replaces(shorts'[i].call.data, shorts'[j].call.data)
    BY DEF OneWaitingValue
  <2>5. CASE i \in DOMAIN shorts /\ j \in DOMAIN shorts
    BY <2>2, <2>4, <2>5 DEF OneWaitingValue
  <2>6. CASE i = Len(shorts) + 1 /\ j \in DOMAIN shorts
    BY <2>1, <2>2, <2>3, <2>4, <2>6
  <2>7. CASE j = Len(shorts) + 1 /\ i \in DOMAIN shorts
    BY <2>1, <2>2, <2>3, <2>4, <2>7, ReplacesSymmetric DEF SameTarget
  <2>8. QED
    BY <2>2, <2>4, <2>5, <2>6, <2>7
<1>3. CASE PopShort
  <2>1. shorts # <<>> /\ shorts' = Tail(shorts)
    BY <1>3 DEF PopShort, TakeShort
  <2>2. \A i \in DOMAIN shorts' : i \in Nat /\ i + 1 \in DOMAIN shorts /\ shorts'[i] = shorts[i + 1]
    BY <2>1, TailOfRing
  <2>3. SUFFICES ASSUME NEW i \in DOMAIN shorts', NEW j \in DOMAIN shorts', i # j,
                        SameTarget(shorts'[i].call, shorts'[j].call)
                 PROVE  ~Replaces(shorts'[i].call.data, shorts'[j].call.data)
    BY DEF OneWaitingValue
  <2>4. i + 1 # j + 1
    BY <2>2, <2>3
  <2>5. QED
    BY <2>2, <2>3, <2>4 DEF OneWaitingValue
<1>4. CASE Clear
  BY <1>4 DEF Clear, OneWaitingValue
<1>5. CASE UNCHANGED shorts
  BY <1>5 DEF OneWaitingValue
<1>6. QED
  BY <1>1, <1>2, <1>3, <1>4, <1>5
     DEF Next, Push, PushShort, PushFrame, PushInvalid, Pop, PopFrame, PopEmpty, Refuse, vars

(* However fast a knob moves, at most one value of its controller waits    *)
(* for a peer (lines 222-234).                                             *)
THEOREM OneValueWaits == Spec => []OneWaitingValue
<1>1. Init => OneWaitingValue
  BY DEF Init, OneWaitingValue
<1>2. QED
  BY <1>1, OneValueStep, TypeCorrect, PTL DEF Spec

-----------------------------------------------------------------------------
(* The refinement of SendFifo.                                             *)

(* Where a slot stands in the order in which the packets were queued.      *)
PlaceOf(slot, r1, r2, n) == Len(r1) + Len(r2) + 1 - Distance(slot.seq, n)

(* The packets of two rings in the order in which they were queued.        *)
IsOrder(o, r1, r2, n) ==
    /\ o \in Seq(Calls) /\ Len(o) = Len(r1) + Len(r2)
    /\ \A i \in DOMAIN r1 : o[PlaceOf(r1[i], r1, r2, n)] = r1[i].call
    /\ \A j \in DOMAIN r2 : o[PlaceOf(r2[j], r1, r2, n)] = r2[j].call

(* InQueueOrder, said of two rings and a counter.                          *)
Merged(r1, r2, n) ==
    [k \in 1..(Len(r1) + Len(r2)) |->
        LET here == {j \in DOMAIN r2 : PlaceOf(r2[j], r1, r2, n) = k}
            i    == k - Cardinality({j \in DOMAIN r2 : PlaceOf(r2[j], r1, r2, n) < k})
        IN  CASE here # {} -> r2[CHOOSE j \in here : TRUE].call
              [] here = {} /\ i \in DOMAIN r1 -> r1[i].call
              [] OTHER -> Nothing]

(* InQueueOrder is the merged rings.                                       *)
LEMMA QueueOrderIsMerged ==
    /\ InQueueOrder = Merged(shorts, frames, nextSeq)
    /\ InQueueOrder' = Merged(shorts', frames', nextSeq')
BY DEF InQueueOrder, Merged, Place, PlaceOf, Size, Age

(* Every place is taken, by one slot, and no ring is out of order.         *)
Placed(r1, r2, n) ==
    /\ \A i \in DOMAIN r1 : PlaceOf(r1[i], r1, r2, n) \in 1..(Len(r1) + Len(r2))
    /\ \A j \in DOMAIN r2 : PlaceOf(r2[j], r1, r2, n) \in 1..(Len(r1) + Len(r2))
    /\ \A i, j \in DOMAIN r1 : i < j => PlaceOf(r1[i], r1, r2, n) < PlaceOf(r1[j], r1, r2, n)
    /\ \A i, j \in DOMAIN r2 : i < j => PlaceOf(r2[i], r1, r2, n) < PlaceOf(r2[j], r1, r2, n)
    /\ \A i \in DOMAIN r1, j \in DOMAIN r2 : PlaceOf(r1[i], r1, r2, n) # PlaceOf(r2[j], r1, r2, n)
    /\ \A k \in 1..(Len(r1) + Len(r2)) : \/ \E i \in DOMAIN r1 : PlaceOf(r1[i], r1, r2, n) = k
                                       \/ \E j \in DOMAIN r2 : PlaceOf(r2[j], r1, r2, n) = k

(* Rings in step with the counter fill the places.                         *)
LEMMA Places ==
    ASSUME NEW r1 \in Seq(Slot), NEW r2 \in Seq(Slot), NEW n \in SeqNo, InStep(r1, r2, n)
    PROVE  Placed(r1, r2, n)
<1> DEFINE size == Len(r1) + Len(r2)
           d1(i) == Distance(r1[i].seq, n)
           d2(j) == Distance(r2[j].seq, n)
<1>1. size \in Nat
  BY LenProperties
<1>2. /\ \A i \in DOMAIN r1 : d1(i) \in 1..size
      /\ \A j \in DOMAIN r2 : d2(j) \in 1..size
  <2>1. \A i \in DOMAIN r1 : d1(i) \in 1..SeqRange /\ d1(i) <= size
    BY SlotsOfRing, DistanceType DEF InStep, Recent
  <2>2. \A j \in DOMAIN r2 : d2(j) \in 1..SeqRange /\ d2(j) <= size
    BY SlotsOfRing, DistanceType DEF InStep, Recent
  <2>3. QED
    BY <1>1, <2>1, <2>2, SeqRangeAssumption
<1>3. /\ \A i, j \in DOMAIN r1 : i < j => d1(i) > d1(j)
      /\ \A i, j \in DOMAIN r2 : i < j => d2(i) > d2(j)
      /\ \A i \in DOMAIN r1, j \in DOMAIN r2 : d1(i) # d2(j)
  BY DEF InStep, Older, Disjoint
<1>4. ASSUME NEW k \in 1..size
      PROVE  (\E i \in DOMAIN r1 : d1(i) = size + 1 - k) \/ \E j \in DOMAIN r2 : d2(j) = size + 1 - k
  <2>1. size + 1 - k \in 1..size
    BY <1>1
  <2>2. QED
    BY <2>1 DEF InStep, Covers
<1> HIDE DEF size, d1, d2
<1>5. /\ \A i \in DOMAIN r1 : PlaceOf(r1[i], r1, r2, n) = size + 1 - d1(i)
      /\ \A j \in DOMAIN r2 : PlaceOf(r2[j], r1, r2, n) = size + 1 - d2(j)
  BY DEF PlaceOf, size, d1, d2
<1>6. /\ \A i \in DOMAIN r1 : PlaceOf(r1[i], r1, r2, n) \in 1..size
      /\ \A j \in DOMAIN r2 : PlaceOf(r2[j], r1, r2, n) \in 1..size
  BY <1>1, <1>2, <1>5
<1>7. /\ \A i, j \in DOMAIN r1 : i < j => PlaceOf(r1[i], r1, r2, n) < PlaceOf(r1[j], r1, r2, n)
      /\ \A i, j \in DOMAIN r2 : i < j => PlaceOf(r2[i], r1, r2, n) < PlaceOf(r2[j], r1, r2, n)
      /\ \A i \in DOMAIN r1, j \in DOMAIN r2 : PlaceOf(r1[i], r1, r2, n) # PlaceOf(r2[j], r1, r2, n)
  BY <1>1, <1>2, <1>3, <1>5
<1>8. ASSUME NEW k \in 1..size
      PROVE  \/ \E i \in DOMAIN r1 : PlaceOf(r1[i], r1, r2, n) = k
             \/ \E j \in DOMAIN r2 : PlaceOf(r2[j], r1, r2, n) = k
  <2>1. CASE \E i \in DOMAIN r1 : d1(i) = size + 1 - k
    BY <1>1, <1>5, <2>1
  <2>2. CASE \E j \in DOMAIN r2 : d2(j) = size + 1 - k
    BY <1>1, <1>5, <2>2
  <2>3. QED
    BY <1>4, <2>1, <2>2
<1>9. QED
  BY <1>6, <1>7, <1>8 DEF size, Placed

(* Places that differ are as many as the positions they are the places of. *)
LEMMA SameCount ==
    ASSUME NEW S, IsFiniteSet(S), NEW f \in [S -> Nat], \A i, j \in S : f[i] = f[j] => i = j,
           NEW T, \A k : k \in T <=> \E i \in S : f[i] = k
    PROVE  IsFiniteSet(T) /\ Cardinality(T) = Cardinality(S)
<1>1. f \in Bijection(S, T)
  BY DEF Bijection, Injection, Surjection, IsInjective
<1>2. ExistsBijection(S, T)
  BY <1>1 DEF ExistsBijection
<1>3. QED
  BY <1>2, FS_Bijection

(* The numbers up to one of them.                                          *)
LEMMA UpTo ==
    ASSUME NEW b \in Nat
    PROVE  IsFiniteSet(1..b) /\ Cardinality(1..b) = b
<1>1. 1 \in Int /\ b \in Int
  OBVIOUS
<1>2. IsFiniteSet(1..b) /\ Cardinality(1..b) = IF 1 > b THEN 0 ELSE b - 1 + 1
  BY <1>1, FS_Interval
<1>3. QED
  BY <1>2

(* The size of a set in two parts.                                         *)
LEMMA TwoParts ==
    ASSUME NEW P, NEW Q, IsFiniteSet(P), IsFiniteSet(Q), P \cap Q = {},
           NEW b \in Nat, P \cup Q = 1..b
    PROVE  b = Cardinality(P) + Cardinality(Q)
<1>1. Cardinality(P \cup Q) = Cardinality(P) + Cardinality(Q) - Cardinality(P \cap Q)
  BY FS_Union
<1>2. Cardinality(P \cup Q) = b /\ Cardinality(P \cap Q) = 0
  BY UpTo, FS_EmptySet
<1>3. Cardinality(P) \in Nat /\ Cardinality(Q) \in Nat
  BY FS_CardinalityType
<1>4. QED
  BY <1>1, <1>2, <1>3

(* A message of the first ring has before it the ones of its ring and the  *)
(* ones of the other that were queued earlier.                             *)
LEMMA BeforeIt ==
    ASSUME NEW r1 \in Seq(Slot), NEW r2 \in Seq(Slot), NEW n \in SeqNo, InStep(r1, r2, n),
           NEW i \in DOMAIN r1, NEW k, k = PlaceOf(r1[i], r1, r2, n)
    PROVE  i = k - Cardinality({j \in DOMAIN r2 : PlaceOf(r2[j], r1, r2, n) < k})
<1>1. PICK p1 \in [DOMAIN r1 -> Nat] : p1 = [h \in DOMAIN r1 |-> PlaceOf(r1[h], r1, r2, n)]
  <2>1. \A h \in DOMAIN r1 : PlaceOf(r1[h], r1, r2, n) \in Nat
    BY Places DEF Placed
  <2>2. QED
    BY <2>1
<1>2. PICK p2 \in [DOMAIN r2 -> Nat] : p2 = [j \in DOMAIN r2 |-> PlaceOf(r2[j], r1, r2, n)]
  <2>1. \A j \in DOMAIN r2 : PlaceOf(r2[j], r1, r2, n) \in Nat
    BY Places DEF Placed
  <2>2. QED
    BY <2>1
<1>3. PICK size \in Nat : size = Len(r1) + Len(r2)
  BY LenProperties
<1>4. /\ \A h \in DOMAIN r1 : p1[h] = PlaceOf(r1[h], r1, r2, n)
      /\ \A j \in DOMAIN r2 : p2[j] = PlaceOf(r2[j], r1, r2, n)
  BY <1>1, <1>2
<1>5. /\ \A h \in DOMAIN r1 : p1[h] \in 1..size
      /\ \A j \in DOMAIN r2 : p2[j] \in 1..size
      /\ \A h, g \in DOMAIN r1 : h < g => p1[h] < p1[g]
      /\ \A h, g \in DOMAIN r2 : h < g => p2[h] < p2[g]
      /\ \A h \in DOMAIN r1, j \in DOMAIN r2 : p1[h] # p2[j]
      /\ \A q \in 1..size : (\E h \in DOMAIN r1 : p1[h] = q) \/ \E j \in DOMAIN r2 : p2[j] = q
  <2>1. Placed(r1, r2, n)
    BY Places
  <2>2. QED
    BY <1>3, <1>4, <2>1 DEF Placed
<1>6. /\ DOMAIN r1 = 1..Len(r1) /\ DOMAIN r2 = 1..Len(r2) /\ Len(r1) \in Nat /\ Len(r2) \in Nat
      /\ i \in 1..Len(r1) /\ k = p1[i] /\ k \in 1..size
  BY <1>4, <1>5, LenProperties
<1>7. /\ \A h, g \in DOMAIN r1 : p1[h] = p1[g] => h = g
      /\ \A h, g \in DOMAIN r2 : p2[h] = p2[g] => h = g
  <2>1. /\ \A h \in DOMAIN r1 : h \in Int /\ p1[h] \in Int
        /\ \A h, g \in DOMAIN r1 : h < g => p1[h] < p1[g]
    BY <1>5, <1>6
  <2>2. /\ \A h \in DOMAIN r2 : h \in Int /\ p2[h] \in Int
        /\ \A h, g \in DOMAIN r2 : h < g => p2[h] < p2[g]
    BY <1>5, <1>6
  <2>3. ASSUME NEW h \in DOMAIN r1, NEW g \in DOMAIN r1, p1[h] = p1[g] PROVE h = g
    <3>1. h < g => p1[h] < p1[g]
      BY <2>1
    <3>2. g < h => p1[g] < p1[h]
      BY <2>1
    <3>3. h \in Int /\ g \in Int /\ p1[h] \in Int
      BY <2>1
    <3>4. QED
      BY <2>3, <3>1, <3>2, <3>3
  <2>4. ASSUME NEW h \in DOMAIN r2, NEW g \in DOMAIN r2, p2[h] = p2[g] PROVE h = g
    <3>1. h < g => p2[h] < p2[g]
      BY <2>2
    <3>2. g < h => p2[g] < p2[h]
      BY <2>2
    <3>3. h \in Int /\ g \in Int /\ p2[h] \in Int
      BY <2>2
    <3>4. QED
      BY <2>4, <3>1, <3>2, <3>3
  <2>5. QED
    BY <2>3, <2>4
<1>8. PICK A : A = 1..(i - 1)
  OBVIOUS
<1>9. PICK B : B = {j \in DOMAIN r2 : p2[j] < k}
  OBVIOUS
<1>10. PICK P : P = {p1[h] : h \in A}
  OBVIOUS
<1>11. PICK Q : Q = {p2[j] : j \in B}
  OBVIOUS
<1>12. IsFiniteSet(P) /\ Cardinality(P) = i - 1 /\ A \subseteq DOMAIN r1
  <2>1. i - 1 \in Nat /\ A \subseteq DOMAIN r1
    BY <1>6, <1>8
  <2>2. IsFiniteSet(A) /\ Cardinality(A) = i - 1
    BY <1>8, <2>1, UpTo
  <2>3. PICK f \in [A -> Nat] : \A h \in A : f[h] = p1[h]
    <3>1. [h \in A |-> p1[h]] \in [A -> Nat]
      BY <1>1, <2>1
    <3>2. QED
      BY <3>1
  <2>4. \A h, g \in A : f[h] = f[g] => h = g
    BY <1>7, <2>1, <2>3
  <2>5. \A q : q \in P <=> \E h \in A : f[h] = q
    BY <1>10, <2>3
  <2>6. IsFiniteSet(P) /\ Cardinality(P) = Cardinality(A)
    BY <2>2, <2>4, <2>5, SameCount
  <2>7. QED
    BY <2>1, <2>2, <2>6
<1>13. IsFiniteSet(Q) /\ IsFiniteSet(B) /\ Cardinality(Q) = Cardinality(B) /\ B \subseteq DOMAIN r2
  <2>1. B \subseteq DOMAIN r2
    BY <1>9
  <2>2. IsFiniteSet(B)
    <3>1. IsFiniteSet(DOMAIN r2)
      BY <1>6, UpTo
    <3>2. QED
      BY <2>1, <3>1, FS_Subset
  <2>3. PICK f \in [B -> Nat] : \A j \in B : f[j] = p2[j]
    <3>1. [j \in B |-> p2[j]] \in [B -> Nat]
      BY <1>2, <2>1
    <3>2. QED
      BY <3>1
  <2>4. \A h, g \in B : f[h] = f[g] => h = g
    BY <1>7, <2>1, <2>3
  <2>5. \A q : q \in Q <=> \E j \in B : f[j] = q
    BY <1>11, <2>3
  <2>6. IsFiniteSet(Q) /\ Cardinality(Q) = Cardinality(B)
    BY <2>2, <2>4, <2>5, SameCount
  <2>7. QED
    BY <2>1, <2>2, <2>6
<1>14. k - 1 \in Nat /\ k \in Nat
  BY <1>6
<1>15. P \cup Q = 1..(k - 1)
  <2>1. ASSUME NEW h \in A PROVE p1[h] \in 1..(k - 1)
    <3>1. h \in DOMAIN r1 /\ h < i
      BY <1>6, <1>8, <2>1
    <3>2. p1[h] < p1[i] /\ p1[h] \in 1..size
      BY <1>5, <3>1
    <3>3. QED
      BY <1>6, <3>2
  <2>2. ASSUME NEW j \in B PROVE p2[j] \in 1..(k - 1)
    <3>1. j \in DOMAIN r2 /\ p2[j] < k
      BY <1>9, <2>2
    <3>2. p2[j] \in 1..size
      BY <1>5, <3>1
    <3>3. QED
      BY <1>14, <3>1, <3>2
  <2>3. ASSUME NEW q \in 1..(k - 1) PROVE q \in P \cup Q
    <3>1. q \in 1..size /\ q < k
      BY <1>6, <2>3
    <3>2. CASE \E h \in DOMAIN r1 : p1[h] = q
      <4>1. PICK h \in DOMAIN r1 : p1[h] = q
        BY <3>2
      <4>2. ~(i < h) /\ h # i
        <5>1. i < h => p1[i] < p1[h]
          BY <1>5, <4>1
        <5>2. QED
          BY <1>6, <3>1, <4>1, <5>1
      <4>3. h \in A
        BY <1>6, <1>8, <4>1, <4>2
      <4>4. QED
        BY <1>10, <4>1, <4>3
    <3>3. CASE \E j \in DOMAIN r2 : p2[j] = q
      BY <1>9, <1>11, <3>1, <3>3
    <3>4. QED
      BY <1>5, <3>1, <3>2, <3>3
  <2>4. QED
    BY <1>10, <1>11, <2>1, <2>2, <2>3
<1>16. P \cap Q = {}
  <2>1. \A h \in A, j \in B : p1[h] # p2[j]
    BY <1>5, <1>12, <1>13
  <2>2. QED
    BY <1>10, <1>11, <2>1
<1>17. k - 1 = Cardinality(P) + Cardinality(Q)
  BY <1>12, <1>13, <1>14, <1>15, <1>16, TwoParts
<1>18. Cardinality(B) \in Nat
  BY <1>13, FS_CardinalityType
<1>19. i = k - Cardinality(B)
  <2>1. k - 1 = (i - 1) + Cardinality(B)
    BY <1>12, <1>13, <1>17
  <2>2. i \in Nat
    BY <1>6
  <2>3. QED
    BY <1>14, <1>18, <2>1, <2>2
<1>20. B = {j \in DOMAIN r2 : PlaceOf(r2[j], r1, r2, n) < k}
  BY <1>4, <1>9
<1>21. QED
  BY <1>19, <1>20

(* The merged rings hold each packet at its place.                         *)
LEMMA MergedIsOrder ==
    ASSUME NEW r1 \in Seq(Slot), NEW r2 \in Seq(Slot), NEW n \in SeqNo, InStep(r1, r2, n)
    PROVE  IsOrder(Merged(r1, r2, n), r1, r2, n)
<1>1. PICK size \in Nat : size = Len(r1) + Len(r2)
  BY LenProperties
<1>2. PICK o : o = Merged(r1, r2, n)
  OBVIOUS
<1>3. ASSUME NEW j \in DOMAIN r2, NEW k, k = PlaceOf(r2[j], r1, r2, n)
      PROVE  k \in 1..size /\ o[k] = r2[j].call
  <2>1. k \in 1..size
    BY <1>1, <1>3, Places DEF Placed
  <2>2. {h \in DOMAIN r2 : PlaceOf(r2[h], r1, r2, n) = k} = {j}
    <3>1. \A h, g \in DOMAIN r2 : h < g => PlaceOf(r2[h], r1, r2, n) < PlaceOf(r2[g], r1, r2, n)
      BY Places DEF Placed
    <3>2. \A h \in DOMAIN r2 : h \in Int /\ PlaceOf(r2[h], r1, r2, n) \in 1..size
      BY <1>1, Places, LenProperties DEF Placed
    <3>3. \A h \in DOMAIN r2 : PlaceOf(r2[h], r1, r2, n) = k => h = j
      BY <1>1, <1>3, <3>1, <3>2
    <3>4. QED
      BY <1>3, <3>3
  <2>3. (CHOOSE h \in {j} : TRUE) = j
    OBVIOUS
  <2>4. o[k] = r2[CHOOSE h \in {j} : TRUE].call
    BY <1>1, <1>2, <2>1, <2>2, Zenon DEF Merged
  <2>5. QED
    BY <2>1, <2>3, <2>4
<1>4. ASSUME NEW i \in DOMAIN r1, NEW k, k = PlaceOf(r1[i], r1, r2, n)
      PROVE  k \in 1..size /\ o[k] = r1[i].call
  <2>1. k \in 1..size
    BY <1>1, <1>4, Places DEF Placed
  <2>2. {h \in DOMAIN r2 : PlaceOf(r2[h], r1, r2, n) = k} = {}
    BY <1>4, Places DEF Placed
  <2>3. i = k - Cardinality({h \in DOMAIN r2 : PlaceOf(r2[h], r1, r2, n) < k})
    BY <1>4, BeforeIt
  <2>4. QED
    BY <1>1, <1>2, <2>1, <2>2, <2>3, Zenon DEF Merged
<1>5. o = [k \in 1..size |-> o[k]]
  BY <1>1, <1>2 DEF Merged
<1>6. ASSUME NEW k \in 1..size PROVE o[k] \in Calls
  <2>1. CASE \E i \in DOMAIN r1 : PlaceOf(r1[i], r1, r2, n) = k
    BY <1>4, <2>1, SlotsOfRing
  <2>2. CASE \E j \in DOMAIN r2 : PlaceOf(r2[j], r1, r2, n) = k
    BY <1>3, <2>2, SlotsOfRing
  <2>3. QED
    BY <1>1, <2>1, <2>2, Places DEF Placed
<1>7. o \in Seq(Calls) /\ Len(o) = size
  BY <1>5, <1>6
<1>8. QED
  BY <1>1, <1>2, <1>3, <1>4, <1>7 DEF IsOrder

(* There is one order of two rings.                                        *)
LEMMA OrderUnique ==
    ASSUME NEW r1 \in Seq(Slot), NEW r2 \in Seq(Slot), NEW n \in SeqNo, InStep(r1, r2, n),
           NEW o, NEW p, IsOrder(o, r1, r2, n), IsOrder(p, r1, r2, n)
    PROVE  o = p
<1>1. o \in Seq(Calls) /\ p \in Seq(Calls) /\ Len(o) = Len(r1) + Len(r2) /\ Len(p) = Len(o)
  BY DEF IsOrder
<1>2. ASSUME NEW k \in 1..Len(o) PROVE o[k] = p[k]
  <2>1. Placed(r1, r2, n)
    BY Places
  <2>2. \/ \E i \in DOMAIN r1 : PlaceOf(r1[i], r1, r2, n) = k
        \/ \E j \in DOMAIN r2 : PlaceOf(r2[j], r1, r2, n) = k
    BY <1>1, <1>2, <2>1 DEF Placed
  <2>3. QED
    BY <2>2 DEF IsOrder
<1>3. QED
  BY <1>1, <1>2, SeqEqual

(* It does not matter which ring is which.                                 *)
LEMMA OrderSymmetric ==
    ASSUME NEW r1 \in Seq(Slot), NEW r2 \in Seq(Slot), NEW n, NEW o, IsOrder(o, r1, r2, n)
    PROVE  IsOrder(o, r2, r1, n)
<1>1. Len(r1) + Len(r2) = Len(r2) + Len(r1)
  BY LenProperties
<1>2. QED
  BY <1>1 DEF IsOrder, PlaceOf

(* Empty rings are an empty queue.                                         *)
LEMMA EmptyOrder == IsOrder(<<>>, <<>>, <<>>, nextSeq)
BY DEF IsOrder

(* What joins a ring joins the end of the queue.                           *)
LEMMA AppendOrder ==
    ASSUME NEW r1 \in Seq(Slot), NEW r2 \in Seq(Slot), NEW n \in SeqNo, InStep(r1, r2, n),
           Len(r1) + Len(r2) < SeqRange,
           NEW x \in Slot, x.seq = n, NEW m, m = (n + 1) % SeqRange,
           NEW o, IsOrder(o, r1, r2, n)
    PROVE  IsOrder(Append(o, x.call), Append(r1, x), r2, m)
<1>1. PICK size \in Nat : size = Len(r1) + Len(r2)
  BY LenProperties
<1>2. o \in Seq(Calls) /\ Len(o) = size /\ x.call \in Calls
  BY <1>1 DEF IsOrder, Slot
<1>3. /\ Len(Append(r1, x)) + Len(r2) = size + 1
      /\ DOMAIN Append(r1, x) = 1..(Len(r1) + 1) /\ DOMAIN r1 = 1..Len(r1) /\ Len(r1) \in Nat
      /\ \A i \in 1..Len(r1) : Append(r1, x)[i] = r1[i]
      /\ Append(r1, x)[Len(r1) + 1] = x
  <2>1. Len(r1) \in Nat /\ Len(r2) \in Nat
    BY LenProperties
  <2>2. QED
    BY <1>1, <2>1, AppendToRing
<1>4. PICK p : p = Append(o, x.call)
  OBVIOUS
<1>5. /\ p \in Seq(Calls) /\ Len(p) = size + 1 /\ p[size + 1] = x.call
      /\ \A k \in 1..size : p[k] = o[k]
  BY <1>2, <1>4, AppendProperties
<1>6. ASSUME NEW s \in Slot, Distance(s.seq, n) <= size
      PROVE  PlaceOf(s, Append(r1, x), r2, m) = PlaceOf(s, r1, r2, n)
  <2>1. Distance(s.seq, n) \in Nat /\ Distance(s.seq, n) < SeqRange /\ s.seq \in SeqNo
    BY <1>1, <1>6, DistanceType, SeqRangeAssumption DEF Slot
  <2>2. Distance(s.seq, m) = Distance(s.seq, n) + 1
    BY <2>1, DistanceSuccessor
  <2>3. QED
    BY <1>1, <1>3, <2>1, <2>2 DEF PlaceOf
<1>7. PlaceOf(x, Append(r1, x), r2, m) = size + 1
  <2>1. Distance(x.seq, m) = 1
    BY DistanceSuccessor
  <2>2. QED
    BY <1>1, <1>3, <2>1 DEF PlaceOf
<1>8. /\ \A i \in DOMAIN r1 : r1[i] \in Slot /\ Distance(r1[i].seq, n) <= size
      /\ \A j \in DOMAIN r2 : r2[j] \in Slot /\ Distance(r2[j].seq, n) <= size
  BY <1>1, SlotsOfRing DEF InStep, Recent
<1>9. Placed(r1, r2, n)
  BY Places
<1>10. ASSUME NEW i \in DOMAIN Append(r1, x)
       PROVE  p[PlaceOf(Append(r1, x)[i], Append(r1, x), r2, m)] = Append(r1, x)[i].call
  <2>1. CASE i = Len(r1) + 1
    BY <1>3, <1>5, <1>7, <2>1
  <2>2. CASE i # Len(r1) + 1
    <3>1. i \in DOMAIN r1 /\ Append(r1, x)[i] = r1[i]
      BY <1>3, <1>10, <2>2
    <3>2. PlaceOf(r1[i], Append(r1, x), r2, m) = PlaceOf(r1[i], r1, r2, n)
      BY <1>6, <1>8, <3>1
    <3>3. PlaceOf(r1[i], r1, r2, n) \in 1..size /\ o[PlaceOf(r1[i], r1, r2, n)] = r1[i].call
      BY <1>1, <1>9, <3>1 DEF Placed, IsOrder
    <3>4. QED
      BY <1>5, <3>1, <3>2, <3>3
  <2>3. QED
    BY <2>1, <2>2
<1>11. ASSUME NEW j \in DOMAIN r2
       PROVE  p[PlaceOf(r2[j], Append(r1, x), r2, m)] = r2[j].call
  <2>1. PlaceOf(r2[j], Append(r1, x), r2, m) = PlaceOf(r2[j], r1, r2, n)
    BY <1>6, <1>8
  <2>2. PlaceOf(r2[j], r1, r2, n) \in 1..size /\ o[PlaceOf(r2[j], r1, r2, n)] = r2[j].call
    BY <1>1, <1>9 DEF Placed, IsOrder
  <2>3. QED
    BY <1>5, <2>1, <2>2
<1>12. QED
  BY <1>3, <1>4, <1>5, <1>10, <1>11 DEF IsOrder

(* The oldest packet is the first of the queue.                            *)
LEMMA TailOrder ==
    ASSUME NEW r1 \in Seq(Slot), NEW r2 \in Seq(Slot), NEW n \in SeqNo, InStep(r1, r2, n),
           r1 # <<>>, Distance(r1[1].seq, n) = Len(r1) + Len(r2),
           NEW o, IsOrder(o, r1, r2, n)
    PROVE  /\ IsOrder(Tail(o), Tail(r1), r2, n)
           /\ o # <<>> /\ Head(o) = r1[1].call
<1>1. /\ Len(r1) \in Nat \ {0} /\ Len(r2) \in Nat
      /\ Len(Tail(r1)) = Len(r1) - 1 /\ DOMAIN r1 = 1..Len(r1)
      /\ DOMAIN Tail(r1) = 1..(Len(r1) - 1)
      /\ \A i \in 1..(Len(r1) - 1) : Tail(r1)[i] = r1[i + 1]
  BY TailOfRing, LenProperties
<1>2. PICK size \in Nat \ {0} : size = Len(r1) + Len(r2)
  BY <1>1
<1>3. Len(Tail(r1)) + Len(r2) = size - 1
  BY <1>1, <1>2
<1>4. o \in Seq(Calls) /\ Len(o) = size
  BY <1>2 DEF IsOrder
<1>5. PICK p : p = Tail(o)
  OBVIOUS
<1>6. /\ p \in Seq(Calls) /\ Len(p) = size - 1
      /\ \A k \in 1..(size - 1) : p[k] = o[k + 1]
      /\ o # <<>> /\ Head(o) = o[1]
  BY <1>4, <1>5, HeadTailProperties, EmptySeq
<1>7. /\ Placed(r1, r2, n)
      /\ \A i \in DOMAIN r1 : o[PlaceOf(r1[i], r1, r2, n)] = r1[i].call
      /\ \A j \in DOMAIN r2 : o[PlaceOf(r2[j], r1, r2, n)] = r2[j].call
  BY Places DEF IsOrder
<1>8. PlaceOf(r1[1], r1, r2, n) = 1 /\ 1 \in DOMAIN r1
  BY <1>1, <1>2 DEF PlaceOf
<1>9. /\ \A i \in DOMAIN r1 : Distance(r1[i].seq, n) \in Nat
      /\ \A j \in DOMAIN r2 : Distance(r2[j].seq, n) \in Nat
  BY SlotsOfRing, DistanceType, SeqRangeAssumption
<1>10. ASSUME NEW i \in DOMAIN Tail(r1)
       PROVE  p[PlaceOf(Tail(r1)[i], Tail(r1), r2, n)] = Tail(r1)[i].call
  <2>1. i + 1 \in DOMAIN r1 /\ Tail(r1)[i] = r1[i + 1] /\ 1 < i + 1
    BY <1>1, <1>10
  <2>2. PICK h \in DOMAIN r1 : h = i + 1
    BY <2>1
  <2>3. PICK q \in 1..size : q = PlaceOf(r1[h], r1, r2, n)
    BY <1>2, <1>7 DEF Placed
  <2>4. q > 1 /\ o[q] = r1[h].call
    BY <1>7, <1>8, <2>1, <2>2, <2>3 DEF Placed
  <2>5. PlaceOf(r1[h], Tail(r1), r2, n) = q - 1
    BY <1>2, <1>3, <1>9, <2>3 DEF PlaceOf
  <2>6. q - 1 \in 1..(size - 1) /\ q - 1 + 1 = q
    BY <2>3, <2>4
  <2>7. QED
    BY <1>6, <2>1, <2>2, <2>4, <2>5, <2>6
<1>11. ASSUME NEW j \in DOMAIN r2
       PROVE  p[PlaceOf(r2[j], Tail(r1), r2, n)] = r2[j].call
  <2>3. PICK q \in 1..size : q = PlaceOf(r2[j], r1, r2, n)
    BY <1>2, <1>7 DEF Placed
  <2>4. q # 1 /\ o[q] = r2[j].call
    BY <1>7, <1>8, <2>3 DEF Placed
  <2>5. PlaceOf(r2[j], Tail(r1), r2, n) = q - 1
    BY <1>2, <1>3, <1>9, <2>3 DEF PlaceOf
  <2>6. q - 1 \in 1..(size - 1) /\ q - 1 + 1 = q
    BY <2>3, <2>4
  <2>7. QED
    BY <1>6, <2>4, <2>5, <2>6
<1>12. o[1] = r1[1].call
  BY <1>7, <1>8
<1>13. QED
  BY <1>3, <1>5, <1>6, <1>10, <1>11, <1>12 DEF IsOrder

(* A value that is replaced stays at its place in the queue.               *)
LEMMA OverwriteOrder ==
    ASSUME NEW r1 \in Seq(Slot), NEW r2 \in Seq(Slot), NEW n \in SeqNo, InStep(r1, r2, n),
           NEW i \in DOMAIN r1, NEW call \in Calls,
           NEW o, IsOrder(o, r1, r2, n), NEW k, k = PlaceOf(r1[i], r1, r2, n)
    PROVE  /\ IsOrder([o EXCEPT ![k] = call], [r1 EXCEPT ![i].call = call], r2, n)
           /\ k \in DOMAIN o /\ o[k] = r1[i].call
<1>1. PICK new : new = [r1 EXCEPT ![i].call = call]
  OBVIOUS
<1>2. /\ Len(new) = Len(r1) /\ DOMAIN new = DOMAIN r1
      /\ \A j \in DOMAIN r1 : new[j].seq = r1[j].seq
      /\ \A j \in DOMAIN r1 \ {i} : new[j] = r1[j]
      /\ new[i].call = call
  BY <1>1, OverwriteInRing
<1>3. PICK size \in Nat : size = Len(r1) + Len(r2)
  BY LenProperties
<1>4. /\ o \in Seq(Calls) /\ Len(o) = size /\ DOMAIN o = 1..size
      /\ \A h \in DOMAIN r1 : o[PlaceOf(r1[h], r1, r2, n)] = r1[h].call
      /\ \A j \in DOMAIN r2 : o[PlaceOf(r2[j], r1, r2, n)] = r2[j].call
  BY <1>3, LenProperties DEF IsOrder
<1>5. Placed(r1, r2, n)
  BY Places
<1>6. k \in 1..size /\ o[k] = r1[i].call
  BY <1>3, <1>4, <1>5 DEF Placed
<1>7. PICK p : p = [o EXCEPT ![k] = call]
  OBVIOUS
<1>8. /\ p \in Seq(Calls) /\ Len(p) = size /\ p[k] = call
      /\ \A q \in 1..size : q # k => p[q] = o[q]
  BY <1>4, <1>6, <1>7, ExceptSeq
<1>9. /\ \A h \in DOMAIN r1 : PlaceOf(new[h], new, r2, n) = PlaceOf(r1[h], r1, r2, n)
      /\ \A j \in DOMAIN r2 : PlaceOf(r2[j], new, r2, n) = PlaceOf(r2[j], r1, r2, n)
  BY <1>2 DEF PlaceOf
<1>10. /\ \A h \in DOMAIN r1 : h # i => PlaceOf(r1[h], r1, r2, n) # k
       /\ \A j \in DOMAIN r2 : PlaceOf(r2[j], r1, r2, n) # k
  <2>1. \A h \in DOMAIN r1 : h \in Int /\ PlaceOf(r1[h], r1, r2, n) \in 1..size
    BY <1>3, <1>5, LenProperties DEF Placed
  <2>2. QED
    BY <1>5, <2>1 DEF Placed
<1>11. ASSUME NEW h \in DOMAIN r1
       PROVE  p[PlaceOf(new[h], new, r2, n)] = new[h].call
  <2>1. CASE h = i
    BY <1>2, <1>8, <1>9, <2>1
  <2>2. CASE h # i
    <3>1. PlaceOf(r1[h], r1, r2, n) \in 1..size /\ PlaceOf(r1[h], r1, r2, n) # k
      BY <1>3, <1>5, <1>10, <2>2 DEF Placed
    <3>2. QED
      BY <1>2, <1>4, <1>8, <1>9, <2>2, <3>1
  <2>3. QED
    BY <2>1, <2>2
<1>12. ASSUME NEW j \in DOMAIN r2
       PROVE  p[PlaceOf(r2[j], new, r2, n)] = r2[j].call
  <2>1. PlaceOf(r2[j], r1, r2, n) \in 1..size /\ PlaceOf(r2[j], r1, r2, n) # k
    BY <1>3, <1>5, <1>10 DEF Placed
  <2>2. QED
    BY <1>4, <1>8, <1>9, <2>1
<1>13. IsOrder(p, new, r2, n)
  BY <1>2, <1>3, <1>8, <1>11, <1>12 DEF IsOrder
<1>14. QED
  BY <1>1, <1>4, <1>6, <1>7, <1>13

(* A ring has as many places as slots.                                     *)
LEMMA PlacesCount ==
    ASSUME NEW r1 \in Seq(Slot), NEW r2 \in Seq(Slot), NEW n \in SeqNo, InStep(r1, r2, n)
    PROVE  /\ Cardinality({PlaceOf(r1[i], r1, r2, n) : i \in DOMAIN r1}) = Len(r1)
           /\ Cardinality({PlaceOf(r2[j], r1, r2, n) : j \in DOMAIN r2}) = Len(r2)
<1>1. Placed(r1, r2, n) /\ Len(r1) + Len(r2) \in Nat
  BY Places, LenProperties
<1>2. ASSUME NEW r \in Seq(Slot),
             \A i \in DOMAIN r : PlaceOf(r[i], r1, r2, n) \in 1..(Len(r1) + Len(r2)),
             \A i, j \in DOMAIN r : i < j => PlaceOf(r[i], r1, r2, n) < PlaceOf(r[j], r1, r2, n)
      PROVE  Cardinality({PlaceOf(r[i], r1, r2, n) : i \in DOMAIN r}) = Len(r)
  <2>1. DOMAIN r = 1..Len(r) /\ Len(r) \in Nat
    BY LenProperties
  <2>2. IsFiniteSet(DOMAIN r) /\ Cardinality(DOMAIN r) = Len(r)
    BY <2>1, UpTo
  <2>3. PICK f \in [DOMAIN r -> Nat] : \A i \in DOMAIN r : f[i] = PlaceOf(r[i], r1, r2, n)
    <3>1. [i \in DOMAIN r |-> PlaceOf(r[i], r1, r2, n)] \in [DOMAIN r -> Nat]
      BY <1>2
    <3>2. QED
      BY <3>1
  <2>4. \A i, j \in DOMAIN r : f[i] = f[j] => i = j
    <3>1. \A i \in DOMAIN r : i \in Int /\ f[i] \in Nat
      BY <2>1
    <3>2. QED
      BY <1>2, <2>3, <3>1
  <2>5. PICK S : S = DOMAIN r
    OBVIOUS
  <2>6. PICK T : T = {PlaceOf(r[i], r1, r2, n) : i \in DOMAIN r}
    OBVIOUS
  <2>7. \A q : q \in T <=> \E i \in S : f[i] = q
    BY <2>3, <2>5, <2>6
  <2>8. Cardinality(T) = Cardinality(S)
    BY <2>2, <2>4, <2>5, <2>7, SameCount
  <2>9. QED
    BY <2>2, <2>5, <2>6, <2>8
<1>3. QED
  BY <1>1, <1>2 DEF Placed

(* Short messages wait in the one ring, frames in the other.               *)
Sorted ==
    /\ \A i \in DOMAIN shorts : IsShort(shorts[i].call.data)
    /\ \A j \in DOMAIN frames : ~IsShort(frames[j].call.data)

(* A step never puts a packet in the wrong ring.                           *)
LEMMA SortedStep ==
    ASSUME TypeOK, Sorted, [Next]_vars
    PROVE  Sorted'
<1> USE DEF TypeOK
<1>1. ASSUME NEW call \in Calls, PushShort(call) PROVE Sorted'
  <2>1. frames' = frames /\ IsShort(call.data)
    BY <1>1 DEF PushShort, ReplaceShort, QueueShort, Refuse
  <2>2. CASE ReplaceShort(call)
    <3>1. PICK i \in DOMAIN shorts : shorts' = [shorts EXCEPT ![i].call = call]
      BY <2>2 DEF ReplaceShort, Replaceable
    <3>2. /\ DOMAIN shorts' = DOMAIN shorts /\ shorts'[i].call = call
          /\ \A j \in DOMAIN shorts \ {i} : shorts'[j] = shorts[j]
      BY <3>1, OverwriteInRing
    <3>3. QED
      BY <2>1, <3>2 DEF Sorted
  <2>3. CASE QueueShort(call)
    <3>1. shorts' = Append(shorts, NewSlot(call)) /\ NewSlot(call) \in Slot /\ NewSlot(call).call = call
      BY <2>3 DEF QueueShort, NewSlot, Slot
    <3>2. /\ DOMAIN shorts' = 1..(Len(shorts) + 1) /\ DOMAIN shorts = 1..Len(shorts)
          /\ \A i \in 1..Len(shorts) : shorts'[i] = shorts[i]
          /\ shorts'[Len(shorts) + 1] = NewSlot(call) /\ Len(shorts) \in Nat
      BY <3>1, AppendToRing, LenProperties
    <3>3. ASSUME NEW i \in DOMAIN shorts' PROVE IsShort(shorts'[i].call.data)
      <4>1. CASE i = Len(shorts) + 1
        BY <2>1, <3>1, <3>2, <4>1
      <4>2. CASE i # Len(shorts) + 1
        <5>1. i \in DOMAIN shorts
          BY <3>2, <3>3, <4>2
        <5>2. QED
          BY <3>2, <5>1 DEF Sorted
      <4>3. QED
        BY <4>1, <4>2
    <3>4. QED
      BY <2>1, <3>3 DEF Sorted
  <2>4. CASE Refuse("Full")
    BY <2>4 DEF Refuse, Sorted
  <2>5. QED
    BY <1>1, <2>2, <2>3, <2>4 DEF PushShort
<1>2. ASSUME NEW call \in Calls, PushFrame(call) PROVE Sorted'
  <2>1. shorts' = shorts /\ ~IsShort(call.data)
    <3>1. Len(call.data) \in 4..FrameBytes /\ shorts' = shorts
      BY <1>2 DEF PushFrame, Refuse
    <3>2. Len(call.data) \notin 1..3
      <4>1. \A n : n \in 4..FrameBytes => n \notin 1..3
        BY SlotsAssumption
      <4>2. QED
        BY <3>1, <4>1, Zenon
    <3>3. QED
      BY <3>1, <3>2 DEF IsShort
  <2>2. CASE frames' = Append(frames, NewSlot(call))
    <3>1. NewSlot(call) \in Slot /\ NewSlot(call).call = call
      BY DEF NewSlot, Slot
    <3>2. /\ DOMAIN frames' = 1..(Len(frames) + 1) /\ DOMAIN frames = 1..Len(frames)
          /\ \A i \in 1..Len(frames) : frames'[i] = frames[i]
          /\ frames'[Len(frames) + 1] = NewSlot(call) /\ Len(frames) \in Nat
      BY <2>2, <3>1, AppendToRing, LenProperties
    <3>3. ASSUME NEW i \in DOMAIN frames' PROVE ~IsShort(frames'[i].call.data)
      <4>1. CASE i = Len(frames) + 1
        BY <2>1, <3>1, <3>2, <4>1
      <4>2. CASE i # Len(frames) + 1
        <5>1. i \in DOMAIN frames
          BY <3>2, <3>3, <4>2
        <5>2. QED
          BY <3>2, <5>1 DEF Sorted
      <4>3. QED
        BY <4>1, <4>2
    <3>4. QED
      BY <2>1, <3>3 DEF Sorted
  <2>3. CASE Refuse("Full")
    BY <2>3 DEF Refuse, Sorted
  <2>4. QED
    BY <1>2, <2>2, <2>3 DEF PushFrame
<1>3. CASE PopShort
  <2>1. /\ DOMAIN shorts' = 1..(Len(shorts) - 1) /\ DOMAIN shorts = 1..Len(shorts)
        /\ \A i \in 1..(Len(shorts) - 1) : shorts'[i] = shorts[i + 1]
        /\ Len(shorts) \in Nat /\ frames' = frames
    BY <1>3, TailOfRing DEF PopShort, TakeShort
  <2>2. \A i \in 1..(Len(shorts) - 1) : i + 1 \in 1..Len(shorts)
    BY <2>1
  <2>3. QED
    BY <2>1, <2>2 DEF Sorted
<1>4. CASE PopFrame
  <2>1. /\ DOMAIN frames' = 1..(Len(frames) - 1) /\ DOMAIN frames = 1..Len(frames)
        /\ \A i \in 1..(Len(frames) - 1) : frames'[i] = frames[i + 1]
        /\ Len(frames) \in Nat /\ shorts' = shorts
    BY <1>4, TailOfRing DEF PopFrame
  <2>2. \A i \in 1..(Len(frames) - 1) : i + 1 \in 1..Len(frames)
    BY <2>1
  <2>3. QED
    BY <2>1, <2>2 DEF Sorted
<1>5. CASE Clear
  BY <1>5 DEF Clear, Sorted
<1>6. CASE PopEmpty \/ UNCHANGED vars \/ \E call \in Calls : PushInvalid(call)
  BY <1>6 DEF PopEmpty, PushInvalid, Refuse, vars, Sorted
<1>7. QED
  BY <1>1, <1>2, <1>3, <1>4, <1>5, <1>6 DEF Next, Push, Pop

(* What holds before each step.                                            *)
Queued == TypeOK /\ Contiguous /\ Sorted

(* The queue of the refinement is the order of the rings.                  *)
LEMMA QueueIsOrdered ==
    ASSUME Queued
    PROVE  /\ InStep(shorts, frames, nextSeq)
           /\ IsOrder(InQueueOrder, shorts, frames, nextSeq)
<1>1. InStep(shorts, frames, nextSeq)
  BY ContiguousIsInStep DEF Queued
<1>2. shorts \in Seq(Slot) /\ frames \in Seq(Slot) /\ nextSeq \in SeqNo
  BY DEF Queued, TypeOK
<1>3. QED
  BY <1>1, <1>2, MergedIsOrder, QueueOrderIsMerged

(* The queue after a step, when it is known to be an order of the rings.   *)
LEMMA QueueIsThen ==
    ASSUME Queued', NEW o, IsOrder(o, shorts', frames', nextSeq')
    PROVE  InQueueOrder' = o
<1>1. InStep(shorts', frames', nextSeq')
  BY ContiguousIsInStep DEF Queued
<1>2. shorts' \in Seq(Slot) /\ frames' \in Seq(Slot) /\ nextSeq' \in SeqNo
  BY DEF Queued, TypeOK
<1>3. IsOrder(InQueueOrder', shorts', frames', nextSeq')
  BY <1>1, <1>2, MergedIsOrder, QueueOrderIsMerged
<1>4. QED
  BY <1>1, <1>2, <1>3, OrderUnique

(* SendFifo classifies packets as SendQueue does.                          *)
LEMMA SamePriorities ==
    /\ \A d : Fifo!Classify(d) = Classify(d)
    /\ \A d : Fifo!IsShort(d) <=> IsShort(d)
    /\ \A a, b : Fifo!Replaces(a, b) <=> Replaces(a, b)
BY DEF Fifo!Classify, Classify, Fifo!IsShort, IsShort, Fifo!Replaces, Replaces,
       Fifo!Silences, Silences, Fifo!IsStream, IsStream, Fifo!StatusKind, StatusKind,
       Fifo!NoteOff, NoteOff, Fifo!NoteOn, NoteOn, Fifo!PolyAftertouch, PolyAftertouch,
       Fifo!ControlChange, ControlChange, Fifo!ChannelAftertouch, ChannelAftertouch,
       Fifo!PitchBend, PitchBend, Fifo!Clock, Clock, Fifo!Stop, Stop,
       Fifo!ActiveSensing, ActiveSensing, Fifo!Reset, Reset,
       Fifo!IsOrderedController, IsOrderedController, Fifo!IsSwitchController, IsSwitchController

(* The two modules count alike.                                            *)
LEMMA SameCardinality == \A S : Fifo!Cardinality(S) = Cardinality(S)
BY DEF Fifo!Cardinality, Cardinality

(* As many short messages and frames wait in it as in the rings.           *)
LEMMA SameCounts ==
    ASSUME Queued
    PROVE  Fifo!ShortsWaiting = Len(shorts) /\ Fifo!FramesWaiting = Len(frames)
<1>1. PICK o : o = InQueueOrder
  OBVIOUS
<1>2. InStep(shorts, frames, nextSeq) /\ IsOrder(o, shorts, frames, nextSeq)
  BY <1>1, QueueIsOrdered
<1>3. shorts \in Seq(Slot) /\ frames \in Seq(Slot) /\ nextSeq \in SeqNo
  BY DEF Queued, TypeOK
<1>4. Placed(shorts, frames, nextSeq)
  BY <1>2, <1>3, Places
<1>5. DOMAIN o = 1..(Len(shorts) + Len(frames))
  BY <1>2 DEF IsOrder
<1>6. /\ \A k \in DOMAIN o : IsShort(o[k].data) <=> \E i \in DOMAIN shorts : PlaceOf(shorts[i], shorts, frames, nextSeq) = k
      /\ \A k \in DOMAIN o : ~IsShort(o[k].data) <=> \E j \in DOMAIN frames : PlaceOf(frames[j], shorts, frames, nextSeq) = k
  <2>1. /\ \A i \in DOMAIN shorts : IsShort(o[PlaceOf(shorts[i], shorts, frames, nextSeq)].data)
        /\ \A j \in DOMAIN frames : ~IsShort(o[PlaceOf(frames[j], shorts, frames, nextSeq)].data)
    BY <1>2 DEF IsOrder, Queued, Sorted
  <2>2. \A k \in DOMAIN o : \/ \E i \in DOMAIN shorts : PlaceOf(shorts[i], shorts, frames, nextSeq) = k
                            \/ \E j \in DOMAIN frames : PlaceOf(frames[j], shorts, frames, nextSeq) = k
    BY <1>4, <1>5 DEF Placed
  <2>3. QED
    BY <2>1, <2>2
<1>7. /\ {k \in DOMAIN o : IsShort(o[k].data)}
           = {PlaceOf(shorts[i], shorts, frames, nextSeq) : i \in DOMAIN shorts}
      /\ {k \in DOMAIN o : ~IsShort(o[k].data)}
           = {PlaceOf(frames[j], shorts, frames, nextSeq) : j \in DOMAIN frames}
  <2>1. /\ \A i \in DOMAIN shorts : PlaceOf(shorts[i], shorts, frames, nextSeq) \in DOMAIN o
        /\ \A j \in DOMAIN frames : PlaceOf(frames[j], shorts, frames, nextSeq) \in DOMAIN o
    BY <1>4, <1>5 DEF Placed
  <2>2. QED
    BY <1>6, <2>1
<1>8. /\ Cardinality({k \in DOMAIN o : IsShort(o[k].data)}) = Len(shorts)
      /\ Cardinality({k \in DOMAIN o : ~IsShort(o[k].data)}) = Len(frames)
  <2>1. /\ Cardinality({PlaceOf(shorts[i], shorts, frames, nextSeq) : i \in DOMAIN shorts}) = Len(shorts)
        /\ Cardinality({PlaceOf(frames[j], shorts, frames, nextSeq) : j \in DOMAIN frames}) = Len(frames)
    BY <1>2, <1>3, PlacesCount
  <2>2. QED
    BY <1>7, <2>1, Zenon
<1>9. /\ Fifo!ShortsWaiting = Cardinality({k \in DOMAIN o : Fifo!IsShort(o[k].data)})
      /\ Fifo!FramesWaiting = Cardinality({k \in DOMAIN o : ~Fifo!IsShort(o[k].data)})
  BY <1>1, SameCardinality DEF Fifo!ShortsWaiting, Fifo!FramesWaiting
<1>10. /\ {k \in DOMAIN o : Fifo!IsShort(o[k].data)} = {k \in DOMAIN o : IsShort(o[k].data)}
       /\ {k \in DOMAIN o : ~Fifo!IsShort(o[k].data)} = {k \in DOMAIN o : ~IsShort(o[k].data)}
  BY SamePriorities
<1>11. QED
  BY <1>8, <1>9, <1>10, Zenon

(* A value finds the same one waiting in the ring and in the one queue.    *)
LEMMA SameSuperseded ==
    ASSUME Queued, NEW call \in Calls, IsShort(call.data)
    PROVE  /\ \A i \in DOMAIN shorts :
                 i \in Replaceable(call) =>
                   PlaceOf(shorts[i], shorts, frames, nextSeq) \in Fifo!Superseded(call)
           /\ Replaceable(call) = {} => Fifo!Superseded(call) = {}
<1>1. PICK o : o = InQueueOrder
  OBVIOUS
<1>2. InStep(shorts, frames, nextSeq) /\ IsOrder(o, shorts, frames, nextSeq)
  BY <1>1, QueueIsOrdered
<1>3. shorts \in Seq(Slot) /\ frames \in Seq(Slot) /\ nextSeq \in SeqNo
  BY DEF Queued, TypeOK
<1>4. Placed(shorts, frames, nextSeq)
  BY <1>2, <1>3, Places
<1>5. DOMAIN o = 1..(Len(shorts) + Len(frames))
  BY <1>2 DEF IsOrder
<1>6. \A k : k \in Fifo!Superseded(call) <=>
               /\ k \in DOMAIN o /\ Classify(call.data) = "Low"
               /\ o[k].mac = call.mac /\ o[k].flags = call.flags /\ Replaces(call.data, o[k].data)
  BY <1>1, SamePriorities DEF Fifo!Superseded
<1>7. ASSUME NEW i \in DOMAIN shorts, i \in Replaceable(call)
      PROVE  PlaceOf(shorts[i], shorts, frames, nextSeq) \in Fifo!Superseded(call)
  <2>1. PICK k : k = PlaceOf(shorts[i], shorts, frames, nextSeq)
    OBVIOUS
  <2>2. k \in DOMAIN o /\ o[k] = shorts[i].call
    BY <1>2, <1>4, <1>5, <2>1 DEF Placed, IsOrder
  <2>3. /\ Classify(call.data) = "Low" /\ shorts[i].call.mac = call.mac
        /\ shorts[i].call.flags = call.flags /\ Replaces(call.data, shorts[i].call.data)
    BY <1>7 DEF Replaceable, SameTarget
  <2>4. QED
    BY <1>6, <2>1, <2>2, <2>3
<1>8. ASSUME NEW k \in Fifo!Superseded(call) PROVE Replaceable(call) # {}
  <2>1. /\ k \in DOMAIN o /\ Classify(call.data) = "Low"
        /\ o[k].mac = call.mac /\ o[k].flags = call.flags /\ Replaces(call.data, o[k].data)
    BY <1>6, <1>8
  <2>2. CASE \E i \in DOMAIN shorts : PlaceOf(shorts[i], shorts, frames, nextSeq) = k
    <3>1. PICK i \in DOMAIN shorts : PlaceOf(shorts[i], shorts, frames, nextSeq) = k
      BY <2>2
    <3>2. o[k] = shorts[i].call
      BY <1>2, <3>1 DEF IsOrder
    <3>3. QED
      BY <2>1, <3>2 DEF Replaceable, SameTarget
  <2>3. CASE \E j \in DOMAIN frames : PlaceOf(frames[j], shorts, frames, nextSeq) = k
    <3>1. PICK j \in DOMAIN frames : PlaceOf(frames[j], shorts, frames, nextSeq) = k
      BY <2>3
    <3>2. o[k] = frames[j].call /\ frames[j].call \in Calls
      BY <1>2, <1>3, <3>1, SlotsOfRing DEF IsOrder
    <3>3. IsShort(o[k].data)
      BY <2>1, <3>2, CallsAssumption, ReplacesIsLow
    <3>4. ~IsShort(frames[j].call.data)
      BY DEF Queued, Sorted
    <3>5. QED
      BY <3>2, <3>3, <3>4
  <2>4. QED
    BY <1>4, <1>5, <2>1, <2>2, <2>3 DEF Placed
<1>9. QED
  BY <1>7, <1>8

(* A longer packet supersedes nothing.                                     *)
LEMMA LongSupersedesNothing ==
    ASSUME NEW call, ~IsShort(call.data)
    PROVE  Fifo!Superseded(call) = {}
BY SamePriorities DEF Fifo!Superseded, Classify

(* A value that replaces another in the ring replaces it in the queue.     *)
LEMMA SimulateReplace ==
    ASSUME Queued, Queued', NEW call \in Calls, IsShort(call.data), ReplaceShort(call)
    PROVE  Fifo!Supersede(call)
<1>1. InStep(shorts, frames, nextSeq) /\ IsOrder(InQueueOrder, shorts, frames, nextSeq)
  BY QueueIsOrdered
<1>2. shorts \in Seq(Slot) /\ frames \in Seq(Slot) /\ nextSeq \in SeqNo
  BY DEF Queued, TypeOK
<1>3. PICK i \in DOMAIN shorts : i \in Replaceable(call) /\ shorts' = [shorts EXCEPT ![i].call = call]
  BY DEF ReplaceShort, Replaceable
<1>4. PICK k : k = PlaceOf(shorts[i], shorts, frames, nextSeq)
  OBVIOUS
<1>5. IsOrder([InQueueOrder EXCEPT ![k] = call], shorts', frames, nextSeq)
  BY <1>1, <1>2, <1>3, <1>4, OverwriteOrder
<1>6. ret' = [result |-> "Replaced"] /\ frames' = frames /\ nextSeq' = nextSeq
  BY DEF ReplaceShort
<1>7. InQueueOrder' = [InQueueOrder EXCEPT ![k] = call]
  BY <1>5, <1>6, QueueIsThen
<1>8. k \in Fifo!Superseded(call)
  BY <1>3, <1>4, SameSuperseded
<1>9. QED
  BY <1>6, <1>7, <1>8 DEF Fifo!Supersede

(* What joins either ring joins the end of the one queue.                  *)
LEMMA SimulateAppend ==
    ASSUME Queued, Queued', NEW call \in Calls, IssueSeq,
           \/ shorts' = Append(shorts, NewSlot(call)) /\ frames' = frames
           \/ frames' = Append(frames, NewSlot(call)) /\ shorts' = shorts
    PROVE  InQueueOrder' = Append(InQueueOrder, call)
<1>1. InStep(shorts, frames, nextSeq) /\ IsOrder(InQueueOrder, shorts, frames, nextSeq)
  BY QueueIsOrdered
<1>2. /\ shorts \in Seq(Slot) /\ frames \in Seq(Slot) /\ nextSeq \in SeqNo
      /\ shorts' \in Seq(Slot) /\ frames' \in Seq(Slot)
  BY DEF Queued, TypeOK
<1>3. PICK x \in Slot : x = NewSlot(call) /\ x.seq = nextSeq /\ x.call = call
  BY <1>2 DEF NewSlot, Slot
<1>4. PICK m : m = (nextSeq + 1) % SeqRange /\ nextSeq' = m
  BY DEF IssueSeq
<1>5. Len(shorts) + Len(frames) < SeqRange /\ Len(frames) + Len(shorts) < SeqRange
  <2>1. TypeOK /\ Len(shorts) + Len(frames) = Len(frames) + Len(shorts)
    BY <1>2, LenProperties DEF Queued
  <2>2. QED
    BY <2>1, RingsAreBounded
<1>6. CASE shorts' = Append(shorts, NewSlot(call)) /\ frames' = frames
  <2>1. IsOrder(Append(InQueueOrder, x.call), Append(shorts, x), frames, m)
    BY <1>1, <1>2, <1>3, <1>4, <1>5, AppendOrder
  <2>2. QED
    BY <1>3, <1>4, <1>6, <2>1, QueueIsThen
<1>7. CASE frames' = Append(frames, NewSlot(call)) /\ shorts' = shorts
  <2>1. InStep(frames, shorts, nextSeq) /\ IsOrder(InQueueOrder, frames, shorts, nextSeq)
    BY <1>1, <1>2, InStepSymmetric, OrderSymmetric
  <2>2. IsOrder(Append(InQueueOrder, x.call), Append(frames, x), shorts, m)
    BY <1>2, <1>3, <1>4, <1>5, <2>1, AppendOrder
  <2>3. IsOrder(Append(InQueueOrder, call), frames', shorts', nextSeq')
    BY <1>3, <1>4, <1>7, <2>2
  <2>4. IsOrder(Append(InQueueOrder, call), shorts', frames', nextSeq')
    BY <1>2, <2>3, OrderSymmetric
  <2>5. QED
    BY <2>4, QueueIsThen
<1>8. QED
  BY <1>6, <1>7

(* push() is one of the three answers of SendFifo.                         *)
LEMMA SimulatePush ==
    ASSUME Queued, Queued', NEW call \in Calls, Push(call)
    PROVE  Fifo!Supersede(call) \/ Fifo!Accept(call) \/ Fifo!Reject(call)
<1>1. /\ Fifo!ShortsWaiting = Len(shorts) /\ Fifo!FramesWaiting = Len(frames)
      /\ Len(shorts) \in Nat /\ Len(frames) \in Nat
  BY SameCounts, LenProperties DEF Queued, TypeOK
<1>2. /\ Fifo!IsShort(call.data) <=> IsShort(call.data)
      /\ Fifo!Allowance(call.data) = Limit(Classify(call.data))
      /\ Limit(Classify(call.data)) \in Nat
  <2>1. Classify(call.data) \in Priorities
    BY ClassifyType
  <2>2. Limit(Classify(call.data)) \in Nat
    BY <2>1, LimitBounds, SlotsAssumption
  <2>3. Fifo!Allowance(call.data) = Limit(Classify(call.data))
    BY <2>1, SamePriorities DEF Fifo!Allowance, Limit
  <2>4. QED
    BY <2>2, <2>3, SamePriorities
<1>3. CASE PushShort(call)
  <2>1. IsShort(call.data) /\ Fifo!Valid(call.data)
    BY <1>3 DEF PushShort, Fifo!Valid, IsShort
  <2>2. CASE ReplaceShort(call)
    BY <2>1, <2>2, SimulateReplace
  <2>3. ASSUME Replaceable(call) = {}, QueueShort(call) PROVE Fifo!Accept(call)
    <3>1. InQueueOrder' = Append(InQueueOrder, call)
      BY <2>3, SimulateAppend DEF QueueShort
    <3>2. Fifo!Admits(call.data)
      BY <1>1, <1>2, <2>1, <2>3 DEF Fifo!Admits, QueueShort
    <3>3. Fifo!Superseded(call) = {}
      BY <2>1, <2>3, SameSuperseded
    <3>4. ret' = [result |-> "Queued"]
      BY <2>3 DEF QueueShort
    <3>5. QED
      BY <2>1, <3>1, <3>2, <3>3, <3>4 DEF Fifo!Accept
  <2>4. ASSUME Replaceable(call) = {}, Len(shorts) >= Limit(Classify(call.data)), Refuse("Full")
        PROVE  Fifo!Reject(call)
    <3>1. ret' = [result |-> "Full"]
      BY <2>4 DEF Refuse
    <3>2. ~Fifo!Admits(call.data)
      BY <1>1, <1>2, <2>1, <2>4 DEF Fifo!Admits
    <3>3. Fifo!Superseded(call) = {}
      BY <2>1, <2>4, SameSuperseded
    <3>4. InQueueOrder' = InQueueOrder
      BY <2>4, QueueOrderIsMerged DEF Refuse
    <3>5. QED
      BY <2>1, <3>1, <3>2, <3>3, <3>4 DEF Fifo!Reject
  <2>5. QED
    BY <1>3, <2>2, <2>3, <2>4 DEF PushShort
<1>4. CASE PushFrame(call)
  <2>1. ~IsShort(call.data) /\ Fifo!Valid(call.data)
    <3>1. Len(call.data) \in 4..FrameBytes
      BY <1>4 DEF PushFrame
    <3>2. \A n : n \in 4..FrameBytes => n \notin 1..3
      BY SlotsAssumption
    <3>3. QED
      BY <3>1, <3>2, Zenon DEF IsShort, Fifo!Valid
  <2>2. Fifo!Superseded(call) = {}
    BY <2>1, LongSupersedesNothing
  <2>3. ASSUME Len(frames) < FrameSlots, frames' = Append(frames, NewSlot(call)), IssueSeq,
               ret' = [result |-> "Queued"], shorts' = shorts
        PROVE  Fifo!Accept(call)
    <3>1. InQueueOrder' = Append(InQueueOrder, call)
      BY <2>3, SimulateAppend
    <3>2. Fifo!Admits(call.data)
      BY <1>1, <1>2, <2>1, <2>3 DEF Fifo!Admits
    <3>3. QED
      BY <2>1, <2>2, <2>3, <3>1, <3>2 DEF Fifo!Accept
  <2>4. ASSUME Len(frames) >= FrameSlots, Refuse("Full")
        PROVE  Fifo!Reject(call)
    <3>1. ret' = [result |-> "Full"]
      BY <2>4 DEF Refuse
    <3>2. ~Fifo!Admits(call.data)
      BY <1>1, <1>2, <2>1, <2>4, SlotsAssumption DEF Fifo!Admits
    <3>3. InQueueOrder' = InQueueOrder
      BY <2>4, QueueOrderIsMerged DEF Refuse
    <3>4. QED
      BY <2>1, <2>2, <3>1, <3>2, <3>3 DEF Fifo!Reject
  <2>5. QED
    BY <1>4, <2>3, <2>4 DEF PushFrame
<1>5. CASE PushInvalid(call)
  <2>1. Len(call.data) \in Nat
    BY CallsAssumption, LenProperties DEF Packet
  <2>2. ~IsShort(call.data) /\ ~Fifo!Valid(call.data)
    BY <1>5, <2>1, SlotsAssumption DEF PushInvalid, IsShort, Fifo!Valid
  <2>3. Fifo!Superseded(call) = {}
    BY <2>2, LongSupersedesNothing
  <2>4. ret' = [result |-> "TooLong"]
    BY <1>5 DEF PushInvalid, Refuse
  <2>5. InQueueOrder' = InQueueOrder
    BY <1>5, QueueOrderIsMerged DEF PushInvalid, Refuse
  <2>6. QED
    BY <2>2, <2>3, <2>4, <2>5 DEF Fifo!Reject
<1>6. QED
  BY <1>3, <1>4, <1>5 DEF Push

(* pop() takes the first of the queue, or finds it empty.                  *)
LEMMA SimulatePop ==
    ASSUME Queued, Queued', Pop
    PROVE  Fifo!Take
<1>1. InStep(shorts, frames, nextSeq) /\ IsOrder(InQueueOrder, shorts, frames, nextSeq)
  BY QueueIsOrdered
<1>2. shorts \in Seq(Slot) /\ frames \in Seq(Slot) /\ nextSeq \in SeqNo
  BY DEF Queued, TypeOK
<1>3. CASE PopShort
  <2>1. shorts # <<>> /\ Distance(shorts[1].seq, nextSeq) = Len(shorts) + Len(frames)
    BY <1>3, PopTakesOldest DEF Queued
  <2>2. /\ IsOrder(Tail(InQueueOrder), Tail(shorts), frames, nextSeq)
        /\ InQueueOrder # <<>> /\ Head(InQueueOrder) = shorts[1].call
    BY <1>1, <1>2, <2>1, TailOrder
  <2>3. ret' = Taken(shorts[1].call) /\ shorts' = Tail(shorts) /\ frames' = frames /\ nextSeq' = nextSeq
    BY <1>3 DEF PopShort
  <2>4. InQueueOrder' = Tail(InQueueOrder)
    BY <2>2, <2>3, QueueIsThen
  <2>5. QED
    BY <2>2, <2>3, <2>4 DEF Fifo!Take, Taken
<1>4. CASE PopFrame
  <2>1. frames # <<>> /\ Distance(frames[1].seq, nextSeq) = Len(frames) + Len(shorts)
    BY <1>4, PopTakesOldest DEF Queued
  <2>2. InStep(frames, shorts, nextSeq) /\ IsOrder(InQueueOrder, frames, shorts, nextSeq)
    BY <1>1, <1>2, InStepSymmetric, OrderSymmetric
  <2>3. /\ IsOrder(Tail(InQueueOrder), Tail(frames), shorts, nextSeq)
        /\ InQueueOrder # <<>> /\ Head(InQueueOrder) = frames[1].call
    BY <1>2, <2>1, <2>2, TailOrder
  <2>4. ret' = Taken(frames[1].call) /\ frames' = Tail(frames) /\ shorts' = shorts /\ nextSeq' = nextSeq
    BY <1>4 DEF PopFrame
  <2>5. Tail(frames) \in Seq(Slot)
    BY <1>2, <2>1, TailOfRing
  <2>6. IsOrder(Tail(InQueueOrder), shorts', frames', nextSeq')
    BY <1>2, <2>3, <2>4, <2>5, OrderSymmetric
  <2>7. InQueueOrder' = Tail(InQueueOrder)
    BY <2>6, QueueIsThen
  <2>8. QED
    BY <2>3, <2>4, <2>7 DEF Fifo!Take, Taken
<1>5. CASE PopEmpty
  <2>1. shorts = <<>> /\ frames = <<>> /\ ret' = [result |-> "Nothing"]
    BY <1>5 DEF PopEmpty, Refuse
  <2>2. IsOrder(<<>>, shorts, frames, nextSeq)
    BY <2>1, EmptyOrder
  <2>3. InQueueOrder = <<>>
    BY <1>1, <1>2, <2>2, OrderUnique
  <2>4. InQueueOrder' = InQueueOrder
    BY <1>5, QueueOrderIsMerged DEF PopEmpty, Refuse
  <2>5. QED
    BY <2>1, <2>3, <2>4 DEF Fifo!Take
<1>6. QED
  BY <1>3, <1>4, <1>5 DEF Pop

(* clear() empties the queue.                                              *)
LEMMA SimulateClear ==
    ASSUME Queued', Clear
    PROVE  Fifo!Forget
<1>1. shorts' = <<>> /\ frames' = <<>> /\ nextSeq' = nextSeq /\ ret' = [result |-> "Nothing"]
  BY DEF Clear, Nothing
<1>2. IsOrder(<<>>, shorts', frames', nextSeq')
  BY <1>1, EmptyOrder
<1>3. InQueueOrder' = <<>>
  BY <1>2, QueueIsThen
<1>4. QED
  BY <1>1, <1>3 DEF Fifo!Forget

(* Short messages and frames wait apart in every state.                    *)
LEMMA SortedHolds == Spec => []Sorted
<1>1. Init => Sorted
  BY DEF Init, Sorted
<1>2. QED
  BY <1>1, SortedStep, TypeCorrect, PTL DEF Spec

(* Whatever the rings do, their callers see one queue: packets leave in    *)
(* the order in which they were pushed, over every wrap of the sequence    *)
(* number, a packet is refused only at the limit of its priority, and a    *)
(* new value of a controller takes the place of the waiting one.           *)
THEOREM QueueIsFifo == Spec => ImplementsFifo
<1>1. Init => Fifo!Init
  <2>1. ASSUME Init PROVE InQueueOrder = <<>> /\ ret = [result |-> "Nothing"]
    <3>1. shorts = <<>> /\ frames = <<>>
      BY <2>1 DEF Init
    <3>2. \A k : k \notin 1..(Len(<<>>) + Len(<<>>))
      OBVIOUS
    <3>3. Len(InQueueOrder) = 0 /\ InQueueOrder \in Seq(Calls)
      <4>1. shorts \in Seq(Slot) /\ frames \in Seq(Slot) /\ nextSeq \in SeqNo
        BY <2>1, EmptySeq, SeqRangeAssumption, SlotsAssumption DEF Init, SeqNo
      <4>2. InStep(shorts, frames, nextSeq)
        BY <3>1, EmptyInStep
      <4>3. IsOrder(InQueueOrder, shorts, frames, nextSeq)
        BY <4>1, <4>2, MergedIsOrder, QueueOrderIsMerged
      <4>4. QED
        BY <3>1, <4>3 DEF IsOrder
    <3>4. QED
      BY <2>1, <3>3, EmptySeq DEF Init, Nothing
  <2>2. QED
    BY <2>1 DEF Fifo!Init
<1>2. Queued /\ Queued' /\ [Next]_vars => [Fifo!Next]_(Fifo!vars)
  <2> SUFFICES ASSUME Queued, Queued', [Next]_vars PROVE [Fifo!Next]_(Fifo!vars)
    OBVIOUS
  <2>1. ASSUME NEW call \in Calls, Push(call) PROVE Fifo!Next
    BY <2>1, SimulatePush DEF Fifo!Next
  <2>2. CASE Pop
    BY <2>2, SimulatePop DEF Fifo!Next
  <2>3. CASE Clear
    BY <2>3, SimulateClear DEF Fifo!Next
  <2>4. CASE UNCHANGED vars
    <3>1. InQueueOrder' = InQueueOrder /\ ret' = ret
      BY <2>4, QueueOrderIsMerged DEF vars
    <3>2. QED
      BY <3>1 DEF Fifo!vars
  <2>5. QED
    BY <2>1, <2>2, <2>3, <2>4 DEF Next
<1>3. Queued <=> TypeOK /\ Contiguous /\ Sorted
  BY DEF Queued
<1>4. QED
  BY <1>1, <1>2, <1>3, TypeCorrect, OrderKept, SortedHolds, PTL DEF Spec, ImplementsFifo, Fifo!Spec

=============================================================================
