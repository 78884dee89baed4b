--------------------------- MODULE SysExLink_proofs ---------------------------
(***************************************************************************)
(* Proofs about SysExLink for any number of devices and slots, any timeout *)
(* and any range of the clock that is more than twice the timeout.         *)
(***************************************************************************)
EXTENDS SysExLink, SequencesExt, SequenceTheorems, FiniteSetTheorems, TLAPS

(* A set of natural numbers has a least one.                               *)
LEMMA LeastNat ==
    ASSUME NEW T \in SUBSET Nat, T # {}
    PROVE  \E n \in T : \A m \in T : n <= m
<1>1. PICK n \in T : \A m \in T : ~(<<m, n>> \in OpToRel(<, Nat))
  BY NatLessThanWellFounded, WFMin
<1>2. \A m \in T : ~(m < n)
  BY <1>1 DEF OpToRel
<1>3. QED
  BY <1>2

-----------------------------------------------------------------------------

\* The time since the last frame of a slot, as the wrapped clock has it, is the
\* true one, as far as that is followed.
SlotOK(s) ==
  slots[s].active =>
    /\ slots[s].last \in 0..(ClockMod - 1)
    /\ slots[s].expected \in Nat \ {0}
    /\ idle[s] = Bounded(Age(slots[s]))

ClockInv ==
  /\ now \in 0..(ClockMod - 1)
  /\ idle \in [Slots -> 0..(Timeout + 1)]
  /\ \A s \in Slots : SlotOK(s)

LinkInv == ClockInv /\ OneSlotPerSender

LEMMA Modulo ==
  ASSUME NEW M \in Nat \ {0}, NEW a \in 0..(M - 1), NEW b \in 0..(M - 1)
  PROVE  (a - b) % M = IF a >= b THEN a - b ELSE a - b + M
  OBVIOUS

LEMMA NextTime ==
  ASSUME NEW M \in Nat \ {0}, NEW a \in 0..(M - 1)
  PROVE  (a + 1) % M = IF a = M - 1 THEN 0 ELSE a + 1
  OBVIOUS

\* Letting the clock run on by one makes every age one more, below a whole turn.
LEMMA AgeGrows ==
  ASSUME NEW M \in Nat \ {0}, NEW a \in 0..(M - 1), NEW b \in 0..(M - 1),
         ((a - b) % M) + 1 < M
  PROVE  (((a + 1) % M) - b) % M = ((a - b) % M) + 1
<1>1. (a + 1) % M \in 0..(M - 1)
  BY NextTime
<1>2. (a - b) % M = IF a >= b THEN a - b ELSE a - b + M
  BY Modulo
<1>3. CASE a = M - 1
  <2>1. (a + 1) % M = 0
    BY <1>3, NextTime
  <2>2. (0 - b) % M = IF 0 >= b THEN 0 - b ELSE 0 - b + M
    BY Modulo
  <2> QED
    BY <2>1, <2>2, <1>2, <1>3
<1>4. CASE a # M - 1
  <2>1. (a + 1) % M = a + 1 /\ a + 1 \in 0..(M - 1)
    BY <1>4, NextTime
  <2>2. (a + 1 - b) % M = IF a + 1 >= b THEN a + 1 - b ELSE a + 1 - b + M
    BY <2>1, Modulo
  <2> QED
    BY <2>1, <2>2, <1>2, <1>4
<1> QED
  BY <1>3, <1>4

\* The expired slots are free, the others as they were.
LEMMA ExpireStaleKeeps ==
  ASSUME NEW s \in Slots
  PROVE  /\ ExpireStale[s] \in {slots[s], Free}
         /\ ExpireStale[s].active => ExpireStale[s] = slots[s] /\ ~Expired(slots[s])
  BY DEF ExpireStale, Free

\* The slot that is found for a device is the only one it has.
LEMMA HeldIsOne ==
  ASSUME OneSlotPerSender, NEW d, NEW s \in Held(ExpireStale, d)
  PROVE  Held(ExpireStale, d) = {s} /\ Min(Held(ExpireStale, d)) = s
<1>1. Held(ExpireStale, d) = {s}
  BY ExpireStaleKeeps DEF OneSlotPerSender, Held
<1>2. s \in Nat
  BY LinkAssumption DEF Held
<1> QED
  BY <1>1, <1>2 DEF Min

\* What feed() does with a frame: it drops it, starts a message in the slot of the
\* sender, or in any slot if the sender has none, or joins it to the sender's slot.
Starts(s, d, f) ==
  /\ f.seq = 0 /\ Held(ExpireStale, d) \subseteq {s}
  /\ Held(ExpireStale, d) = {} => s = AllocSlot(ExpireStale)
  /\ Store(ExpireStale, s, StartAssembly(d, f), d, f)

Drops(d, f) ==
  /\ f.seq # 0 /\ \A s \in Held(ExpireStale, d) : ~Joins(ExpireStale[s], f)
  /\ Ignore(ExpireStale)

Continues(s, d, f) ==
  /\ f.seq # 0 /\ Held(ExpireStale, d) = {s} /\ s \in Slots
  /\ Joins(ExpireStale[s], f)
  /\ Store(ExpireStale, s, ExpireStale[s], d, f)

LEMMA FeedCases ==
  ASSUME OneSlotPerSender, NEW d, NEW f, Feed(d, f)
  PROVE  Drops(d, f) \/ \E s : Starts(s, d, f) \/ Continues(s, d, f)
<1> DEFINE held == Held(ExpireStale, d)
<1>1. CASE held = {}
  <2>1. CASE f.seq = 0
    BY <1>1, <2>1 DEF Feed, Starts
  <2>2. CASE f.seq # 0
    BY <1>1, <2>2 DEF Feed, Drops
  <2> QED
    BY <2>1, <2>2
<1>2. ASSUME NEW s \in held
      PROVE  Drops(d, f) \/ Starts(s, d, f) \/ Continues(s, d, f)
  <2>1. held = {s} /\ Min(held) = s /\ s \in Slots
    BY <1>2, HeldIsOne DEF Held
  <2>2. CASE f.seq = 0
    BY <2>1, <2>2 DEF Feed, Starts
  <2>3. CASE f.seq # 0 /\ Joins(ExpireStale[s], f)
    BY <2>1, <2>3 DEF Feed, Continues
  <2>4. CASE f.seq # 0 /\ ~Joins(ExpireStale[s], f)
    BY <2>1, <2>4 DEF Feed, Drops
  <2> QED
    BY <2>2, <2>3, <2>4
<1> QED
  BY <1>1, <1>2

\* What storing a frame leaves in the slots.
LEMMA StoreSlots ==
  ASSUME NEW s, NEW slot, NEW d, NEW f, Store(ExpireStale, s, slot, d, f), NEW t \in Slots
  PROVE  /\ t # s => slots'[t] = ExpireStale[t]
         /\ t = s /\ f.last => slots'[t] = Free
         /\ t = s /\ ~f.last =>
              /\ slots'[t].src = d /\ slots'[t].last = now
              /\ slots'[t].expected = f.seq + 1
  BY DEF Store, ExpireStale

LEMMA StoreIdle ==
  ASSUME NEW s, NEW slot, NEW d, NEW f, Store(ExpireStale, s, slot, d, f),
         idle \in [Slots -> 0..(Timeout + 1)]
  PROVE  /\ idle' \in [Slots -> 0..(Timeout + 1)]
         /\ \A t \in Slots : idle'[t] = IF t = s THEN 0 ELSE idle[t]
<1>1. idle' = [idle EXCEPT ![s] = 0]
  BY DEF Store
<1>2. 0 \in 0..(Timeout + 1)
  BY LinkAssumption
<1> QED
  BY <1>1, <1>2

\* A slot that was not stored to is as good as it was.
LEMMA OldSlotOK ==
  ASSUME NEW t \in Slots, SlotOK(t), slots'[t] \in {slots[t], Free}, idle'[t] = idle[t],
         now' = now
  PROVE  SlotOK(t)'
  BY DEF SlotOK, Age, Bounded, Free

LEMMA ReceiveInv ==
  ASSUME LinkInv, NEW d, NEW f, Receive(d, f), now' = now
  PROVE  LinkInv'
<1> USE DEF LinkInv
<1>1. CASE ~ParseFrame(f)
  <2>1. slots' = slots /\ idle' = idle
    BY <1>1 DEF Receive
  <2> QED
    BY <2>1 DEF ClockInv, SlotOK, Age, Bounded, OneSlotPerSender
<1>2. CASE Ignore(ExpireStale)
  <2>1. slots' = ExpireStale /\ idle' = idle
    BY <1>2 DEF Ignore
  <2>2. \A t \in Slots : slots'[t] \in {slots[t], Free}
    BY <2>1, ExpireStaleKeeps
  <2>3. OneSlotPerSender'
    BY <2>2 DEF OneSlotPerSender, Free
  <2> QED
    BY <2>1, <2>2, <2>3, OldSlotOK DEF ClockInv
<1>3. ASSUME NEW s, Starts(s, d, f) \/ Continues(s, d, f)
      PROVE  LinkInv'
  <2>1. PICK slot : Store(ExpireStale, s, slot, d, f)
    BY <1>3 DEF Starts, Continues
  <2>2. Held(ExpireStale, d) \subseteq {s}
    BY <1>3 DEF Starts, Continues
  <2>3. s \in Slots => f.seq \in Nat
    <3>1. CASE f.seq = 0
      BY <3>1
    <3>2. CASE Continues(s, d, f)
      <4>1. ExpireStale[s].active /\ ExpireStale[s].expected = f.seq /\ s \in Slots
        BY <3>2 DEF Continues, Joins, Held
      <4> QED
        BY <4>1, ExpireStaleKeeps DEF ClockInv, SlotOK
    <3> QED
      BY <1>3, <3>1, <3>2 DEF Starts
  <2>4. OneSlotPerSender'
    <3> SUFFICES ASSUME NEW t \in Slots, NEW u \in Slots, slots'[t].active, slots'[u].active,
                        slots'[t].src = slots'[u].src
                 PROVE  t = u
      BY DEF OneSlotPerSender
    <3>1. \A x \in Slots : slots'[x].active /\ slots'[x].src = d => x = s
      <4> SUFFICES ASSUME NEW x \in Slots, slots'[x].active, slots'[x].src = d, x # s
                   PROVE  FALSE
        OBVIOUS
      <4>1. x \in Held(ExpireStale, d)
        BY <2>1, StoreSlots DEF Held
      <4> QED
        BY <4>1, <2>2
    <3>2. CASE t = s \/ u = s
      <4>1. slots'[t].src = d
        BY <3>2, <2>1, StoreSlots DEF Free
      <4> QED
        BY <3>1, <4>1
    <3>3. CASE t # s /\ u # s
      <4>1. slots'[t] = slots[t] /\ slots'[u] = slots[u]
        BY <3>3, <2>1, StoreSlots, ExpireStaleKeeps
      <4> QED
        BY <4>1 DEF OneSlotPerSender
    <3> QED
      BY <3>2, <3>3
  <2>5. \A t \in Slots : SlotOK(t)'
    <3> SUFFICES ASSUME NEW t \in Slots
                 PROVE  SlotOK(t)'
      OBVIOUS
    <3>1. CASE t # s
      <4>1. slots'[t] \in {slots[t], Free}
        BY <3>1, <2>1, StoreSlots, ExpireStaleKeeps
      <4>2. idle'[t] = idle[t]
        BY <3>1, <2>1, StoreIdle DEF ClockInv
      <4> QED
        BY <4>1, <4>2, OldSlotOK DEF ClockInv
    <3>2. CASE t = s /\ f.last
      BY <3>2, <2>1, StoreSlots DEF SlotOK, Free
    <3>3. CASE t = s /\ ~f.last
      <4>1. slots'[t].last = now /\ slots'[t].expected = f.seq + 1 /\ idle'[t] = 0
        BY <3>3, <2>1, StoreSlots, StoreIdle DEF ClockInv
      <4>2. (now - now) % ClockMod = 0
        BY LinkAssumption, Modulo DEF ClockInv
      <4>3. 0 > Timeout <=> FALSE
        BY LinkAssumption
      <4> QED
        BY <4>1, <4>2, <4>3, <2>3, <3>3 DEF SlotOK, Age, Bounded, ClockInv
    <3> QED
      BY <3>1, <3>2, <3>3
  <2> QED
    BY <2>1, <2>4, <2>5, StoreIdle DEF ClockInv
<1> QED
  BY <1>1, <1>2, <1>3, FeedCases DEF Receive, Drops

LEMMA IdleSenderInv ==
  ASSUME LinkInv, UNCHANGED <<slots, now, idle>>
  PROVE  LinkInv'
  BY DEF LinkInv, ClockInv, SlotOK, Age, Bounded, OneSlotPerSender

LEMMA TickInv ==
  ASSUME LinkInv, Tick
  PROVE  LinkInv'
<1> USE DEF LinkInv
<1>1. ClockMod \in Nat \ {0} /\ Timeout \in Nat
  BY LinkAssumption
<1>2. now \in 0..(ClockMod - 1) /\ now' = (now + 1) % ClockMod /\ slots' = slots
  BY DEF Tick, ClockInv
<1>3. now' \in 0..(ClockMod - 1)
  BY <1>1, <1>2, NextTime
<1>4. OneSlotPerSender'
  BY <1>2 DEF OneSlotPerSender
<1>5. \A s \in Slots : idle[s] \in 0..(Timeout + 1)
  BY DEF ClockInv
<1>6. /\ idle' \in [Slots -> 0..(Timeout + 1)]
      /\ \A s \in Slots : slots[s].active => idle'[s] = Bounded(idle[s] + 1)
  <2>1. idle' = [s \in Slots |-> IF slots[s].active THEN Bounded(idle[s] + 1) ELSE 0]
    BY DEF Tick
  <2>2. \A s \in Slots : Bounded(idle[s] + 1) \in 0..(Timeout + 1) /\ 0 \in 0..(Timeout + 1)
    BY <1>1, <1>5 DEF Bounded
  <2> QED
    BY <2>1, <2>2
<1>7. ASSUME NEW s \in Slots
      PROVE  SlotOK(s)'
  <2> SUFFICES ASSUME slots[s].active
               PROVE  SlotOK(s)'
    BY <1>2 DEF SlotOK
  <2> DEFINE last == slots[s].last
             age == (now - last) % ClockMod
  <2>1. /\ last \in 0..(ClockMod - 1) /\ slots[s].expected \in Nat \ {0}
        /\ idle[s] = Bounded(age)
    BY DEF ClockInv, SlotOK, Age
  <2>2. age + 1 < ClockMod
    BY DEF Tick, Age
  <2>3. (((now + 1) % ClockMod) - last) % ClockMod = age + 1
    BY <1>1, <1>2, <2>1, <2>2, AgeGrows
  <2>4. age \in Nat
    <3>1. age = IF now >= last THEN now - last ELSE now - last + ClockMod
      BY <1>1, <1>2, <2>1, Modulo
    <3> QED
      BY <1>1, <1>2, <2>1, <3>1
  <2>5. idle'[s] = Bounded(age + 1)
    <3> HIDE DEF age
    <3>1. Bounded(Bounded(age) + 1) = Bounded(age + 1)
      BY <1>1, <2>4 DEF Bounded
    <3> QED
      BY <3>1, <1>6, <2>1
  <2>6. Age(slots[s])' = age + 1
    BY <1>2, <2>3 DEF Age
  <2> HIDE DEF age, last
  <2> QED
    BY <1>2, <2>1, <2>5, <2>6 DEF SlotOK, Bounded, last
<1> QED
  BY <1>3, <1>4, <1>6, <1>7 DEF ClockInv

LEMMA InitInv ==
  ASSUME Init
  PROVE  LinkInv
<1>1. now \in 0..(ClockMod - 1) /\ idle \in [Slots -> 0..(Timeout + 1)]
  BY LinkAssumption DEF Init
<1>2. \A s \in Slots : ~slots[s].active
  BY DEF Init, Free
<1> QED
  BY <1>1, <1>2 DEF LinkInv, ClockInv, SlotOK, OneSlotPerSender

LEMMA NextInv ==
  ASSUME LinkInv, [Next]_vars
  PROVE  LinkInv'
<1>1. ASSUME NEW d \in Devices, NEW len \in Lengths, CallSendSysex(d, len)
      PROVE  LinkInv'
  BY <1>1, IdleSenderInv DEF CallSendSysex
<1>2. ASSUME NEW d \in Devices, SendFrame(d)
      PROVE  LinkInv'
  BY <1>2, ReceiveInv DEF SendFrame
<1>3. ASSUME NEW d \in Devices, LoseFrame(d) \/ SendFails(d)
      PROVE  LinkInv'
  BY <1>3, IdleSenderInv DEF LoseFrame, SendFails
<1>4. ASSUME NEW d \in Devices, ForeignFrame(d)
      PROVE  LinkInv'
  BY <1>4, ReceiveInv DEF ForeignFrame
<1>5. CASE Tick
  BY <1>5, TickInv
<1>6. CASE UNCHANGED vars
  BY <1>6, IdleSenderInv DEF vars
<1> QED
  BY <1>1, <1>2, <1>3, <1>4, <1>5, <1>6 DEF Next

LEMMA InvHolds == Spec => []LinkInv
  BY InitInv, NextInv, PTL DEF Spec

\* A sender never has two slots (findSlot() and startAssembly()): a message that a
\* second one kept would never be completed and would take the slot from others.
THEOREM OneSlotEach == Spec => []OneSlotPerSender
<1>1. LinkInv => OneSlotPerSender
  BY DEF LinkInv
<1> QED
  BY <1>1, InvHolds, PTL

-----------------------------------------------------------------------------
\* A slot with a message whose age is beyond the timeout is expired, and one that is
\* not expired has been silent for the timeout at most.
LEMMA NotExpired ==
  ASSUME LinkInv, NEW s \in Slots, slots[s].active, ~Expired(slots[s])
  PROVE  idle[s] <= Timeout
<1>1. idle[s] = Bounded(Age(slots[s])) /\ ~(Age(slots[s]) > Timeout)
  BY DEF LinkInv, ClockInv, SlotOK, Expired
<1>2. idle[s] = Age(slots[s])
  BY <1>1 DEF Bounded
<1>3. idle[s] \in 0..(Timeout + 1) /\ Timeout \in Nat
  BY LinkAssumption DEF LinkInv, ClockInv
<1> QED
  BY <1>1, <1>2, <1>3

LEMMA NothingJoined ==
  ASSUME LinkInv, NEW s \in Slots, NEW d, slots'[s] \in {slots[s], Free}, Nothing
  PROVE  ~Joined(s, d)
<1> SUFFICES ASSUME Joined(s, d) PROVE FALSE
  OBVIOUS
<1>1. slots[s].expected \in Nat \ {0}
  BY DEF Joined, LinkInv, ClockInv, SlotOK
<1>2. ~(slots'[s].expected > slots[s].expected)
  BY <1>1 DEF Free
<1>3. Len(out'.buf) = 0
  BY DEF Nothing, NoMessage
<1> QED
  BY <1>2, <1>3 DEF Joined

\* The first frame of a message is joined to nothing.
LEMMA StartsNothingJoined ==
  ASSUME LinkInv, NEW e \in Devices, NEW f, NEW x, Starts(x, e, f),
         NEW s \in Slots, NEW d \in Devices
  PROVE  ~Joined(s, d)
<1> SUFFICES ASSUME Joined(s, d) PROVE FALSE
  OBVIOUS
<1>1. f.seq = 0 /\ Store(ExpireStale, x, StartAssembly(e, f), e, f)
  BY DEF Starts
<1>2. slots[s].expected \in Nat \ {0}
  BY DEF Joined, LinkInv, ClockInv, SlotOK
<1>3. ~(slots'[s].expected > slots[s].expected)
  <2>1. slots'[s].expected \in {slots[s].expected, 0, 1}
    BY <1>1, StoreSlots, ExpireStaleKeeps DEF Free
  <2> QED
    BY <1>2, <2>1
<1>4. out'.buf = <<f.msg>> \/ out'.buf = <<>>
  BY <1>1 DEF Store, StartAssembly, Nothing, NoMessage
<1>5. ~(Len(out'.buf) > 1)
  <2>1. Len(<<f.msg>>) = 1 /\ Len(<<>>) = 0
    OBVIOUS
  <2>2. Len(out'.buf) = 1 \/ Len(out'.buf) = 0
    BY <1>4, <2>1, Zenon
  <2>3. \A n : n = 1 \/ n = 0 => ~(n > 1)
    OBVIOUS
  <2> QED
    BY <2>2, <2>3, Zenon
<1> QED
  BY <1>3, <1>5 DEF Joined

\* A later frame is joined to those of its sender's slot.
LEMMA ContinuesItsSlot ==
  ASSUME LinkInv, NEW e \in Devices, NEW f, NEW x, Continues(x, e, f),
         NEW s \in Slots, NEW d \in Devices, Joined(s, d)
  PROVE  s = x /\ d = e
<1>1. /\ x \in Slots /\ Held(ExpireStale, e) = {x}
      /\ Store(ExpireStale, x, ExpireStale[x], e, f)
  BY DEF Continues
<1>2. slots[x].active /\ slots[x].src = e
  <2>1. ExpireStale[x].active /\ ExpireStale[x].src = e
    BY <1>1 DEF Held
  <2> QED
    BY <1>1, <2>1, ExpireStaleKeeps
<1>3. CASE slots'[s].expected > slots[s].expected
  <2>1. CASE s # x
    <3>1. slots'[s] \in {slots[s], Free}
      BY <1>1, <2>1, StoreSlots, ExpireStaleKeeps
    <3>2. slots[s].expected \in Nat \ {0}
      BY DEF Joined, LinkInv, ClockInv, SlotOK
    <3> QED
      BY <1>3, <3>1, <3>2 DEF Free
  <2> QED
    BY <1>2, <2>1 DEF Joined
<1>4. CASE out'.src = d /\ Len(out'.buf) > 1
  <2>1. out'.src = e
    <3>1. out' # NoMessage
      BY <1>4 DEF NoMessage
    <3> QED
      BY <1>1, <3>1 DEF Store, Nothing
  <2> QED
    BY <1>1, <1>2, <1>4, <2>1 DEF LinkInv, OneSlotPerSender, Joined
<1> QED
  BY <1>3, <1>4 DEF Joined

LEMMA ReceiveJoins ==
  ASSUME LinkInv, NEW e \in Devices, NEW f, Receive(e, f),
         NEW s \in Slots, NEW d \in Devices, Joined(s, d)
  PROVE  ParseFrame(f) /\ d = e /\ Continues(s, e, f)
<1>1. CASE ~ParseFrame(f)
  BY <1>1, NothingJoined DEF Receive
<1>2. CASE Drops(e, f)
  BY <1>2, ExpireStaleKeeps, NothingJoined DEF Drops, Ignore
<1>3. ASSUME NEW x, Starts(x, e, f)
      PROVE  FALSE
  BY <1>3, StartsNothingJoined
<1>4. ASSUME NEW x, Continues(x, e, f)
      PROVE  s = x /\ d = e
  BY <1>4, ContinuesItsSlot
<1> QED
  BY <1>1, <1>2, <1>3, <1>4, FeedCases DEF Receive, LinkInv

LEMMA ContinuesInTime ==
  ASSUME LinkInv, NEW e, NEW f, NEW s, Continues(s, e, f)
  PROVE  idle[s] <= Timeout
<1>1. ExpireStale[s].active /\ s \in Slots
  BY DEF Continues, Held
<1> QED
  BY <1>1, ExpireStaleKeeps, NotExpired

\* A frame is never joined to one that came more than the timeout before it,
\* although feed() compares two values of a clock that wraps.
THEOREM LateFramesDropped == Spec => LateNeverJoins
<1>1. ASSUME LinkInv, Next, NEW s \in Slots, NEW d \in Devices, Joined(s, d)
      PROVE  idle[s] <= Timeout
  <2>1. ASSUME NEW e \in Devices, NEW len \in Lengths, CallSendSysex(e, len)
        PROVE  FALSE
    BY <1>1, <2>1, NothingJoined DEF CallSendSysex
  <2>2. ASSUME NEW e \in Devices, SendFrame(e)
        PROVE  idle[s] <= Timeout
    BY <1>1, <2>2, ReceiveJoins, ContinuesInTime DEF SendFrame
  <2>3. ASSUME NEW e \in Devices, LoseFrame(e) \/ SendFails(e)
        PROVE  FALSE
    BY <1>1, <2>3, NothingJoined DEF LoseFrame, SendFails
  <2>4. ASSUME NEW e \in Devices, ForeignFrame(e)
        PROVE  idle[s] <= Timeout
    BY <1>1, <2>4, ReceiveJoins, ContinuesInTime DEF ForeignFrame
  <2>5. CASE Tick
    BY <1>1, <2>5, NothingJoined DEF Tick
  <2> QED
    BY <1>1, <2>1, <2>2, <2>3, <2>4, <2>5 DEF Next
<1>2. LinkInv /\ [Next]_vars
      => [\A s \in Slots, d \in Devices : Joined(s, d) => idle[s] <= Timeout]_vars
  BY <1>1
<1> QED
  BY <1>2, InvHolds, PTL DEF Spec, LateNeverJoins

-----------------------------------------------------------------------------
\* What a sender has in work is a message that can be sent, one that has a number,
\* and its next frame is one of its frames.
WorkOK(d) ==
  LET w == sending[d]
  IN  \/ w = NotSending
      \/ /\ w.msg \in 1..messages /\ w.len \in 1..MaxMessage
         /\ w.seq \in 0..(FragmentCount(w.len) - 1)

\* What a slot holds: some of the frames of a message, the last of them, `At', of a
\* message that was sent.
At(s) == slots[s].buf[slots[s].expected]

HoldsOK(s) ==
  slots[s].active =>
    /\ slots[s].src \in Devices /\ slots[s].len \in 1..MaxMessage
    /\ slots[s].total = FragmentCount(slots[s].len)
    /\ slots[s].expected \in 1..(slots[s].total - 1)
    /\ slots[s].buf \in Seq(Nat) /\ Len(slots[s].buf) = slots[s].expected
    /\ At(s) \in 1..messages

\* The frame that a slot expects is the next of the message in work, or it was lost;
\* if another message is in work, its first frame was lost, too, or is the next.
MixOK(s) ==
  slots[s].active =>
    LET d == slots[s].src
        w == sending[d]
        wanted == <<At(s), slots[s].expected>>
    IN  IF w.msg = At(s)
        THEN /\ w.len = slots[s].len /\ slots[s].expected <= w.seq
             /\ slots[s].expected < w.seq => wanted \in missing[d]
        ELSE /\ wanted \in missing[d]
             /\ w.len # 0 /\ w.seq > 0 => <<w.msg, 0>> \in missing[d]

LinkTypes ==
  /\ messages \in Nat
  /\ sending \in [Devices -> [msg : Nat, len : Nat, seq : Nat]]
  /\ missing \in [Devices -> SUBSET (Nat \X Int)]

MixInv ==
  /\ LinkTypes
  /\ \A d \in Devices : WorkOK(d)
  /\ \A s \in Slots : HoldsOK(s) /\ MixOK(s)

\* Other programs on the channel do not send what this library would.
ForeignIsForeign == \A f \in Foreign : ~ParseFrame(f)

LEMMA Fragments ==
  ASSUME NEW len \in 1..MaxMessage
  PROVE  /\ FragmentCount(len) \in 1..5
         /\ \A q \in 0..(FragmentCount(len) - 1) :
              PayloadLength(len, q) > 0 /\ PayloadLength(len, q) \in Nat
<1>1. FragmentCount(len) \in 1..5
  BY DEF FragmentCount, MaxPayload, MaxMessage
<1>2. ASSUME NEW q \in 0..(FragmentCount(len) - 1)
      PROVE  PayloadLength(len, q) > 0 /\ PayloadLength(len, q) \in Nat
  <2>1. q * 240 < len
    BY <1>2 DEF FragmentCount, MaxPayload, MaxMessage
  <2> QED
    BY <2>1, <1>1 DEF PayloadLength, PayloadOffset, MaxPayload, MaxMessage
<1> QED
  BY <1>1, <1>2

\* A frame of this library is recognised by parseFrame().
LEMMA FramesParse ==
  ASSUME NEW msg \in Nat, NEW len \in 1..MaxMessage,
         NEW seq \in 0..(FragmentCount(len) - 1)
  PROVE  ParseFrame(EncodeFrame(msg, len, seq))
<1>1. FragmentCount(len) \in 1..5 /\ PayloadLength(len, seq) > 0
  BY Fragments
<1>2. FragmentCount(len) >= 1 /\ seq < FragmentCount(len)
  BY <1>1
<1> QED
  BY <1>1, <1>2 DEF ParseFrame, EncodeFrame

LEMMA FrameInWork ==
  ASSUME MixInv, NEW d \in Devices, sending[d].len # 0
  PROVE  /\ sending[d].msg \in 1..messages /\ sending[d].msg \in Nat
         /\ sending[d].len \in 1..MaxMessage
         /\ sending[d].seq \in 0..(FragmentCount(sending[d].len) - 1)
         /\ FragmentCount(sending[d].len) \in 1..5
         /\ ParseFrame(NextFrame(d))
         /\ NextFrame(d).msg = sending[d].msg /\ NextFrame(d).seq = sending[d].seq
         /\ NextFrame(d).len = sending[d].len
         /\ NextFrame(d).total = FragmentCount(sending[d].len)
         /\ NextFrame(d).last <=> sending[d].seq = FragmentCount(sending[d].len) - 1
<1>1. WorkOK(d) /\ messages \in Nat
  BY DEF MixInv, LinkTypes
<1>2. /\ sending[d].msg \in 1..messages /\ sending[d].len \in 1..MaxMessage
      /\ sending[d].seq \in 0..(FragmentCount(sending[d].len) - 1)
  BY <1>1 DEF WorkOK, NotSending
<1>3. sending[d].msg \in Nat
  BY <1>1, <1>2
<1>4. FragmentCount(sending[d].len) \in 1..5
  BY <1>2, Fragments
<1>5. ParseFrame(NextFrame(d))
  BY <1>2, <1>3, FramesParse DEF NextFrame
<1> QED
  BY <1>2, <1>3, <1>4, <1>5 DEF NextFrame, EncodeFrame

\* What a frame that goes out, lost or not, leaves of the message in work.
LEMMA SentWork ==
  ASSUME MixInv, NEW d \in Devices, sending[d].len # 0, FrameSent(d), UNCHANGED messages
  PROVE  /\ \A e \in Devices : e # d => sending'[e] = sending[e]
         /\ sending' \in [Devices -> [msg : Nat, len : Nat, seq : Nat]]
         /\ \A e \in Devices : WorkOK(e)'
         /\ NextFrame(d).last => sending'[d] = NotSending
         /\ ~NextFrame(d).last => /\ sending'[d].msg = sending[d].msg
                                  /\ sending'[d].len = sending[d].len
                                  /\ sending'[d].seq = sending[d].seq + 1
<1> DEFINE w == sending[d]
           next == IF NextFrame(d).last THEN NotSending ELSE [w EXCEPT !.seq = @ + 1]
<1>1. w \in [msg : Nat, len : Nat, seq : Nat]
  BY DEF MixInv, LinkTypes
<1>2. sending' = [sending EXCEPT ![d] = next]
  BY DEF FrameSent
<1>3. NotSending \in [msg : Nat, len : Nat, seq : Nat]
  BY DEF NotSending
<1>4. next \in [msg : Nat, len : Nat, seq : Nat]
  BY <1>1, <1>3
<1>5. sending \in [Devices -> [msg : Nat, len : Nat, seq : Nat]]
  BY DEF MixInv, LinkTypes
<1>6. /\ NextFrame(d).last => next = NotSending
      /\ ~NextFrame(d).last => next.msg = w.msg /\ next.len = w.len /\ next.seq = w.seq + 1
  BY <1>1
<1> HIDE DEF next
<1>7. sending'[d] = next /\ \A e \in Devices : e # d => sending'[e] = sending[e]
  BY <1>2, <1>5
<1>8. sending' \in [Devices -> [msg : Nat, len : Nat, seq : Nat]]
  BY <1>2, <1>4, <1>5
<1>9. ASSUME NEW e \in Devices
      PROVE  WorkOK(e)'
  <2>1. CASE e # d
    BY <2>1, <1>7 DEF MixInv, WorkOK
  <2>2. CASE e = d /\ NextFrame(d).last
    BY <2>2, <1>6, <1>7 DEF WorkOK
  <2>3. CASE e = d /\ ~NextFrame(d).last
    <3>1. w.seq + 1 \in 0..(FragmentCount(w.len) - 1)
      BY <2>3, FrameInWork
    <3> QED
      BY <2>3, <3>1, <1>6, <1>7, FrameInWork DEF WorkOK
  <2> QED
    BY <2>1, <2>2, <2>3
<1> QED
  BY <1>6, <1>7, <1>8, <1>9

\* A slot whose sender did nothing is as good as it was.
LEMMA OtherSlotOK ==
  ASSUME MixInv, NEW s \in Slots, slots'[s] \in {slots[s], Free},
         slots'[s].active => /\ sending'[slots[s].src] = sending[slots[s].src]
                             /\ missing'[slots[s].src] = missing[slots[s].src],
         messages' \in Nat, messages <= messages'
  PROVE  HoldsOK(s)' /\ MixOK(s)'
<1>1. CASE slots'[s] = Free
  BY <1>1 DEF HoldsOK, MixOK, Free
<1>2. CASE slots'[s] = slots[s]
  <2> SUFFICES ASSUME slots[s].active
               PROVE  HoldsOK(s)' /\ MixOK(s)'
    BY <1>2 DEF HoldsOK, MixOK
  <2>1. HoldsOK(s) /\ MixOK(s) /\ messages \in Nat
    BY DEF MixInv, LinkTypes
  <2>2. At(s)' = At(s)
    BY <1>2 DEF At
  <2>3. At(s) \in 1..messages'
    BY <2>1 DEF HoldsOK
  <2>4. HoldsOK(s)'
    BY <1>2, <2>1, <2>2, <2>3 DEF HoldsOK
  <2>5. MixOK(s)'
    BY <1>2, <2>1, <2>2 DEF MixOK
  <2> QED
    BY <2>4, <2>5
<1> QED
  BY <1>1, <1>2

\* What storing a frame leaves in its slot, unless it is the last.
LEMMA StoreHolds ==
  ASSUME NEW s \in Slots, NEW slot, NEW d, NEW f, Store(ExpireStale, s, slot, d, f), ~f.last
  PROVE  slots'[s] = [ active |-> TRUE, src |-> d, len |-> slot.len, total |-> slot.total,
                       expected |-> f.seq + 1, last |-> now, buf |-> Append(slot.buf, f.msg) ]
  BY DEF Store, ExpireStale

LEMMA StoreMissing ==
  ASSUME MixInv, NEW s, NEW slot, NEW d \in Devices, NEW f, Store(ExpireStale, s, slot, d, f)
  PROVE  /\ missing' \in [Devices -> SUBSET (Nat \X Int)]
         /\ \A e \in Devices : e # d => missing'[e] = missing[e]
<1>1. missing' = [missing EXCEPT ![d] = {}]
  BY DEF Store
<1>2. missing \in [Devices -> SUBSET (Nat \X Int)] /\ {} \in SUBSET (Nat \X Int)
  BY DEF MixInv, LinkTypes
<1> QED
  BY <1>1, <1>2

\* The slot in which a frame of the message in work was stored.
LEMMA StoredSlotOK ==
  ASSUME MixInv, NEW d \in Devices, sending[d].len # 0, FrameSent(d), UNCHANGED messages,
         NEW s \in Slots, NEW slot, Store(ExpireStale, s, slot, d, NextFrame(d)),
         slot.len = sending[d].len, slot.total = FragmentCount(sending[d].len),
         slot.buf \in Seq(Nat), Len(slot.buf) = sending[d].seq
  PROVE  HoldsOK(s)' /\ MixOK(s)'
<1> DEFINE f == NextFrame(d)
           w == sending[d]
<1>1. /\ w.msg \in 1..messages /\ w.msg \in Nat /\ w.len \in 1..MaxMessage
      /\ w.seq \in 0..(FragmentCount(w.len) - 1) /\ FragmentCount(w.len) \in 1..5
      /\ f.msg = w.msg /\ f.seq = w.seq
      /\ f.last <=> w.seq = FragmentCount(w.len) - 1
  BY FrameInWork
<1>2. CASE f.last
  <2>1. slots'[s] = Free
    BY <1>2, StoreSlots
  <2> QED
    BY <2>1 DEF HoldsOK, MixOK, Free
<1>3. CASE ~f.last
  <2> HIDE DEF f
  <2> DEFINE buf == Append(slot.buf, w.msg)
  <2>1. /\ slots'[s].active /\ slots'[s].src = d /\ slots'[s].len = w.len
        /\ slots'[s].total = FragmentCount(w.len) /\ slots'[s].expected = w.seq + 1
        /\ slots'[s].buf = buf
    <3>1. Store(ExpireStale, s, slot, d, f)
      BY DEF f
    <3>2. slots'[s] = [ active |-> TRUE, src |-> d, len |-> slot.len, total |-> slot.total,
                        expected |-> f.seq + 1, last |-> now, buf |-> Append(slot.buf, f.msg) ]
      BY <1>3, <3>1, StoreHolds
    <3> QED
      BY <1>1, <3>2
  <2>2. buf \in Seq(Nat) /\ Len(buf) = w.seq + 1 /\ buf[w.seq + 1] = w.msg
    BY <1>1
  <2>3. At(s)' = w.msg
    BY <2>1, <2>2 DEF At
  <2>4. w.seq + 1 \in 1..(FragmentCount(w.len) - 1)
    BY <1>1, <1>3
  <2>5. HoldsOK(s)'
    BY <1>1, <2>1, <2>2, <2>3, <2>4 DEF HoldsOK
  <2>6. sending'[d].msg = w.msg /\ sending'[d].len = w.len /\ sending'[d].seq = w.seq + 1
    BY <1>3, SentWork DEF f
  <2>7. MixOK(s)'
    BY <1>1, <2>1, <2>3, <2>6 DEF MixOK
  <2> QED
    BY <2>5, <2>7
<1> QED
  BY <1>2, <1>3

\* A frame that comes and joins nothing.
LEMMA IgnoredMix ==
  ASSUME MixInv, OneSlotPerSender, NEW d \in Devices, sending[d].len # 0, FrameSent(d),
         UNCHANGED messages, Drops(d, NextFrame(d)), NEW s \in Slots
  PROVE  HoldsOK(s)' /\ MixOK(s)'
<1> DEFINE w == sending[d]
<1>1. slots'[s] \in {slots[s], Free} /\ missing' = missing /\ messages \in Nat
  BY ExpireStaleKeeps DEF Drops, Ignore, MixInv, LinkTypes
<1>2. CASE ~(slots'[s].active /\ slots[s].src = d)
  <2>1. slots'[s].active => slots[s].active /\ slots[s].src # d
    BY <1>1, <1>2 DEF Free
  <2>2. slots'[s].active => sending'[slots[s].src] = sending[slots[s].src]
    BY <2>1, SentWork DEF MixInv, HoldsOK
  <2>3. messages' \in Nat /\ messages <= messages'
    BY <1>1
  <2> QED
    BY <1>1, <2>2, <2>3, OtherSlotOK
<1>3. CASE slots'[s].active /\ slots[s].src = d
  <2>1. slots'[s] = slots[s] /\ slots[s].active /\ ExpireStale[s] = slots[s]
    BY <1>1, <1>3 DEF Free, Drops, Ignore
  <2>2. ~Joins(slots[s], NextFrame(d))
    BY <1>3, <2>1 DEF Held, Drops
  <2>3. HoldsOK(s) /\ MixOK(s)
    BY DEF MixInv
  <2>4. At(s)' = At(s) /\ HoldsOK(s)'
    BY <1>1, <2>1, <2>3 DEF At, HoldsOK
  <2>5. /\ w.seq \in 0..(FragmentCount(w.len) - 1) /\ FragmentCount(w.len) \in 1..5
        /\ w.msg # 0 /\ slots[s].expected \in Nat
    <3>1. slots[s].total = FragmentCount(slots[s].len) /\ FragmentCount(slots[s].len) \in 1..5
      BY <2>1, <2>3, Fragments DEF HoldsOK
    <3>2. slots[s].expected \in Nat
      BY <2>1, <2>3, <3>1 DEF HoldsOK
    <3> QED
      BY <3>2, <1>1, FrameInWork
  <2>6. At(s) # 0
    BY <1>1, <2>1, <2>3 DEF HoldsOK
  <2>7. <<At(s), slots[s].expected>> \in missing[d]
    <3>1. CASE w.msg = At(s)
      <4>1. w.len = slots[s].len /\ slots[s].expected <= w.seq
        BY <1>3, <2>1, <2>3, <3>1 DEF MixOK
      <4>2. slots[s].expected # w.seq
        BY <2>1, <2>2, <2>3, <4>1, FrameInWork DEF Joins, HoldsOK
      <4>3. slots[s].expected < w.seq
        BY <2>5, <4>1, <4>2
      <4> QED
        BY <1>3, <2>1, <2>3, <3>1, <4>3 DEF MixOK
    <3>2. CASE w.msg # At(s)
      BY <1>3, <2>1, <2>3, <3>2 DEF MixOK
    <3> QED
      BY <3>1, <3>2
  <2>8. CASE NextFrame(d).last
    <3>1. sending'[d] = NotSending
      BY <2>8, SentWork
    <3> QED
      BY <1>1, <1>3, <2>1, <2>4, <2>6, <2>7, <3>1 DEF MixOK, NotSending
  <2>9. CASE ~NextFrame(d).last
    <3>1. /\ sending'[d].msg = w.msg /\ sending'[d].len = w.len
          /\ sending'[d].seq = w.seq + 1
      BY <2>9, SentWork
    <3>2. w.msg = At(s) => w.len = slots[s].len /\ slots[s].expected <= w.seq + 1
      <4>1. w.msg = At(s) => w.len = slots[s].len /\ slots[s].expected <= w.seq
        BY <1>3, <2>1, <2>3 DEF MixOK
      <4>2. slots[s].expected <= w.seq => slots[s].expected <= w.seq + 1
        BY <2>5
      <4> QED
        BY <4>1, <4>2
    <3>3. w.msg # At(s) => <<w.msg, 0>> \in missing[d]
      <4>1. w.seq # 0
        BY FrameInWork DEF Drops
      <4>2. w.seq > 0
        BY <2>5, <4>1
      <4> QED
        BY <1>3, <2>1, <2>3, <4>2 DEF MixOK
    <3> QED
      BY <1>1, <1>3, <2>1, <2>4, <2>7, <3>1, <3>2, <3>3 DEF MixOK
  <2> QED
    BY <2>4, <2>8, <2>9
<1> QED
  BY <1>2, <1>3

LEMMA SendFrameMix ==
  ASSUME MixInv, OneSlotPerSender, NEW d \in Devices, SendFrame(d)
  PROVE  MixInv'
<1> DEFINE f == NextFrame(d)
           w == sending[d]
<1>1. w.len # 0 /\ FrameSent(d) /\ Receive(d, f) /\ UNCHANGED messages
  BY DEF SendFrame
<1>2. Feed(d, f)
  BY <1>1, FrameInWork DEF Receive
<1>3. CASE Drops(d, f)
  <2>1. missing' = missing
    BY <1>3 DEF Drops, Ignore
  <2> QED
    BY <1>1, <1>3, <2>1, IgnoredMix, SentWork DEF MixInv, LinkTypes
<1>4. ASSUME NEW s, NEW slot, Store(ExpireStale, s, slot, d, f),
             Held(ExpireStale, d) \subseteq {s},
             slot.len = w.len, slot.total = FragmentCount(w.len),
             slot.buf \in Seq(Nat), Len(slot.buf) = w.seq
      PROVE  MixInv'
  <2>1. /\ missing' \in [Devices -> SUBSET (Nat \X Int)]
        /\ \A e \in Devices : e # d => missing'[e] = missing[e]
    BY <1>4, StoreMissing
  <2>2. ASSUME NEW t \in Slots, t # s
        PROVE  HoldsOK(t)' /\ MixOK(t)'
    <3>1. slots'[t] = ExpireStale[t] /\ slots'[t] \in {slots[t], Free}
      BY <1>4, <2>2, StoreSlots, ExpireStaleKeeps
    <3>2. slots'[t].active => slots[t].active /\ slots[t].src # d
      BY <1>4, <2>2, <3>1, ExpireStaleKeeps DEF Held
    <3>3. slots'[t].active => slots[t].src \in Devices
      BY <3>2 DEF MixInv, HoldsOK
    <3>4. messages' \in Nat /\ messages <= messages'
      BY <1>1 DEF MixInv, LinkTypes
    <3> QED
      BY <1>1, <2>1, <3>1, <3>2, <3>3, <3>4, SentWork, OtherSlotOK
  <2>3. ASSUME s \in Slots
        PROVE  HoldsOK(s)' /\ MixOK(s)'
    BY <1>1, <1>4, <2>3, StoredSlotOK
  <2>4. LinkTypes' /\ \A e \in Devices : WorkOK(e)'
    BY <1>1, <2>1, SentWork DEF MixInv, LinkTypes
  <2> QED
    BY <2>2, <2>3, <2>4 DEF MixInv
<1>5. ASSUME NEW s, Starts(s, d, f)
      PROVE  MixInv'
  <2> DEFINE slot == StartAssembly(d, f)
  <2>1. Store(ExpireStale, s, slot, d, f) /\ Held(ExpireStale, d) \subseteq {s} /\ w.seq = 0
    BY <1>1, <1>5, FrameInWork DEF Starts
  <2>2. slot.len = w.len /\ slot.total = FragmentCount(w.len) /\ slot.buf = <<>>
    BY <1>1, FrameInWork DEF StartAssembly
  <2>3. <<>> \in Seq(Nat) /\ Len(<<>>) = 0
    OBVIOUS
  <2> HIDE DEF slot
  <2> QED
    BY <1>4, <2>1, <2>2, <2>3
<1>6. ASSUME NEW s, Continues(s, d, f)
      PROVE  MixInv'
  <2> DEFINE slot == ExpireStale[s]
  <2>1. /\ Store(ExpireStale, s, slot, d, f) /\ Held(ExpireStale, d) = {s} /\ s \in Slots
        /\ Joins(slot, f)
    BY <1>6 DEF Continues
  <2>2. slot.active /\ slot = slots[s]
    BY <2>1, ExpireStaleKeeps DEF Held
  <2>3. HoldsOK(s)
    BY <2>1 DEF MixInv
  <2> HIDE DEF slot
  <2>4. slot.len = w.len /\ slot.total = FragmentCount(w.len) /\ slot.expected = w.seq
    BY <1>1, <2>1, FrameInWork DEF Joins
  <2>5. slot.buf \in Seq(Nat) /\ Len(slot.buf) = w.seq
    BY <2>2, <2>3, <2>4 DEF HoldsOK
  <2>6. Held(ExpireStale, d) \subseteq {s}
    BY <2>1
  <2> QED
    BY <1>4, <2>1, <2>4, <2>5, <2>6
<1> QED
  BY <1>2, <1>3, <1>5, <1>6, FeedCases

\* What Miss adds are frames of the message in work.
LEMMA MissTypes ==
  ASSUME MixInv, NEW d \in Devices, NEW seqs \in SUBSET Int, Miss(d, seqs),
         sending[d].len # 0
  PROVE  /\ missing' \in [Devices -> SUBSET (Nat \X Int)]
         /\ \A e \in Devices : missing[e] \subseteq missing'[e]
         /\ \A e \in Devices : e # d => missing'[e] = missing[e]
         /\ \A s \in Slots : slots[s].active /\ slots[s].src = d =>
              \A q \in seqs : <<sending[d].msg, q>> \in missing'[d]
<1> DEFINE lost == {<<sending[d].msg, q>> : q \in seqs}
<1>1. missing \in [Devices -> SUBSET (Nat \X Int)]
  BY DEF MixInv, LinkTypes
<1>2. lost \subseteq Nat \X Int
  BY FrameInWork
<1>3. CASE Held(slots, d) = {}
  <2>1. missing' = missing
    BY <1>3 DEF Miss
  <2>2. \A s \in Slots : ~(slots[s].active /\ slots[s].src = d)
    BY <1>3 DEF Held
  <2> QED
    BY <1>1, <2>1, <2>2
<1>4. CASE Held(slots, d) # {}
  <2>1. missing' = [missing EXCEPT ![d] = missing[d] \cup lost]
    BY <1>4 DEF Miss
  <2> HIDE DEF lost
  <2>2. missing[d] \cup lost \in SUBSET (Nat \X Int)
    BY <1>1, <1>2
  <2>3. /\ missing' \in [Devices -> SUBSET (Nat \X Int)]
        /\ missing'[d] = missing[d] \cup lost
        /\ \A e \in Devices : e # d => missing'[e] = missing[e]
    BY <1>1, <2>1, <2>2
  <2>4. \A q \in seqs : <<sending[d].msg, q>> \in lost
    BY DEF lost
  <2> QED
    BY <2>3, <2>4
<1> QED
  BY <1>3, <1>4

\* A frame that does not come, alone or with those after it.
LEMMA LostMix ==
  ASSUME MixInv, NEW d \in Devices, sending[d].len # 0, NEW seqs \in SUBSET Int,
         Miss(d, seqs), sending[d].seq \in seqs,
         UNCHANGED <<messages, slots>>,
         sending' \in [Devices -> [msg : Nat, len : Nat, seq : Nat]],
         \A e \in Devices : WorkOK(e)',
         \A e \in Devices : e # d => sending'[e] = sending[e],
         \/ sending'[d] = NotSending
         \/ /\ sending'[d].msg = sending[d].msg /\ sending'[d].len = sending[d].len
            /\ sending'[d].seq = sending[d].seq + 1
  PROVE  MixInv'
<1> DEFINE w == sending[d]
<1>1. LinkTypes'
  BY MissTypes DEF MixInv, LinkTypes
<1>2. ASSUME NEW s \in Slots
      PROVE  HoldsOK(s)' /\ MixOK(s)'
  <2>1. CASE ~(slots[s].active /\ slots[s].src = d)
    <3>1. slots'[s].active => /\ sending'[slots[s].src] = sending[slots[s].src]
                              /\ missing'[slots[s].src] = missing[slots[s].src]
      BY <2>1, MissTypes DEF MixInv, HoldsOK
    <3>2. messages' \in Nat /\ messages <= messages' /\ slots'[s] \in {slots[s], Free}
      BY DEF MixInv, LinkTypes
    <3> QED
      BY <3>1, <3>2, OtherSlotOK
  <2>2. CASE slots[s].active /\ slots[s].src = d
    <3>1. HoldsOK(s) /\ MixOK(s) /\ messages \in Nat
      BY DEF MixInv, LinkTypes
    <3>2. HoldsOK(s)' /\ At(s)' = At(s)
      BY <3>1 DEF HoldsOK, At
    <3>3. At(s) # 0 /\ slots[s].expected \in Int /\ w.seq \in Nat /\ w.msg # 0 /\ w.len # 0
      <4>1. slots[s].total = FragmentCount(slots[s].len) /\ FragmentCount(slots[s].len) \in 1..5
        BY <2>2, <3>1, Fragments DEF HoldsOK
      <4> QED
        BY <4>1, <2>2, <3>1, FrameInWork DEF HoldsOK
    <3>4. /\ missing[d] \subseteq missing'[d] /\ <<w.msg, w.seq>> \in missing'[d]
      BY <2>2, MissTypes
    <3>5. <<At(s), slots[s].expected>> \in missing'[d]
      <4>1. CASE w.msg = At(s) /\ slots[s].expected = w.seq
        BY <3>4, <4>1
      <4>2. CASE w.msg = At(s) /\ slots[s].expected # w.seq
        <5>1. slots[s].expected <= w.seq
          BY <2>2, <3>1, <4>2 DEF MixOK
        <5>2. slots[s].expected < w.seq
          BY <3>3, <4>2, <5>1
        <5> QED
          BY <2>2, <3>1, <3>4, <4>2, <5>2 DEF MixOK
      <4>3. CASE w.msg # At(s)
        BY <2>2, <3>1, <3>4, <4>3 DEF MixOK
      <4> QED
        BY <4>1, <4>2, <4>3
    <3>6. CASE sending'[d] = NotSending
      BY <2>2, <3>2, <3>3, <3>5, <3>6 DEF MixOK, NotSending
    <3>7. CASE /\ sending'[d].msg = w.msg /\ sending'[d].len = w.len
               /\ sending'[d].seq = w.seq + 1
      <4>1. w.msg = At(s) => w.len = slots[s].len /\ slots[s].expected <= w.seq + 1
        <5>1. w.msg = At(s) => w.len = slots[s].len /\ slots[s].expected <= w.seq
          BY <2>2, <3>1 DEF MixOK
        <5>2. slots[s].expected <= w.seq => slots[s].expected <= w.seq + 1
          BY <3>3
        <5> QED
          BY <5>1, <5>2
      <4>2. w.msg # At(s) => <<w.msg, 0>> \in missing'[d]
        <5>1. CASE w.seq = 0
          BY <3>4, <5>1
        <5>2. CASE w.seq # 0
          <6>1. w.seq > 0
            BY <3>3, <5>2
          <6> QED
            BY <2>2, <3>1, <3>3, <3>4, <6>1 DEF MixOK
        <5> QED
          BY <5>1, <5>2
      <4> QED
        BY <2>2, <3>2, <3>5, <3>7, <4>1, <4>2 DEF MixOK
    <3> QED
      BY <3>2, <3>6, <3>7
  <2> QED
    BY <2>1, <2>2
<1> QED
  BY <1>1, <1>2 DEF MixInv

LEMMA CallMix ==
  ASSUME MixInv, NEW d \in Devices, NEW len \in Lengths, CallSendSysex(d, len)
  PROVE  MixInv'
<1>1. CASE ~Sendable(len)
  <2>1. UNCHANGED <<sending, messages, slots, missing>>
    BY <1>1 DEF CallSendSysex
  <2> QED
    BY <2>1 DEF MixInv, LinkTypes, WorkOK, HoldsOK, MixOK, At
<1>2. CASE Sendable(len)
  <2> DEFINE w == [msg |-> messages + 1, len |-> len, seq |-> 0]
  <2>1. /\ sending' = [sending EXCEPT ![d] = w] /\ messages' = messages + 1
        /\ UNCHANGED <<slots, missing>> /\ sending[d].len = 0
    BY <1>2 DEF CallSendSysex
  <2>2. messages \in Nat /\ sending \in [Devices -> [msg : Nat, len : Nat, seq : Nat]]
    BY DEF MixInv, LinkTypes
  <2>3. len \in 1..MaxMessage /\ len \in Nat
    BY <1>2 DEF Sendable, MaxMessage
  <2>4. w \in [msg : Nat, len : Nat, seq : Nat]
    BY <2>2, <2>3
  <2>5. w.msg = messages + 1 /\ w.len = len /\ w.seq = 0
    OBVIOUS
  <2> HIDE DEF w
  <2>6. /\ sending' \in [Devices -> [msg : Nat, len : Nat, seq : Nat]]
        /\ sending'[d] = w /\ \A e \in Devices : e # d => sending'[e] = sending[e]
    BY <2>1, <2>2, <2>4
  <2>7. messages' \in Nat /\ messages <= messages' /\ messages + 1 \in 1..messages'
    BY <2>1, <2>2
  <2>8. LinkTypes'
    BY <2>1, <2>6, <2>7 DEF MixInv, LinkTypes
  <2>9. ASSUME NEW e \in Devices
        PROVE  WorkOK(e)'
    <3>1. CASE e = d
      <4>1. FragmentCount(len) \in 1..5
        BY <2>3, Fragments
      <4>2. 0 \in 0..(FragmentCount(len) - 1)
        BY <4>1
      <4> QED
        BY <2>3, <2>5, <2>6, <2>7, <3>1, <4>2 DEF WorkOK
    <3>2. CASE e # d
      <4>1. WorkOK(e) /\ sending'[e] = sending[e]
        BY <2>6, <3>2 DEF MixInv
      <4>2. \A m : m \in 1..messages => m \in 1..messages'
        BY <2>2, <2>7
      <4> QED
        BY <4>1, <4>2 DEF WorkOK
    <3> QED
      BY <3>1, <3>2
  <2>10. ASSUME NEW s \in Slots
         PROVE  HoldsOK(s)' /\ MixOK(s)'
    <3>1. CASE ~(slots[s].active /\ slots[s].src = d)
      <4>1. slots'[s].active => /\ sending'[slots[s].src] = sending[slots[s].src]
                                /\ missing'[slots[s].src] = missing[slots[s].src]
        BY <2>1, <2>6, <3>1 DEF MixInv, HoldsOK
      <4> QED
        BY <2>1, <2>7, <4>1, OtherSlotOK
    <3>2. CASE slots[s].active /\ slots[s].src = d
      <4>1. HoldsOK(s) /\ MixOK(s)
        BY DEF MixInv
      <4>2. At(s) \in 1..messages /\ At(s)' = At(s)
        BY <2>1, <3>2, <4>1 DEF HoldsOK, At
      <4>3. At(s) \in 1..messages' /\ At(s) # messages + 1 /\ At(s) # 0
        BY <2>2, <2>7, <4>2
      <4>4. HoldsOK(s)'
        BY <2>1, <3>2, <4>1, <4>2, <4>3 DEF HoldsOK
      <4>5. sending[d].msg = 0
        <5>1. WorkOK(d) /\ sending[d].len \notin 1..MaxMessage
          BY <2>1 DEF MixInv
        <5>2. sending[d] = NotSending
          BY <5>1 DEF WorkOK
        <5> QED
          BY <5>2 DEF NotSending
      <4>6. <<At(s), slots[s].expected>> \in missing[d]
        BY <3>2, <4>1, <4>3, <4>5 DEF MixOK
      <4>7. ~(w.seq > 0)
        BY <2>5
      <4>8. MixOK(s)'
        BY <2>1, <2>5, <2>6, <3>2, <4>2, <4>3, <4>6, <4>7 DEF MixOK
      <4> QED
        BY <4>4, <4>8
    <3> QED
      BY <3>1, <3>2
  <2> QED
    BY <2>8, <2>9, <2>10 DEF MixInv
<1> QED
  BY <1>1, <1>2

LEMMA NextMix ==
  ASSUME MixInv, OneSlotPerSender, ForeignIsForeign, [Next]_vars
  PROVE  MixInv'
<1>1. ASSUME NEW d \in Devices, LoseFrame(d)
      PROVE  MixInv'
  <2>1. /\ sending[d].len # 0 /\ FrameSent(d) /\ Miss(d, {sending[d].seq})
        /\ UNCHANGED <<messages, slots>>
    BY <1>1 DEF LoseFrame
  <2>2. {sending[d].seq} \in SUBSET Int
    BY <2>1, FrameInWork
  <2> QED
    BY <2>1, <2>2, SentWork, LostMix
<1>2. ASSUME NEW d \in Devices, SendFails(d)
      PROVE  MixInv'
  <2> DEFINE seqs == sending[d].seq..(FragmentCount(sending[d].len) - 1)
  <2>1. /\ sending[d].len # 0 /\ Miss(d, seqs) /\ UNCHANGED <<messages, slots>>
        /\ sending' = [sending EXCEPT ![d] = NotSending]
    BY <1>2 DEF SendFails
  <2>2. seqs \in SUBSET Int /\ sending[d].seq \in seqs
    BY <2>1, FrameInWork
  <2> HIDE DEF seqs
  <2>3. sending \in [Devices -> [msg : Nat, len : Nat, seq : Nat]]
    BY DEF MixInv, LinkTypes
  <2>4. NotSending \in [msg : Nat, len : Nat, seq : Nat]
    BY DEF NotSending
  <2>5. /\ sending' \in [Devices -> [msg : Nat, len : Nat, seq : Nat]]
        /\ sending'[d] = NotSending
        /\ \A e \in Devices : e # d => sending'[e] = sending[e]
    BY <2>1, <2>3, <2>4
  <2>6. \A e \in Devices : WorkOK(e)'
    BY <2>1, <2>5 DEF MixInv, WorkOK
  <2> QED
    BY <2>1, <2>2, <2>5, <2>6, LostMix
<1>3. ASSUME NEW d \in Devices, ForeignFrame(d)
      PROVE  UNCHANGED <<sending, messages, slots, missing>>
  BY <1>3 DEF ForeignFrame, ForeignIsForeign, Receive
<1>4. ASSUME UNCHANGED <<sending, messages, slots, missing>>
      PROVE  MixInv'
  BY <1>4 DEF MixInv, LinkTypes, WorkOK, HoldsOK, MixOK, At
<1>5. CASE Tick
  BY <1>4, <1>5 DEF Tick
<1>6. CASE UNCHANGED vars
  BY <1>4, <1>6 DEF vars
<1> QED
  BY <1>1, <1>2, <1>3, <1>4, <1>5, <1>6, SendFrameMix, CallMix DEF Next

LEMMA InitMix ==
  ASSUME Init
  PROVE  MixInv
<1>1. LinkTypes
  <2>1. /\ sending = [d \in Devices |-> NotSending] /\ missing = [d \in Devices |-> {}]
        /\ messages = 0
    BY DEF Init
  <2>2. NotSending \in [msg : Nat, len : Nat, seq : Nat]
    BY DEF NotSending
  <2> QED
    BY <2>1, <2>2 DEF LinkTypes
<1>2. \A s \in Slots : ~slots[s].active
  BY DEF Init, Free
<1>3. \A d \in Devices : sending[d] = NotSending
  BY DEF Init
<1> QED
  BY <1>1, <1>2, <1>3 DEF MixInv, WorkOK, HoldsOK, MixOK

LEMMA MixHolds ==
  ASSUME ForeignIsForeign
  PROVE  Spec => [](LinkInv /\ MixInv)
<1>1. Init => LinkInv /\ MixInv
  BY InitInv, InitMix
<1>2. LinkInv /\ MixInv /\ [Next]_vars => (LinkInv /\ MixInv)'
  <2> SUFFICES ASSUME LinkInv, MixInv, [Next]_vars
               PROVE  LinkInv' /\ MixInv'
    OBVIOUS
  <2>1. OneSlotPerSender
    BY DEF LinkInv
  <2> QED
    BY <2>1, NextInv, NextMix
<1> QED
  BY <1>1, <1>2, PTL DEF Spec

-----------------------------------------------------------------------------
\* What is joined to a slot is the next frame of the message that its sender has in
\* work.
LEMMA JoinIsNextFrame ==
  ASSUME LinkInv, ForeignIsForeign, Next,
         NEW s \in Slots, NEW d \in Devices, Joined(s, d)
  PROVE  sending[d].len # 0 /\ Continues(s, d, NextFrame(d))
<1>1. ASSUME NEW e \in Devices, NEW len \in Lengths, CallSendSysex(e, len)
      PROVE  FALSE
  BY <1>1, NothingJoined DEF CallSendSysex
<1>2. ASSUME NEW e \in Devices, SendFrame(e)
      PROVE  sending[d].len # 0 /\ Continues(s, d, NextFrame(d))
  BY <1>2, ReceiveJoins DEF SendFrame
<1>3. ASSUME NEW e \in Devices, LoseFrame(e) \/ SendFails(e)
      PROVE  FALSE
  BY <1>3, NothingJoined DEF LoseFrame, SendFails
<1>4. ASSUME NEW e \in Devices, ForeignFrame(e)
      PROVE  FALSE
  BY <1>4, ReceiveJoins DEF ForeignFrame, ForeignIsForeign
<1>5. CASE Tick
  BY <1>5, NothingJoined DEF Tick
<1> QED
  BY <1>1, <1>2, <1>3, <1>4, <1>5 DEF Next

\* A message is mixed from two only if two frames were lost, the expected one and the
\* first of the second message: feed() looks at lengths and numbers of frames alone.
THEOREM MixingTakesTwoLosses ==
  ASSUME ForeignIsForeign
  PROVE  Spec => MixNeedsTwoLosses
<1>1. ASSUME LinkInv, MixInv, Next,
             NEW s \in Slots, NEW d \in Devices, Joined(s, d), At(s) # sending[d].msg
      PROVE  {<<At(s), slots[s].expected>>, <<sending[d].msg, 0>>} \subseteq missing[d]
  <2>1. sending[d].len # 0 /\ Continues(s, d, NextFrame(d))
    BY <1>1, JoinIsNextFrame
  <2>2. sending[d].seq \in Nat /\ sending[d].seq # 0
    <3>1. sending[d].seq # 0
      BY <1>1, <2>1, FrameInWork DEF Continues
    <3> QED
      BY <1>1, <3>1 DEF MixInv, LinkTypes
  <2>3. sending[d].seq > 0
    BY <2>2
  <2>4. MixOK(s) /\ slots[s].active /\ slots[s].src = d
    BY <1>1 DEF MixInv, Joined
  <2> QED
    BY <1>1, <2>1, <2>3, <2>4 DEF MixOK
<1>2. LinkInv /\ MixInv /\ [Next]_vars
      => [\A s \in Slots, d \in Devices : Joined(s, d) =>
            LET n == slots[s].expected
                a == slots[s].buf[n]
                b == sending[d].msg
            IN  a # b => {<<a, n>>, <<b, 0>>} \subseteq missing[d]]_vars
  <2> SUFFICES ASSUME LinkInv, MixInv, Next,
                      NEW s \in Slots, NEW d \in Devices, Joined(s, d),
                      slots[s].buf[slots[s].expected] # sending[d].msg
               PROVE  {<<slots[s].buf[slots[s].expected], slots[s].expected>>,
                       <<sending[d].msg, 0>>} \subseteq missing[d]
    BY DEF vars
  <2>1. At(s) = slots[s].buf[slots[s].expected]
    BY DEF At
  <2> QED
    BY <1>1, <2>1
<1> QED
  BY <1>2, MixHolds, PTL DEF Spec, MixNeedsTwoLosses

-----------------------------------------------------------------------------
\* A slot is at least as long without a frame as its sender is silent.
AgesOK(s) == slots[s].active => heard[slots[s].src].age <= idle[s]

\* Slot `s' has what came of the message that `d' has in work.
GoodSlot(s, d) ==
  /\ slots[s].active /\ slots[s].src = d
  /\ slots[s].expected = heard[d].next /\ idle[s] = heard[d].age
  /\ \A i \in 1..slots[s].expected : slots[s].buf[i] = heard[d].msg

\* The message in work came so far as a whole: it has its slot, unless enough others
\* were heard since to take the slot from it.
Whole(d) == sending[d].len # 0 /\ heard[d].msg = sending[d].msg

IntactOK(d) ==
  Whole(d) => /\ heard[d].age <= Timeout
              /\ \/ Cardinality(Crowd(d)) >= Cardinality(Slots)
                 \/ \E s \in Slots : GoodSlot(s, d)

HeardTypes ==
  /\ heard \in [Devices -> [msg : Nat, next : Nat, total : Nat, age : 0..(Timeout + 1)]]
  /\ \A d \in Devices : heard[d].msg <= messages

IntactInv ==
  /\ HeardTypes
  /\ \A s \in Slots : AgesOK(s)
  /\ \A d \in Devices : IntactOK(d)

LEMMA AgeType ==
  ASSUME LinkInv, NEW s \in Slots, slots[s].active
  PROVE  Age(slots[s]) \in Nat /\ idle[s] \in Nat
<1>1. now \in 0..(ClockMod - 1) /\ slots[s].last \in 0..(ClockMod - 1)
  BY DEF LinkInv, ClockInv, SlotOK
<1>2. ClockMod \in Nat \ {0}
  BY LinkAssumption
<1>3. (now - slots[s].last) % ClockMod
        = IF now >= slots[s].last THEN now - slots[s].last ELSE now - slots[s].last + ClockMod
  BY <1>1, <1>2, Modulo
<1>4. Age(slots[s]) \in Nat
  BY <1>1, <1>2, <1>3 DEF Age
<1>5. idle[s] \in Nat
  BY LinkAssumption DEF LinkInv, ClockInv
<1> QED
  BY <1>4, <1>5

\* A slot that has not expired has the age that is counted.
LEMMA LiveAge ==
  ASSUME LinkInv, NEW s \in Slots, ExpireStale[s].active
  PROVE  /\ slots[s].active /\ ExpireStale[s] = slots[s]
         /\ idle[s] = Age(slots[s]) /\ idle[s] \in 0..Timeout
<1>1. slots[s].active /\ ExpireStale[s] = slots[s] /\ ~Expired(slots[s])
  BY ExpireStaleKeeps
<1>2. ~(Age(slots[s]) > Timeout) /\ idle[s] = Bounded(Age(slots[s]))
  BY <1>1 DEF Expired, LinkInv, ClockInv, SlotOK
<1>3. idle[s] = Age(slots[s])
  BY <1>2 DEF Bounded
<1>4. idle[s] \in 0..Timeout
  BY <1>1, <1>2, <1>3, AgeType, LinkAssumption
<1> QED
  BY <1>1, <1>3, <1>4

LEMMA NotYetExpired ==
  ASSUME LinkInv, NEW s \in Slots, slots[s].active, idle[s] <= Timeout
  PROVE  ExpireStale[s] = slots[s]
<1>1. idle[s] = Bounded(Age(slots[s])) /\ Age(slots[s]) \in Nat /\ Timeout \in Nat
  BY AgeType, LinkAssumption DEF LinkInv, ClockInv, SlotOK
<1>2. ~(Age(slots[s]) > Timeout)
  BY <1>1 DEF Bounded
<1> QED
  BY <1>2 DEF ExpireStale, Expired

LEMMA MinIsIn ==
  ASSUME NEW T \in SUBSET Nat, T # {}
  PROVE  Min(T) \in T
<1>1. \E n \in T : \A m \in T : n <= m
  BY LeastNat
<1> QED
  BY <1>1 DEF Min

\* allocSlot() finds a slot, and takes one that is in use only if all are, and then one
\* that no other is older than.
LEMMA AllocCases ==
  ASSUME LinkInv, NEW s, s = AllocSlot(ExpireStale)
  PROVE  /\ s \in Slots
         /\ ExpireStale[s].active =>
              \A t \in Slots : ExpireStale[t].active /\ idle[t] <= idle[s]
<1> DEFINE sl == ExpireStale
           unused == {t \in Slots : ~sl[t].active}
           oldest == {t \in Slots : \A u \in Slots : SignedAge(sl[u]) <= SignedAge(sl[t])}
<1>1. s = Min(IF unused # {} THEN unused ELSE oldest)
  BY DEF AllocSlot
<1>2. unused \in SUBSET Nat /\ oldest \in SUBSET Nat
  BY LinkAssumption
<1>3. CASE unused # {}
  <2>1. s \in unused
    BY <1>1, <1>2, <1>3, MinIsIn
  <2> QED
    BY <2>1
<1>4. CASE unused = {}
  <2>1. ASSUME NEW t \in Slots
        PROVE  sl[t].active /\ SignedAge(sl[t]) = idle[t] /\ idle[t] \in 0..Timeout
    <3>1. sl[t].active
      BY <1>4
    <3>2. sl[t] = slots[t] /\ idle[t] = Age(slots[t]) /\ idle[t] \in 0..Timeout
      BY <3>1, LiveAge
    <3>3. 2 * Age(slots[t]) < ClockMod
      BY <3>2, LinkAssumption
    <3> QED
      BY <3>1, <3>2, <3>3 DEF SignedAge
  <2> HIDE DEF sl
  <2>2. oldest # {}
    <3> DEFINE young == {Timeout - idle[t] : t \in Slots}
    <3>1. young \in SUBSET Nat /\ young # {}
      <4>1. \A t \in Slots : Timeout - idle[t] \in Nat
        BY <2>1, LinkAssumption
      <4> QED
        BY <4>1, LinkAssumption
    <3>2. PICK n \in young : \A m \in young : n <= m
      BY <3>1, LeastNat
    <3>3. PICK t \in Slots : n = Timeout - idle[t]
      BY <3>2
    <3>4. \A u \in Slots : Timeout - idle[t] <= Timeout - idle[u]
      BY <3>2, <3>3
    <3>5. \A u \in Slots : idle[u] <= idle[t]
      BY <2>1, <3>4, LinkAssumption
    <3>6. t \in oldest
      BY <2>1, <3>5
    <3> QED
      BY <3>6
  <2>3. s \in oldest
    BY <1>1, <1>2, <1>4, <2>2, MinIsIn
  <2> QED
    BY <2>1, <2>3 DEF sl
<1> QED
  BY <1>3, <1>4

\* The sender whose slot is taken was heard less lately than as many others as there
\* are slots: the senders in the other slots, and the one that takes it.
LEMMA TakenIsCrowded ==
  ASSUME LinkInv, IntactInv, NEW d \in Devices, NEW e \in Devices, e # d,
         Held(ExpireStale, e) = {}, NEW s \in Slots, GoodSlot(s, d),
         \A t \in Slots : ExpireStale[t].active /\ idle[t] <= idle[s],
         \A t \in Slots : slots[t].active => slots[t].src \in Devices,
         heard'[e].age = 0, \A c \in Devices : c # e => heard'[c] = heard[c]
  PROVE  Cardinality(Crowd(d)') >= Cardinality(Slots)
<1> DEFINE g == [t \in Slots |-> IF t = s THEN e ELSE slots[t].src]
           crowd == Crowd(d)'
<1>1. crowd = {c \in Devices \ {d} : heard'[c].age <= heard'[d].age}
  BY DEF Crowd
<1>2. heard'[d] = heard[d] /\ heard[d].age \in Nat
  BY LinkAssumption DEF IntactInv, HeardTypes
<1>3. ASSUME NEW t \in Slots
      PROVE  g[t] \in crowd
  <2>1. CASE t = s
    <3>1. heard'[e].age <= heard'[d].age
      BY <1>2
    <3> QED
      BY <1>1, <2>1, <3>1
  <2>2. CASE t # s
    <3>1. slots[t].active /\ slots[s].active /\ slots[s].src = d /\ idle[s] = heard[d].age
      BY LiveAge DEF GoodSlot
    <3>2. slots[t].src # d
      BY <2>2, <3>1 DEF LinkInv, OneSlotPerSender
    <3>3. slots[t].src # e
      BY LiveAge DEF Held
    <3>4. slots[t].src \in Devices /\ heard'[slots[t].src] = heard[slots[t].src]
      BY <3>1, <3>3
    <3>5. heard[slots[t].src].age <= idle[t] /\ idle[t] <= heard[d].age
      BY <3>1 DEF IntactInv, AgesOK
    <3>6. heard[slots[t].src].age \in Int /\ idle[t] \in Int
      BY <3>1, <3>4, AgeType, LinkAssumption DEF IntactInv, HeardTypes
    <3>7. heard[slots[t].src].age <= heard[d].age
      BY <1>2, <3>5, <3>6
    <3> QED
      BY <1>1, <1>2, <2>2, <3>2, <3>4, <3>7
  <2> QED
    BY <2>1, <2>2
<1>4. \A t, u \in Slots : g[t] = g[u] => t = u
  <2>1. \A t \in Slots : slots[t].active /\ slots[t].src # e
    BY LiveAge DEF Held
  <2> QED
    BY <2>1 DEF LinkInv, OneSlotPerSender
<1>5. g \in Injection(Slots, crowd)
  <2>1. g \in [Slots -> crowd]
    BY <1>3
  <2> HIDE DEF g
  <2> QED
    BY <1>4, <2>1 DEF Injection, IsInjective
<1>6. IsFiniteSet(crowd)
  <2>1. crowd \in SUBSET Devices
    BY <1>1
  <2> QED
    BY <2>1, LinkAssumption, FS_Subset
<1> HIDE DEF g, crowd
<1>7. Cardinality(Slots) <= Cardinality(crowd)
  BY <1>5, <1>6, FS_Injection
<1>8. Cardinality(Slots) \in Nat /\ Cardinality(crowd) \in Nat
  BY <1>6, LinkAssumption, FS_CardinalityType
<1> QED
  BY <1>7, <1>8 DEF crowd

\* More are in the crowd when all are heard as they were, or as lately.
LEMMA CrowdGrows ==
  ASSUME NEW d \in Devices, Cardinality(Crowd(d)) >= Cardinality(Slots),
         \A e \in Devices : heard[e].age <= heard[d].age => heard'[e].age <= heard'[d].age
  PROVE  Cardinality(Crowd(d)') >= Cardinality(Slots)
<1> DEFINE crowd == Crowd(d)
           after == Crowd(d)'
<1>1. after = {c \in Devices \ {d} : heard'[c].age <= heard'[d].age}
  BY DEF Crowd
<1>2. crowd = {c \in Devices \ {d} : heard[c].age <= heard[d].age}
  BY DEF Crowd
<1>3. crowd \in SUBSET after /\ after \in SUBSET Devices
  BY <1>1, <1>2
<1> HIDE DEF crowd, after
<1>4. IsFiniteSet(after)
  BY <1>3, LinkAssumption, FS_Subset
<1>5. IsFiniteSet(crowd) /\ Cardinality(crowd) <= Cardinality(after)
  BY <1>3, <1>4, FS_Subset
<1>6. Cardinality(crowd) \in Nat /\ Cardinality(after) \in Nat /\ Cardinality(Slots) \in Nat
  BY <1>4, <1>5, LinkAssumption, FS_CardinalityType
<1> QED
  BY <1>5, <1>6 DEF crowd, after

\* What a step leaves of a message that is whole, if it neither receives a frame nor
\* lets time pass.
LEMMA QuietIntact ==
  ASSUME IntactInv, UNCHANGED <<slots, idle, heard>>, messages' \in Nat,
         messages \in Nat, messages <= messages',
         \A d \in Devices : Whole(d)' => Whole(d)
  PROVE  IntactInv'
<1>1. HeardTypes'
  <2>1. \A d \in Devices : heard[d].msg \in Nat /\ heard[d].msg <= messages
    BY DEF IntactInv, HeardTypes
  <2>2. \A d \in Devices : heard[d].msg <= messages'
    BY <2>1
  <2> QED
    BY <2>2 DEF IntactInv, HeardTypes
<1>2. \A s \in Slots : AgesOK(s)'
  BY DEF IntactInv, AgesOK
<1>3. \A d \in Devices : Crowd(d)' = Crowd(d) /\ \A s \in Slots : GoodSlot(s, d)' <=> GoodSlot(s, d)
  BY DEF Crowd, GoodSlot
<1>4. \A d \in Devices : IntactOK(d)'
  BY <1>3 DEF IntactInv, IntactOK
<1> QED
  BY <1>1, <1>2, <1>4 DEF IntactInv

\* The clock runs on.
LEMMA HeardTick ==
  ASSUME LinkInv, IntactInv, Tick, NEW d \in Devices
  PROVE  /\ heard[d].age < Timeout =>
              /\ heard'[d].msg = heard[d].msg /\ heard'[d].next = heard[d].next
              /\ heard'[d].age = heard[d].age + 1
         /\ ~(heard[d].age < Timeout) => heard'[d] = Silent
<1>1. heard'[d] = IF heard[d].age < Timeout THEN [heard[d] EXCEPT !.age = @ + 1] ELSE Silent
  BY DEF Tick
<1>2. heard[d] \in [msg : Nat, next : Nat, total : Nat, age : 0..(Timeout + 1)]
  BY DEF IntactInv, HeardTypes
<1>3. CASE heard[d].age < Timeout
  <2>1. heard'[d] = [heard[d] EXCEPT !.age = @ + 1]
    BY <1>1, <1>3
  <2> QED
    BY <1>2, <1>3, <2>1
<1>4. CASE ~(heard[d].age < Timeout)
  BY <1>1, <1>4
<1> QED
  BY <1>3, <1>4

LEMMA TickIntact ==
  ASSUME LinkInv, MixInv, IntactInv, Tick
  PROVE  IntactInv'
<1>1. Timeout \in Nat
  BY LinkAssumption
<1>2. HeardTypes'
  <2>1. ASSUME NEW d \in Devices
        PROVE  /\ heard'[d] \in [msg : Nat, next : Nat, total : Nat, age : 0..(Timeout + 1)]
               /\ heard'[d].msg <= messages
    <3>1. /\ heard[d] \in [msg : Nat, next : Nat, total : Nat, age : 0..(Timeout + 1)]
          /\ heard[d].msg <= messages /\ messages \in Nat
      BY DEF IntactInv, HeardTypes, MixInv, LinkTypes
    <3>2. heard'[d] = IF heard[d].age < Timeout THEN [heard[d] EXCEPT !.age = @ + 1] ELSE Silent
      BY DEF Tick
    <3>3. CASE heard[d].age < Timeout
      <4>1. heard'[d] = [heard[d] EXCEPT !.age = @ + 1] /\ heard[d].age + 1 \in 0..(Timeout + 1)
        BY <1>1, <3>1, <3>2, <3>3
      <4> QED
        BY <3>1, <4>1
    <3>4. CASE ~(heard[d].age < Timeout)
      <4>1. heard'[d] = Silent /\ Timeout + 1 \in 0..(Timeout + 1)
        BY <1>1, <3>2, <3>4
      <4> QED
        BY <3>1, <4>1 DEF Silent
    <3> QED
      BY <3>3, <3>4
  <2>2. heard' = [d \in Devices |-> heard'[d]] /\ messages' = messages
    BY DEF Tick
  <2> QED
    BY <2>1, <2>2 DEF HeardTypes
<1>3. ASSUME NEW s \in Slots, slots[s].active
      PROVE  idle'[s] = Bounded(idle[s] + 1) /\ slots'[s] = slots[s] /\ idle[s] \in Nat
  BY <1>3, AgeType DEF Tick
<1>4. ASSUME NEW s \in Slots
      PROVE  AgesOK(s)'
  <2> SUFFICES ASSUME slots[s].active
               PROVE  heard'[slots[s].src].age <= idle'[s]
    BY DEF AgesOK, Tick
  <2> DEFINE d == slots[s].src
             a == heard[d].age
  <2>1. d \in Devices /\ a <= idle[s] /\ a \in Nat
    BY <1>1 DEF MixInv, HoldsOK, IntactInv, AgesOK, HeardTypes
  <2>2. idle'[s] = Bounded(idle[s] + 1) /\ idle[s] \in Nat
    BY <1>3
  <2>3. CASE a < Timeout
    <3>1. heard'[d].age = a + 1
      BY <2>1, <2>3, HeardTick
    <3> HIDE DEF a, d
    <3>2. a + 1 <= Bounded(idle[s] + 1)
      BY <1>1, <2>1, <2>2, <2>3 DEF Bounded
    <3> QED
      BY <2>2, <3>1, <3>2 DEF d
  <2>4. CASE ~(a < Timeout)
    <3>1. heard'[d].age = Timeout + 1
      BY <2>1, <2>4, HeardTick DEF Silent
    <3> HIDE DEF a, d
    <3>2. Timeout + 1 <= Bounded(idle[s] + 1)
      BY <1>1, <2>1, <2>2, <2>4 DEF Bounded
    <3> QED
      BY <2>2, <3>1, <3>2 DEF d
  <2> QED
    BY <2>3, <2>4
<1>5. ASSUME NEW d \in Devices
      PROVE  IntactOK(d)'
  <2> SUFFICES ASSUME Whole(d)'
               PROVE  /\ heard'[d].age <= Timeout
                      /\ \/ Cardinality(Crowd(d)') >= Cardinality(Slots)
                         \/ \E s \in Slots : GoodSlot(s, d)'
    BY DEF IntactOK, Tick
  <2>1. sending' = sending
    BY DEF Tick
  <2>2. \A e \in Devices : heard[e].age \in Nat
    BY <1>1 DEF IntactInv, HeardTypes
  <2>3. sending[d].len # 0 /\ heard'[d].msg = sending[d].msg /\ sending[d].msg # 0
    <3>1. sending[d].len # 0 /\ heard'[d].msg = sending[d].msg
      BY <2>1 DEF Whole
    <3>2. sending[d].msg \in 1..messages /\ messages \in Nat
      BY <3>1, FrameInWork DEF MixInv, LinkTypes
    <3> QED
      BY <3>1, <3>2
  <2>4. heard[d].age < Timeout
    BY <2>3, HeardTick DEF Silent
  <2>5. Whole(d) /\ heard'[d].age = heard[d].age + 1 /\ heard'[d].next = heard[d].next
        /\ heard'[d].msg = heard[d].msg
    BY <2>3, <2>4, HeardTick DEF Whole
  <2>6. heard'[d].age <= Timeout
    BY <1>1, <2>2, <2>4, <2>5
  <2>7. CASE Cardinality(Crowd(d)) >= Cardinality(Slots)
    <3>1. ASSUME NEW e \in Devices, heard[e].age <= heard[d].age
          PROVE  heard'[e].age <= heard'[d].age
      <4>1. heard[e].age < Timeout
        BY <1>1, <2>2, <2>4, <3>1
      <4>2. heard'[e].age = heard[e].age + 1
        BY <4>1, HeardTick
      <4> QED
        BY <2>2, <2>5, <3>1, <4>2
    <3> QED
      BY <2>6, <2>7, <3>1, CrowdGrows
  <2>8. ASSUME NEW s \in Slots, GoodSlot(s, d)
        PROVE  GoodSlot(s, d)'
    <3>1. slots[s].active /\ slots'[s] = slots[s] /\ idle[s] = heard[d].age
          /\ idle'[s] = Bounded(idle[s] + 1)
      BY <1>3, <2>8 DEF GoodSlot
    <3>2. Bounded(heard[d].age + 1) = heard[d].age + 1
      BY <1>1, <2>2, <2>4 DEF Bounded
    <3> QED
      BY <2>5, <2>8, <3>1, <3>2 DEF GoodSlot
  <2> QED
    BY <2>5, <2>6, <2>7, <2>8 DEF IntactInv, IntactOK
<1> QED
  BY <1>2, <1>4, <1>5 DEF IntactInv

-----------------------------------------------------------------------------
\* What is heard when a frame of a message in work comes.
LEMMA HeardFrame ==
  ASSUME MixInv, IntactInv, NEW d \in Devices, sending[d].len # 0,
         Receive(d, NextFrame(d)), UNCHANGED messages
  PROVE  /\ HeardTypes' /\ \A e \in Devices : e # d => heard'[e] = heard[e]
         /\ heard'[d].age = 0 /\ 0 \in 0..(Timeout + 1)
         /\ sending[d].seq = 0 \/ Intact(d, NextFrame(d)) =>
              heard'[d].msg = sending[d].msg /\ heard'[d].next = sending[d].seq + 1
         /\ ~(sending[d].seq = 0 \/ Intact(d, NextFrame(d))) =>
              heard'[d].msg = 0 /\ heard'[d].next = 0
<1> DEFINE f == NextFrame(d)
           w == sending[d]
           new == IF f.seq = 0 \/ Intact(d, f)
                  THEN [msg |-> f.msg, next |-> f.seq + 1, total |-> f.total, age |-> 0]
                  ELSE [Silent EXCEPT !.age = 0]
           Entry == [msg : Nat, next : Nat, total : Nat, age : 0..(Timeout + 1)]
<1>1. heard' = [heard EXCEPT ![d] = new]
  BY FrameInWork DEF Receive
<1>2. /\ w.msg \in 1..messages /\ w.msg \in Nat /\ w.seq \in Nat
      /\ f.msg = w.msg /\ f.seq = w.seq /\ f.total \in Nat
  BY FrameInWork
<1>3. 0 \in 0..(Timeout + 1) /\ messages \in Nat
  BY LinkAssumption DEF MixInv, LinkTypes
<1> HIDE DEF f
<1>4. /\ new \in Entry /\ new.age = 0 /\ new.msg <= messages
      /\ w.seq = 0 \/ Intact(d, f) => new.msg = w.msg /\ new.next = w.seq + 1
      /\ ~(w.seq = 0 \/ Intact(d, f)) => new.msg = 0 /\ new.next = 0
  <2>1. CASE w.seq = 0 \/ Intact(d, f)
    <3>1. new = [msg |-> f.msg, next |-> f.seq + 1, total |-> f.total, age |-> 0]
      BY <1>2, <2>1
    <3> QED
      BY <1>2, <1>3, <2>1, <3>1
  <2>2. CASE ~(w.seq = 0 \/ Intact(d, f))
    <3>1. new = [msg |-> 0, next |-> 0, total |-> 0, age |-> 0]
      BY <1>2, <2>2 DEF Silent
    <3> QED
      BY <1>3, <2>2, <3>1
  <2> QED
    BY <2>1, <2>2
<1>5. heard \in [Devices -> Entry] /\ \A e \in Devices : heard[e].msg <= messages
  BY DEF IntactInv, HeardTypes
<1> HIDE DEF new
<1>6. /\ heard' \in [Devices -> Entry] /\ heard'[d] = new
      /\ \A e \in Devices : e # d => heard'[e] = heard[e]
  BY <1>1, <1>4, <1>5
<1>7. \A e \in Devices : heard'[e].msg <= messages'
  BY <1>4, <1>5, <1>6
<1> QED
  BY <1>3, <1>4, <1>6, <1>7 DEF HeardTypes, f

\* A slot in which nothing is stored is free or as it was, and as old.
LEMMA NotStored ==
  ASSUME LinkInv, NEW d, NEW f, NEW t \in Slots,
         \/ Drops(d, f)
         \/ \E s, slot : s # t /\ Store(ExpireStale, s, slot, d, f)
  PROVE  slots'[t] = ExpireStale[t] /\ idle'[t] = idle[t]
<1>1. CASE Drops(d, f)
  BY <1>1 DEF Drops, Ignore
<1>2. ASSUME NEW s, NEW slot, s # t, Store(ExpireStale, s, slot, d, f)
      PROVE  slots'[t] = ExpireStale[t] /\ idle'[t] = idle[t]
  BY <1>2, StoreSlots, StoreIdle DEF LinkInv, ClockInv
<1> QED
  BY <1>1, <1>2

LEMMA FrameAges ==
  ASSUME LinkInv, MixInv, IntactInv, NEW d \in Devices, NEW f, Feed(d, f),
         HeardTypes', heard'[d].age = 0, \A e \in Devices : e # d => heard'[e] = heard[e],
         NEW t \in Slots
  PROVE  AgesOK(t)'
<1> SUFFICES ASSUME slots'[t].active
             PROVE  heard'[slots'[t].src].age <= idle'[t]
  BY DEF AgesOK
<1>1. ASSUME slots'[t] = ExpireStale[t], idle'[t] = idle[t]
      PROVE  heard'[slots'[t].src].age <= idle'[t]
  <2>1. slots[t].active /\ slots'[t] = slots[t] /\ idle[t] \in Nat
    BY <1>1, LiveAge, AgeType
  <2>2. slots[t].src \in Devices /\ heard[slots[t].src].age <= idle[t]
    BY <2>1 DEF MixInv, HoldsOK, IntactInv, AgesOK
  <2>3. heard'[slots[t].src].age <= idle[t]
    BY <2>1, <2>2
  <2> QED
    BY <1>1, <2>1, <2>3
<1>2. CASE Drops(d, f)
  BY <1>1, <1>2, NotStored
<1>3. ASSUME NEW s, NEW slot, Store(ExpireStale, s, slot, d, f)
      PROVE  heard'[slots'[t].src].age <= idle'[t]
  <2>1. CASE s # t
    BY <1>1, <1>3, <2>1, NotStored
  <2>2. CASE s = t
    <3>1. slots'[t].src = d
      BY <1>3, <2>2, StoreSlots DEF Free
    <3>2. idle'[t] = 0
      BY <1>3, <2>2, StoreIdle DEF LinkInv, ClockInv
    <3> QED
      BY <3>1, <3>2
  <2> QED
    BY <2>1, <2>2
<1> QED
  BY <1>2, <1>3, FeedCases DEF LinkInv, Starts, Continues

\* Another sender's whole message keeps its slot, or so many were heard since.
LEMMA OthersIntact ==
  ASSUME LinkInv, MixInv, IntactInv, NEW d \in Devices, NEW f, Feed(d, f),
         HeardTypes', heard'[d].age = 0, \A e \in Devices : e # d => heard'[e] = heard[e],
         NEW e \in Devices, e # d, sending'[e] = sending[e]
  PROVE  IntactOK(e)'
<1> SUFFICES ASSUME Whole(e)
             PROVE  /\ heard[e].age <= Timeout
                    /\ \/ Cardinality(Crowd(e)') >= Cardinality(Slots)
                       \/ \E s \in Slots : GoodSlot(s, e)'
  BY DEF IntactOK, Whole
<1>1. heard[e].age <= Timeout /\ heard[e].age \in Nat /\ heard'[e] = heard[e]
  BY LinkAssumption DEF IntactInv, IntactOK, HeardTypes
<1>2. CASE Cardinality(Crowd(e)) >= Cardinality(Slots)
  <2>1. \A c \in Devices : heard[c].age <= heard[e].age => heard'[c].age <= heard'[e].age
    BY <1>1
  <2> QED
    BY <1>1, <1>2, <2>1, CrowdGrows
<1>3. ASSUME NEW t \in Slots, GoodSlot(t, e)
      PROVE  \/ Cardinality(Crowd(e)') >= Cardinality(Slots)
             \/ \E s \in Slots : GoodSlot(s, e)'
  <2>1. ExpireStale[t] = slots[t] /\ slots[t].active /\ slots[t].src = e
    BY <1>1, <1>3, NotYetExpired DEF GoodSlot
  <2>2. t \notin Held(ExpireStale, d)
    BY <2>1 DEF Held
  <2>3. ASSUME slots'[t] = ExpireStale[t], idle'[t] = idle[t]
        PROVE  GoodSlot(t, e)'
    BY <1>1, <1>3, <2>1, <2>3 DEF GoodSlot
  <2>4. CASE Drops(d, f)
    BY <2>3, <2>4, NotStored
  <2>5. ASSUME NEW s, Continues(s, d, f)
        PROVE  GoodSlot(t, e)'
    <3>1. s # t /\ Store(ExpireStale, s, ExpireStale[s], d, f)
      BY <2>2, <2>5 DEF Continues
    <3> QED
      BY <2>3, <3>1, NotStored
  <2>6. ASSUME NEW s, Starts(s, d, f), s # t
        PROVE  GoodSlot(t, e)'
    <3>1. Store(ExpireStale, s, StartAssembly(d, f), d, f)
      BY <2>6 DEF Starts
    <3> QED
      BY <2>3, <2>6, <3>1, NotStored
  <2>7. ASSUME NEW s, Starts(s, d, f), s = t
        PROVE  Cardinality(Crowd(e)') >= Cardinality(Slots)
    <3>1. Held(ExpireStale, d) = {} /\ t = AllocSlot(ExpireStale)
      BY <2>2, <2>7 DEF Starts
    <3>2. \A u \in Slots : ExpireStale[u].active /\ idle[u] <= idle[t]
      BY <2>1, <3>1, AllocCases
    <3>3. \A u \in Slots : slots[u].active => slots[u].src \in Devices
      BY DEF MixInv, HoldsOK
    <3> QED
      BY <1>3, <3>1, <3>2, <3>3, TakenIsCrowded
  <2> QED
    BY <2>4, <2>5, <2>6, <2>7, FeedCases DEF LinkInv
<1> QED
  BY <1>1, <1>2, <1>3 DEF IntactInv, IntactOK

\* The next frame of a message that is whole is joined to its slot.
LEMMA IntactJoins ==
  ASSUME LinkInv, MixInv, IntactInv, NEW d \in Devices, sending[d].len # 0,
         sending[d].seq # 0, Intact(d, NextFrame(d)), Feed(d, NextFrame(d))
  PROVE  \E s \in Slots : /\ GoodSlot(s, d) /\ slots[s].expected = sending[d].seq
                          /\ slots[s].len = sending[d].len
                          /\ Store(ExpireStale, s, slots[s], d, NextFrame(d))
<1> DEFINE f == NextFrame(d)
           w == sending[d]
<1>1. heard[d].msg = w.msg /\ heard[d].next = w.seq /\ f.seq = w.seq
  BY FrameInWork DEF Intact
<1>2. Whole(d) /\ heard[d].age <= Timeout
  BY <1>1 DEF Whole, Intact
<1>3. ~(Cardinality(Crowd(d)) >= Cardinality(Slots))
  <2>1. Crowd(d) \in SUBSET Devices
    BY DEF Crowd
  <2>2. Cardinality(Crowd(d)) \in Nat /\ Cardinality(Slots) \in Nat
    BY <2>1, LinkAssumption, FS_Subset, FS_CardinalityType
  <2>3. Cardinality(Crowd(d)) < Cardinality(Slots)
    BY DEF Intact
  <2> QED
    BY <2>2, <2>3
<1>4. PICK s \in Slots : GoodSlot(s, d)
  BY <1>2, <1>3 DEF IntactInv, IntactOK
<1>5. /\ slots[s].active /\ slots[s].src = d /\ slots[s].expected = w.seq
      /\ ExpireStale[s] = slots[s]
  BY <1>1, <1>2, <1>4, NotYetExpired DEF GoodSlot
<1>6. HoldsOK(s) /\ MixOK(s)
  BY DEF MixInv
<1>7. At(s) = w.msg
  <2>1. slots[s].expected \in 1..slots[s].expected
    BY <1>5, FrameInWork
  <2> QED
    BY <1>1, <1>4, <2>1 DEF GoodSlot, At
<1>8. slots[s].len = w.len /\ slots[s].total = FragmentCount(w.len)
  BY <1>5, <1>6, <1>7 DEF MixOK, HoldsOK
<1>9. s \in Held(ExpireStale, d) /\ Joins(ExpireStale[s], f)
  BY <1>1, <1>5, <1>8, FrameInWork DEF Held, Joins
<1>10. ~Drops(d, f)
  BY <1>9 DEF Drops
<1>11. \A x : ~Starts(x, d, f)
  BY <1>1 DEF Starts
<1>12. PICK x : Continues(x, d, f)
  BY <1>10, <1>11, FeedCases DEF LinkInv
<1>13. x = s /\ Store(ExpireStale, s, slots[s], d, f)
  BY <1>5, <1>9, <1>12 DEF Continues
<1> QED
  BY <1>4, <1>5, <1>8, <1>13

\* What the slot of a message that is whole has when its next frame came.
LEMMA OwnIntact ==
  ASSUME LinkInv, MixInv, IntactInv, NEW d \in Devices, SendFrame(d)
  PROVE  IntactOK(d)'
<1> DEFINE f == NextFrame(d)
           w == sending[d]
<1>1. w.len # 0 /\ FrameSent(d) /\ Receive(d, f) /\ Feed(d, f) /\ UNCHANGED messages
  BY FrameInWork DEF SendFrame, Receive
<1>2. w.msg \in Nat /\ w.msg # 0 /\ w.seq \in Nat /\ f.msg = w.msg /\ f.seq = w.seq
  BY <1>1, FrameInWork DEF MixInv, LinkTypes
<1>3. CASE f.last
  <2>1. sending'[d].len = 0
    BY <1>1, <1>3, SentWork DEF NotSending
  <2> QED
    BY <2>1 DEF IntactOK, Whole
<1>4. CASE ~f.last /\ ~(w.seq = 0 \/ Intact(d, f))
  <2>1. heard'[d].msg = 0 /\ sending'[d].msg = w.msg
    BY <1>1, <1>4, HeardFrame, SentWork
  <2> QED
    BY <1>2, <2>1 DEF IntactOK, Whole
<1>5. ASSUME ~f.last, w.seq = 0 \/ Intact(d, f),
             NEW s \in Slots, NEW slot, Store(ExpireStale, s, slot, d, f),
             slot.buf \in Seq(Nat), Len(slot.buf) = w.seq,
             \A i \in 1..w.seq : slot.buf[i] = w.msg
      PROVE  IntactOK(d)'
  <2>1. /\ heard'[d].age = 0 /\ heard'[d].msg = w.msg /\ heard'[d].next = w.seq + 1
        /\ 0 <= Timeout
    BY <1>1, <1>5, HeardFrame, LinkAssumption
  <2> DEFINE buf == Append(slot.buf, w.msg)
  <2>2. slots'[s] = [ active |-> TRUE, src |-> d, len |-> slot.len, total |-> slot.total,
                      expected |-> f.seq + 1, last |-> now, buf |-> Append(slot.buf, f.msg) ]
    BY <1>5, StoreHolds
  <2>3. /\ slots'[s].active /\ slots'[s].src = d /\ slots'[s].expected = w.seq + 1
        /\ slots'[s].buf = buf
    BY <1>2, <2>2
  <2>4. \A i \in 1..(w.seq + 1) : buf[i] = w.msg
    BY <1>2, <1>5
  <2>5. idle'[s] = 0
    BY <1>5, StoreIdle DEF LinkInv, ClockInv
  <2> HIDE DEF buf
  <2>6. GoodSlot(s, d)'
    BY <2>1, <2>3, <2>4, <2>5 DEF GoodSlot
  <2> QED
    BY <2>1, <2>6 DEF IntactOK
<1>6. CASE ~f.last /\ w.seq = 0
  <2>1. PICK s : Starts(s, d, f)
    BY <1>1, <1>2, <1>6, FeedCases DEF Drops, Continues, LinkInv
  <2>2. s \in Slots
    <3>1. CASE Held(ExpireStale, d) = {}
      BY <2>1, <3>1, AllocCases DEF Starts
    <3>2. CASE Held(ExpireStale, d) # {}
      BY <2>1, <3>2 DEF Starts, Held
    <3> QED
      BY <3>1, <3>2
  <2> DEFINE slot == StartAssembly(d, f)
  <2>3. Store(ExpireStale, s, slot, d, f)
    BY <2>1 DEF Starts
  <2>4. slot.buf = <<>> /\ <<>> \in Seq(Nat) /\ Len(<<>>) = 0
    BY DEF StartAssembly
  <2>5. \A i \in 1..w.seq : slot.buf[i] = w.msg
    BY <1>6
  <2> HIDE DEF slot
  <2> QED
    BY <1>5, <1>6, <2>2, <2>3, <2>4, <2>5
<1>7. CASE ~f.last /\ w.seq # 0 /\ Intact(d, f)
  <2>1. PICK s \in Slots : /\ GoodSlot(s, d) /\ slots[s].expected = w.seq
                           /\ Store(ExpireStale, s, slots[s], d, f)
    BY <1>1, <1>7, IntactJoins
  <2>2. slots[s].buf \in Seq(Nat) /\ Len(slots[s].buf) = w.seq
    BY <2>1 DEF GoodSlot, MixInv, HoldsOK
  <2>3. \A i \in 1..w.seq : slots[s].buf[i] = w.msg
    BY <1>2, <1>7, <2>1 DEF GoodSlot, Intact
  <2> QED
    BY <1>5, <1>7, <2>1, <2>2, <2>3
<1> QED
  BY <1>3, <1>4, <1>6, <1>7

LEMMA SendFrameIntact ==
  ASSUME LinkInv, MixInv, IntactInv, NEW d \in Devices, SendFrame(d)
  PROVE  IntactInv'
<1>1. /\ sending[d].len # 0 /\ FrameSent(d) /\ Receive(d, NextFrame(d))
      /\ Feed(d, NextFrame(d)) /\ UNCHANGED messages
  BY FrameInWork DEF SendFrame, Receive
<1>2. HeardTypes' /\ heard'[d].age = 0 /\ \A e \in Devices : e # d => heard'[e] = heard[e]
  BY <1>1, HeardFrame
<1>3. \A s \in Slots : AgesOK(s)'
  BY <1>1, <1>2, FrameAges
<1>4. \A e \in Devices : e # d => IntactOK(e)'
  BY <1>1, <1>2, SentWork, OthersIntact
<1>5. IntactOK(d)'
  BY OwnIntact
<1> QED
  BY <1>2, <1>3, <1>4, <1>5 DEF IntactInv

LEMMA NextIntact ==
  ASSUME LinkInv, MixInv, IntactInv, ForeignIsForeign, [Next]_vars
  PROVE  IntactInv'
<1>1. messages \in Nat /\ sending \in [Devices -> [msg : Nat, len : Nat, seq : Nat]]
  BY DEF MixInv, LinkTypes
<1>2. ASSUME NEW d \in Devices, NEW len \in Lengths, CallSendSysex(d, len)
      PROVE  IntactInv'
  <2>1. CASE ~Sendable(len)
    <3>1. UNCHANGED <<sending, messages, slots, idle, heard>>
      BY <1>2, <2>1 DEF CallSendSysex
    <3> QED
      BY <1>1, <3>1, QuietIntact DEF Whole
  <2>2. CASE Sendable(len)
    <3> DEFINE w == [msg |-> messages + 1, len |-> len, seq |-> 0]
    <3>1. /\ sending' = [sending EXCEPT ![d] = w] /\ messages' = messages + 1
          /\ UNCHANGED <<slots, idle, heard>>
      BY <1>2, <2>2 DEF CallSendSysex
    <3>2. w.msg = messages + 1
      OBVIOUS
    <3> HIDE DEF w
    <3>3. sending'[d] = w /\ \A e \in Devices : e # d => sending'[e] = sending[e]
      BY <1>1, <3>1
    <3>4. heard[d].msg # messages + 1
      <4>1. heard[d].msg \in Nat /\ heard[d].msg <= messages
        BY DEF IntactInv, HeardTypes
      <4> QED
        BY <1>1, <4>1
    <3>5. \A e \in Devices : Whole(e)' => Whole(e)
      BY <3>1, <3>2, <3>3, <3>4 DEF Whole
    <3>6. messages' \in Nat /\ messages <= messages'
      BY <1>1, <3>1
    <3> QED
      BY <1>1, <3>1, <3>5, <3>6, QuietIntact
  <2> QED
    BY <2>1, <2>2
<1>3. ASSUME NEW d \in Devices, LoseFrame(d)
      PROVE  IntactInv'
  <2>1. /\ sending[d].len # 0 /\ FrameSent(d)
        /\ UNCHANGED <<messages, slots, idle, heard>>
    BY <1>3 DEF LoseFrame
  <2>2. \A e \in Devices : Whole(e)' => Whole(e)
    <3>1. \A e \in Devices : e # d => sending'[e] = sending[e]
      BY <2>1, SentWork
    <3>2. sending'[d].len # 0 => sending'[d].msg = sending[d].msg
      BY <2>1, SentWork DEF NotSending
    <3> QED
      BY <2>1, <3>1, <3>2 DEF Whole
  <2> QED
    BY <1>1, <2>1, <2>2, QuietIntact
<1>4. ASSUME NEW d \in Devices, SendFails(d)
      PROVE  IntactInv'
  <2>1. /\ sending' = [sending EXCEPT ![d] = NotSending]
        /\ UNCHANGED <<messages, slots, idle, heard>>
    BY <1>4 DEF SendFails
  <2>2. sending'[d] = NotSending /\ \A e \in Devices : e # d => sending'[e] = sending[e]
    BY <1>1, <2>1
  <2>3. \A e \in Devices : Whole(e)' => Whole(e)
    BY <2>1, <2>2 DEF Whole, NotSending
  <2> QED
    BY <1>1, <2>1, <2>3, QuietIntact
<1>5. ASSUME NEW d \in Devices, ForeignFrame(d)
      PROVE  IntactInv'
  <2>1. UNCHANGED <<sending, messages, slots, idle, heard>>
    BY <1>5 DEF ForeignFrame, ForeignIsForeign, Receive
  <2> QED
    BY <1>1, <2>1, QuietIntact DEF Whole
<1>6. CASE UNCHANGED vars
  <2>1. UNCHANGED <<sending, messages, slots, idle, heard>>
    BY <1>6 DEF vars
  <2> QED
    BY <1>1, <2>1, QuietIntact DEF Whole
<1> QED
  BY <1>2, <1>3, <1>4, <1>5, <1>6, SendFrameIntact, TickIntact DEF Next

LEMMA InitIntact ==
  ASSUME Init
  PROVE  IntactInv
<1>1. HeardTypes
  <2>1. heard = [d \in Devices |-> Silent] /\ messages = 0
    BY DEF Init
  <2>2. Silent \in [msg : Nat, next : Nat, total : Nat, age : 0..(Timeout + 1)] /\ Silent.msg <= 0
    BY LinkAssumption DEF Silent
  <2> QED
    BY <2>1, <2>2 DEF HeardTypes
<1>2. \A s \in Slots : AgesOK(s)
  BY DEF Init, Free, AgesOK
<1>3. \A d \in Devices : IntactOK(d)
  BY DEF Init, NotSending, IntactOK, Whole
<1> QED
  BY <1>1, <1>2, <1>3 DEF IntactInv

LEMMA IntactHolds ==
  ASSUME ForeignIsForeign
  PROVE  Spec => [](LinkInv /\ MixInv /\ IntactInv)
<1>1. Init => IntactInv
  BY InitIntact
<1>2. LinkInv /\ MixInv /\ IntactInv /\ [Next]_vars => IntactInv'
  BY NextIntact
<1> QED
  BY <1>1, <1>2, MixHolds, PTL DEF Spec

-----------------------------------------------------------------------------
\* A sequence of equal entries is what its length says.
LEMMA EqualEntries ==
  ASSUME NEW buf \in Seq(Nat), NEW m \in Nat, NEW n \in Nat, Len(buf) = n,
         \A i \in 1..n : buf[i] = m
  PROVE  buf = [i \in 1..n |-> m]
<1>1. buf \in [1..n -> Nat]
  OBVIOUS
<1> QED
  BY <1>1

\* The last frame of a message that is whole hands it to the handlers.
LEMMA LastFrame ==
  ASSUME LinkInv, MixInv, IntactInv, NEW d \in Devices, SendFrame(d), NextFrame(d).last,
         heard'[d].next = FragmentCount(sending[d].len)
  PROVE  out' = [src |-> d, len |-> sending[d].len,
                 buf |-> [i \in 1..FragmentCount(sending[d].len) |-> sending[d].msg]]
<1> DEFINE f == NextFrame(d)
           w == sending[d]
           n == FragmentCount(w.len)
<1>1. w.len # 0 /\ Receive(d, f) /\ Feed(d, f) /\ UNCHANGED messages
  BY FrameInWork DEF SendFrame, Receive
<1>2. /\ w.msg \in Nat /\ w.seq \in Nat /\ n \in Nat /\ n # 0 /\ n = w.seq + 1
      /\ f.msg = w.msg /\ f.seq = w.seq /\ f.len = w.len
  <2>1. /\ w.msg \in Nat /\ w.seq \in 0..(n - 1) /\ n \in 1..5
        /\ f.msg = w.msg /\ f.seq = w.seq /\ f.len = w.len
        /\ f.last <=> w.seq = n - 1
    BY <1>1, FrameInWork
  <2>2. f.last
    OBVIOUS
  <2> HIDE DEF f, w, n
  <2>3. QED
    BY <2>1, <2>2
<1>3. w.seq = 0 \/ Intact(d, f)
  BY <1>1, <1>2, HeardFrame
<1>4. ASSUME NEW s, NEW slot, Store(ExpireStale, s, slot, d, f), slot.len = w.len,
             slot.buf \in Seq(Nat), Len(slot.buf) = w.seq,
             \A i \in 1..w.seq : slot.buf[i] = w.msg
      PROVE  out' = [src |-> d, len |-> w.len, buf |-> [i \in 1..n |-> w.msg]]
  <2> DEFINE buf == Append(slot.buf, w.msg)
  <2>1. out' = [src |-> d, len |-> slot.len, buf |-> Append(slot.buf, f.msg)]
    BY <1>4 DEF Store
  <2>2. buf \in Seq(Nat) /\ Len(buf) = n /\ \A i \in 1..n : buf[i] = w.msg
    BY <1>2, <1>4
  <2> HIDE DEF n
  <2>3. buf = [i \in 1..n |-> w.msg]
    <3> HIDE DEF buf
    <3> QED
      BY <1>2, <2>2, EqualEntries
  <2> QED
    BY <1>2, <1>4, <2>1, <2>3
<1>5. CASE w.seq = 0
  <2>1. PICK s : Starts(s, d, f)
    BY <1>1, <1>2, <1>5, FeedCases DEF Drops, Continues, LinkInv
  <2> DEFINE slot == StartAssembly(d, f)
  <2>2. Store(ExpireStale, s, slot, d, f)
    BY <2>1 DEF Starts
  <2>3. slot.len = w.len /\ slot.buf = <<>> /\ <<>> \in Seq(Nat) /\ Len(<<>>) = 0
    BY <1>2 DEF StartAssembly
  <2>4. \A i \in 1..w.seq : slot.buf[i] = w.msg
    BY <1>5
  <2> HIDE DEF slot
  <2> QED
    BY <1>4, <1>5, <2>2, <2>3, <2>4
<1>6. CASE w.seq # 0
  <2>1. Intact(d, f)
    BY <1>3, <1>6
  <2>2. PICK s \in Slots : /\ GoodSlot(s, d) /\ slots[s].expected = w.seq
                           /\ slots[s].len = w.len
                           /\ Store(ExpireStale, s, slots[s], d, f)
    BY <1>1, <1>6, <2>1, IntactJoins
  <2>3. slots[s].buf \in Seq(Nat) /\ Len(slots[s].buf) = w.seq
    BY <2>2 DEF GoodSlot, MixInv, HoldsOK
  <2>4. \A i \in 1..w.seq : slots[s].buf[i] = w.msg
    BY <1>2, <2>1, <2>2 DEF GoodSlot, Intact
  <2> QED
    BY <1>4, <2>2, <2>3, <2>4
<1> QED
  BY <1>5, <1>6

\* A message that comes whole is handed to the handlers whole, whoever else sends
\* meanwhile: its slot can only be taken when as many other senders as there are slots
\* were heard as lately (findSlot(), allocSlot(), expireStale()).
THEOREM IntactAlwaysDelivered ==
  ASSUME ForeignIsForeign
  PROVE  Spec => IntactIsDelivered
<1>1. ASSUME LinkInv, MixInv, IntactInv, Next, NEW d \in Devices,
             sending[d].len # 0, NextFrame(d).last, heard'[d] # heard[d],
             heard'[d].next = FragmentCount(sending[d].len), sending'[d].len = 0
      PROVE  out' = [src |-> d, len |-> sending[d].len,
                     buf |-> [i \in 1..FragmentCount(sending[d].len) |-> sending[d].msg]]
  <2>1. SendFrame(d)
    <3>1. ASSUME NEW e \in Devices, SendFrame(e), e # d
          PROVE  FALSE
      <4>1. sending'[d] = sending[d]
        BY <1>1, <3>1, SentWork DEF SendFrame
      <4> QED
        BY <1>1, <4>1
    <3>2. ASSUME NEW e \in Devices, NEW len \in Lengths, CallSendSysex(e, len)
          PROVE  FALSE
      BY <1>1, <3>2 DEF CallSendSysex
    <3>3. ASSUME NEW e \in Devices, LoseFrame(e) \/ SendFails(e)
          PROVE  FALSE
      BY <1>1, <3>3 DEF LoseFrame, SendFails
    <3>4. ASSUME NEW e \in Devices, ForeignFrame(e)
          PROVE  FALSE
      BY <1>1, <3>4 DEF ForeignFrame
    <3>5. CASE Tick
      BY <1>1, <3>5 DEF Tick
    <3> QED
      BY <1>1, <3>1, <3>2, <3>3, <3>4, <3>5 DEF Next
  <2> QED
    BY <1>1, <2>1, LastFrame
<1>2. LinkInv /\ MixInv /\ IntactInv /\ [Next]_vars
      => [\A d \in Devices :
            /\ sending[d].len # 0 /\ NextFrame(d).last /\ heard'[d] # heard[d]
            /\ heard'[d].next = FragmentCount(sending[d].len)
            /\ sending'[d].len = 0
            => out' = [src |-> d, len |-> sending[d].len,
                       buf |-> [i \in 1..FragmentCount(sending[d].len) |-> sending[d].msg]]]_vars
  BY <1>1
<1> QED
  BY <1>2, IntactHolds, PTL DEF Spec, IntactIsDelivered

-----------------------------------------------------------------------------
\* What the other invariants do not say of the types: the bound on messages, that a
\* slot not in use is empty, and which frames can be missing.
Losable == (1..MaxMsgs) \X (0..FragmentCount(MaxMessage))

RestInv ==
  /\ messages \in 0..MaxMsgs
  /\ \A s \in Slots : slots[s].active \/ slots[s] = Free
  /\ \A d \in Devices : missing[d] \subseteq Losable

LEMMA MostFragments ==
  /\ FragmentCount(MaxMessage) = 5
  /\ \A len \in 1..MaxMessage : FragmentCount(len) <= FragmentCount(MaxMessage)
<1>1. FragmentCount(MaxMessage) = 5
  BY DEF FragmentCount, MaxMessage, MaxPayload
<1> QED
  BY <1>1, Fragments

LEMMA FeedRest ==
  ASSUME OneSlotPerSender, MixInv, RestInv, NEW d \in Devices, NEW f, Feed(d, f)
  PROVE  /\ \A s \in Slots : slots'[s].active \/ slots'[s] = Free
         /\ \A e \in Devices : missing'[e] \subseteq Losable
<1>1. \A s \in Slots : ExpireStale[s].active \/ ExpireStale[s] = Free
  BY ExpireStaleKeeps DEF RestInv
<1>2. CASE Drops(d, f)
  BY <1>1, <1>2 DEF Drops, Ignore, RestInv
<1>3. ASSUME NEW s, NEW slot, Store(ExpireStale, s, slot, d, f)
      PROVE  /\ \A t \in Slots : slots'[t].active \/ slots'[t] = Free
             /\ \A e \in Devices : missing'[e] \subseteq Losable
  <2>1. ASSUME NEW t \in Slots
        PROVE  slots'[t].active \/ slots'[t] = Free
    <3>1. CASE t # s
      BY <1>1, <1>3, <3>1, StoreSlots
    <3>2. CASE t = s /\ f.last
      BY <1>3, <3>2, StoreSlots
    <3>3. CASE t = s /\ ~f.last
      <4>1. slots'[s] = [ active |-> TRUE, src |-> d, len |-> slot.len, total |-> slot.total,
                          expected |-> f.seq + 1, last |-> now, buf |-> Append(slot.buf, f.msg) ]
        BY <1>3, <2>1, <3>3, StoreHolds
      <4> QED
        BY <3>3, <4>1
    <3> QED
      BY <3>1, <3>2, <3>3
  <2>2. missing \in [Devices -> SUBSET (Nat \X Int)] /\ missing' = [missing EXCEPT ![d] = {}]
    BY <1>3 DEF MixInv, LinkTypes, Store
  <2>3. \A e \in Devices : missing'[e] \subseteq missing[e]
    BY <2>2
  <2> QED
    BY <2>1, <2>3 DEF RestInv
<1>4. ASSUME NEW s, Starts(s, d, f) \/ Continues(s, d, f)
      PROVE  /\ \A t \in Slots : slots'[t].active \/ slots'[t] = Free
             /\ \A e \in Devices : missing'[e] \subseteq Losable
  BY <1>3, <1>4 DEF Starts, Continues
<1> QED
  BY <1>2, <1>4, FeedCases

LEMMA LostRest ==
  ASSUME MixInv, RestInv, NEW d \in Devices, sending[d].len # 0,
         NEW seqs \in SUBSET (0..FragmentCount(MaxMessage)), Miss(d, seqs)
  PROVE  \A e \in Devices : missing'[e] \subseteq Losable
<1> DEFINE lost == {<<sending[d].msg, q>> : q \in seqs}
<1>1. sending[d].msg \in 1..MaxMsgs
  BY FrameInWork, LinkAssumption DEF RestInv, MixInv, LinkTypes
<1>2. lost \subseteq Losable
  BY <1>1 DEF Losable
<1>3. CASE Held(slots, d) = {}
  BY <1>3 DEF Miss, RestInv
<1>4. CASE Held(slots, d) # {}
  <2>1. missing' = [missing EXCEPT ![d] = missing[d] \cup lost]
    BY <1>4 DEF Miss
  <2> HIDE DEF lost
  <2>2. missing \in [Devices -> SUBSET (Nat \X Int)]
    BY DEF MixInv, LinkTypes
  <2>3. \A e \in Devices : missing'[e] = IF e = d THEN missing[d] \cup lost ELSE missing[e]
    BY <2>1, <2>2
  <2> QED
    BY <1>2, <2>3 DEF RestInv
<1> QED
  BY <1>3, <1>4

LEMMA NextRest ==
  ASSUME OneSlotPerSender, MixInv, RestInv, ForeignIsForeign, [Next]_vars
  PROVE  RestInv'
<1>1. ASSUME NEW d \in Devices, NEW len \in Lengths, CallSendSysex(d, len)
      PROVE  RestInv'
  <2>1. messages' \in 0..MaxMsgs
    BY <1>1, LinkAssumption DEF CallSendSysex, RestInv
  <2> QED
    BY <1>1, <2>1 DEF CallSendSysex, RestInv
<1>2. ASSUME NEW d \in Devices, SendFrame(d)
      PROVE  RestInv'
  <2>1. Feed(d, NextFrame(d)) /\ messages' = messages
    BY <1>2, FrameInWork DEF SendFrame, Receive
  <2> QED
    BY <2>1, FeedRest DEF RestInv
<1>3. ASSUME NEW d \in Devices, LoseFrame(d)
      PROVE  RestInv'
  <2>1. /\ sending[d].len # 0 /\ Miss(d, {sending[d].seq}) /\ UNCHANGED <<messages, slots>>
    BY <1>3 DEF LoseFrame
  <2>2. sending[d].seq \in 0..FragmentCount(MaxMessage)
    BY <2>1, FrameInWork, MostFragments
  <2>3. {sending[d].seq} \in SUBSET (0..FragmentCount(MaxMessage))
    BY <2>2
  <2> QED
    BY <2>1, <2>3, LostRest DEF RestInv
<1>4. ASSUME NEW d \in Devices, SendFails(d)
      PROVE  RestInv'
  <2> DEFINE seqs == sending[d].seq..(FragmentCount(sending[d].len) - 1)
  <2>1. sending[d].len # 0 /\ Miss(d, seqs) /\ UNCHANGED <<messages, slots>>
    BY <1>4 DEF SendFails
  <2>2. seqs \in SUBSET (0..FragmentCount(MaxMessage))
    BY <2>1, FrameInWork, MostFragments
  <2> HIDE DEF seqs
  <2> QED
    BY <2>1, <2>2, LostRest DEF RestInv
<1>5. ASSUME NEW d \in Devices, ForeignFrame(d)
      PROVE  UNCHANGED <<messages, slots, missing>>
  BY <1>5 DEF ForeignFrame, ForeignIsForeign, Receive
<1>6. ASSUME UNCHANGED <<messages, slots, missing>>
      PROVE  RestInv'
  BY <1>6 DEF RestInv
<1>7. CASE Tick
  BY <1>6, <1>7 DEF Tick
<1>8. CASE UNCHANGED vars
  BY <1>6, <1>8 DEF vars
<1> QED
  BY <1>1, <1>2, <1>3, <1>4, <1>5, <1>6, <1>7, <1>8 DEF Next

LEMMA TypesFollow ==
  ASSUME LinkInv, MixInv, IntactInv, RestInv
  PROVE  TypeOK
<1>1. now \in 0..(ClockMod - 1) /\ messages \in 0..MaxMsgs
  BY DEF LinkInv, ClockInv, RestInv
<1>2. ASSUME NEW s \in Slots
      PROVE  /\ idle[s] \in 0..(Timeout + 1)
             /\ slots[s].last \in 0..(ClockMod - 1)
             /\ Len(slots[s].buf) = slots[s].expected
             /\ slots[s].active => /\ slots[s].src \in Devices
                                   /\ slots[s].len \in 1..MaxMessage
                                   /\ slots[s].expected \in 1..(slots[s].total - 1)
                                   /\ slots[s].total = FragmentCount(slots[s].len)
  <2>1. idle[s] \in 0..(Timeout + 1)
    BY DEF LinkInv, ClockInv
  <2>2. CASE slots[s].active
    BY <2>1, <2>2 DEF LinkInv, ClockInv, SlotOK, MixInv, HoldsOK
  <2>3. CASE ~slots[s].active
    <3>1. slots[s] = Free
      BY <2>3 DEF RestInv
    <3>2. 0 \in 0..(ClockMod - 1) /\ Len(<<>>) = 0
      BY LinkAssumption
    <3> QED
      BY <2>1, <2>3, <3>1, <3>2 DEF Free
  <2> QED
    BY <2>2, <2>3
<1>3. ASSUME NEW d \in Devices
      PROVE  /\ sending[d].msg \in 0..messages
             /\ sending[d].len \in {0} \cup (1..MaxMessage)
             /\ heard[d].age \in 0..(Timeout + 1)
             /\ missing[d] \subseteq (1..MaxMsgs) \X (0..FragmentCount(MaxMessage))
  <2>1. WorkOK(d) /\ messages \in Nat
    BY DEF MixInv, LinkTypes
  <2>2. sending[d].msg \in 0..messages /\ sending[d].len \in {0} \cup (1..MaxMessage)
    BY <2>1 DEF WorkOK, NotSending
  <2>3. heard[d].age \in 0..(Timeout + 1)
    BY DEF IntactInv, HeardTypes
  <2> QED
    BY <2>2, <2>3 DEF RestInv, Losable
<1> QED
  BY <1>1, <1>2, <1>3 DEF TypeOK

\* Type correctness of sendSysex() and the Reassembler: the buffer of a slot holds
\* exactly the frames before the expected one, whatever is lost, late or foreign.
THEOREM LinkAlwaysTyped ==
  ASSUME ForeignIsForeign
  PROVE  Spec => []TypeOK
<1>1. Init => RestInv
  <2> SUFFICES ASSUME Init PROVE RestInv
    OBVIOUS
  <2>1. /\ messages = 0 /\ \A s \in Slots : slots[s] = Free
        /\ \A d \in Devices : missing[d] = {}
    BY DEF Init
  <2> QED
    BY <2>1, LinkAssumption DEF RestInv
<1>2. LinkInv /\ MixInv /\ RestInv /\ [Next]_vars => RestInv'
  BY NextRest DEF LinkInv
<1>3. LinkInv /\ MixInv /\ IntactInv /\ RestInv => TypeOK
  BY TypesFollow
<1> QED
  BY <1>1, <1>2, <1>3, IntactHolds, PTL DEF Spec
=============================================================================
