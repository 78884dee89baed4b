------------------------------ MODULE SysExLink ------------------------------
(***************************************************************************)
(* SysEx over ESP-NOW: sendSysex() cuts a message into frames, the radio   *)
(* loses some of them, and the receiver's Reassembler joins the rest.      *)
(*                                                                         *)
(* A frame is its header and, in place of its payload bytes, the number of *)
(* the message they come from (`msg'), which no receiver can see.  Time is *)
(* the receiver's millis(), which wraps at ClockMod.                       *)
(***************************************************************************)
EXTENDS Integers, Sequences, FiniteSets, FiniteSetsExt

CONSTANTS
  Devices,      \* the senders
  Slots,        \* MAX_REASSEMBLY_SLOTS, in the order they are searched
  Timeout,      \* REASSEMBLY_TIMEOUT_MS
  ClockMod,     \* millis() wraps here (2^32)
  Lengths,      \* the lengths of the messages that are sent
  Foreign,      \* headers of frames that other programs send
  MaxMsgs       \* bound: messages of all senders together

VARIABLES
  sending,      \* per device: the message in sendSysex() and its next frame
  messages,     \* how many messages there have been
  slots,        \* the reassembly slots
  now,          \* millis() of the receiver
  idle,         \* per slot: true time since its last frame, up to Timeout + 1
  heard,        \* per device: what of its current message has come through
  missing,      \* per device: its frames lost since one was last joined
  out           \* the message that the last step handed to the SysEx handlers

vars == <<sending, messages, slots, now, idle, heard, missing, out>>

MaxPayload == 240
MaxMessage == 1024

ASSUME LinkAssumption ==
  /\ Timeout \in Nat /\ ClockMod \in Nat /\ 2 * (Timeout + 1) < ClockMod
  /\ IsFiniteSet(Devices) /\ Slots \subseteq Nat /\ IsFiniteSet(Slots) /\ Slots # {}
  /\ Lengths \subseteq Nat /\ MaxMsgs \in Nat

-----------------------------------------------------------------------------
\* The frame format.

FragmentCount(len) == (len + MaxPayload - 1) \div MaxPayload

PayloadOffset(seq) == seq * MaxPayload

PayloadLength(len, seq) ==
  IF PayloadOffset(seq) >= len THEN 0
  ELSE LET rest == len - PayloadOffset(seq)
       IN  IF rest > MaxPayload THEN MaxPayload ELSE rest

Sendable(len) == len \in 1..MaxMessage

EncodeFrame(msg, len, seq) ==
  [ msg |-> msg, first |-> seq = 0, last |-> seq = FragmentCount(len) - 1,
    seq |-> seq, total |-> FragmentCount(len), len |-> len,
    payload |-> PayloadLength(len, seq) ]

ParseFrame(f) ==
  /\ f.total >= 1 /\ f.seq < f.total
  /\ f.len \in 1..MaxMessage
  /\ FragmentCount(f.len) = f.total
  /\ f.first <=> f.seq = 0
  /\ f.last <=> f.seq = f.total - 1
  /\ f.payload > 0 /\ f.payload = PayloadLength(f.len, f.seq)

-----------------------------------------------------------------------------
\* The state.  Nothing reads a slot that is not active.

Free == [ active |-> FALSE, src |-> 0, len |-> 0, total |-> 0, expected |-> 0,
          last |-> 0, buf |-> <<>> ]

Silent == [msg |-> 0, next |-> 0, total |-> 0, age |-> Timeout + 1]

NotSending == [msg |-> 0, len |-> 0, seq |-> 0]

NoMessage == [src |-> 0, len |-> 0, buf |-> <<>>]

Nothing == out' = NoMessage

Init ==
  /\ sending = [d \in Devices |-> NotSending]
  /\ messages = 0
  /\ slots = [s \in Slots |-> Free]
  /\ now = 0
  /\ idle = [s \in Slots |-> 0]
  /\ heard = [d \in Devices |-> Silent]
  /\ missing = [d \in Devices |-> {}]
  /\ out = NoMessage

-----------------------------------------------------------------------------
\* The receiver.

\* Seeded fault: a difference that does not wrap with the clock.
AgeUnwrapped(slot) == now - slot.last

Age(slot) == (now - slot.last) % ClockMod

\* Seeded fault: a frame exactly the timeout after the one before is late.
ExpiredEarly(slot) == slot.active /\ Age(slot) >= Timeout

Expired(slot) == slot.active /\ Age(slot) > Timeout

ExpireStale ==
  [s \in Slots |-> IF Expired(slots[s]) THEN Free ELSE slots[s]]

\* static_cast<int32_t>(now - last)
SignedAge(slot) ==
  IF 2 * Age(slot) < ClockMod THEN Age(slot) ELSE Age(slot) - ClockMod

Held(sl, d) == {s \in Slots : sl[s].active /\ sl[s].src = d}

\* allocSlot(): the first slot that is free, or the one longest without a frame.
AllocSlot(sl) ==
  LET unused == {s \in Slots : ~sl[s].active}
      oldest == {s \in Slots : \A t \in Slots : SignedAge(sl[t]) <= SignedAge(sl[s])}
  IN  Min(IF unused # {} THEN unused ELSE oldest)

StartAssembly(d, f) ==
  [ active |-> TRUE, src |-> d, len |-> f.len, total |-> f.total,
    expected |-> 0, last |-> now, buf |-> <<>> ]

Joins(slot, f) ==
  slot.len = f.len /\ slot.total = f.total /\ slot.expected = f.seq

\* The payload goes to its place in the slot's buffer; the last one frees the slot.
Store(sl, s, slot, d, f) ==
  LET buf == Append(slot.buf, f.msg)
  IN  /\ slots' = [sl EXCEPT ![s] =
           IF f.last THEN Free
           ELSE [ active |-> TRUE, src |-> d, len |-> slot.len, total |-> slot.total,
                  expected |-> f.seq + 1, last |-> now, buf |-> buf ]]
      /\ idle' = [idle EXCEPT ![s] = 0]
      /\ missing' = [missing EXCEPT ![d] = {}]
      /\ IF f.last THEN out' = [src |-> d, len |-> slot.len, buf |-> buf]
                   ELSE Nothing

Ignore(sl) == slots' = sl /\ UNCHANGED <<idle, missing>> /\ Nothing

\* Seeded fault: a first frame is ignored while the sender has a slot.
FeedKeepsOld(d, f) ==
  LET sl   == ExpireStale
      held == Held(sl, d)
  IN  IF f.seq = 0 /\ held = {} THEN Store(sl, AllocSlot(sl), StartAssembly(d, f), d, f)
      ELSE IF held # {} /\ Joins(sl[Min(held)], f)
           THEN Store(sl, Min(held), sl[Min(held)], d, f)
           ELSE Ignore(sl)

Feed(d, f) ==
  LET sl   == ExpireStale
      held == Held(sl, d)
      s    == IF held # {} THEN Min(held) ELSE AllocSlot(sl)
  IN  IF f.seq = 0 THEN Store(sl, s, StartAssembly(d, f), d, f)
      ELSE IF held # {} /\ Joins(sl[s], f) THEN Store(sl, s, sl[s], d, f)
      ELSE Ignore(sl)

\* The senders whose frames are as fresh as those of `d': as many as there
\* are slots can take the slot of `d'.
Crowd(d) == {e \in Devices \ {d} : heard[e].age <= heard[d].age}

Intact(d, f) ==
  /\ heard[d].msg = f.msg /\ heard[d].next = f.seq
  /\ heard[d].age <= Timeout
  /\ Cardinality(Crowd(d)) < Cardinality(Slots)

\* OnDataRecv(): a frame that is not one of this library's is dropped.
Receive(d, f) ==
  IF ParseFrame(f)
  THEN /\ Feed(d, f)
       /\ heard' = [heard EXCEPT ![d] =
            IF f.seq = 0 \/ Intact(d, f)
            THEN [msg |-> f.msg, next |-> f.seq + 1, total |-> f.total, age |-> 0]
            ELSE [Silent EXCEPT !.age = 0]]
  ELSE UNCHANGED <<slots, idle, missing, heard>> /\ Nothing

-----------------------------------------------------------------------------
\* sendSysex(): the frames go out one after the other, until one is refused.

CallSendSysex(d, len) ==
  /\ sending[d].len = 0 /\ messages < MaxMsgs
  /\ IF Sendable(len)
     THEN /\ sending' = [sending EXCEPT ![d] = [msg |-> messages + 1, len |-> len, seq |-> 0]]
          /\ messages' = messages + 1
     ELSE UNCHANGED <<sending, messages>>
  /\ UNCHANGED <<slots, now, idle, heard, missing>> /\ Nothing

NextFrame(d) == EncodeFrame(sending[d].msg, sending[d].len, sending[d].seq)

FrameSent(d) ==
  sending' = [sending EXCEPT ![d] =
    IF NextFrame(d).last THEN NotSending ELSE [sending[d] EXCEPT !.seq = @ + 1]]

SendFrame(d) ==
  /\ sending[d].len # 0
  /\ FrameSent(d)
  /\ Receive(d, NextFrame(d))
  /\ UNCHANGED <<messages, now>>

\* Losses count while there is something to join to.
Miss(d, seqs) ==
  missing' = IF Held(slots, d) = {} THEN missing
             ELSE [missing EXCEPT ![d] = @ \cup {<<sending[d].msg, q>> : q \in seqs}]

LoseFrame(d) ==
  /\ sending[d].len # 0
  /\ FrameSent(d)
  /\ Miss(d, {sending[d].seq})
  /\ UNCHANGED <<messages, slots, now, idle, heard>> /\ Nothing

\* sendToAllPeers() returned an error: the frames after it are not sent.
SendFails(d) ==
  /\ sending[d].len # 0
  /\ sending' = [sending EXCEPT ![d] = NotSending]
  /\ Miss(d, sending[d].seq..(FragmentCount(sending[d].len) - 1))
  /\ UNCHANGED <<messages, slots, now, idle, heard>> /\ Nothing

ForeignFrame(d) ==
  /\ \E f \in Foreign : Receive(d, f)
  /\ UNCHANGED <<sending, messages, now>>

-----------------------------------------------------------------------------
Bounded(n) == IF n > Timeout THEN Timeout + 1 ELSE n

\* The bound on silence: a slot is not left active for a whole turn of the
\* clock (49 days).
Tick ==
  /\ \A s \in Slots : slots[s].active => Age(slots[s]) + 1 < ClockMod
  /\ now' = (now + 1) % ClockMod
  /\ idle' = [s \in Slots |-> IF slots[s].active THEN Bounded(idle[s] + 1) ELSE 0]
  /\ heard' = [d \in Devices |-> IF heard[d].age < Timeout
                                 THEN [heard[d] EXCEPT !.age = @ + 1] ELSE Silent]
  /\ UNCHANGED <<sending, messages, slots, missing>> /\ Nothing

Next ==
  \/ \E d \in Devices :
       \/ \E len \in Lengths : CallSendSysex(d, len)
       \/ SendFrame(d)
       \/ LoseFrame(d)
       \/ SendFails(d)
       \/ ForeignFrame(d)
  \/ Tick

Spec == Init /\ [][Next]_vars

-----------------------------------------------------------------------------
\* Every variable has its type; the buffer of a slot holds exactly the frames
\* before the expected one, and a message in work is one that can be sent.
TypeOK ==
  /\ now \in 0..(ClockMod - 1) /\ messages \in 0..MaxMsgs
  /\ \A s \in Slots :
       /\ idle[s] \in 0..(Timeout + 1)
       /\ slots[s].last \in 0..(ClockMod - 1)
       /\ Len(slots[s].buf) = slots[s].expected
       /\ slots[s].active => /\ slots[s].src \in Devices
                             /\ slots[s].len \in 1..MaxMessage
                             /\ slots[s].expected \in 1..(slots[s].total - 1)
                             /\ slots[s].total = FragmentCount(slots[s].len)
  /\ \A d \in Devices :
       /\ sending[d].msg \in 0..messages
       /\ sending[d].len \in {0} \cup (1..MaxMessage)
       /\ heard[d].age \in 0..(Timeout + 1)
       /\ missing[d] \subseteq (1..MaxMsgs) \X (0..FragmentCount(MaxMessage))

\* A sender has one slot: a second one would keep a message that nothing can
\* complete and take the slot from somebody else.
OneSlotPerSender ==
  \A s, t \in Slots :
    slots[s].active /\ slots[t].active /\ slots[s].src = slots[t].src => s = t

\* A message whose frames all come, none more than the timeout after the one
\* before, with fewer other senders heard meanwhile than there are slots, is handed
\* to the handlers whole and unmixed by its last frame.
IntactIsDelivered ==
  [][\A d \in Devices :
       /\ sending[d].len # 0 /\ NextFrame(d).last /\ heard'[d] # heard[d]
       /\ heard'[d].next = FragmentCount(sending[d].len)
       /\ sending'[d].len = 0
       => out' = [src |-> d, len |-> sending[d].len,
                  buf |-> [i \in 1..FragmentCount(sending[d].len) |-> sending[d].msg]]]_vars

\* Frame `f' of device `d' is joined to those that slot `s' holds.
Joined(s, d) ==
  /\ slots[s].active /\ slots[s].src = d
  /\ \/ slots'[s].expected > slots[s].expected
     \/ out'.src = d /\ Len(out'.buf) > 1

\* Frames of two messages are joined only if both the frame that was to follow
\* in the first message and the first frame of the second were lost.
MixNeedsTwoLosses ==
  [][\A s \in Slots, d \in Devices : Joined(s, d) =>
       LET n == slots[s].expected
           a == slots[s].buf[n]
           b == sending[d].msg
       IN  a # b => {<<a, n>>, <<b, 0>>} \subseteq missing[d]]_vars

\* A frame that comes more than the timeout after the one before it in its slot
\* is not joined to it, although the clock wraps.
LateNeverJoins ==
  [][\A s \in Slots, d \in Devices : Joined(s, d) => idle[s] <= Timeout]_vars

=============================================================================
