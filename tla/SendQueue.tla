------------------------------ MODULE SendQueue ------------------------------
(***************************************************************************)
(* SendQueue of esp_now_midi_send_queue.h: the outgoing packets that wait  *)
(* for the sender task.  Short messages and SysEx frames wait in two rings *)
(* of fixed size; a wrapping 16-bit sequence number tells pop() which of   *)
(* the two heads is the older one.                                         *)
(*                                                                         *)
(* A ring is modelled as the sequence of its occupied slots, oldest first. *)
(* The callers hold _queueMux, so every operation is one step.             *)
(***************************************************************************)
EXTENDS MidiPriority, Integers, FiniteSets

CONSTANTS
    Calls,       \* what the callers push: [mac, data, flags]
    ShortSlots,  \* slots for messages of one to three bytes
    FrameSlots,  \* slots for longer packets
    FrameBytes,  \* longest packet a frame slot holds
    SeqRange     \* number of sequence numbers: 2^16 in the code

ASSUME CallsAssumption ==
    \A call \in Calls : call.data \in Packet

ASSUME SlotsAssumption ==
    /\ ShortSlots \in Nat /\ ShortSlots >= 8
    /\ FrameSlots \in Nat /\ FrameSlots >= 1
    /\ FrameBytes \in Nat

(* The template parameters are far below half of the 16-bit range. *)
ASSUME SeqRangeAssumption ==
    /\ SeqRange \in Nat
    /\ ShortSlots + FrameSlots <= SeqRange \div 2

VARIABLES
    shorts,   \* _shorts, from _shortHead, _shortCount slots
    frames,   \* _frames, from _frameHead, _frameCount slots
    nextSeq,  \* _nextSeq
    ret       \* what the last call returned

vars == <<shorts, frames, nextSeq, ret>>

SeqNo == 0..(SeqRange - 1)

Slot == [call : Calls, seq : SeqNo]

Results == {"Queued", "Replaced", "Full", "TooLong"}

Nothing == [result |-> "Nothing"]

Taken(call) == [result |-> "Taken", packet |-> call]

Init ==
    /\ shorts = <<>>
    /\ frames = <<>>
    /\ nextSeq = 0
    /\ ret = Nothing

(* Waiting short messages above which a priority is refused. *)
Limit(priority) ==
    CASE priority = "Low" -> ShortSlots \div 2
      [] priority = "Normal" -> ShortSlots - (ShortSlots \div 8)
      [] OTHER -> ShortSlots

(* Positions of the waiting values that a new message may overwrite. *)

SameTarget(call, queued) == call.mac = queued.mac /\ call.flags = queued.flags

ReplaceableAtHead(call) ==     \* seeded fault: only the oldest slot is compared
    {i \in {1} \cap DOMAIN shorts : /\ Classify(call.data) = "Low"
                                   /\ call.mac = shorts[i].call.mac
                                   /\ call.flags = shorts[i].call.flags
                                   /\ Replaces(call.data, shorts[i].call.data)}

Replaceable(call) ==
    {i \in DOMAIN shorts : /\ Classify(call.data) = "Low"
                           /\ SameTarget(call, shorts[i].call)
                           /\ Replaces(call.data, shorts[i].call.data)}

NewSlot(call) == [call |-> call, seq |-> nextSeq]

IssueSeq == nextSeq' = (nextSeq + 1) % SeqRange

Refuse(result) ==
    /\ ret' = [result |-> result]
    /\ UNCHANGED <<shorts, frames, nextSeq>>

ReplaceShort(call) ==
    /\ \E i \in Replaceable(call) :
          /\ \A j \in Replaceable(call) : i <= j
          /\ shorts' = [shorts EXCEPT ![i].call = call]
    /\ ret' = [result |-> "Replaced"]
    /\ UNCHANGED <<frames, nextSeq>>

QueueShortAnyPriority(call) ==     \* seeded fault: one limit for every priority
    /\ Len(shorts) < ShortSlots
    /\ shorts' = Append(shorts, NewSlot(call))
    /\ IssueSeq
    /\ ret' = [result |-> "Queued"]
    /\ UNCHANGED frames

QueueShort(call) ==
    /\ Len(shorts) < Limit(Classify(call.data))
    /\ shorts' = Append(shorts, NewSlot(call))
    /\ IssueSeq
    /\ ret' = [result |-> "Queued"]
    /\ UNCHANGED frames

PushShort(call) ==
    /\ IsShort(call.data)
    /\ \/ ReplaceShort(call)
       \/ /\ Replaceable(call) = {}
          /\ \/ QueueShort(call)
             \/ Len(shorts) >= Limit(Classify(call.data)) /\ Refuse("Full")

PushFrame(call) ==
    /\ Len(call.data) \in 4..FrameBytes
    /\ \/ /\ Len(frames) < FrameSlots
          /\ frames' = Append(frames, NewSlot(call))
          /\ IssueSeq
          /\ ret' = [result |-> "Queued"]
          /\ UNCHANGED shorts
       \/ Len(frames) >= FrameSlots /\ Refuse("Full")

PushInvalid(call) ==
    /\ Len(call.data) = 0 \/ (~IsShort(call.data) /\ Len(call.data) > FrameBytes)
    /\ Refuse("TooLong")

Push(call) ==
    \/ PushShort(call)
    \/ PushFrame(call)
    \/ PushInvalid(call)

(* static_cast<int16_t>(a - b) *)
SignedDiff(a, b) ==
    LET d == (a - b) % SeqRange
    IN  IF d >= SeqRange \div 2 THEN d - SeqRange ELSE d

TakeShortUnsigned ==     \* seeded fault: the numbers compared as they are
    /\ shorts # <<>>
    /\ frames # <<>> => shorts[1].seq < frames[1].seq

TakeShort ==
    /\ shorts # <<>>
    /\ frames # <<>> => SignedDiff(shorts[1].seq, frames[1].seq) < 0

PopShort ==
    /\ TakeShort
    /\ ret' = Taken(shorts[1].call)
    /\ shorts' = Tail(shorts)
    /\ UNCHANGED <<frames, nextSeq>>

PopFrame ==
    /\ frames # <<>>
    /\ ~TakeShort
    /\ ret' = Taken(frames[1].call)
    /\ frames' = Tail(frames)
    /\ UNCHANGED <<shorts, nextSeq>>

PopEmpty ==
    /\ shorts = <<>> /\ frames = <<>>
    /\ Refuse("Nothing")

Pop == PopShort \/ PopFrame \/ PopEmpty

(* clear() forgets the packets; the sequence numbers go on. *)
Clear ==
    /\ shorts' = <<>>
    /\ frames' = <<>>
    /\ ret' = Nothing
    /\ UNCHANGED nextSeq

Next ==
    \/ \E call \in Calls : Push(call)
    \/ Pop
    \/ Clear

Spec == Init /\ [][Next]_vars
-----------------------------------------------------------------------------
Size == Len(shorts) + Len(frames)

(* How many numbers after `from' the number `to' was issued. *)
Distance(from, to) == IF from < to THEN to - from ELSE to + SeqRange - from

(* How many sequence numbers ago a slot was queued: 1 for the newest. *)
Age(slot) == Distance(slot.seq, nextSeq)

(* Every variable holds what its C++ counterpart can hold, and neither     *)
(* ring of esp_now_midi_send_queue.h holds more than its slots.            *)
TypeOK ==
    /\ shorts \in Seq(Slot) /\ Len(shorts) <= ShortSlots
    /\ frames \in Seq(Slot) /\ Len(frames) <= FrameSlots
    /\ nextSeq \in SeqNo
    /\ ret \in {[result |-> r] : r \in Results \cup {"Nothing"}}
               \cup {Taken(call) : call \in Calls}

(* The numbers that wait are exactly the last Size ones that were issued,  *)
(* each once, older ones nearer the head of their ring.  This is what lets *)
(* pop() compare two wrapped 16-bit numbers (line 168) and still find the  *)
(* packet that was queued first, however long the queue runs.              *)
OldestFirst(ring) ==
    \A i, j \in DOMAIN ring : i < j => Age(ring[i]) > Age(ring[j])

Contiguous ==
    /\ OldestFirst(shorts)
    /\ OldestFirst(frames)
    /\ \A i \in DOMAIN shorts, j \in DOMAIN frames : Age(shorts[i]) # Age(frames[j])
    /\ \A i \in DOMAIN shorts : Age(shorts[i]) <= Size
    /\ \A j \in DOMAIN frames : Age(frames[j]) <= Size
    /\ \A n \in 1..Size : \/ \E i \in DOMAIN shorts : Age(shorts[i]) = n
                          \/ \E j \in DOMAIN frames : Age(frames[j]) = n

(* A message never stands deeper in the ring than its priority may be      *)
(* queued (limit(), line 194): controller values leave half of the ring,   *)
(* and everything but note-offs and their like leaves an eighth of it, to  *)
(* messages of a higher priority, whatever was replaced or popped since.   *)
ReservedSlots ==
    \A i \in DOMAIN shorts : i <= Limit(Classify(shorts[i].call.data))

(* "A moving knob cannot fill the queue with stale values": at most one    *)
(* value of a controller waits for a peer (the scan of lines 222-234).     *)
OneWaitingValue ==
    \A i, j \in DOMAIN shorts :
        i # j /\ SameTarget(shorts[i].call, shorts[j].call)
            => ~Replaces(shorts[i].call.data, shorts[j].call.data)

(* The packets in the order they were queued, the refinement mapping to    *)
(* SendFifo: a frame stands as far from the end as numbers were issued     *)
(* since its own, and the short messages fill the places between.          *)
Place(frame) == Size + 1 - Age(frame)

InQueueOrder ==
    [k \in 1..Size |->
        LET here == {j \in DOMAIN frames : Place(frames[j]) = k}
            i    == k - Cardinality({j \in DOMAIN frames : Place(frames[j]) < k})
        IN  CASE here # {} -> frames[CHOOSE j \in here : TRUE].call
              [] here = {} /\ i \in DOMAIN shorts -> shorts[i].call
              [] OTHER -> Nothing]

Fifo == INSTANCE SendFifo WITH fifo <- InQueueOrder

(* push() and pop() of the two rings behave as one first-in first-out      *)
(* queue with admission limits and in-place replacement.                   *)
ImplementsFifo == Fifo!Spec
=============================================================================
