------------------------------ MODULE SendFifo ------------------------------
(***************************************************************************)
(* What the send queue promises its callers: one queue, first in first     *)
(* out.  A packet is refused only when the waiting packets of its size     *)
(* have reached the limit of its priority, and a new value of a controller *)
(* takes the place of the one that still waits for the same peer.          *)
(***************************************************************************)
EXTENDS MidiPriority, FiniteSets

CONSTANTS Calls, ShortSlots, FrameSlots, FrameBytes

VARIABLES fifo, ret

vars == <<fifo, ret>>

Init == fifo = <<>> /\ ret = [result |-> "Nothing"]

ShortsWaiting == Cardinality({i \in DOMAIN fifo : IsShort(fifo[i].data)})

FramesWaiting == Cardinality({i \in DOMAIN fifo : ~IsShort(fifo[i].data)})

Allowance(data) ==
    CASE Classify(data) = "Low" -> ShortSlots \div 2
      [] Classify(data) = "Normal" -> ShortSlots - (ShortSlots \div 8)
      [] OTHER -> ShortSlots

Admits(data) ==
    IF IsShort(data) THEN ShortsWaiting < Allowance(data) ELSE FramesWaiting < FrameSlots

(* Only a short packet is of low priority. *)
Superseded(e) ==
    IF Classify(e.data) # "Low" THEN {}
    ELSE {i \in DOMAIN fifo : /\ fifo[i].mac = e.mac
                              /\ fifo[i].flags = e.flags
                              /\ Replaces(e.data, fifo[i].data)}

Valid(data) == Len(data) \in 1..3 \cup 4..FrameBytes

Supersede(e) ==
    /\ ret' = [result |-> "Replaced"]
    /\ \E i \in Superseded(e) : fifo' = [fifo EXCEPT ![i] = e]

Accept(e) ==
    /\ ret' = [result |-> "Queued"]
    /\ Valid(e.data)
    /\ Superseded(e) = {}
    /\ Admits(e.data)
    /\ fifo' = Append(fifo, e)

Reject(e) ==
    /\ \/ ret' = [result |-> "Full"] /\ Valid(e.data) /\ ~Admits(e.data)
       \/ ret' = [result |-> "TooLong"] /\ ~Valid(e.data)
    /\ Superseded(e) = {}
    /\ UNCHANGED fifo

Take ==
    \/ /\ fifo # <<>>
       /\ ret' = [result |-> "Taken", packet |-> Head(fifo)]
       /\ fifo' = Tail(fifo)
    \/ /\ ret' = [result |-> "Nothing"]
       /\ fifo = <<>>
       /\ UNCHANGED fifo

Forget == ret' = [result |-> "Nothing"] /\ fifo' = <<>>

Next ==
    \/ \E e \in Calls : Supersede(e) \/ Accept(e) \/ Reject(e)
    \/ Take
    \/ Forget

Spec == Init /\ [][Next]_vars
=============================================================================
