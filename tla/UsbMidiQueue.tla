---------------------------- MODULE UsbMidiQueue ----------------------------
(***************************************************************************)
(* The dongle's queue towards the USB host (UsbMidiQueue.h): what a full   *)
(* queue evicts and what is dropped once it has waited too long.           *)
(*                                                                         *)
(* A queue is the sequence of its entries, oldest first; the ring indices  *)
(* are left out.  An entry is a message and how long it has waited, up to  *)
(* one more than the age that counts as stale.                             *)
(***************************************************************************)
EXTENDS Integers, Sequences, FiniteSets, SequencesExt

CONSTANTS
  Capacity,     \* USB_MIDI_QUEUE_SIZE - 1
  StaleMs       \* setUsbStaleTimeout(); 0 disables dropping

ASSUME QueueAssumption == Capacity \in Nat \ {0} /\ StaleMs \in Nat

-----------------------------------------------------------------------------
\* Messages.

Statuses ==
  { "NoteOff", "NoteOn", "PolyAftertouch", "ControlChange", "ProgramChange",
    "Aftertouch", "PitchBend", "SongPosition", "SongSelect", "Clock", "Start",
    "Continue", "Stop", "SystemReset" }

Message(status, first, second) ==
  [status |-> status, channel |-> 1, first |-> first, second |-> second]

ClockMessage == Message("Clock", 0, 0)

\* The pedals that are off below 64, and the channel mode messages.
ReleasePedals == {64, 66, 67}

IsRelease(m) ==
  \/ m.status \in {"NoteOff", "Stop", "SystemReset"}
  \/ m.status = "NoteOn" /\ m.second = 0
  \/ m.status = "ControlChange" /\ \/ m.first \in ReleasePedals /\ m.second < 64
                                   \/ m.first >= 120

IsState(m) ==
  m.status \in {"ControlChange", "PitchBend", "Aftertouch", "ProgramChange",
                "SongPosition", "SongSelect"}

SameState(a, b) ==
  /\ a.status = b.status /\ IsState(a)
  /\ a.status \in {"SongPosition", "SongSelect"} \/ a.channel = b.channel
  /\ a.status = "ControlChange" => a.first = b.first

-----------------------------------------------------------------------------
\* The queue.

Entry(m) == [msg |-> m, age |-> 0]

FirstDroppable(q) ==
  CHOOSE k \in 1..Len(q) :
    ~IsRelease(q[k].msg) /\ \A j \in 1..(k - 1) : IsRelease(q[j].msg)

AllReleases(q) == \A k \in 1..Len(q) : IsRelease(q[k].msg)

\* Seeded fault: a full queue evicts its oldest entry, whatever it is.
EnqueueEvictsOldest(q, m) ==
  IF Len(q) < Capacity THEN Append(q, Entry(m)) ELSE Append(Tail(q), Entry(m))

\* A full queue gives up its oldest entry that is no release; one that holds
\* only releases gives up the oldest of them, and only to another release.
Enqueue(q, m) ==
  IF Len(q) < Capacity THEN Append(q, Entry(m))
  ELSE IF ~AllReleases(q) THEN Append(RemoveAt(q, FirstDroppable(q)), Entry(m))
  ELSE IF IsRelease(m) THEN Append(Tail(q), Entry(m))
  ELSE q

Stale(age) == age > StaleMs

HasNewerState(q, k) == \E j \in (k + 1)..Len(q) : SameState(q[k].msg, q[j].msg)

\* Seeded fault: the first value of a state is kept, not the last.
KeepsOldest(q, k) ==
  Stale(q[k].age) /\ ~IsRelease(q[k].msg)
    => IsState(q[k].msg) /\ \A j \in 1..(k - 1) : ~SameState(q[k].msg, q[j].msg)

\* compactStaleLocked(): a stale entry stays when it is a release or the latest
\* value of a state.
Keeps(q, k) ==
  Stale(q[k].age) /\ ~IsRelease(q[k].msg)
    => IsState(q[k].msg) /\ ~HasNewerState(q, k)

CompactStale(q) ==
  LET kept == {k \in 1..Len(q) : Keeps(q, k)}
      from == CHOOSE f \in [1..Cardinality(kept) -> kept] :
                \A i, j \in DOMAIN f : i < j => f[i] < f[j]
  IN  [i \in 1..Cardinality(kept) |-> q[from[i]]]

\* dropStale(): entries are in the order of their ages.
DropStale(q) ==
  IF StaleMs > 0 /\ q # <<>> /\ Stale(q[1].age) THEN CompactStale(q) ELSE q

RefreshTimestamps(q) == [k \in 1..Len(q) |-> [q[k] EXCEPT !.age = 0]]

Older(age) == IF age > StaleMs THEN age ELSE age + 1

Aged(q) == [k \in 1..Len(q) |-> [q[k] EXCEPT !.age = Older(@)]]
=============================================================================
