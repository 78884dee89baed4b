------------------------------ MODULE DongleUsb ------------------------------
(***************************************************************************)
(* From ESP-NOW to the USB host: the receive callback in the Wi-Fi task    *)
(* fills the inbox and the SysEx queue, Dongle::loop() moves messages to   *)
(* the USB queue and writes them to TinyUSB's buffer, and the host reads   *)
(* that buffer, or stops reading, suspends the bus or is unplugged.  The   *)
(* watchdog does not re-attach here (module UsbRecovery has it).           *)
(***************************************************************************)
EXTENDS UsbMidiQueue, FiniteSets

CONSTANTS
  Messages,        \* the short messages that arrive over ESP-NOW
  InboxSize,       \* MIDI_INBOX_SIZE - 1
  SysExSlots,      \* USB_SYSEX_QUEUE_SLOTS
  SysExPackets,    \* USB packets of a SysEx message
  FifoSize,        \* packets that fit TinyUSB's buffer
  Budget,          \* UsbSysExPacer::BUDGET_MS
  EndExtra,        \* UsbSysExPacer::END_EXTRA_MS
  Backoff,         \* UsbSysExPacer::BACKOFF_MS
  Loads            \* bound: how many short messages (out of which set), SysEx messages
                   \* (of peers and replies to the host) and faults (suspensions, unplugged
                   \* cables) a behaviour has

ASSUME UsbAssumption ==
  /\ {InboxSize, SysExSlots, FifoSize, Budget, EndExtra, Backoff} \subseteq Nat \ {0}
  /\ SysExPackets \in Nat /\ SysExPackets > 1
  /\ EndExtra <= Budget /\ Budget + EndExtra < Backoff
  /\ Messages \subseteq [status : Statuses, channel : 1..16, first : Nat, second : Nat]
  /\ Loads \subseteq [short : Nat, msgs : SUBSET Messages, sysex : Nat, faults : Nat]

VARIABLES
  inbox,           \* MidiInbox
  queue, clock,    \* UsbMidiQueue: its entries; the age of the pending clock, or -1
  checked,         \* stale entries were looked for less than 20 ms ago
  sysex,           \* UsbSysExQueue: its ring
  pacer,           \* UsbSysExPacer: how long ago the last write failed, or -1 if it did not
  loop,            \* where Dongle::loop() is
  popped,          \* messages that this call of processReceived() has taken
  writing,         \* the SysEx write in hand
  mounted, suspended, initialized,
  fifo,            \* TinyUSB's buffer
  host,            \* what the host has heard
  quiet,           \* time since the host last read a packet, up to the pacer's limit
  played,          \* what was bridged towards the host
  left             \* [short, msgs, sysex, faults] still to come

queueVars == <<inbox, queue, clock, checked, sysex>>
loopVars == <<pacer, loop, popped, writing, initialized>>
usbVars == <<mounted, suspended, fifo, host, quiet>>
vars == <<queueVars, loopVars, usbVars, played, left>>

-----------------------------------------------------------------------------
\* What a host knows after a message: the notes that sound and the last value of
\* every controller.

Off(m) == \/ m.status = "NoteOff"
          \/ m.status = "NoteOn" /\ m.second = 0

Notes == {m.first : m \in {n \in Messages : n.status = "NoteOn"}}

Controllers == {m.first : m \in {n \in Messages : n.status = "ControlChange"}}

Silence ==
  [notes |-> {}, values |-> [c \in Controllers |-> 0]]

Hear(state, m) ==
  IF Off(m) THEN [state EXCEPT !.notes = @ \ {m.first}]
  ELSE IF m.status = "NoteOn" THEN [state EXCEPT !.notes = @ \cup {m.first}]
  ELSE IF m.status = "ControlChange" THEN [state EXCEPT !.values[m.first] = m.second]
  ELSE state

Packet(m) == [kind |-> "short", msg |-> m]

SysExPacket(id, last) == [kind |-> IF last THEN "end" ELSE "part", id |-> id]

\* A host: its state, and the SysEx message of which it waits for the end, or 0.
NewHost == [state |-> Silence, open |-> 0]

Read(h, p) ==
  CASE p.kind = "short" -> [h EXCEPT !.state = Hear(@, p.msg)]
    [] p.kind = "part"  -> [h EXCEPT !.open = p.id]
    [] p.kind = "end"   -> [h EXCEPT !.open = 0]

\* All that waits for the host, in TinyUSB's buffer and in the queue.
Waiting == fifo \o [k \in 1..Len(queue) |-> Packet(queue[k].msg)]

\* A note sounds at the end of the packets w when it did so before them or one of
\* them strikes it, and it is not released after that.
Strikes(p, n) ==
  p.kind = "short" /\ p.msg.status = "NoteOn" /\ ~Off(p.msg) /\ p.msg.first = n

Releases(p, n) == p.kind = "short" /\ Off(p.msg) /\ p.msg.first = n

Sounds(notes, w, n) ==
  \/ n \in notes /\ \A k \in DOMAIN w : ~Releases(w[k], n)
  \/ \E k \in DOMAIN w : /\ Strikes(w[k], n)
                         /\ \A j \in DOMAIN w : j > k => ~Releases(w[j], n)

\* A controller ends at v when the last of the packets w that sets it says so, or
\* none sets it and it was there before.
Sets(p, c) ==
  p.kind = "short" /\ p.msg.status = "ControlChange" /\ p.msg.first = c

EndsAt(values, w, c, v) ==
  \/ values[c] = v /\ \A k \in DOMAIN w : ~Sets(w[k], c)
  \/ \E k \in DOMAIN w : /\ Sets(w[k], c) /\ w[k].msg.second = v
                         /\ \A j \in DOMAIN w : j > k => ~Sets(w[j], c)

\* The SysEx message of which the host waits for the end once it has read TinyUSB's
\* buffer, if any.
Unended ==
  IF \A k \in DOMAIN fifo : fifo[k].kind = "short"
  THEN {host.open} \ {0}
  ELSE {fifo[k].id : k \in {k \in DOMAIN fifo :
                              /\ fifo[k].kind = "part"
                              /\ \A j \in DOMAIN fifo : j > k => fifo[j].kind = "short"}}

-----------------------------------------------------------------------------
\* A write of UsbSysExPacer: the packet that is next, or the end of a message given
\* up; the time it has spent; once a try has failed, how long the host had read
\* nothing then, or -1; and the number of the reply that is written, or 0.
NotWriting == [next |-> 0, ending |-> FALSE, failFast |-> FALSE, spent |-> 0,
               still |-> -1, reply |-> 0]

Init ==
  /\ inbox = <<>> /\ queue = <<>> /\ clock = -1 /\ checked = FALSE
  /\ sysex = [head |-> 0, tail |-> 0, slots |-> [i \in 0..(SysExSlots - 1) |-> 0]]
  /\ pacer = -1 /\ loop = "top" /\ popped = 0 /\ writing = NotWriting
  /\ mounted = TRUE /\ suspended = FALSE /\ initialized = FALSE
  /\ fifo = <<>> /\ host = NewHost /\ quiet = 0
  /\ played = Silence
  /\ left \in Loads

-----------------------------------------------------------------------------
\* The receive callback.

\* onEspNowMessageStatic() and MidiInbox::push(): a full inbox drops the newcomer.
ReceiveShort(m) ==
  /\ left.short > 0 /\ m \in left.msgs
  /\ left' = [left EXCEPT !.short = @ - 1]
  /\ inbox' = IF Len(inbox) < InboxSize THEN Append(inbox, m) ELSE inbox
  /\ UNCHANGED <<queue, clock, checked, sysex, loopVars, usbVars, played>>

Following(i) == (i + 1) % SysExSlots

\* Seeded fault: the ring is filled to its last slot.
SysExFullLate == FALSE

SysExFull == Following(sysex.head) = sysex.tail

SysExWaits == sysex.head # sysex.tail

\* handleSysExStatic() and UsbSysExQueue::enqueue()
ReceiveSysEx ==
  /\ left.sysex > 0
  /\ left' = [left EXCEPT !.sysex = @ - 1]
  /\ sysex' = IF SysExFull THEN sysex
              ELSE [sysex EXCEPT !.slots[sysex.head] = left.sysex,
                                 !.head = Following(sysex.head)]
  /\ UNCHANGED <<inbox, queue, clock, checked, loopVars, usbVars, played>>

-----------------------------------------------------------------------------
\* Dongle::loop()

Goto(l) == loop' = l

ClearQueues ==
  queue' = <<>> /\ clock' = -1 /\ sysex' = [sysex EXCEPT !.head = 0, !.tail = 0]

\* A host that is gone takes what waited for it along.
Top ==
  /\ loop = "top"
  /\ IF initialized /\ ~mounted THEN ClearQueues ELSE UNCHANGED <<queue, clock, sysex>>
  /\ initialized' = mounted
  /\ popped' = 0
  /\ Goto("inbox")
  /\ UNCHANGED <<inbox, checked, pacer, writing, usbVars, played, left>>

\* bridgeToHost() of a message of a peer that is not muted and that the
\* application's filter lets through.
Bridge(m) ==
  /\ IF m.status = "Clock"
     THEN clock' = 0 /\ UNCHANGED queue
     ELSE queue' = Enqueue(queue, m) /\ UNCHANGED clock
  /\ played' = Hear(played, m)

\* ... and of one that is muted, filtered or not forwarded.
Discard == UNCHANGED <<queue, clock, played>>

PopInbox ==
  /\ loop = "inbox" /\ popped <= InboxSize /\ inbox # <<>>
  /\ inbox' = Tail(inbox)
  /\ popped' = popped + 1
  /\ Bridge(Head(inbox)) \/ Discard
  /\ UNCHANGED <<checked, sysex, pacer, loop, writing, initialized, usbVars, left>>

InboxDone ==
  /\ loop = "inbox" /\ (popped > InboxSize \/ inbox = <<>>)
  /\ Goto(IF initialized THEN "read" ELSE "top")
  /\ UNCHANGED <<queueVars, pacer, popped, writing, initialized, usbVars, played, left>>

\* UsbSysExPacer::write() begins.  After a write that failed less than Backoff ago
\* it does not wait for room.
Start(reply) ==
  /\ mounted /\ ~suspended
  /\ writing' = [NotWriting EXCEPT !.next = 1, !.failFast = pacer \in 0..(Backoff - 1),
                                   !.reply = reply]
  /\ Goto("write")

\* The host asks for the configuration, and read() has it answered through the
\* pacer, ahead of all that waits.  One request may have several replies.
Reply ==
  /\ loop = "read" /\ left.sysex > 0
  /\ left' = [left EXCEPT !.sysex = @ - 1]
  /\ Start(left.sysex)
  /\ UNCHANGED <<queueVars, pacer, popped, initialized, usbVars, played>>

ReadDone ==
  /\ loop = "read"
  /\ Goto("stale")
  /\ UNCHANGED <<queueVars, pacer, popped, writing, initialized, usbVars, played, left>>

\* dropStaleUsbMidi(), at most every 20 ms, and the checks of drainUsbMidiQueue()
DrainMidi ==
  /\ loop = "stale"
  /\ IF mounted /\ ~checked
     THEN /\ queue' = DropStale(queue)
          /\ clock' = IF StaleMs > 0 /\ Stale(clock) THEN -1 ELSE clock
          /\ checked' = TRUE
     ELSE UNCHANGED <<queue, clock, checked>>
  /\ Goto(IF mounted /\ ~suspended THEN "midi" ELSE "sysex")
  /\ UNCHANGED <<inbox, sysex, pacer, popped, writing, initialized, usbVars, played, left>>

\* writePacket() of the Arduino library: FALSE while the buffer is full.
HasRoom == mounted /\ Len(fifo) < FifoSize

\* Seeded fault: the head stays in the queue.
WriteHeadAgain ==
  /\ loop = "midi" /\ queue # <<>> /\ HasRoom
  /\ fifo' = Append(fifo, Packet(queue[1].msg))
  /\ UNCHANGED <<queue, inbox, clock, checked, sysex, loopVars, mounted, suspended, host,
                 quiet, played, left>>

WriteHead ==
  /\ loop = "midi" /\ queue # <<>> /\ HasRoom
  /\ fifo' = Append(fifo, Packet(queue[1].msg))
  /\ queue' = Tail(queue)
  /\ UNCHANGED <<inbox, clock, checked, sysex, loopVars, mounted, suspended, host, quiet,
                 played, left>>

WriteClock ==
  /\ loop = "midi" /\ queue = <<>> /\ clock >= 0 /\ HasRoom
  /\ fifo' = Append(fifo, Packet(ClockMessage))
  /\ clock' = -1
  /\ UNCHANGED <<inbox, queue, checked, sysex, loopVars, mounted, suspended, host, quiet,
                 played, left>>

MidiDone ==
  /\ loop = "midi"
  /\ HasRoom => queue = <<>> /\ clock < 0
  /\ Goto("sysex")
  /\ UNCHANGED <<queueVars, pacer, popped, writing, initialized, usbVars, played, left>>

\* drainUsbSysExQueue() does nothing while the bus is not ready ...
DrainSysEx ==
  /\ loop = "sysex"
  /\ Goto(IF mounted /\ ~suspended THEN "next" ELSE "top")
  /\ UNCHANGED <<queueVars, pacer, popped, writing, initialized, usbVars, played, left>>

ConsumeHead == sysex' = [sysex EXCEPT !.tail = Following(@)]

\* ... drops what is from a muted peer, or comes up after the bus went away ...
SkipSysEx ==
  /\ loop = "next" /\ SysExWaits
  /\ ConsumeHead
  /\ UNCHANGED <<inbox, queue, clock, checked, loopVars, usbVars, played, left>>

\* ... fails at once, as if it had timed out, on one that lacks its F0 or F7 ...
RejectSysEx ==
  /\ loop = "next" /\ SysExWaits /\ mounted /\ ~suspended
  /\ ConsumeHead
  /\ pacer' = 0
  /\ UNCHANGED <<inbox, queue, clock, checked, loop, popped, writing, initialized, usbVars,
                 played, left>>

\* ... and writes the others from the slot they are in.
StartSysEx ==
  /\ loop = "next" /\ SysExWaits
  /\ Start(0)
  /\ UNCHANGED <<queueVars, pacer, popped, initialized, usbVars, played, left>>

SysExDone ==
  /\ loop = "next" /\ ~SysExWaits
  /\ Goto("top")
  /\ UNCHANGED <<queueVars, pacer, popped, writing, initialized, usbVars, played, left>>

\* The message that is written: a reply, or what is in the slot of the tail.
InHand == IF writing.reply > 0 THEN writing.reply ELSE sysex.slots[sysex.tail]

\* The write ends.  consumeHead() takes the message off the queue.
Finish(ok) ==
  /\ pacer' = IF ok THEN -1 ELSE 0
  /\ writing' = NotWriting
  /\ IF writing.reply > 0
     THEN UNCHANGED sysex /\ Goto("read")
     ELSE ConsumeHead /\ Goto("next")

\* The time of the wait callback is up: after a failed write it has none, and to end
\* a message that was cut off a little more.
TimeIsUp ==
  writing.failFast \/ writing.spent >= Budget + (IF writing.ending THEN EndExtra ELSE 0)

StopsWaiting == TimeIsUp \/ ~mounted \/ suspended

Tried == writing.still >= 0

\* write() finds no room.  Unless the writer stops waiting, it tries again after it
\* has slept.
WriteFails ==
  /\ loop = "write" /\ ~Tried /\ ~HasRoom
  /\ writing' = [writing EXCEPT !.still = quiet]
  /\ UNCHANGED <<queueVars, pacer, loop, popped, initialized, usbVars, played, left>>

\* The first try, or one after a wait that was to go on.
Writes ==
  loop = "write" /\ HasRoom /\ ~(Tried /\ TimeIsUp)

WritePacket ==
  /\ Writes /\ ~writing.ending
  /\ fifo' = Append(fifo, SysExPacket(InHand, writing.next = SysExPackets))
  /\ IF writing.next = SysExPackets
     THEN Finish(TRUE)
     ELSE /\ writing' = [writing EXCEPT !.next = @ + 1, !.still = -1]
          /\ UNCHANGED <<sysex, pacer, loop>>
  /\ UNCHANGED <<inbox, queue, clock, checked, popped, initialized, mounted, suspended, host,
                 quiet, played, left>>

\* Seeded fault: a message that is given up is not ended.
GiveUpUnended ==
  /\ loop = "write" /\ Tried /\ StopsWaiting
  /\ Finish(FALSE)
  /\ UNCHANGED <<inbox, queue, clock, checked, popped, initialized, usbVars, played, left>>

\* The wait after a try that failed is over, whatever the host has read since.  In
\* the middle of a message, that is still to be ended with F7.
GiveUp ==
  /\ loop = "write" /\ Tried /\ StopsWaiting
  /\ IF ~writing.ending /\ writing.next > 1
     THEN /\ writing' = [writing EXCEPT !.ending = TRUE, !.still = -1]
          /\ UNCHANGED <<sysex, pacer, loop>>
     ELSE Finish(FALSE)
  /\ UNCHANGED <<inbox, queue, clock, checked, popped, initialized, usbVars, played, left>>

WriteEnd ==
  /\ Writes /\ writing.ending
  /\ fifo' = Append(fifo, SysExPacket(InHand, TRUE))
  /\ Finish(FALSE)
  /\ UNCHANGED <<inbox, queue, clock, checked, popped, initialized, mounted, suspended, host,
                 quiet, played, left>>

LoopStep ==
  \/ Top \/ PopInbox \/ InboxDone \/ Reply \/ ReadDone \/ DrainMidi
  \/ WriteHead \/ WriteClock \/ MidiDone
  \/ DrainSysEx \/ SkipSysEx \/ RejectSysEx \/ StartSysEx \/ SysExDone
  \/ WriteFails \/ WritePacket \/ GiveUp \/ WriteEnd

-----------------------------------------------------------------------------
\* The host, and time.

HostRead ==
  /\ mounted /\ ~suspended /\ fifo # <<>>
  /\ host' = Read(host, Head(fifo))
  /\ fifo' = Tail(fifo)
  /\ quiet' = 0
  /\ UNCHANGED <<queueVars, loopVars, mounted, suspended, played, left>>

Fault == left.faults > 0 /\ left' = [left EXCEPT !.faults = @ - 1]

Suspend ==
  /\ mounted /\ ~suspended /\ Fault
  /\ suspended' = TRUE
  /\ UNCHANGED <<queueVars, loopVars, mounted, fifo, host, quiet, played>>

Resume ==
  /\ suspended
  /\ suspended' = FALSE
  /\ UNCHANGED <<queueVars, loopVars, mounted, fifo, host, quiet, played, left>>

Unplug ==
  /\ mounted /\ Fault
  /\ mounted' = FALSE /\ suspended' = FALSE
  /\ fifo' = <<>> /\ host' = NewHost
  /\ UNCHANGED <<queueVars, loopVars, quiet, played>>

Plug ==
  /\ ~mounted
  /\ mounted' = TRUE
  /\ UNCHANGED <<queueVars, loopVars, suspended, fifo, host, quiet, played, left>>

Waited(t, max) == IF t < max THEN t + 1 ELSE t

\* The bound on speed: the writer, which sleeps for 1 ms at a time, is not held up
\* for a whole tick (of 10 ms) when it can go on, and tries again in every tick.
Tick ==
  /\ loop = "write" => Tried /\ ~HasRoom /\ ~StopsWaiting
  /\ queue' = Aged(queue)
  /\ clock' = IF clock < 0 THEN clock ELSE Older(clock)
  /\ checked' = FALSE
  /\ pacer' = IF pacer < 0 THEN pacer ELSE Waited(pacer, Backoff)
  /\ writing' = IF loop = "write"
                THEN [writing EXCEPT !.spent = Waited(@, Budget + EndExtra), !.still = -1]
                ELSE writing
  /\ quiet' = Waited(quiet, Budget + EndExtra)
  /\ UNCHANGED <<inbox, sysex, loop, popped, initialized, mounted, suspended, fifo, host,
                 played, left>>

Next ==
  \/ \E m \in Messages : ReceiveShort(m)
  \/ ReceiveSysEx
  \/ LoopStep
  \/ HostRead \/ Suspend \/ Resume \/ Unplug \/ Plug
  \/ Tick

\* The loop task runs, time passes, and a host that is connected resumes the
\* bus and reads.
Fairness == WF_vars(LoopStep) /\ WF_vars(Tick) /\ WF_vars(HostRead) /\ WF_vars(Resume)

Spec == Init /\ [][Next]_vars /\ Fairness

-----------------------------------------------------------------------------
Packets == [kind : {"part", "end"}, id : Nat]
             \cup [kind : {"short"}, msg : Messages \cup {ClockMessage}]

States == [notes : SUBSET Notes, values : [Controllers -> Nat]]

SysExWrites == [next : 0..SysExPackets, ending : BOOLEAN, failFast : BOOLEAN,
                spent : 0..(Budget + EndExtra), still : -1..(Budget + EndExtra), reply : Nat]

\* Every variable has its type, and no queue holds more than it has room for.
TypeOK ==
  /\ inbox \in Seq(Messages) /\ Len(inbox) <= InboxSize
  /\ queue \in Seq([msg : Messages, age : 0..(StaleMs + 1)]) /\ Len(queue) <= Capacity
  /\ clock \in -1..(StaleMs + 1) /\ checked \in BOOLEAN
  /\ sysex \in [head : 0..(SysExSlots - 1), tail : 0..(SysExSlots - 1),
                slots : [0..(SysExSlots - 1) -> Nat]]
  /\ pacer \in -1..Backoff /\ popped \in 0..(InboxSize + 1)
  /\ loop \in {"top", "inbox", "read", "stale", "midi", "sysex", "next", "write"}
  /\ writing \in SysExWrites
  /\ {mounted, suspended, initialized} \subseteq BOOLEAN
  /\ fifo \in Seq(Packets) /\ Len(fifo) <= FifoSize
  /\ host \in [state : States, open : Nat] /\ played \in States
  /\ quiet \in 0..(Budget + EndExtra)
  /\ left \in [short : Nat, msgs : SUBSET Messages, sysex : Nat, faults : Nat]

\* The notes that the host would be left with although they were released.
Stuck == {n \in Notes : Sounds(host.state.notes, Waiting, n)} \ played.notes

\* The next message goes into a full queue.
Evicts == loop = "inbox" /\ inbox # <<>> /\ Len(queue) = Capacity

\* Neither a full queue nor messages that waited too long leave a note sounding,
\* unless a release comes to a queue full of releases (UsbMidiQueue.h:37-38, 106-121).
NoStuckNotes ==
  [][ ~(Evicts /\ AllReleases(queue) /\ IsRelease(Head(inbox))) => Stuck' \subseteq Stuck ]_vars

\* The controllers of which the host would be left with another value.
Wrong == {c \in Controllers : ~EndsAt(host.state.values, Waiting, c, played.values[c])}

\* Messages dropped because they are stale never change where a controller ends
\* up: only a full queue and a host that was unplugged do (UsbMidiQueue.h:35-43).
ValuesArrive ==
  [][mounted /\ mounted' /\ ~Evicts => Wrong' \subseteq Wrong]_vars

\* A SysEx message is written from a slot that the Wi-Fi task does not reuse
\* meanwhile, and no reply gets into it: what the host has of it is of the message
\* that is still in the slot.
OneSysExAtATime ==
  loop = "write" /\ writing.next > 1 => Unended \subseteq {InHand}

\* The writer leaves a SysEx open at the host only when the host, for as long as
\* the writer waited to end it, up to its last try, had read nothing, when the bus
\* is gone, or while it does not wait because the write before has failed: timed
\* out, or been of a SysEx without its F0 or F7 (UsbMidiPacket.h:104-105, 145-147).
LeftOpenByStall ==
  [][loop = "write" /\ loop' # "write" /\ Unended' # {}
       => writing.still >= EndExtra \/ writing.failFast \/ ~mounted \/ suspended]_vars

\* A note that was released stops sounding at a host that reads, is unplugged, or
\* has lost the release to a queue full of releases.
NotesEnd ==
  \A n \in Notes :
    (n \in host.state.notes \ (played.notes \cup Stuck))
      ~> (n \notin host.state.notes \ (played.notes \cup Stuck))

=============================================================================
