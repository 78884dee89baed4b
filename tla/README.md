# Formal models of ESP-NOW-MIDI

TLA+ models of this library, the configurations with which TLC checks them, and
proofs that the TLA+ proof system (TLAPS) checks. Paths are relative to the
repository (`src/` is its root here); line numbers refer to the commit the models
were written from.

## 1. The system

The library carries MIDI over ESP-NOW between instruments (`enomik::Client`) and a
USB dongle (`enomik::Dongle`). Both are built on `esp_now_midi`.

| Component | State | Operations | Talks to |
|---|---|---|---|
| Send queue (`esp_now_midi_send_queue.h`) | two rings, `_nextSeq` | push, pop, clear | guarded by `_queueMux` of `esp_now_midi` |
| Peer list (`esp_now_midi.h`) | `_peers`, `_discovered`; the driver's own peer table | begin, addPeer, removePeer, clearPeers, addDiscoveredPeers, restartEspNow, OnDataRecv | ESP-NOW driver; guarded by `_peersMux`, driver called outside it |
| Send path (`esp_now_midi.h`) | queue, `_inFlight`, stall and restart times, reachability of peers | sendToAllPeers, send, flush; sender task; send callback | application tasks, sender task, Wi-Fi task |
| Message conversion and dispatch (`esp_now_midi.h`, `esp_now_midi_helpers.h`, `esp_now_midi_usb.h`) | none | fromMessage, toMessage, toUsbMidiPacket, dispatchPacket, handlers | everything that carries MIDI |
| SysEx transport (`esp_now_midi_sysex.h`) | four reassembly slots | sendSysex, feed | application task sends, receive callback joins |
| USB MIDI queue (`UsbMidiQueue.h`) | ring of 64 with times, pending clock | enqueue, peek, consume, clear, dropStale, refreshTimestamps | loop task of the dongle |
| USB SysEx queue, MIDI inbox (`UsbSysExQueue.h`, `MidiInbox.h`) | rings | enqueue, peek, consume | receive callback fills, loop task drains |
| USB packets (`UsbMidiPacket.h`) | `UsbSysExPacer`'s time of the last failure | conversion, waiting write of SysEx | loop task, TinyUSB |
| USB watchdog (`UsbStallWatchdog.h`) | phase, attempts, stall and delivery times | tick, noteHostRx, noteWakeupResult | loop task of the dongle, TinyUSB |
| Dongle (`enomik_dongle.h`, `PeerStorage.h`, `PeerMuteList.h`, `PeerDirectory.h`) | live peers, stored peers, mutes, names | begin, loop, add/remove/replace/clear/mute, config SysEx | all of the above, flash, USB host |
| Client (`enomik_client.h`) | live and stored peers, inbox, loopback | begin, loop, send calls, add/remove/clear | `esp_now_midi`, USB, flash, the sketch's handlers |
| Configuration (`enomik_sysex.h`, `enomik_io.h`) | pin mappings, flags, name; their records in flash | get/set/delete/clear pins, flags, name, peers, reset; begin | USB host, flash |
| Pins (`enomik_io.h`) | state of each pin | digital, analog and touch processing | loop task of the client |
| Display pacing, message history, codec, logging, helpers | small or none | | |

### What is hard

Three kinds of tasks run at the same time: application tasks (`loop()`), the sender
task of the library and the Wi-Fi task, which runs the driver's callbacks. The
driver may refuse a packet, confirm it late or before `esp_now_send()` returns, or
stop confirming for good. Values read before a lock is taken, or before another task
runs, are used afterwards. Devices come and go, radio frames get lost, USB hosts stop
reading, suspend or are unplugged, and power fails between two writes to flash.
Counters and clocks wrap. Queues fill, and what is thrown away then decides whether a
note hangs. `PROJECT.json` lists each of these hazards at its line, with the
properties that cover it.

### What makes each component correct

- Send queue: packets leave in the order they came, whatever the two rings and the
  wrap of the sequence number do; a new value only replaces the waiting value of the
  same controller for the same peer; values leave room for notes, notes for note-offs.
- Peer list: list and driver hold the same peers whenever nobody is changing them.
- Send path: the in-flight count is exact, no wake-up is lost, the Wi-Fi task never
  waits, ESP-NOW is restarted when and only when it is stuck, calls return, the queue
  moves, and a peer that is back is found.
- Conversion and routing: every end a message belongs to gets it once, unchanged.
- SysEx transport: what is delivered is what was sent, unless two losses conspire; what
  comes through whole is delivered.
- USB side: no note hangs at the host and no controller ends at a wrong value because
  of what the queue drops; a SysEx is not left open; the watchdog attaches what it
  detached, backs off and leaves a working host alone.
- Dongle and client: live list, flash and mutes agree, also after a reset in the middle
  of a change; what the host was told stays true.
- Pins: what is sent in the end is where the pin is; what a worn wiper drops is not sent.

## 2. Modules

| Module | Models | Uses | Proofs |
|---|---|---|---|
| `MidiPriority` | `classify()`, `replaces()`, `isOrderedController()`, byte by byte | | |
| `SendQueue` | `SendQueue`: push, pop, clear | `MidiPriority` | `SendQueue_proofs` |
| `SendFifo` | what the queue promises: one FIFO with limits and replacement | `MidiPriority` | |
| `PeerList` | peers in list and driver, step by step between critical sections | | `PeerList_proofs` |
| `Transmit` | the send path with its three kinds of tasks, the driver and time | | `Transmit_proofs` |
| `SysExLink` | `sendSysex()`, frames, a lossy radio, the reassembler | | `SysExLink_proofs` |
| `UsbMidiQueue` | the USB queue's operations as operators on its entries | | |
| `DongleUsb` | ESP-NOW to USB: inbox, both queues, SysEx writer, TinyUSB's buffer, host | `UsbMidiQueue` | `DongleUsb_proofs` |
| `UsbStallWatchdog` | `tick()` and its inputs as operators on the watchdog's record | | |
| `UsbRecovery` | the dongle's loop with the watchdog, the USB bus and a host | `UsbStallWatchdog`, `UsbMidiQueue` | `UsbRecovery_proofs` |
| `DonglePeers` | the dongle's peers: live, stored, muted | | `Dongle_proofs` |
| `ClientConfig` | a client's configuration and peers in memory and in flash | | `Client_proofs` |
| `IoPins` | an input pin: switch, analog or touch | | `Client_proofs` |
| `MidiRoutes` | a message on its way through all stations | | `Dongle_proofs` |
| `MC...` | constants of the instances | | |

Definitions marked *seeded fault* or *a plausible bug* are not part of the models: they
are slips a programmer could make, each close to the definition it would replace. With
one of them in its place TLC reports the property that `PROJECT.json` names beside it,
which shows that the property can fail.

### SendQueue

A ring is the sequence of its occupied slots, so `_shortHead` and `_shortCount` do
not appear; `nextSeq` is `_nextSeq` modulo `SeqRange` (65536 in the code). `ret` is
what the last call returned. `Push` splits as `push()` does: `PushShort`
(`ReplaceShort`, `QueueShort` or refusal), `PushFrame`, `PushInvalid`. `TakeShort` is
the signed comparison of `pop()`. The owner holds `_queueMux` around every call, so a
call is one step. A packet is the sequence of its bytes because the priority depends
on them; which bytes are pushed is a constant of the instance.

`ImplementsFifo` maps the two rings to the one queue of `SendFifo`: the slot whose
number was issued k numbers ago is the k-th from the end.

### PeerList

`list` and `driver` are `_peers` and the driver's table. Each task (`task[t].pc`) is
between two critical sections: `addPeer()` is AddCheck, AddDriver, AddList and
possibly AddUndo; `removePeer()` is CallRemovePeer, RemoveDriver, RemoveList;
`clearPeers()` is ClearList and one ClearDriver per peer; `restartEspNow()` is
RestartCopy, RestartDeinit, RestartInit and one RestartReadd per peer; the receive
callback is ReceiveFrom (`queueDiscovered()`) and ReceiveSeen (`markSeen()`).
The sender task alternates `addDiscoveredPeers()` and `checkStall()`; whether it
finds a stall is left open. `Restarts` says when it may: never, only while no application
task is in a call (`"alone"`), or at any time. The driver may refuse a peer at any time,
and `esp_now_init()` may fail in a restart, which the code only logs. `lost` is a history
variable: the peers that a restart could not register again. They stay listed, and the
properties speak of all the others.

### Transmit

Tasks that send push to one peer after the other (`Deliver`), waiting a tick at a
time when the queue is full and they may (`WaitFor`), then wake the sender (`Kick`).
The sender task goes around `stallTime` (reads `millis()`), `stallCheck` (takes the
lock), possibly `restart` and `restarted`, `pop`, `lookup`, `count`, `send`, possibly
`undo`, or `wait`. Confirm is the send callback. `unconfirmed` is what the driver has
accepted; it may confirm before the sender task has run on. The queue here is the
FIFO that `SendQueue` implements, with packets told apart by kind only, and peers are
added and removed in one step because `PeerList` has the steps.

`stuck` says what makes the driver confirm again: nothing (`"no"`), a restart of
ESP-NOW, a restart with Wi-Fi, or, after a failed `esp_now_init()`, `"down"`. `Jam`
is the fault the library was built against: the driver stops confirming and may
accept or refuse.

Time: `Tick` is one unit. A time stamp is kept as its age, which stops at `AgeCap`,
beyond everything it is compared to. `Elapsed` is the unsigned 32-bit difference: a
stamp younger than the `now` it is compared to is far in the past. `MaxPreempt`
bounds how long the sender is held up between two of its steps, and `MaxConfirm` how
late a working driver confirms; a value beyond `AgeCap` means no bound.

Left out: the statistics that nothing reads back (sent, failed, dropped, ...), the
build without the queue (`ESP_NOW_MIDI_SEND_QUEUE` 0) and without tasks, in which
`service()` does the sender's work, and `flush()` called from a callback.

### SysExLink

Each device is in at most one `sendSysex()` (`sending`), whose frames come through
(`SendFrame`), get lost (`LoseFrame`) or are refused by the send path, which ends the
call (`SendFails`). A frame has its real header, computed by the real arithmetic, and
instead of payload bytes the number of its message, so that the buffer of a slot shows
which messages it is made of. `Feed` is `feed()` with the expiry of stale slots,
`findSlot()`, `allocSlot()` and `startAssembly()`; the clock wraps at `ClockMod` as
`millis()` does at 2^32. `heard`, `missing` and `idle` are bookkeeping for the
properties. Two tasks calling `sendSysex()` of the same device at once are left out.

### DongleUsb and UsbMidiQueue

`UsbMidiQueue` has the ring as a sequence of entries with ages instead of times;
`Enqueue` evicts, `CompactStale` drops what is stale and superseded. `DongleUsb` runs
`loop()` step by step (`loop`): clear the queues when the host has gone, take from the
inbox, answer configuration requests of the host (`Reply`), drain the USB queue, drain the
SysEx queue, and, for replies and queued SysEx alike, `UsbSysExPacer::write()` packet by
packet. A try that finds no room (`WriteFails`) and the wait that decides whether there is
another (`GiveUp`) are steps of their own: the host may read, suspend the bus or go in
between. A SysEx without its F0 or F7, which `feed()` and `enqueue()` let through, fails
without a packet (`RejectSysEx`); to the pacer that is a failure like a time-out. The
receive callback runs between any two steps. `fifo` is TinyUSB's buffer; `host` is what the host
knows (notes that sound, values of controllers, the SysEx it is in), `played` what it
would know had everything that was bridged arrived. `Waiting` is the line of packets
still on their way; `Sounds` and `EndsAt` say by the last packet about a note or a
controller how the host will be left once it has read them all.

### UsbRecovery and UsbStallWatchdog

`WatchdogTick` is `tick()`: the record of the watchdog and the inputs of a call give the
next record and the action. `UsbRecovery` is the loop that reads the inputs, calls it and
acts (`Top`, `Drain`, `Service`). SysEx from the devices and the replies to configuration
requests are packets that `loop()` writes past the queue and past `_usbWrote`
(`WriteSysEx`). Around it are a bus that goes when it is detached or unplugged, a
host that reads promptly, stops reading, or never reads, and suspensions from which the
host wakes up or not. `undelivered` and `lastDetach` count independently of the watchdog
what its back-off should be, and how long a recovery may last; `sysexWrote` notes that
SysEx was written since the clock last ticked.

### DonglePeers

A call of the loop task (`call`) makes its changes one by one: the live list, the
storage, the mutes. Discovery by the sender task, a refusal by the driver and a reset come
between any two steps. `begin()` restores the stored peers one by one. `acked` holds the
peers for which a call has reported success. The list itself is atomic here; `PeerList`
has its steps.

### ClientConfig

A request changes the memory at once and then writes flash record by record (`work`);
the power fails between any two writes, and the next boot runs the same or another
firmware. `known` is what the host was told about one pin; the reply to a change repeats
what was asked for. `addPeer()` adds to the live list only what is not there yet, and a
refusal takes the peer out of the storage again, also when discovery has added it to the
list meanwhile (`AddUndo`). The mappings are compared by
the threshold and by everything else, as `sameExceptThreshold()` does.

### IoPins

`Loop(dt)` is one call of `loop()` on the reading of one pin, `dt` after the previous one.
The averages are coarse: they move by one step per sample. An average that comes from
below may take a long time to reach the reading or never do so, as the rounding of `float`
has it (`Averages`); either way it does not go past it or back, nor does one from above.
A dropout reads anything far off. Small noise around a reading, which the code does not
filter beyond the average, is left out, and so are ranges whose minimum is above their
maximum. The drift of a touch pad may or may not move at a sample.
The names of the specification begin with `Pin`, so that one module can hold the proofs
about both models of a client.

### MidiRoutes

Four stations: a DAW on the dongle's USB port, the dongle, a client with pins and a USB
host of its own, and plain `esp_now_midi` stations. Every conversion is the code's
arithmetic: arguments, `midi_message`, ESP-NOW bytes, USB-MIDI packet, handler arguments.
`heard[e]` is what the handlers, or the host, at the end `e` were given, and `Addressed`
says to whom a message belongs. A SysEx of the DAW that is not the dongle's own is
`Disputed` for muted peers: `onSysExStatic()` sends it to all peers, while
`enomik_dongle.h:827` and `PeerMuteList.h:14` say that mutes work in both directions. The
model does what the code does, and `EveryEndOnce` leaves open whether such a peer gets it.
The client's sketch may send back what its handlers get,
as `examples/client_echo` does. `LegalCalls` are the arguments in the ranges that MIDI has;
what is sent is among them. The names of the specification begin with `Routes`, so that one
module can hold the proofs about both models of the dongle.

## 3. Runs

| Run | Checks | Shows |
|---|---|---|
| `send_queue` | ReservedSlots, OneWaitingValue, ImplementsFifo | values that replace each other, a probe with the same controller, note-offs, frame, frame too long |
| `peer_list` | ListMatchesDriver, OwedDifference, DiscoveredIsAdded | loop task, discovery and restarts, both tables of two entries, two devices, a driver that refuses and restarts that fail |
| `transmit_safety` | InFlightCounts, NoLostWakeup, RestartJustified | application, handler, flush, jams, failing restarts, peers that go |
| `transmit_live` | OnlyProbesToUnreachable, QueueMoves, DriverRecovers, FoundAgain | progress and recovery under traffic, with a driver that jams and a device that comes and goes |
| `sysex_link` | IntactIsDelivered, MixNeedsTwoLosses, LateNeverJoins | three senders, two slots, losses and a wrapping clock |
| `dongle_usb` | OneSysExAtATime, NoStuckNotes, ValuesArrive, LeftOpenByStall, NotesEnd | the dongle's way from ESP-NOW to USB with every queue at its limit |
| `usb_watchdog` | BackoffRespected, PromptHostIsLeftAlone, DeafHostIsLeftAlone, WaitingSurvives, AttachFollows, HostRecovers | detach and attach against three kinds of hosts |
| `dongle_peers` | MutesAreLive, AckedComesBack, ReplaceKeepsOne | peers, discovery, refusals, two resets |
| `client_config` | RestartChangesNothing, NameIsOfThisFirmware, ToldIsTrue, StoredIsLive, OthersSurvive | memory against flash through power failures and a firmware update |
| `io_pins` | BouncesAreOnePress, SettlesOnce, RestIsSent | bounces, dropouts, drift and tuning |
| `midi_routes` | SameMeaning, EveryEndOnce | every kind of message from every source to every end |

One run is expected to find its property violated, a place where code and
documentation differ (`findings` in `PROJECT.json`):

| Run | Property | What happens |
|---|---|---|
| `peer_restart_race` | ListMatchesDriver | a peer is added while the sender task restarts ESP-NOW: the driver has it and the list does not yet when the restart copies the list, so it is listed but not registered again; a removal in that time is registered again |

Other behaviour that the models show and that a reader of the comments may not expect is
in the hazards of `PROJECT.json` that have a note instead of a property: `flush()` may
return while the sender task holds the last packet, `checkStall()` may restart a working
ESP-NOW when two packets are in flight, nothing restarts ESP-NOW after a failed
`esp_now_init()`, a host that reads only SysEx for the time of a stall is detached although
`UsbStallWatchdog.h:28-30` says that one that reads never is (`_usbWrote` is set for channel
messages only), peers that a restart cannot register again stay listed, a SysEx of the DAW reaches muted
peers (see MidiRoutes in section 2), a malformed SysEx of one peer makes the next ones give
up without waiting for half a second, so that one of them can be cut off and left open at a
host that reads (`failFast` in `LeftOpenByStall`; `UsbMidiPacket.h:146-147` gives only
time-outs and hosts that stopped reading as reasons), and a pad that is touched while its
threshold is set to 0 or back is not released.

`TypeOK` of each module is in no run's configuration. It is proved for `SendQueue`,
`Transmit`, `PeerList`, `DonglePeers`, `DongleUsb`, `UsbRecovery`, `IoPins`,
`MidiRoutes` and `ClientConfig`, and for `SysExLink` where no foreign frame parses as one
of this library's (`ForeignIsForeign`).

### Bounds

- SendQueue: the smallest rings the `static_assert` allows (8 short slots, 1 frame
  slot), so every limit differs from the next, and `SeqRange` = 18, the smallest that
  keeps the rings below half the range: every run wraps, and any wrong comparison at
  the wrap shows. The packets have the highest and the lowest priority. The proofs
  cover every size and every packet.
- PeerList: two entries in list and driver and two devices: both tables fill, a
  refusal of the driver may come at any registration, and so the second device finds
  every state that a third would. One application task besides the sender task, as in the library's
  own client and dongle. With two application tasks that remove and add the same peer
  at the same time the lists can differ (a hazard in `PROJECT.json`).
  `DiscoveredIsAdded` follows one device: addresses are only compared, so the devices
  are interchangeable.
- Transmit: one peer, a queue of one slot per
  priority, one packet in flight as configured, and times of one to three ticks in
  the order the code has them. Short times and full queues are the interesting cases;
  longer ones repeat them. `UnreachableAfter` is 1 (5 in the code) or 0 (off).
- SysExLink: three devices contend for two slots, messages of 481 and 1025 bytes (three
  fragments; one more than may be sent), three messages, a timeout of one tick and a
  clock of five: the shortest in which a frame can be in time, late, and late across the
  wrap. A slot is not left active for a whole turn of the clock (49 days).
- DongleUsb: queue of two, inbox of one, two SysEx slots, a buffer of one packet: each
  overflows. `MixedLoads` names how many messages, SysEx (of peers or replies) and faults
  a behaviour has.
- UsbRecovery: each time is the smallest that keeps the order of the code's; two
  attempts before the back-off is capped; two faults, so that one can come while the
  other is being dealt with.
- DonglePeers: lists of three, four devices, so that discovery can fill the list; two
  refusals (one for each half of a replacement) and two resets.
- ClientConfig: two pins, one flag, two firmware builds, room for one peer among two
  devices, and one torn save.
- IoPins: thirteen readings, seven MIDI values, a pad with three readings.
- MidiRoutes: one original message and two echoes; every status, both ends of every
  data range, channels 1 and 16. A message is treated without regard to the others, so
  one at a time shows every route. The proofs cover every legal message, any number of
  messages and echoes, and any plain stations.

### What the environments are assumed to do

- UsbRecovery: one call of `loop()` takes less than a tick; a host takes longer than
  a call of `loop()` to come back after the bus was cut, and resuming longer than a
  call as well (USB gives it 20 ms); the device notices within a tick that it is off
  the bus; a prompt host reads within a tick. `writeUsbSysEx()`, which may wait for the host in the middle
  of a call, only sees its packets taken one by one. A host that comes back exactly at the
  end of the recovery window may find its queue cleared, which `WaitingSurvives` permits.
- IoPins: the first reading after a configuration is a good one, a knob that loses
  contact has it again before the third bad sample, and its next dropout comes after a
  good sample. The host tunes thresholds within a mode (continuous or not).
- MidiRoutes: data are in the legal ranges (`RoutesAssumption`); messages are dispatched in `loop()`, the
  default; nothing is lost, which the other modules treat.

### Fairness

FreeRTOS schedules every task that is ready, so each step of the sender task, of a
call in progress, of `loop()` and of the callbacks is weakly fair, and so is time. A
driver that is not stuck confirms in the end. Nothing is assumed about calls, packets,
faults or devices. `BusySpec` adds the assumption under which recovery is claimed at
all: an application that sends again and again. `FoundAgain` further assumes that in
the end the device stays, the driver works, it confirms within `MaxConfirm` and the
sender is not held up for as long as a stall takes; without the last two, TLC shows
ESP-NOW being restarted forever before a confirmation arrives. Starvation of probes by
a queue that is full each time a probe is due is excluded in that run by letting only
one task send.

In `DongleUsb` a host that is connected resumes and reads in the end, and the writer, which
sleeps for 1 ms at a time, tries at least once in every tick of 10 ms (`Tick`). In `UsbRecovery`
the tick and the host's return are strongly fair: `loop()` passes through the states in
which they are enabled again and again, and neither time nor a host waits for a state to
last. A host that was asked to wake up and said so does, a cable is plugged in again.
`IoPins` needs strong fairness for a call of `loop()` in which time has passed, since
the pin may change between any two calls; a lost contact comes back.

## 4. Proofs

`SendQueue_proofs` proves for every number of slots, every range of sequence numbers
at least twice the slots, and every set of packets (`SlotsAssumption`,
`SeqRangeAssumption`, `CallsAssumption`):

| Theorem | States |
|---|---|
| `TypeCorrect` | `Spec => []TypeOK` |
| `OrderKept` | `Spec => []Contiguous` |
| `ReserveKept` | `Spec => []ReservedSlots` |
| `OneValueWaits` | `Spec => []OneWaitingValue` |
| `QueueIsFifo` | `Spec => ImplementsFifo`: every behaviour of the two rings is one of `SendFifo` |

`Contiguous` is the heart: the waiting numbers are exactly the last ones issued, so
their distances from `nextSeq` are 1..Size, each once. Together with `TypeOK` it is
inductive: a push issues the number at distance 1 and moves every other one up, a
replacement changes no number, and a pop takes the largest distance, because below
half the range the signed difference of two numbers orders them as their distances
do (`SignedDiffIsOlder`). `ReservedSlots` is inductive because positions only sink and
a replacing value has the priority of the value it replaces; `OneWaitingValue` because
`Replaces` is symmetric and transitive on packets of low priority. A lemma per
operation of a ring (append, take the head, overwrite) carries the set of its slots.

`QueueIsFifo` is the refinement, step by step. The queue of `SendFifo` that belongs to
two rings is an order of their slots: the slot at distance d is the d-th from the end
(`IsOrder`). Because the distances are each of 1..Size once (`Placed`), there is exactly
one (`MergedIsOrder`, `OrderUnique`), so it is enough to say what an order of the new
rings is: the old one with the pushed packet behind it (`AppendOrder`), with a packet
replaced at its place (`OverwriteOrder`), or without its first (`TailOrder`).
`PopTakesOldest` shows that `TakeShort` picks the ring in which that first one is, over
the wrap. `Sorted`, that short messages and frames never wait in each other's ring, makes
the two modules count the same limits. Fairness plays no part: neither module has any.

`Transmit_proofs` proves for any number of devices, tasks, slots and packets in
flight and for all times (`TransmitAssumption`: times and sizes are natural numbers,
the limits of the priorities are ordered as `limit()` orders them, at least one packet
may be in flight):

| Theorem | States |
|---|---|
| `TypeCorrect` | `Spec => []TypeOK` |
| `CountIsExact` | `Spec => []InFlightCounts` |
| `NoWakeupLost` | `Spec => []NoLostWakeup` |
| `RestartsAreJustified` | with one packet in flight, `Spec => RestartJustified` |
| `UnreachableGetsProbes` | with one packet in flight, `Spec => OnlyProbesToUnreachable` |

`TypeInv` strengthens `TypeOK`: the sender has a packet from taking it to handing it
over (`HasPacket`), a task that sends has the kind of its packets (`TaskOK`). The
limits of the queue are counts over its positions; `AppendCounts` and `TailCounts` say
how they change. `InFlightCounts` is inductive together with `RestartedIsEmpty`: a
restart empties the driver before it resets the count, and nothing comes in between.
`NoLostWakeup` is inductive with `TypeInv`.

The last two need `MaxInFlight = 1` (the default): with two, TLC shows the first one
violated. `YoungerThanNow` is why it holds with one: a
confirmation between reading the clock and taking the lock leaves nothing in flight
and nothing refused, so `checkStall()` has nothing to wait for. `LookedUp` is why a
packet that is no probe is not handed over for a peer that has become unreachable
since it was looked up: no other packet is in flight, so none can be reported lost.

`SysExLink_proofs` proves for every finite set of senders, all lengths and foreign headers,
any number of slots, any timeout and any range of the clock that is more than twice the
timeout (`LinkAssumption`):

| Theorem | States |
|---|---|
| `OneSlotEach` | `Spec => []OneSlotPerSender` |
| `LateFramesDropped` | `Spec => LateNeverJoins` |
| `MixingTakesTwoLosses` | if `ForeignIsForeign`, `Spec => MixNeedsTwoLosses` |
| `IntactAlwaysDelivered` | if `ForeignIsForeign`, `Spec => IntactIsDelivered` |
| `LinkAlwaysTyped` | if `ForeignIsForeign`, `Spec => []TypeOK` |

`LinkInv` is their invariant: no sender has two slots, and the age of a slot that
`feed()` computes from a clock that wraps is the true time since the slot's last frame,
as far as that is followed (`ClockInv`). `AgeGrows` carries it over a tick, for which it
needs the model's bound that no slot stays active for a whole turn of the clock.
`FeedCases` says what `feed()` does with a frame: drop it, start a message, or join it
to the one slot of its sender; only the last can join two frames, and then the slot has
not expired, so its true idle time is within the timeout.

The last three theorems assume that no frame of another program parses as one of this
library's (`ForeignIsForeign`; the run's frame has the right header but announces 1025
bytes): one that did would be joined like any other. `MixInv` compares each slot with what
its sender has in work: the frame that the slot expects is still to be sent or was lost,
and when the sender has gone on to another message, so was that one's first frame
(`MixOK`). `IntactInv` adds the receiver's side: a message that came whole so far has a
slot that holds exactly its frames and has been idle since its last one (`GoodSlot`),
unless as many other senders as there are slots were heard at most as long ago (`Crowd`).
It is inductive because `allocSlot()` takes a slot that is in use only when all are, and
then the one that was idle longest: its sender is not the only one to have been heard that
recently, and as the slots have different senders, counting them gives the crowd
(`TakenIsCrowded`). For the types, `RestInv` adds that a slot not in use is
empty and which frames can be missing.

`PeerList_proofs` proves for every number of devices, of places in the list, in the
driver and in the queue of discovered peers:

| Theorem | States |
|---|---|
| `PeersAlwaysTyped` | `Spec => []TypeOK` |
| `DifferenceAlwaysOwed` | `Spec => []OwedDifference` |
| `ListAlwaysMatchesDriver` | `Spec => []ListMatchesDriver` |

All three assume `OneTask`: one application task besides the sender task, and no restart
while that task is in a call (`Restarts` is not `"anytime"`). Both are needed: two tasks
that add and remove the same peer are a hazard in `PROJECT.json`, a restart at any time
is the finding of `peer_restart_race`. `PeerInv` is the invariant. Its heart is `Owned`:
an address that the driver holds, or will be given, has exactly one holder, which is the
list, a task that is adding it, or a task that is clearing or restoring it; what nobody
holds the driver does not have. `Distinct` keeps lists free of repetitions, and
`RestartAlone` says that a restart has the list to itself. All of it is about the
addresses that are not `lost`: what the driver refuses to register again becomes lost in
that step, and is so no longer when it is registered once more while nobody, or only the
list, holds it.

`Client_proofs` proves of `ClientConfig`, for any pins, mappings, flags, devices, firmware builds and
any number of torn saves (`ConfigAssumption`):

| Theorem | States |
|---|---|
| `RestartNeverChanges` | `Spec => []RestartChangesNothing` |
| `NameIsAlwaysOfThisFirmware` | `Spec => []NameIsOfThisFirmware` |
| `StoredIsAlwaysLive` | `Spec => []StoredIsLive` |
| `ToldIsAlwaysTrue` | `Spec => []ToldIsTrue` |
| `OthersAlwaysSurvive` | `Spec => OthersSurvive` |
| `ConfigAlwaysTyped` | `Spec => []TypeOK` |

`ConfigInv` says what is in flash while a handler is between two writes: the records up
to `work.step` are the new ones (`Written`), all else is as in memory (`Synced`), the name
belongs to the firmware whose number is stored with it (`Named`), and stored peers are live
or were missed by `begin()` (`Paired`). `PinInv` is about saves that are cut short and
what the host is told: the reply to a change is what memory has of the pin by then
(`Replied`), unless an older save was cut short. The list in flash is then the new one as far as the save had come and the old one from there
on, under the old count. `Aligned` and `Shifted` are the two ways in which old and new
differ, after a record was replaced or appended and after one was removed in the middle;
in both, the first record of every pin that was not being saved is the right one
(`Others`). `Whole` says that, as long as no save was cut short, no pin has two records.
`PeersFit` completes the types: every step that adds a peer, to the storage or to the
live list, first finds room for it.

It also proves of `IoPins`, for any times, any range of the converter and of MIDI values,
any limits for spikes and endpoints, and any readings of a pad (`PinAssumption`):

| Theorem | States |
|---|---|
| `PinAlwaysTyped` | `PinSpec => []PinTypeOK` |
| `PressNeverRepeated` | `PinSpec => []BouncesAreOnePress` |
| `RestAlwaysSettles` | `PinSpec => SettlesOnce` |

The invariant `InputInv` has a part for each mode. A level that was not sent yet is the
newest one, and nothing was sent since it came (`SwitchInv`): so the time for which it has
been stable is a lower bound of the time since the last send. While a knob has no contact,
every dropped sample was taken for a spike, and a good sample near the average has cleared
the count (`AnalogInv`): so the count of spikes never exceeds the dropped samples and a
dropout shorter than `SpikeConfirm` never moves the average. That argument needs spikes to
be told from samples by `SpikeLimit`. For what is sent at rest it also uses that an
average near the reading stays where it is or moves onto the reading.

`Dongle_proofs` proves of `DonglePeers`, for any devices, any length of the lists, and any
number of refusals and resets:

| Theorem | States |
|---|---|
| `AlwaysTyped` | `Spec => []TypeOK` |
| `MutesAlwaysLive` | `Spec => []MutesAreLive` |
| `AckedAlwaysComesBack` | `Spec => []AckedComesBack` |
| `ReplaceAlwaysKeepsOne` | `Spec => ReplaceKeepsOne` |

`DongleInv` follows a call through its steps: mutes are of live peers unless all of them
are being cleared (`Muted`), what was acknowledged is stored, and live as soon as
`begin()` has come past it (`Kept`), and a replacement that takes a peer out leaves the
place that putting it back will need (`Undoable`).

It also proves of `MidiRoutes`, for any plain stations, any muted peers, any number of
messages and echoes, and every legal message (`RoutesAssumption`: what is sent is in the
ranges of MIDI, and no plain station has the name of another part of the system):

| Theorem | States |
|---|---|
| `BytesKeepMessage` | `fromMessage()` and `toMessage()` give a short message back, as a MIDI packet |
| `PacketsKeepCall` | `toUsbMidiPacket()` and `dispatchPacket()` give the arguments of a call back |
| `RoutesTypeCorrect` | `RoutesSpec => []RoutesTypeOK` |
| `MeaningIsKept` | `RoutesSpec => []SameMeaning` |
| `EveryMessageOnce` | `RoutesSpec => []EveryEndOnce` |

The first two are the arithmetic: halves of 14 bits (`Halves`), the status byte and its
channel (`StatusBytes`), and that the send calls of core, client, dongle and pins, clamped
or not, make the same `midi_message` of a legal call (`SameMessage`). `RoutesInv` is the
invariant. `Contents` says that whatever is in a queue, in the air or in a handler belongs
to a message that was sent, and is what the conversions up to there make of it; `Belongs`
ties the ends of `Addressed` to the stations a message goes to through the air. `Routed` is
the heart: on its way to each end (`ClientWay`, `DawWay`, `PlainWay`, `UsbWays`) a message is
never at two places, and at one if it belongs to that end. A step that sends nothing moves
one message one place on (`...Moves`) and leaves every other where it was (`Resting`); a
step that sends puts the new one at the beginning of its ways (`Starts`). When nothing is in
transit, the last place of a way is the only one left, and a log without repetitions has it
once (`OnePlace`), or at most once where its delivery is disputed. An echo is a new message, whose depth says whether loopback may run a
handler for it.

`DongleUsb_proofs` proves for every size of the inbox, of both queues and of TinyUSB's
buffer, any set of messages and any loads and times (`UsbAssumption`,
`QueueAssumption`):

| Theorem | States |
|---|---|
| `QueuesStayInBounds` | `Spec => []TypeOK` |
| `SysExNeverMixed` | `Spec => []OneSysExAtATime` |
| `OnlyStallsLeaveOpen` | `Spec => LeftOpenByStall` |
| `NotesNeverStick` | `Spec => NoStuckNotes` |
| `ValuesAlwaysArrive` | `Spec => ValuesArrive` |

The assumption on the times is what `UsbMidiPacket.h:152-154` has: ending a message takes
no more than its budget (10 and 20 ms), and both together are less than the back-off
(500 ms). `UsbInv` is the invariant: a host that is gone has nothing in the buffer and
has heard nothing (`Gone`); and while a message is written (`Writing`), its slot is still
taken, so that the Wi-Fi task does not write to it, unless it is a reply, and the host has
been quiet for as long as the writer has waited for room, since a packet that is read makes
room (`Deaf`). So had it been at the last try, on which the writer gives up although the
host may have read since, unless the bus was gone then and nothing is open (`Clear`). Only
the first packet and the end of a message count, because a message that is given up in
between is still ended.

The last two theorems are about the line of packets, TinyUSB's buffer and then the queue,
that `Waiting` is. `CompactStaleKeeps`, `EvictionKeeps` and `AgedKeeps` say which
entries the operations of the queue keep (`Keeping`): compaction every release and every
latest value, eviction every release. `LineSelects` carries this over to the line, and
`SoundsSelected` and `EndsAtSelected` say that a line from which such packets are missing
leaves no further note sounding and no controller elsewhere. Writing the head of the queue
does not change the line (`LineMove`), a packet of a SysEx or a clock is inserted in it and
matters to neither (`LineInsert`), and what the host reads moves from the line into the
host (`SoundsTail`, `EndsAtTail`).

`UsbRecovery_proofs` proves for all times, any queue and buffer, any number of attempts and
of faults, and every mode of the watchdog (`WatchdogAssumption`, `BackoffGrows`,
`RecoveryAssumption`, `QueueAssumption`):

| Theorem | States |
|---|---|
| `RecoveryTyped` | `Spec => []TypeOK` |
| `BackoffAlwaysRespected` | `Spec => BackoffRespected` |
| `PromptHostAlwaysLeftAlone` | `Spec => PromptHostIsLeftAlone` |
| `DeafHostAlwaysLeftAlone` | `Spec => DeafHostIsLeftAlone` |
| `WaitingAlwaysSurvives` | `Spec => WaitingSurvives` |

`ObservedIs` says what the six notes at the head of `tick()` make of the watchdog, and
`TickIs` what it then does: nothing, or a detach whose reasons it names (`Cuts`);
`ServiceSteps` are the four things `serviceUsbWatchdog()` can do with it. `RecoveryInv` is
the invariant. Its heart is that the watchdog is right about the host (`HostInv`): an
endpoint found empty with a write in flight was emptied by a host that reads. That needs
what `loop()` knows of the bus (`WireInv`): a host that comes back while `loop()` is at its
top finds nothing in flight from before, since a call of `loop()` has seen it gone and
`tick()` has forgotten the write; this is the place where a reset of the bus would
otherwise count as a delivery. `BackoffInv` then keeps the watchdog's count of attempts at
or above the detaches that delivered nothing, with the same time since the last one, and
`WindowInv` keeps the recovery going until that time has reached the end of the window.
`BackoffGrows`, that the waits never get shorter with the attempts, is arithmetic about
powers of two, which the provers do not know; TLC evaluates it.

### Model-checked only

- Liveness: `QueueMoves`, `DriverRecovers`, `FoundAgain`, `DiscoveredIsAdded`, `NotesEnd`,
  `AttachFollows`, `HostRecovers`, `RestIsSent`. It rests on fairness and so on ENABLED,
  about which TLAPS proves nothing.

## 5. Not modelled

Configuration codec, display pacing and message history, logging, Wi-Fi bring-up and
helpers: sequential conversions and hardware access without state that another part
relies on. The directory of announced names on the dongle, which only the display and
the menu read. `esp_now_midi.py`, a second implementation of the radio protocol for
CircuitPython: single-threaded, with the same packets and SysEx frames but no send queue and
one SysEx being put together instead of four. Examples, patches, benchmarks and host scripts use the
library and are no part of it.

Within the modelled parts: the send queue's compile-time alternatives (no queue, no
tasks), statistics, outputs of pins (LEDC), the heartbeat of the client, failures of the
flash itself (the code does not look at them), and dispatch in the Wi-Fi task
(`setDispatchInLoop(false)`).

## 6. Plan

1. `DisplayPacer` and the heartbeat, if their timing comes to matter to another part.
2. The bytes of configuration messages (`enomik_sysex_codec.h`), which `ClientConfig` takes
   as already decoded.
