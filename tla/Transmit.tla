------------------------------ MODULE Transmit ------------------------------
(***************************************************************************)
(* The way of a packet out of esp_now_midi: tasks that send put it into    *)
(* the queue, the sender task hands one packet at a time to the ESP-NOW    *)
(* driver, the driver confirms it in the Wi-Fi task.  The sender restarts  *)
(* a driver that stopped confirming, and peers that acknowledge nothing    *)
(* are skipped except for a probe now and then.                            *)
(*                                                                         *)
(* The peers are added and removed in one step here (PeerList has the      *)
(* steps), and the queue is the first-in first-out queue that SendQueue    *)
(* implements.  Time is counted in ticks; a time stamp is kept as its age, *)
(* which stops counting once it is older than anything it is compared to.  *)
(***************************************************************************)
EXTENDS Integers, Sequences, FiniteSets

CONSTANTS
    Mac,               \* the devices that may be peers
    Wifi,              \* the Wi-Fi task, which runs the ESP-NOW callbacks
    Callers,           \* tasks that send, the Wi-Fi task from its handlers among them
    Kinds,             \* of packets: "value", "note", "off", "frame"
    Exclusions,        \* sets of peers that exclude() may leave out of a send
    Events,            \* what may happen besides sends to all peers (see Call and World)
    LowLimit, NormalLimit, HighLimit,  \* SendQueue::limit()
    FrameSlots,        \* ESP_NOW_MIDI_QUEUE_FRAMES
    MaxInFlight,       \* ESP_NOW_MIDI_MAX_IN_FLIGHT
    UnreachableAfter,  \* ESP_NOW_MIDI_UNREACHABLE_AFTER
    ProbeInterval,     \* ESP_NOW_MIDI_PROBE_INTERVAL_MS
    StallTime,         \* ESP_NOW_MIDI_STALL_MS
    Backoff,           \* ESP_NOW_MIDI_RESTART_BACKOFF_MS
    HighWait,          \* ESP_NOW_MIDI_SEND_WAIT_MS
    FrameWait,         \* ESP_NOW_MIDI_FRAME_WAIT_MS
    FlushWait,         \* the timeout of flush()
    MaxConfirm,        \* age of _lastConfirmMs at which a working driver has confirmed
    MaxPreempt         \* longest the sender is held up between two steps, unless it waits

Numbers == { LowLimit, NormalLimit, HighLimit, FrameSlots, UnreachableAfter, ProbeInterval,
             StallTime, Backoff, HighWait, FrameWait, FlushWait,
             MaxConfirm, MaxPreempt }

ASSUME TransmitAssumption ==
    /\ Kinds \subseteq {"value", "note", "off", "frame"}
    /\ Exclusions \subseteq SUBSET Mac
    /\ Numbers \subseteq Nat
    /\ LowLimit <= NormalLimit /\ NormalLimit <= HighLimit
    /\ MaxInFlight \in Nat \ {0}

VARIABLES
    queue,       \* packets in _queue, oldest first
    peers,       \* of each device: its entry in _peers, if it is listed
    inFlight,    \* _inFlight
    refused,     \* _refusedSinceConfirm
    stamps,      \* ages of _lastConfirmMs and _lastRestartMs
    restarts,    \* restarts > 0, and _confirmedSinceRestart
    sender,      \* the sender task: where it is, its packet, how long it is there
    notified,    \* the notification the sender waits for
    task,        \* of each sending task: where it is in its call
    unconfirmed, \* sends the driver accepted and has not confirmed
    stuck,       \* what it takes to make the driver confirm again, or "down"
    present      \* devices that acknowledge what they are sent

queueVars == <<queue, notified>>
statVars == <<inFlight, refused, stamps, restarts>>
driverVars == <<unconfirmed, stuck>>
vars == <<queueVars, peers, statVars, sender, task, driverVars, present>>

Tasks == Callers \cup {Wifi}

LongerOf(a, b) == IF a > b THEN a ELSE b

AgeCap == LongerOf(StallTime, Backoff) + MaxPreempt

WaitCap == LongerOf(FlushWait, LongerOf(HighWait, FrameWait))

Older(age, cap) == IF age < cap THEN age + 1 ELSE age

NoPacket == [mac |-> "none"]

Packet == [mac : Mac, kind : Kinds, probe : BOOLEAN]

Fresh == [listed |-> TRUE, missed |-> 0, unreachable |-> FALSE, probeIn |-> 0]

Unlisted == [Fresh EXCEPT !.listed = FALSE]

SenderPCs == { "stallTime", "stallCheck", "restart", "restarted", "pop", "lookup", "count",
               "send", "undo", "undoNoMem", "wait" }

TaskPCs == {"idle", "push", "delay", "flushQueue", "flushInFlight", "flushPause"}

AtRest == [pc |-> "idle", kind |-> "none", reach |-> {}, due |-> {}, waited |-> 0]

Init ==
    /\ queue = <<>>
    /\ notified = FALSE
    /\ peers \in [Mac -> {Fresh, Unlisted}]
    /\ inFlight = 0
    /\ refused = FALSE
    /\ stamps = [confirm |-> AgeCap, restart |-> AgeCap]
    /\ restarts = [some |-> FALSE, confirmed |-> FALSE]
    /\ sender = [pc |-> "stallTime", packet |-> NoPacket, held |-> 0]
    /\ task = [t \in Tasks |-> AtRest]
    /\ unconfirmed = <<>>
    /\ stuck = "no"
    /\ present = Mac
-----------------------------------------------------------------------------
(* push() of the queue, for packets of which only the kind matters.        *)

Waiting(kinds) == Cardinality({i \in DOMAIN queue : queue[i].kind \in kinds})

ShortsWaiting == Waiting(Kinds \ {"frame"})

Admits(kind) ==
    CASE kind = "value" -> ShortsWaiting < LowLimit
      [] kind = "note" -> ShortsWaiting < NormalLimit
      [] kind = "off" -> ShortsWaiting < HighLimit
      [] OTHER -> Waiting({"frame"}) < FrameSlots

(* A waiting value of the controller takes the new one. *)
Replaced(packet) ==
    packet.kind = "value" /\ \E i \in DOMAIN queue : queue[i] = packet

Push(packet) ==
    \/ Replaced(packet) /\ UNCHANGED queue
    \/ /\ ~Replaced(packet)
       /\ Admits(packet.kind)
       /\ queue' = Append(queue, packet)

Full(packet) == ~Replaced(packet) /\ ~Admits(packet.kind)
-----------------------------------------------------------------------------
(* A task sends.                                                           *)

(* Only tasks other than the Wi-Fi task may wait for a slot. *)
WaitFor(t, kind) ==
    IF t = Wifi THEN 0
    ELSE CASE kind = "frame" -> FrameWait
           [] kind = "off" -> HighWait
           [] OTHER -> 0

Reachable == {m \in Mac : peers[m].listed /\ ~peers[m].unreachable}

ProbesDue == {m \in Mac : peers[m].listed /\ peers[m].unreachable /\ peers[m].probeIn = 0}

Sending(kind, reach, due) ==
    [pc |-> "push", kind |-> kind, reach |-> reach, due |-> due, waited |-> 0]

(* sendToPeersExcept(): copySendTargets() moves the probes on, also those  *)
(* of the peers that are then left out.                                    *)
CallSendToAll(t, kind, excluded) ==
    /\ task[t].pc = "idle"
    /\ \E m \in Mac : peers[m].listed
    /\ task' = [task EXCEPT ![t] = Sending(kind, Reachable \ excluded, ProbesDue \ excluded)]
    /\ peers' = [m \in Mac |-> IF m \in ProbesDue THEN [peers[m] EXCEPT !.probeIn = ProbeInterval]
                                                  ELSE peers[m]]
    /\ UNCHANGED <<queueVars, statVars, sender, driverVars, present>>

(* send(): to one peer, whether it is reachable or not, and not a probe. *)
CallSend(t, kind, m) ==
    /\ task[t].pc = "idle"
    /\ peers[m].listed
    /\ task' = [task EXCEPT ![t] = Sending(kind, {m}, {})]
    /\ UNCHANGED <<queueVars, peers, statVars, sender, driverVars, present>>

(* The reachable peers come first. *)
Targets(t) == IF task[t].reach # {} THEN task[t].reach ELSE task[t].due

Done(t, m) ==
    task' = [task EXCEPT ![t].pc = "push", ![t].waited = 0,
                         ![t].reach = @ \ {m},
                         ![t].due = IF task[t].reach = {} THEN @ \ {m} ELSE @]

(* deliver() *)
Deliver(t, m) ==
    /\ task[t].pc = "push"
    /\ m \in Targets(t)
    /\ LET packet == [mac |-> m, kind |-> task[t].kind, probe |-> task[t].reach = {}]
       IN  \/ /\ Push(packet)
              /\ Done(t, m)
              /\ UNCHANGED notified
           \/ /\ Full(packet)
              /\ UNCHANGED queue
              /\ IF task[t].waited >= WaitFor(t, packet.kind)
                 THEN Done(t, m) /\ UNCHANGED notified
                 ELSE task' = [task EXCEPT ![t].pc = "delay"] /\ notified' = TRUE
    /\ UNCHANGED <<peers, statVars, sender, driverVars, present>>

(* kickSender(), and the call returns. *)
Kick(t) ==
    /\ task[t].pc = "push"
    /\ Targets(t) = {}
    /\ notified' = TRUE
    /\ task' = [task EXCEPT ![t] = AtRest]
    /\ UNCHANGED <<queue, peers, statVars, sender, driverVars, present>>

(* flush() looks at the queue, then at the packets in flight, and pauses   *)
(* for a moment when there is something left.                              *)
CallFlush(t) ==
    /\ task[t].pc = "idle"
    /\ t # Wifi
    /\ task' = [task EXCEPT ![t].pc = "flushQueue"]
    /\ UNCHANGED <<queueVars, peers, statVars, sender, driverVars, present>>

FlushPause(t) ==
    task' = [task EXCEPT ![t] = IF @.waited >= FlushWait THEN AtRest ELSE [@ EXCEPT !.pc = "flushPause"]]

FlushQueue(t) ==
    /\ task[t].pc = "flushQueue"
    /\ notified' = TRUE
    /\ IF queue = <<>> THEN task' = [task EXCEPT ![t].pc = "flushInFlight"] ELSE FlushPause(t)
    /\ UNCHANGED <<queue, peers, statVars, sender, driverVars, present>>

Flushed(t) == task[t].pc = "flushInFlight" /\ inFlight = 0

FlushInFlight(t) ==
    /\ task[t].pc = "flushInFlight"
    /\ IF Flushed(t) THEN task' = [task EXCEPT ![t] = AtRest] ELSE FlushPause(t)
    /\ UNCHANGED <<queueVars, peers, statVars, sender, driverVars, present>>
-----------------------------------------------------------------------------
(* The sender task: checkStall(), then sendQueued().                       *)

At(pc) == sender.pc = pc

Goto(pc) == sender' = [sender EXCEPT !.pc = pc, !.held = 0]

StallTimeRead ==
    /\ At("stallTime")
    /\ Goto("stallCheck")
    /\ UNCHANGED <<queueVars, peers, statVars, task, driverVars, present>>

(* now - stamp, in 32 bits, where `now' was read when the sender came here:*)
(* a stamp that is younger than that seems to be far in the past.          *)
Elapsed(age) == IF age >= sender.held THEN age - sender.held ELSE AgeCap + 1

StalledWhenIdle ==     \* seeded fault: nothing needs to be waited for
    /\ Elapsed(stamps.confirm) >= StallTime
    /\ restarts.some => Elapsed(stamps.restart) >= Backoff

Stalled ==
    /\ inFlight > 0 \/ refused
    /\ Elapsed(stamps.confirm) >= StallTime
    /\ restarts.some => Elapsed(stamps.restart) >= Backoff

StallCheck ==
    /\ At("stallCheck")
    /\ Goto(IF Stalled THEN "restart" ELSE "pop")
    /\ UNCHANGED <<queueVars, peers, statVars, task, driverVars, present>>

WithWifiNever == FALSE     \* seeded fault

(* restartEspNow(): without Wi-Fi the first time, with it when the last    *)
(* restart did not help.  The driver forgets the packets it was sending.   *)
(* That esp_now_init() may fail is only logged.                            *)
WithWifi == restarts.some /\ ~restarts.confirmed

RestartDriver ==
    /\ At("restart")
    /\ unconfirmed' = <<>>
    /\ \/ stuck' = IF WithWifi \/ stuck # "wifi" THEN "no" ELSE stuck
       \/ "initFails" \in Events /\ stuck' = "down"
    /\ Goto("restarted")
    /\ UNCHANGED <<queueVars, peers, statVars, task, present>>

RestartResetTimesOnly ==     \* seeded fault: what was in flight still counts
    /\ At("restarted")
    /\ refused' = FALSE
    /\ stamps' = [confirm |-> 0, restart |-> 0]
    /\ restarts' = [some |-> TRUE, confirmed |-> FALSE]
    /\ Goto("pop")
    /\ UNCHANGED <<queueVars, peers, inFlight, task, driverVars, present>>

RestartReset ==
    /\ At("restarted")
    /\ inFlight' = 0
    /\ refused' = FALSE
    /\ stamps' = [confirm |-> 0, restart |-> 0]
    /\ restarts' = [some |-> TRUE, confirmed |-> FALSE]
    /\ Goto("pop")
    /\ UNCHANGED <<queueVars, peers, task, driverVars, present>>

Pop ==
    /\ At("pop")
    /\ inFlight < MaxInFlight
    /\ queue # <<>>
    /\ queue' = Tail(queue)
    /\ sender' = [pc |-> "lookup", packet |-> Head(queue), held |-> 0]
    /\ UNCHANGED <<notified, peers, statVars, task, driverVars, present>>

NothingToSend ==
    /\ At("pop")
    /\ inFlight >= MaxInFlight \/ queue = <<>>
    /\ Goto("wait")
    /\ UNCHANGED <<queueVars, peers, statVars, task, driverVars, present>>

Again == [pc |-> "stallTime", packet |-> NoPacket, held |-> 0]

SkipsProbes(packet) ==     \* seeded fault: probes are skipped as well
    ~peers[packet.mac].listed \/ peers[packet.mac].unreachable

SkipsRemoved(packet) ==     \* seeded fault: what is queued for an unreachable peer is sent
    ~peers[packet.mac].listed

(* A packet for a peer that was removed or became unreachable is left out. *)
Skips(packet) ==
    ~peers[packet.mac].listed \/ (peers[packet.mac].unreachable /\ ~packet.probe)

Lookup ==
    /\ At("lookup")
    /\ IF Skips(sender.packet) THEN sender' = Again ELSE Goto("count")
    /\ UNCHANGED <<queueVars, peers, statVars, task, driverVars, present>>

(* sendOne() counts the packet before the driver has it: the confirmation  *)
(* can arrive first.                                                       *)
Count ==
    /\ At("count")
    /\ IF inFlight >= MaxInFlight
       THEN sender' = Again /\ UNCHANGED statVars
       ELSE /\ stamps' = IF inFlight = 0 /\ ~refused THEN [stamps EXCEPT !.confirm = 0] ELSE stamps
            /\ inFlight' = inFlight + 1
            /\ Goto("send")
            /\ UNCHANGED <<refused, restarts>>
    /\ UNCHANGED <<queueVars, peers, task, driverVars, present>>

(* esp_now_send(): the driver refuses addresses it does not know and, when *)
(* it is stuck or not initialised, any packet.                             *)
DriverTakes ==
    /\ At("send")
    /\ stuck # "down"
    /\ peers[sender.packet.mac].listed
    /\ unconfirmed' = Append(unconfirmed, sender.packet.mac)
    /\ sender' = Again
    /\ UNCHANGED <<queueVars, peers, statVars, stuck, task, present>>

DriverRefuses ==
    /\ At("send")
    /\ \/ (stuck = "down" \/ ~peers[sender.packet.mac].listed) /\ Goto("undo")
       \/ stuck \in {"espnow", "wifi"} /\ Goto("undoNoMem")
    /\ UNCHANGED <<queueVars, peers, statVars, task, driverVars, present>>

UndoKeepsCount ==     \* seeded fault: a refused packet still counts
    /\ At("undo") \/ At("undoNoMem")
    /\ refused' = (refused \/ At("undoNoMem"))
    /\ sender' = Again
    /\ UNCHANGED <<queueVars, peers, inFlight, stamps, restarts, task, driverVars, present>>

Undo ==
    /\ At("undo") \/ At("undoNoMem")
    /\ inFlight' = IF inFlight > 0 THEN inFlight - 1 ELSE 0
    /\ refused' = (refused \/ At("undoNoMem"))
    /\ sender' = Again
    /\ UNCHANGED <<queueVars, peers, stamps, restarts, task, driverVars, present>>

(* ulTaskNotifyTake(): woken by a send or a confirmation, or after 20 ms. *)
Woken ==
    /\ At("wait")
    /\ notified
    /\ notified' = FALSE
    /\ sender' = Again
    /\ UNCHANGED <<queue, peers, statVars, task, driverVars, present>>

WaitTimeout ==
    /\ At("wait")
    /\ ~notified
    /\ sender' = Again
    /\ UNCHANGED <<queueVars, peers, statVars, task, driverVars, present>>
-----------------------------------------------------------------------------
(* The Wi-Fi task.                                                         *)

(* noteDelivery() *)
Noted(peer, delivered) ==
    IF ~peer.listed THEN peer
    ELSE IF delivered THEN [peer EXCEPT !.missed = 0, !.unreachable = FALSE]
    ELSE LET missed == Older(peer.missed, UnreachableAfter)
         IN  IF ~peer.unreachable /\ missed >= UnreachableAfter /\ UnreachableAfter > 0
             THEN [peer EXCEPT !.missed = missed, !.unreachable = TRUE, !.probeIn = ProbeInterval]
             ELSE [peer EXCEPT !.missed = missed]

ConfirmQuietly ==     \* seeded fault: the sender is not woken
    /\ task[Wifi].pc = "idle"
    /\ stuck = "no"
    /\ unconfirmed # <<>>
    /\ LET m == Head(unconfirmed)
       IN  peers' = [peers EXCEPT ![m] = Noted(@, m \in present)]
    /\ unconfirmed' = Tail(unconfirmed)
    /\ inFlight' = IF inFlight > 0 THEN inFlight - 1 ELSE 0
    /\ stamps' = [stamps EXCEPT !.confirm = 0]
    /\ refused' = FALSE
    /\ restarts' = [restarts EXCEPT !.confirmed = TRUE]
    /\ UNCHANGED <<queueVars, sender, task, stuck, present>>

(* SendCallbackAdapter() *)
Confirm ==
    /\ task[Wifi].pc = "idle"
    /\ stuck = "no"
    /\ unconfirmed # <<>>
    /\ LET m == Head(unconfirmed)
       IN  peers' = [peers EXCEPT ![m] = Noted(@, m \in present)]
    /\ unconfirmed' = Tail(unconfirmed)
    /\ inFlight' = IF inFlight > 0 THEN inFlight - 1 ELSE 0
    /\ stamps' = [stamps EXCEPT !.confirm = 0]
    /\ refused' = FALSE
    /\ restarts' = [restarts EXCEPT !.confirmed = TRUE]
    /\ notified' = TRUE
    /\ UNCHANGED <<queue, sender, task, stuck, present>>

(* OnDataRecv(): markSeen(); a handler may then send, as Call(Wifi). *)
Receive(m) ==
    /\ task[Wifi].pc = "idle"
    /\ m \in present
    /\ peers[m].listed
    /\ peers' = [peers EXCEPT ![m].missed = 0, ![m].unreachable = FALSE]
    /\ UNCHANGED <<queueVars, statVars, sender, task, driverVars, present>>
-----------------------------------------------------------------------------
(* The rest of the world.                                                  *)

AddPeer(m) ==
    /\ ~peers[m].listed
    /\ peers' = [peers EXCEPT ![m] = Fresh]
    /\ UNCHANGED <<queueVars, statVars, sender, task, driverVars, present>>

RemovePeer(m) ==
    /\ peers[m].listed
    /\ peers' = [peers EXCEPT ![m] = Unlisted]
    /\ UNCHANGED <<queueVars, statVars, sender, task, driverVars, present>>

(* A device comes or goes. *)
Roam(m) ==
    /\ present' = IF m \in present THEN present \ {m} ELSE present \cup {m}
    /\ UNCHANGED <<queueVars, peers, statVars, sender, task, driverVars>>

(* The driver stops confirming, for good or until Wi-Fi is restarted. *)
Jam ==
    /\ stuck = "no"
    /\ stuck' \in {"espnow", "wifi"}
    /\ UNCHANGED <<queueVars, peers, statVars, sender, task, unconfirmed, present>>

(* vTaskDelay(1) ends. *)
AfterPause(pc) == CASE pc = "delay" -> "push" [] pc = "flushPause" -> "flushQueue" [] OTHER -> pc

Tick ==
    /\ ~At("wait") => sender.held < MaxPreempt
    /\ stuck = "no" /\ unconfirmed # <<>> => stamps.confirm < MaxConfirm
    /\ sender' = IF At("wait") THEN sender ELSE [sender EXCEPT !.held = @ + 1]
    /\ stamps' = [confirm |-> Older(stamps.confirm, AgeCap), restart |-> Older(stamps.restart, AgeCap)]
    /\ peers' = [m \in Mac |-> [peers[m] EXCEPT !.probeIn = IF @ > 0 THEN @ - 1 ELSE 0]]
    /\ task' = [t \in Tasks |->
                  IF task[t].pc = "idle" THEN task[t]
                  ELSE [task[t] EXCEPT !.pc = AfterPause(@), !.waited = Older(@, WaitCap)]]
    /\ UNCHANGED <<queueVars, inFlight, refused, restarts, driverVars, present>>
-----------------------------------------------------------------------------
Call(t) ==
    \/ \E kind \in Kinds, excluded \in Exclusions : CallSendToAll(t, kind, excluded)
    \/ "single" \in Events /\ \E kind \in Kinds, m \in Mac : CallSend(t, kind, m)
    \/ "flush" \in Events /\ CallFlush(t)

SendStep(t) == (\E m \in Mac : Deliver(t, m)) \/ Kick(t)

FlushStep(t) == FlushQueue(t) \/ FlushInFlight(t)

SenderStep ==
    \/ StallTimeRead \/ StallCheck \/ RestartDriver \/ RestartReset
    \/ Pop \/ NothingToSend \/ Lookup \/ Count \/ DriverTakes \/ DriverRefuses \/ Undo
    \/ Woken \/ WaitTimeout

World ==
    \/ "jam" \in Events /\ Jam
    \/ "roam" \in Events /\ \E m \in Mac : Roam(m)
    \/ "peers" \in Events /\ \E m \in Mac : AddPeer(m) \/ RemovePeer(m)
    \/ "receive" \in Events /\ \E m \in Mac : Receive(m)

Next ==
    \/ \E t \in Callers : Call(t) \/ SendStep(t) \/ FlushStep(t)
    \/ SenderStep
    \/ Confirm
    \/ World
    \/ Tick

(* The tasks of the program are scheduled, time passes and a driver that   *)
(* is not stuck confirms.                                                  *)
Fairness ==
    /\ WF_vars(SenderStep)
    /\ WF_vars(Confirm)
    /\ WF_vars(Tick)
    /\ \A t \in Callers : WF_vars(SendStep(t)) /\ WF_vars(FlushStep(t))

Spec == Init /\ [][Next]_vars /\ Fairness

(* The same with applications that send again and again. *)
BusySpec ==
    /\ Spec
    /\ \A t \in Callers \ {Wifi} : WF_vars(\E kind \in Kinds : CallSendToAll(t, kind, {}))
-----------------------------------------------------------------------------
TypeOK ==
    /\ queue \in Seq(Packet) /\ ShortsWaiting <= HighLimit /\ Waiting({"frame"}) <= FrameSlots
    /\ notified \in BOOLEAN
    /\ peers \in [Mac -> [listed : BOOLEAN, missed : 0..UnreachableAfter,
                          unreachable : BOOLEAN, probeIn : 0..ProbeInterval]]
    /\ inFlight \in 0..MaxInFlight
    /\ refused \in BOOLEAN
    /\ stamps \in [confirm : 0..AgeCap, restart : 0..AgeCap]
    /\ restarts \in [some : BOOLEAN, confirmed : BOOLEAN]
    /\ sender \in [pc : SenderPCs, packet : Packet \cup {NoPacket}, held : 0..MaxPreempt]
    /\ task \in [Tasks -> [pc : TaskPCs, kind : Kinds \cup {"none"}, reach : SUBSET Mac,
                           due : SUBSET Mac, waited : 0..WaitCap]]
    /\ unconfirmed \in Seq(Mac)
    /\ stuck \in {"no", "espnow", "wifi", "down"}
    /\ present \subseteq Mac

(* _inFlight counts exactly the packets that the driver has accepted and   *)
(* not confirmed, and the one the sender is handing over, through refusals,*)
(* confirmations that arrive early and restarts (but for the moment in     *)
(* which a restarted driver has forgotten its packets and the count has    *)
(* not): a slot that leaks with a limit of one stops sending for good.     *)
HandingOver == IF sender.pc \in {"send", "undo", "undoNoMem"} THEN 1 ELSE 0

InFlightCounts ==
    ~At("restarted") => inFlight = Len(unconfirmed) + HandingOver

(* The sender never sleeps for the 20 ms of its timeout while a packet     *)
(* could be sent: a notification is pending, or a task that queued packets *)
(* has yet to give it (kickSender(), wakeSender()).                        *)
NoLostWakeup ==
    At("wait") /\ queue # <<>> /\ inFlight < MaxInFlight =>
        notified \/ \E t \in Tasks : task[t].pc \in {"push", "delay"}

(* ESP-NOW is only restarted when no send was confirmed for StallTime,     *)
(* although the time was read before the lock was taken (checkStall()).    *)
RestartJustified ==
    [][At("stallCheck") /\ sender'.pc = "restart" => stamps.confirm >= StallTime]_vars

(* What the driver takes for a peer that is unreachable by then is a probe,*)
(* although the packet was queued for a reachable peer and looked up before*)
(* it was counted: with one packet in flight nothing is noted in between.  *)
OnlyProbesToUnreachable ==
    [][Len(unconfirmed') > Len(unconfirmed) /\ peers[sender.packet.mac].unreachable
          => sender.packet.probe]_vars

(* A packet does not wait forever: whatever the driver forgets, refuses or *)
(* never confirms, the sender takes another one.                           *)
QueueMoves == queue # <<>> ~> At("lookup")

(* A stuck driver is restarted, with Wi-Fi if that is what it takes, while *)
(* there is a peer and the application goes on sending to it.              *)
DriverRecovers ==
    <>[](\E m \in Mac : peers[m].listed) => (stuck # "no" ~> stuck = "no")

(* A peer that is back is found again by a probe, while the application    *)
(* goes on sending and the driver works.                                   *)
FoundAgain ==
    \A m \in Mac : <>[](m \in present /\ peers[m].listed /\ stuck = "no")
                      => <>[]~peers[m].unreachable
=============================================================================
