----------------------------- MODULE UsbRecovery -----------------------------
(***************************************************************************)
(* Dongle::loop() with its USB watchdog and a host that suspends the bus,  *)
(* stops reading, or is unplugged: when the dongle detaches and attaches   *)
(* USB, and what happens meanwhile to the messages that wait for the host. *)
(*                                                                         *)
(* One call of loop() takes less than a tick of the clock.  SysEx for the  *)
(* host, and the replies to its configuration, are packets that go past    *)
(* the queue and that the watchdog is not told of.                         *)
(***************************************************************************)
EXTENDS UsbStallWatchdog, UsbMidiQueue

CONSTANTS
  ForcedAttachMs,   \* serviceUsbWatchdog() attaches after this long in any case
  Room,             \* packets that TinyUSB's buffer holds
  MaxFaults         \* bound: suspensions, unplugged cables, reading that stops,
                    \* MIDI from the host, and packets of SysEx for it

ASSUME RecoveryAssumption ==
  /\ ForcedAttachMs \in Nat /\ ForcedAttachMs > DetachMs /\ Room \in Nat \ {0}
  /\ DetachMs + RecoveryWindowMs <= BackoffMaxMs

VARIABLES
  wd,               \* the watchdog
  loop,             \* where loop() is: "top", "drain" or "service"
  initialized,      \* _usbMidiInitialized
  deferred,         \* _usbClearDeferred
  paused,           \* _usbAgingPaused
  detached,         \* time since the watchdog detached, or None
  wrote,            \* _usbWrote
  queue,            \* UsbMidiQueue
  attached, mounted, suspended,   \* the device on the bus
  unread,           \* packets in TinyUSB's buffer
  kind,             \* "prompt", "faulty" or "deaf"
  reading,          \* an application reads on the host
  waking,           \* the host was asked to wake up and will
  plugged,
  undelivered,      \* detaches since the host last read, counted like attempts
  lastDetach,       \* time since the last of them
  sysexWrote,       \* SysEx was written since the clock last ticked
  faults

dongleVars == <<wd, loop, initialized, deferred, paused, detached, wrote, queue>>
hostVars == <<attached, mounted, suspended, unread, kind, reading, waking, plugged>>
ghostVars == <<undelivered, lastDetach, sysexWrote>>
vars == <<dongleVars, hostVars, ghostVars, faults>>

\* A message that is dropped once it is stale.
Event == Message("NoteOn", 60, 100)

Init ==
  /\ wd = NewWatchdog /\ loop = "top" /\ initialized = FALSE /\ deferred = FALSE
  /\ paused = FALSE /\ detached = None /\ wrote = FALSE /\ queue = <<>>
  /\ attached = TRUE /\ mounted = FALSE /\ suspended = FALSE /\ unread = 0
  /\ kind \in {"prompt", "faulty", "deaf"} /\ reading = (kind # "deaf")
  /\ waking = FALSE /\ plugged = TRUE
  /\ undelivered = 0 /\ lastDetach = BackoffMaxMs /\ sysexWrote = FALSE
  /\ faults = 0

\* What is bounded.
Fault == faults < MaxFaults /\ faults' = faults + 1

-----------------------------------------------------------------------------
\* Dongle::loop()

\* A message from ESP-NOW (processReceived() and bridgeToHost()).
Arrive ==
  /\ loop = "top" /\ Len(queue) < Capacity
  /\ queue' = Enqueue(queue, Event)
  /\ UNCHANGED <<wd, loop, initialized, deferred, paused, detached, wrote, hostVars,
                 ghostVars, faults>>

\* Seeded fault: a disconnect clears the queue, whoever is the cause.
TopClears ==
  /\ loop = "top"
  /\ initialized' = mounted
  /\ queue' = IF initialized /\ ~mounted THEN <<>> ELSE queue
  /\ loop' = IF mounted THEN "drain" ELSE "service"
  /\ UNCHANGED <<deferred, wd, paused, detached, wrote, hostVars, ghostVars, faults>>

Top ==
  /\ loop = "top"
  /\ initialized' = mounted
  /\ IF initialized /\ ~mounted
     THEN IF IsRecovering(wd)
          THEN deferred' = TRUE /\ UNCHANGED queue
          ELSE queue' = <<>> /\ UNCHANGED deferred
     ELSE UNCHANGED <<deferred, queue>>
  /\ loop' = IF mounted THEN "drain" ELSE "service"
  /\ UNCHANGED <<wd, paused, detached, wrote, hostVars, ghostVars, faults>>

\* dropStaleUsbMidi(): nothing ages while the watchdog re-attaches USB, and what
\* waited then gets a new stale window.
Fresh ==
  IF IsRecovering(wd) THEN queue
  ELSE IF paused THEN DropStale(RefreshTimestamps(queue))
  ELSE DropStale(queue)

Written(q) == IF Len(q) <= Room - unread THEN Len(q) ELSE Room - unread

\* drainUsbMidiQueue(); loop() only calls it after the host was mounted at its top.
Drain ==
  /\ loop = "drain"
  /\ loop' = "service"
  /\ IF ~mounted THEN UNCHANGED <<paused, queue, unread, wrote>>
     ELSE LET n == IF suspended THEN 0 ELSE Written(Fresh)
          IN  /\ paused' = IsRecovering(wd)
              /\ queue' = SubSeq(Fresh, n + 1, Len(Fresh))
              /\ unread' = unread + n
              /\ wrote' = (wrote \/ n > 0)
  /\ UNCHANGED <<wd, initialized, deferred, detached, attached, mounted, suspended, kind,
                 reading, waking, plugged, ghostVars, faults>>

\* A packet of drainUsbSysExQueue(), or of a reply to a request that
\* DONGLE_USBMIDI.read() has just read: writeUsbSysEx() waits for room and does not
\* set _usbWrote.
WriteSysEx ==
  /\ loop \in {"drain", "service"} /\ initialized /\ mounted /\ ~suspended
  /\ unread < Room /\ Fault
  /\ unread' = unread + 1
  /\ sysexWrote' = TRUE
  /\ UNCHANGED <<dongleVars, attached, mounted, suspended, kind, reading, waking, plugged,
                 undelivered, lastDetach>>

Sampled ==
  [ mounted |-> mounted, suspended |-> suspended, pending |-> queue # <<>>,
    txBlocked |-> unread > 0, wrote |-> wrote, known |-> TRUE ]

Forced == Is(detached, ForcedAttachMs)

\* The clear that a disconnect during the recovery put off.
ClearDeferred(w) ==
  /\ deferred' = (deferred /\ IsRecovering(w))
  /\ queue' = IF deferred /\ ~IsRecovering(w) /\ ~mounted THEN <<>> ELSE queue

\* tud_remote_wakeup(): the host accepts, refuses, or has just resumed the bus by
\* itself; only a refusal while the bus is still suspended counts.
Wakeup(w) ==
  \E accepted, resumed \in BOOLEAN :
    /\ wd' = NoteWakeupResult(w, accepted \/ resumed)
    /\ waking' = (~resumed /\ (waking \/ accepted))
    /\ suspended' = ~resumed

Acted(t) ==
  IF t.action = "RemoteWakeup"
  THEN Wakeup(t.wd) /\ UNCHANGED <<attached, detached>>
  ELSE /\ wd' = t.wd
       /\ UNCHANGED <<waking, suspended>>
       /\ attached' = IF t.action = "Detach" THEN FALSE
                      ELSE t.action = "Attach" \/ Forced \/ attached
       /\ detached' = IF t.action = "Detach" THEN 0
                      ELSE IF t.action = "Attach" \/ Forced THEN None ELSE detached

CountAttempts(t) ==
  IF t.action = "Detach"
  THEN undelivered' = Min({undelivered + 1, MaxAttempts}) /\ lastDetach' = 0
  ELSE UNCHANGED <<undelivered, lastDetach>>

\* serviceUsbWatchdog()
Service ==
  /\ loop = "service"
  /\ loop' = "top"
  /\ wrote' = FALSE
  /\ LET t == WatchdogTick(wd, Sampled)
     IN  Acted(t) /\ ClearDeferred(t.wd) /\ CountAttempts(t)
  /\ UNCHANGED <<initialized, paused, mounted, unread, kind, reading, plugged,
                 sysexWrote, faults>>

-----------------------------------------------------------------------------
\* The host.

OnBus == attached /\ plugged

\* The bus goes: what TinyUSB holds is lost with it.
Gone ==
  /\ mounted /\ ~OnBus
  /\ mounted' = FALSE /\ suspended' = FALSE /\ unread' = 0 /\ waking' = FALSE
  /\ UNCHANGED <<dongleVars, attached, kind, reading, plugged, ghostVars, faults>>

\* A host takes longer to come back than a call of loop(), which therefore sees
\* that it was gone.
LoopSawItGo == loop = "top" /\ ~initialized /\ ~wd.hostRead

\* A faulty host reads again after it has come back.
Mount ==
  /\ ~mounted /\ OnBus /\ LoopSawItGo
  /\ mounted' = TRUE
  /\ reading' = (kind # "deaf")
  /\ UNCHANGED <<dongleVars, attached, suspended, unread, kind, waking, plugged, ghostVars,
                 faults>>

Read ==
  /\ mounted /\ OnBus /\ ~suspended /\ reading /\ unread > 0
  /\ unread' = unread - 1
  /\ undelivered' = 0
  /\ UNCHANGED <<dongleVars, attached, mounted, suspended, kind, reading, waking, plugged,
                 lastDetach, sysexWrote, faults>>

StopReading ==
  /\ kind = "faulty" /\ reading /\ Fault
  /\ reading' = FALSE
  /\ UNCHANGED <<dongleVars, attached, mounted, suspended, unread, kind, waking, plugged,
                 ghostVars>>

\* MIDI from the host, read in loop() (bridgeFromHost()).
SendToDongle ==
  /\ loop = "drain" /\ mounted /\ ~suspended /\ Fault
  /\ wd' = NoteHostRx(wd)
  /\ UNCHANGED <<loop, initialized, deferred, paused, detached, wrote, queue, hostVars,
                 ghostVars>>

Suspend ==
  /\ mounted /\ ~suspended /\ Fault
  /\ suspended' = TRUE
  /\ UNCHANGED <<dongleVars, attached, mounted, unread, kind, reading, waking, plugged,
                 ghostVars>>

\* It takes 20 ms to resume, so that loop() has seen the suspension.
Resume ==
  /\ suspended /\ wd.suspended
  /\ suspended' = FALSE /\ waking' = FALSE
  /\ UNCHANGED <<dongleVars, attached, mounted, unread, kind, reading, plugged, ghostVars,
                 faults>>

Unplug ==
  /\ plugged /\ Fault
  /\ plugged' = FALSE
  /\ UNCHANGED <<dongleVars, attached, mounted, suspended, unread, kind, reading, waking,
                 ghostVars>>

Plug ==
  /\ ~plugged
  /\ plugged' = TRUE
  /\ UNCHANGED <<dongleVars, attached, mounted, suspended, unread, kind, reading, waking,
                 ghostVars, faults>>

\* A prompt host reads within a tick, whenever the bus is awake, and the device
\* notices within a tick that it is off the bus.
Overdue ==
  \/ kind = "prompt" /\ mounted /\ ~suspended /\ unread > 0
  \/ mounted /\ ~OnBus

Tick ==
  /\ loop = "top" /\ ~Overdue
  /\ wd' = AgedWatchdog(wd)
  /\ queue' = Aged(queue)
  /\ detached' = IF Forced THEN detached ELSE IF detached = None THEN None ELSE detached + 1
  /\ lastDetach' = OneMore(lastDetach, BackoffMaxMs)
  /\ sysexWrote' = FALSE
  /\ UNCHANGED <<loop, initialized, deferred, paused, wrote, hostVars, undelivered, faults>>

LoopStep == Top \/ Drain \/ Service

Next ==
  \/ Arrive \/ LoopStep \/ WriteSysEx
  \/ Gone \/ Mount \/ Read \/ StopReading \/ SendToDongle
  \/ Suspend \/ Resume \/ Unplug \/ Plug
  \/ Tick

\* loop() is called again and again, time passes, the bus goes when it is cut and
\* the host comes back when it can, reads, and resumes when it said so.
Fairness ==
  /\ WF_vars(LoopStep) /\ SF_vars(Tick) /\ WF_vars(Gone)
  /\ SF_vars(Mount) /\ WF_vars(Read) /\ WF_vars(waking /\ Resume) /\ WF_vars(Plug)

Spec == Init /\ [][Next]_vars /\ Fairness

-----------------------------------------------------------------------------
\* Every variable has its type; USB is detached exactly while the watchdog is in
\* that phase.
TypeOK ==
  /\ wd.phase \in {"Normal", "Detached", "Reattached"}
  /\ wd.attempts \in 0..MaxAttempts
  /\ Len(queue) <= Capacity /\ unread \in 0..Room
  /\ attached <=> wd.phase # "Detached"
  /\ attached <=> detached = None

Detaches == attached /\ ~attached'

\* Attempts after which the host read nothing are further and further apart: a bus
\* reset that empties the endpoint never counts as a delivery (UsbStallWatchdog.h:94-96).
BackoffRespected ==
  [][Detaches /\ undelivered > 0 => lastDetach >= BackoffFor(undelivered)]_vars

\* A host that reads what it is sent is not disconnected while the bus is awake, for
\* all that the watchdog is told of: only SysEx that is written since the clock last
\* ticked can look like a host that does not read (UsbStallWatchdog.h:28-30).
PromptHostIsLeftAlone ==
  [][Detaches /\ kind = "prompt" => suspended \/ sysexWrote]_vars

\* A host on which nothing reads is disconnected for messages that wait while it is
\* suspended, never for what it does not read (UsbStallWatchdog.h:83-87).
DeafHostIsLeftAlone ==
  [][Detaches /\ kind = "deaf" => suspended /\ queue # <<>>]_vars

\* Until the host reads again, and as long as a recovery may take, loop() loses none of
\* the messages that waited when the watchdog detached: they are not cleared with the
\* disconnect, nor dropped as stale (enomik_dongle.h:357-361, 1214-1220, 1385-1395).
WaitingSurvives ==
  [][LoopStep /\ undelivered > 0 /\ lastDetach < DetachMs + RecoveryWindowMs
       => Len(queue') + unread' - unread >= Len(queue)]_vars

\* USB does not stay detached, and the watchdog never waits for an end of that which
\* does not come (UsbStallWatchdog.h:96).
AttachFollows == []<>(attached /\ wd.phase # "Detached")

\* A host that reads and then stops is made to read again when messages for it are
\* in the way.
HostRecovers ==
  kind = "faulty" /\ mounted /\ wd.hostRead /\ ~reading /\ unread > 0
    ~> reading \/ ~plugged \/ suspended
=============================================================================
