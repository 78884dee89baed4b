------------------------- MODULE UsbRecovery_proofs -------------------------
(***************************************************************************)
(* Proofs about UsbRecovery and its watchdog for all times, any size of    *)
(* the queue and of TinyUSB's buffer, any number of attempts and faults    *)
(* and every mode of the watchdog.                                         *)
(***************************************************************************)
EXTENDS UsbRecovery, SequenceTheorems, FiniteSetTheorems, TLAPS

\* A time that is counted, or None.
Ages == Nat \union {None}

WdType ==
  [ phase : {"Normal", "Detached", "Reattached"}, phaseAge : Nat, hostRx : Ages,
    inFlight : BOOLEAN, hostRead : BOOLEAN, busy : Ages, suspended : BOOLEAN, wake : Ages,
    refused : BOOLEAN, reattached : BOOLEAN, attempts : 0..MaxAttempts, gate : Ages ]

\* A detached or suspended device measures no stall.
WatchdogInv ==
  /\ wd \in WdType
  /\ wd.phase = "Detached" => ~wd.inFlight /\ wd.busy = None
  /\ wd.suspended => wd.busy = None

\* What is on its way to the host, and what of it loop() knows: a host that comes back
\* while loop() is at its top finds nothing that was sent to it before.
WireInv ==
  /\ mounted \in BOOLEAN /\ suspended \in BOOLEAN /\ wrote \in BOOLEAN
  /\ unread \in 0..Room
  /\ ~mounted => unread = 0
  /\ wrote => loop = "service"
  /\ loop = "drain" => initialized
  /\ loop = "service" /\ ~initialized => ~mounted
  /\ loop = "top" /\ ~initialized => ~wd.inFlight

\* What the watchdog takes for the host is the host: one that never reads is not taken
\* for one that does, one that reads at once is not stalled unless SysEx is written past
\* the watchdog, and an endpoint that was emptied was read.
HostInv ==
  /\ kind = "deaf" => ~reading /\ ~wd.hostRead
  /\ kind = "prompt" /\ mounted /\ ~suspended /\ unread > 0 /\ ~wrote /\ ~sysexWrote
       => wd.busy \in {None, 0}
  /\ (wd.inFlight \/ wrote) /\ mounted /\ unread = 0 => undelivered = 0 /\ kind # "deaf"

\* The watchdog counts at least the detaches that delivered nothing, and the time since
\* the last of them.
BackoffInv ==
  /\ undelivered \in 0..wd.attempts
  /\ lastDetach \in Nat
  /\ undelivered > 0 => wd.gate = lastDetach
  /\ Mode # "Recover" => undelivered = 0

\* The loop and the watchdog agree on when USB was detached, as far as it matters: the
\* watchdog attaches before the loop does it by force.
DetachInv ==
  /\ attached \in BOOLEAN
  /\ detached \in Ages
  /\ attached <=> wd.phase # "Detached"
  /\ attached <=> detached = None
  /\ ~attached => detached <= wd.phaseAge \/ wd.phaseAge >= DetachMs

\* As long as nothing was delivered, the recovery lasts until the clock has counted the
\* time detached and the window from the detach on.
WindowInv ==
  undelivered > 0 =>
    \/ lastDetach >= DetachMs + RecoveryWindowMs
    \/ wd.phase = "Detached" /\ wd.phaseAge <= lastDetach
    \/ wd.phase = "Reattached" /\ wd.phaseAge + DetachMs <= lastDetach

\* A sequence, whatever its entries are, that is not too long.
IsQueue(q) == Len(q) \in 0..Capacity /\ q = [k \in 1..Len(q) |-> q[k]]

QueueInv == IsQueue(queue)

RecoveryInv ==
  WatchdogInv /\ WireInv /\ HostInv /\ BackoffInv /\ WindowInv /\ DetachInv /\ QueueInv

-----------------------------------------------------------------------------
\* What the constants are.
LEMMA Constants ==
  /\ \A t \in Times : t \in Nat /\ t > 0
  /\ {StallMs, WakeRetryMs, DetachMs, HostActiveGuardMs, BackoffMaxMs, RecoveryWindowMs}
        \subseteq Nat \ {0}
  /\ MaxAttempts \in Nat \ {0} /\ Room \in Nat \ {0} /\ Capacity \in Nat \ {0}
  /\ None \in Ages /\ None \notin Nat
  /\ ForcedAttachMs \in Nat /\ ForcedAttachMs > DetachMs
  /\ DetachMs + RecoveryWindowMs <= BackoffMaxMs
BY WatchdogAssumption, RecoveryAssumption, QueueAssumption DEF Times, None, Ages

\* A time that is counted up stays a time, and None stays None.
LEMMA OneMoreIs ==
  ASSUME NEW t \in Ages, NEW cap \in Nat
  PROVE  /\ OneMore(t, cap) \in Ages
         /\ t = None <=> OneMore(t, cap) = None
         /\ t # None => OneMore(t, cap) >= t
         /\ t \in Nat => OneMore(t, cap) \in Nat
BY DEF OneMore, Ages, None

\* A window ends when it is over, and no earlier.
WindowStep(w, o) ==
  \/ o.phase = w.phase /\ o.phaseAge = w.phaseAge
  \/ w.phase = "Reattached" /\ w.phaseAge >= RecoveryWindowMs /\ o.phase = "Normal"

\* What a tick has noted before it decides.
LEMMA ObservedIs ==
  ASSUME NEW w \in WdType, NEW in \in Inputs, in.known
  PROVE  LET o == Observed(w, in)
             armed == in.mounted /\ (w.inFlight \/ (~in.suspended /\ in.wrote))
             read == armed /\ ~in.suspended /\ ~in.txBlocked
         IN  /\ o \in WdType
             /\ o.phase \in {w.phase, "Normal"}
             /\ ~read => WindowStep(w, o)
             /\ o.inFlight <=> armed /\ ~read
             /\ o.hostRead <=> read \/ (in.mounted /\ w.hostRead)
             /\ read => o.attempts = 0 /\ o.gate = None
             /\ ~read => o.attempts = w.attempts /\ o.gate = w.gate
             /\ o.suspended <=> in.mounted /\ in.suspended
             /\ o.busy = IF ~(Awake(in) /\ in.txBlocked) THEN None
                         ELSE IF w.busy = None \/ in.wrote THEN 0 ELSE w.busy
<1> DEFINE w1 == EndWindow(w)
           w2 == ExpireHostRx(w1)
           w3 == NoteUnmounted(w2, in)
           w4 == NoteWrite(w3, in)
           w5 == NoteDelivery(w4, in)
           w6 == TrackSuspend(w5, in)
           w7 == TrackBusy(w6, in)
           armed == in.mounted /\ (w.inFlight \/ (~in.suspended /\ in.wrote))
           read == armed /\ ~in.suspended /\ ~in.txBlocked
<1>1. /\ w1 \in WdType
      /\ w1.phase \in {w.phase, "Normal"} /\ WindowStep(w, w1)
      /\ w1.inFlight = w.inFlight /\ w1.hostRead = w.hostRead
      /\ w1.attempts = w.attempts /\ w1.gate = w.gate /\ w1.busy = w.busy
  BY DEF EndWindow, WdType, WindowStep
<1> HIDE DEF w1
<1>2. /\ w2 \in WdType /\ w2.phase = w1.phase /\ w2.phaseAge = w1.phaseAge
      /\ w2.inFlight = w1.inFlight /\ w2.hostRead = w1.hostRead
      /\ w2.attempts = w1.attempts /\ w2.gate = w1.gate /\ w2.busy = w1.busy
  BY <1>1 DEF ExpireHostRx, WdType, Ages
<1> HIDE DEF w2
<1>3. /\ w3 \in WdType /\ w3.phase = w2.phase /\ w3.phaseAge = w2.phaseAge
      /\ w3.inFlight <=> in.mounted /\ w2.inFlight
      /\ w3.hostRead <=> in.mounted /\ w2.hostRead
      /\ w3.attempts = w2.attempts /\ w3.gate = w2.gate /\ w3.busy = w2.busy
  BY <1>2 DEF NoteUnmounted, WdType, Inputs
<1> HIDE DEF w3
<1>4. /\ w4 \in WdType /\ w4.phase = w3.phase /\ w4.phaseAge = w3.phaseAge
      /\ w4.inFlight <=> w3.inFlight \/ (Awake(in) /\ in.wrote)
      /\ w4.hostRead = w3.hostRead
      /\ w4.attempts = w3.attempts /\ w4.gate = w3.gate /\ w4.busy = w3.busy
  BY <1>3 DEF NoteWrite, WdType, Inputs, Awake
<1> HIDE DEF w4
<1>5. w4.inFlight <=> armed
  BY <1>1, <1>2, <1>3, <1>4 DEF Awake, Inputs
<1>6. Delivered(w4, in) <=> read
  BY <1>5 DEF Delivered, Awake, Inputs
<1>7. /\ w5 \in WdType
      /\ w5.phase \in {w4.phase, "Normal"}
      /\ ~read => w5.phase = w4.phase /\ w5.phaseAge = w4.phaseAge
      /\ w5.inFlight <=> w4.inFlight /\ ~read
      /\ w5.hostRead <=> read \/ w4.hostRead
      /\ read => w5.attempts = 0 /\ w5.gate = None
      /\ ~read => w5.attempts = w4.attempts /\ w5.gate = w4.gate
      /\ w5.busy = w4.busy
  <2>1. CASE read
    <3>1. w5 = [w4 EXCEPT !.inFlight = FALSE, !.hostRead = TRUE, !.attempts = 0,
                          !.gate = None, !.phase = "Normal", !.phaseAge = 0]
      BY <2>1, <1>6 DEF NoteDelivery
    <3> HIDE DEF w5, read, armed
    <3>2. 0 \in 0..MaxAttempts /\ None \in Ages
      BY Constants
    <3>3. QED
      BY <2>1, <3>1, <3>2, <1>4 DEF WdType
  <2>2. CASE ~read
    BY <2>2, <1>4, <1>6 DEF NoteDelivery
  <2>3. QED
    BY <2>1, <2>2
<1> HIDE DEF w5
<1>8. /\ w6 \in WdType /\ w6.phase = w5.phase /\ w6.phaseAge = w5.phaseAge
      /\ w6.inFlight = w5.inFlight /\ w6.hostRead = w5.hostRead
      /\ w6.attempts = w5.attempts /\ w6.gate = w5.gate /\ w6.busy = w5.busy
      /\ w6.suspended <=> in.mounted /\ in.suspended
  BY <1>7, Constants DEF TrackSuspend, WdType, Inputs
<1> HIDE DEF w6
<1>9. /\ w7 \in WdType /\ w7.phase = w6.phase /\ w7.phaseAge = w6.phaseAge
      /\ w7.inFlight = w6.inFlight /\ w7.hostRead = w6.hostRead
      /\ w7.attempts = w6.attempts /\ w7.gate = w6.gate
      /\ w7.suspended = w6.suspended
      /\ w7.busy = IF ~(Awake(in) /\ in.txBlocked) THEN None
                   ELSE IF w6.busy = None \/ in.wrote THEN 0 ELSE w6.busy
  BY <1>8, Constants DEF TrackBusy, WdType, Inputs, Awake, Ages
<1>10. w7 = Observed(w, in)
  BY DEF Observed, w1, w2, w3, w4, w5, w6, w7
<1> HIDE DEF w7, read, armed
<1>11. QED
  <2>1. /\ w7 \in WdType
        /\ w7.phase \in {w.phase, "Normal"}
        /\ w7.busy = IF ~(Awake(in) /\ in.txBlocked) THEN None
                         ELSE IF w.busy = None \/ in.wrote THEN 0 ELSE w.busy
        /\ read => w7.attempts = 0 /\ w7.gate = None
        /\ ~read => w7.attempts = w.attempts /\ w7.gate = w.gate
    BY <1>1, <1>2, <1>3, <1>4, <1>7, <1>8, <1>9
  <2>2. w7.inFlight <=> armed /\ ~read
    BY <1>5, <1>7, <1>8, <1>9
  <2>3. w7.hostRead <=> read \/ (in.mounted /\ w.hostRead)
    BY <1>1, <1>2, <1>3, <1>4, <1>7, <1>8, <1>9
  <2>4. w7.suspended <=> in.mounted /\ in.suspended
    BY <1>8, <1>9
  <2>5. ~read => WindowStep(w, w7)
    BY <1>1, <1>2, <1>3, <1>4, <1>7, <1>8, <1>9 DEF WindowStep
  <2>6. QED
    BY <2>1, <2>2, <2>3, <2>4, <2>5, <1>10 DEF armed, read

LEMMA MinIs ==
  ASSUME NEW a \in Int, NEW b \in Int
  PROVE  Min({a, b}) = IF a <= b THEN a ELSE b
BY DEF Min

\* A tick that leaves USB as it is.
Quiet(t, o, in) ==
  /\ t.wd \in WdType
  /\ t.action \in {"None", "RemoteWakeup"}
  /\ t.action = "RemoteWakeup" => in.mounted /\ in.suspended
  /\ t.wd.phase = o.phase /\ t.wd.phaseAge = o.phaseAge
  /\ t.wd.inFlight = o.inFlight /\ t.wd.hostRead = o.hostRead
  /\ t.wd.suspended = o.suspended /\ t.wd.busy = o.busy
  /\ Mode = "Recover" => t.wd.attempts = o.attempts /\ t.wd.gate = o.gate

\* A tick that detaches, and what has made it do so.
Cuts(t, o, in) ==
  /\ Mode = "Recover" /\ in.mounted
  /\ o.gate # None => o.gate >= BackoffFor(o.attempts)
  /\ in.suspended => DataWaiting(o, in)
  /\ ~in.suspended => Stalled(o) /\ o.hostRead
  /\ t.action = "Detach"
  /\ t.wd \in WdType
  /\ t.wd.phase = "Detached" /\ t.wd.phaseAge = 0
  /\ ~t.wd.inFlight /\ t.wd.hostRead = o.hostRead
  /\ t.wd.suspended = o.suspended /\ t.wd.busy = None
  /\ t.wd.attempts = Min({o.attempts + 1, MaxAttempts}) /\ t.wd.gate = 0

LEMMA CountedType ==
  ASSUME NEW a \in 0..MaxAttempts
  PROVE  Min({a + 1, MaxAttempts}) \in 0..MaxAttempts
<1>1. a + 1 \in Int /\ MaxAttempts \in Int
  BY Constants
<1>2. Min({a + 1, MaxAttempts}) = IF a + 1 <= MaxAttempts THEN a + 1 ELSE MaxAttempts
  BY <1>1, MinIs
<1> QED
  BY <1>2, Constants

LEMMA StartReattachIs ==
  ASSUME NEW w \in WdType, NEW t, t = StartReattach(w), NEW in \in Inputs
  PROVE  /\ Mode # "Recover" => Quiet(t, w, in)
         /\ Mode = "Recover" /\ in.mounted /\ GateOpen(w)
              /\ (in.suspended => DataWaiting(w, in))
              /\ (~in.suspended => Stalled(w) /\ w.hostRead)
            => Cuts(t, w, in)
<1> DEFINE n == Min({w.attempts + 1, MaxAttempts})
           counted == [w EXCEPT !.attempts = n, !.gate = 0]
<1>1. n \in 0..MaxAttempts
  BY CountedType DEF WdType
<1> HIDE DEF n
<1>2. counted \in WdType /\ counted.attempts = n /\ counted.gate = 0
  BY <1>1 DEF WdType, Ages
<1>3. CASE Mode # "Recover"
  <2>1. t = [wd |-> counted, action |-> "None"]
    BY <1>3 DEF StartReattach, n
  <2>2. counted.phase = w.phase /\ counted.phaseAge = w.phaseAge
        /\ counted.inFlight = w.inFlight /\ counted.hostRead = w.hostRead
        /\ counted.suspended = w.suspended /\ counted.busy = w.busy
    BY DEF WdType
  <2> HIDE DEF counted
  <2>3. QED
    BY <1>2, <1>3, <2>1, <2>2 DEF Quiet
<1>4. CASE Mode = "Recover"
  <2> DEFINE cut == [counted EXCEPT !.phase = "Detached", !.phaseAge = 0,
                                    !.inFlight = FALSE, !.busy = None]
  <2>1. t = [wd |-> cut, action |-> "Detach"]
    BY <1>4 DEF StartReattach, n
  <2>2. counted.hostRead = w.hostRead /\ counted.suspended = w.suspended
    BY DEF WdType
  <2> HIDE DEF counted
  <2>3. /\ cut \in WdType /\ cut.phase = "Detached" /\ cut.phaseAge = 0
        /\ cut.inFlight = FALSE
        /\ cut.hostRead = w.hostRead /\ cut.suspended = w.suspended /\ cut.busy = None
        /\ cut.attempts = n /\ cut.gate = 0
    BY <1>2, <2>2, Constants DEF WdType
  <2> HIDE DEF cut
  <2>4. QED
    BY <1>4, <2>1, <2>3 DEF Cuts, GateOpen, n
<1>5. QED
  BY <1>3, <1>4

\* What a tick does while USB is attached.
LEMMA TickIs ==
  ASSUME NEW w \in WdType, NEW in \in Inputs, in.known, w.phase # "Detached",
         NEW t, t = WatchdogTick(w, in), NEW o, o = Observed(w, in)
  PROVE  Quiet(t, o, in) \/ Cuts(t, o, in)
<1>1. o \in WdType
  BY ObservedIs
<1>2. CASE ~in.mounted
  <2>1. t = [wd |-> o, action |-> "None"]
    BY <1>2 DEF WatchdogTick
  <2>2. QED
    BY <1>1, <2>1 DEF Quiet
<1>3. CASE in.mounted /\ in.suspended
  <2>1. t = TickSuspended(o, in)
    BY <1>3 DEF WatchdogTick
  <2>2. CASE t = [wd |-> o, action |-> "None"]
    BY <1>1, <2>2 DEF Quiet
  <2>3. CASE t = [wd |-> [o EXCEPT !.wake = 0], action |-> "RemoteWakeup"]
    <3>1. [o EXCEPT !.wake = 0] \in WdType
      BY <1>1 DEF WdType, Ages
    <3>2. QED
      BY <1>1, <1>3, <2>3, <3>1 DEF Quiet, WdType
  <2>4. CASE /\ DataWaiting(o, in) /\ GateOpen(o)
             /\ t = StartReattach([o EXCEPT !.reattached = TRUE])
    <3> DEFINE r == [o EXCEPT !.reattached = TRUE]
    <3>1. /\ r \in WdType
          /\ r.phase = o.phase /\ r.phaseAge = o.phaseAge
          /\ r.inFlight = o.inFlight /\ r.hostRead = o.hostRead
          /\ r.suspended = o.suspended /\ r.busy = o.busy
          /\ r.attempts = o.attempts /\ r.gate = o.gate
      BY <1>1 DEF WdType
    <3> HIDE DEF r
    <3>2. DataWaiting(r, in) /\ GateOpen(r) /\ t = StartReattach(r)
      <4>1. t = StartReattach(r)
        BY <2>4 DEF r
      <4>2. QED
        BY <2>4, <3>1, <4>1 DEF DataWaiting, GateOpen
    <3>3. Quiet(t, r, in) \/ Cuts(t, r, in)
      BY <1>3, <3>1, <3>2, StartReattachIs
    <3>4. QED
      BY <1>3, <2>4, <3>1, <3>3 DEF Quiet, Cuts
  <2>5. QED
    BY <2>1, <2>2, <2>3, <2>4 DEF TickSuspended
<1>4. CASE in.mounted /\ ~in.suspended
  <2>1. t = TickAwake(o, in)
    BY <1>4 DEF WatchdogTick
  <2>2. CASE t = [wd |-> o, action |-> "None"]
    BY <1>1, <2>2 DEF Quiet
  <2>3. CASE Stalled(o) /\ o.hostRead /\ GateOpen(o) /\ t = StartReattach(o)
    BY <1>1, <1>4, <2>3, StartReattachIs
  <2>4. QED
    BY <2>1, <2>2, <2>3 DEF TickAwake
<1>5. QED
  BY <1>2, <1>3, <1>4 DEF Inputs

-----------------------------------------------------------------------------
\* The invariant holds at the start.
LEMMA EmptyQueue == Len(<<>>) \in 0..Capacity /\ <<>> = [k \in 1..Len(<<>>) |-> <<>>[k]]
  BY Constants

LEMMA InitInv == ASSUME Init PROVE RecoveryInv
<1>1. WatchdogInv
  BY Constants DEF Init, WatchdogInv, NewWatchdog, WdType, Ages
<1>2. WireInv
  <2>1. wd.inFlight = FALSE /\ 0 \in 0..Room
    BY Constants DEF Init, NewWatchdog
  <2>2. QED
    BY <2>1 DEF Init, WireInv
<1>3. HostInv
  BY Constants DEF Init, HostInv, NewWatchdog
<1>4. BackoffInv
  <2>1. wd.attempts = 0 /\ undelivered = 0 /\ lastDetach = BackoffMaxMs
    BY DEF Init, NewWatchdog
  <2>2. BackoffMaxMs \in Nat
    BY Constants
  <2>3. QED
    BY <2>1, <2>2 DEF BackoffInv
<1>7. WindowInv
  BY DEF Init, WindowInv
<1>5. DetachInv
  BY Constants DEF Init, DetachInv, NewWatchdog, Ages
<1>6. QueueInv
  BY EmptyQueue DEF Init, QueueInv, IsQueue
<1> QED
  BY <1>1, <1>2, <1>3, <1>4, <1>5, <1>6, <1>7 DEF RecoveryInv

\* The steps of the host leave the dongle alone.
LEMMA HostStep ==
  ASSUME RecoveryInv, UNCHANGED <<dongleVars, attached>>, WireInv', HostInv', BackoffInv',
         WindowInv'
  PROVE  RecoveryInv'
BY DEF RecoveryInv, WatchdogInv, DetachInv, QueueInv, dongleVars

\* Most of them do not read either.
LEMMA SameBackoff ==
  ASSUME RecoveryInv, UNCHANGED <<dongleVars, attached>>, UNCHANGED ghostVars,
         WireInv', HostInv'
  PROVE  RecoveryInv'
<1>1. BackoffInv'
  BY DEF RecoveryInv, BackoffInv, dongleVars, ghostVars
<1>2. WindowInv'
  BY DEF RecoveryInv, WindowInv, dongleVars, ghostVars
<1> QED
  BY <1>1, <1>2, HostStep

\* Nor does SysEx: who reads what it fills is not stalled.
LEMMA WriteSysExKeeps == ASSUME RecoveryInv, WriteSysEx PROVE RecoveryInv'
<1>1. /\ initialized /\ mounted /\ ~suspended /\ unread < Room
      /\ unread' = unread + 1 /\ sysexWrote' = TRUE
      /\ UNCHANGED <<dongleVars, attached, mounted, suspended, kind, reading, undelivered,
                     lastDetach>>
  BY DEF WriteSysEx
<1>2. unread \in 0..Room
  BY DEF RecoveryInv, WireInv
<1>3. unread' \in 0..Room /\ unread' # 0
  BY <1>1, <1>2, Constants
<1>4. WireInv'
  BY <1>1, <1>3 DEF RecoveryInv, WireInv, dongleVars
<1>5. HostInv'
  BY <1>1, <1>3 DEF RecoveryInv, HostInv, dongleVars
<1>6. BackoffInv' /\ WindowInv'
  BY <1>1 DEF RecoveryInv, BackoffInv, WindowInv, dongleVars
<1> QED
  BY <1>1, <1>4, <1>5, <1>6, HostStep

LEMMA GoneKeeps == ASSUME RecoveryInv, Gone PROVE RecoveryInv'
<1>1. /\ mounted' = FALSE /\ suspended' = FALSE /\ unread' = 0
      /\ UNCHANGED <<dongleVars, attached, kind, reading, ghostVars>>
  BY DEF Gone
<1>2. 0 \in 0..Room
  BY Constants
<1>3. WireInv'
  BY <1>1, <1>2 DEF RecoveryInv, WireInv, dongleVars
<1>4. HostInv'
  BY <1>1 DEF RecoveryInv, HostInv, dongleVars, ghostVars
<1> QED
  BY <1>1, <1>3, <1>4, SameBackoff

\* A host that comes back finds an empty endpoint and nothing in flight.
LEMMA MountKeeps == ASSUME RecoveryInv, Mount PROVE RecoveryInv'
<1>1. /\ loop = "top" /\ ~initialized /\ ~mounted /\ mounted' = TRUE
      /\ reading' = (kind # "deaf")
      /\ UNCHANGED <<dongleVars, attached, suspended, unread, kind, ghostVars>>
  BY DEF Mount, LoopSawItGo
<1>2. WireInv'
  BY <1>1 DEF RecoveryInv, WireInv, dongleVars
<1>3. HostInv'
  BY <1>1 DEF RecoveryInv, HostInv, WireInv, dongleVars, ghostVars
<1> QED
  BY <1>1, <1>2, <1>3, SameBackoff

LEMMA ReadKeeps == ASSUME RecoveryInv, Read PROVE RecoveryInv'
<1>1. WireInv'
  BY Constants DEF Read, RecoveryInv, WireInv, dongleVars
<1>2. HostInv'
  BY DEF Read, RecoveryInv, WireInv, HostInv, dongleVars
<1>3. BackoffInv'
  BY DEF Read, RecoveryInv, BackoffInv, WatchdogInv, WdType, dongleVars
<1>4. WindowInv'
  BY DEF Read, WindowInv
<1> QED
  BY <1>1, <1>2, <1>3, <1>4, HostStep DEF Read

LEMMA StopReadingKeeps == ASSUME RecoveryInv, StopReading PROVE RecoveryInv'
<1>1. WireInv'
  BY DEF StopReading, RecoveryInv, WireInv, dongleVars
<1>2. HostInv'
  BY DEF StopReading, RecoveryInv, HostInv, dongleVars, ghostVars
<1> QED
  BY <1>1, <1>2, SameBackoff DEF StopReading

LEMMA SuspendKeeps == ASSUME RecoveryInv, Suspend PROVE RecoveryInv'
<1>1. WireInv'
  BY DEF Suspend, RecoveryInv, WireInv, dongleVars
<1>2. HostInv'
  BY DEF Suspend, RecoveryInv, HostInv, dongleVars, ghostVars
<1> QED
  BY <1>1, <1>2, SameBackoff DEF Suspend

LEMMA ResumeKeeps == ASSUME RecoveryInv, Resume PROVE RecoveryInv'
<1>1. WireInv'
  BY DEF Resume, RecoveryInv, WireInv, dongleVars
<1>2. HostInv'
  BY DEF Resume, RecoveryInv, HostInv, WatchdogInv, dongleVars, ghostVars
<1> QED
  BY <1>1, <1>2, SameBackoff DEF Resume

LEMMA UnplugKeeps == ASSUME RecoveryInv, Unplug PROVE RecoveryInv'
<1>1. WireInv'
  BY DEF Unplug, RecoveryInv, WireInv, dongleVars
<1>2. HostInv'
  BY DEF Unplug, RecoveryInv, HostInv, dongleVars, ghostVars
<1> QED
  BY <1>1, <1>2, SameBackoff DEF Unplug

LEMMA PlugKeeps == ASSUME RecoveryInv, Plug PROVE RecoveryInv'
<1>1. WireInv'
  BY DEF Plug, RecoveryInv, WireInv, dongleVars
<1>2. HostInv'
  BY DEF Plug, RecoveryInv, HostInv, dongleVars, ghostVars
<1> QED
  BY <1>1, <1>2, SameBackoff DEF Plug

LEMMA SendToDongleKeeps == ASSUME RecoveryInv, SendToDongle PROVE RecoveryInv'
<1>1. /\ wd' \in WdType
      /\ wd'.phase = wd.phase /\ wd'.phaseAge = wd.phaseAge
      /\ wd'.inFlight = wd.inFlight /\ wd'.hostRead = wd.hostRead
      /\ wd'.suspended = wd.suspended /\ wd'.busy = wd.busy
      /\ wd'.attempts = wd.attempts /\ wd'.gate = wd.gate
  BY Constants DEF SendToDongle, NoteHostRx, RecoveryInv, WatchdogInv, WdType, Ages
<1> QED
  BY <1>1 DEF SendToDongle, RecoveryInv, WatchdogInv, WireInv, HostInv, BackoffInv,
              WindowInv, DetachInv, QueueInv, hostVars, ghostVars

\* A tick of the clock changes the times of the watchdog alone.
LEMMA AgedIs ==
  ASSUME NEW w \in WdType, NEW v, v = AgedWatchdog(w)
  PROVE  /\ v \in WdType /\ v.phase = w.phase
         /\ v.inFlight = w.inFlight /\ v.hostRead = w.hostRead
         /\ v.suspended = w.suspended /\ v.attempts = w.attempts
         /\ w.busy = None => v.busy = None
         /\ v.gate = OneMore(w.gate, BackoffMaxMs)
         /\ v.phaseAge <= w.phaseAge + 1
         /\ w.phase = "Detached" =>
              /\ v.phaseAge >= w.phaseAge
              /\ w.phaseAge < DetachMs => v.phaseAge = w.phaseAge + 1
<1> DEFINE m == Max({DetachMs, RecoveryWindowMs})
           age == IF w.phase = "Normal" THEN 0 ELSE OneMore(w.phaseAge, m)
           rx == OneMore(w.hostRx, HostActiveGuardMs)
           busy == OneMore(w.busy, StallMs)
           wake == OneMore(w.wake, WakeRetryMs)
           gate == OneMore(w.gate, BackoffMaxMs)
<1>1. m \in Nat /\ m >= DetachMs
  BY Constants DEF Max
<1>2. age \in Nat /\ age <= w.phaseAge + 1 /\ (w.phase = "Detached" =>
                       age >= w.phaseAge /\ (w.phaseAge < DetachMs => age = w.phaseAge + 1))
  BY <1>1, Constants DEF WdType, OneMore, None
<1>3. /\ rx \in Ages /\ busy \in Ages /\ wake \in Ages /\ gate \in Ages
      /\ w.busy = None => busy = None
  BY OneMoreIs, Constants DEF WdType
<1>4. v = [w EXCEPT !.phaseAge = age, !.hostRx = rx, !.busy = busy, !.wake = wake,
                    !.gate = gate]
  BY DEF AgedWatchdog
<1> HIDE DEF m, age, rx, busy, wake, gate
<1>5. /\ v \in WdType /\ v.phase = w.phase /\ v.phaseAge = age
      /\ v.inFlight = w.inFlight /\ v.hostRead = w.hostRead
      /\ v.suspended = w.suspended /\ v.attempts = w.attempts
      /\ v.busy = busy /\ v.gate = gate
  BY <1>2, <1>3, <1>4 DEF WdType
<1> QED
  BY <1>2, <1>3, <1>5 DEF gate

LEMMA TickKeeps == ASSUME RecoveryInv, Tick PROVE RecoveryInv'
<1>0. WatchdogInv /\ WireInv /\ HostInv /\ BackoffInv /\ WindowInv /\ DetachInv /\ QueueInv
  BY DEF RecoveryInv
<1>7. /\ wd' \in WdType /\ wd'.phase = wd.phase
      /\ wd'.inFlight = wd.inFlight /\ wd'.hostRead = wd.hostRead
      /\ wd'.suspended = wd.suspended /\ wd'.attempts = wd.attempts
      /\ wd.busy = None => wd'.busy = None
      /\ wd'.gate = OneMore(wd.gate, BackoffMaxMs)
      /\ wd'.phaseAge <= wd.phaseAge + 1
      /\ wd.phase = "Detached" =>
           /\ wd'.phaseAge >= wd.phaseAge
           /\ wd.phaseAge < DetachMs => wd'.phaseAge = wd.phaseAge + 1
  BY <1>0, AgedIs DEF Tick, WatchdogInv
<1>1. WatchdogInv'
  BY <1>0, <1>7 DEF WatchdogInv
<1>2. WireInv'
  BY <1>0, <1>7 DEF Tick, WireInv, hostVars
<1>3. HostInv'
  BY <1>0, <1>7 DEF Tick, Overdue, HostInv, WireInv, hostVars
<1>4. BackoffInv'
  <2>1. lastDetach' \in Nat /\ lastDetach' = OneMore(lastDetach, BackoffMaxMs)
    BY <1>0, Constants, OneMoreIs DEF Tick, BackoffInv, Ages
  <2>2. QED
    BY <1>0, <1>7, <2>1 DEF Tick, BackoffInv
<1>5. DetachInv'
  <2>1. detached' = IF Forced THEN detached
                    ELSE IF detached = None THEN None ELSE detached + 1
    BY DEF Tick
  <2>2. detached' \in Ages /\ (detached = None <=> detached' = None) /\ attached' = attached
    BY <1>0, <2>1, Constants DEF Tick, DetachInv, Forced, Is, Ages, None, hostVars
  <2>3. CASE attached
    BY <1>0, <1>7, <2>2, <2>3 DEF DetachInv
  <2>4. CASE ~attached
    <3>1. /\ wd.phase = "Detached" /\ detached \in Nat
          /\ wd.phaseAge \in Nat /\ wd'.phaseAge \in Nat
      BY <1>0, <1>7, <2>4 DEF DetachInv, WatchdogInv, WdType, Ages
    <3>2. detached' <= detached + 1
      <4>1. detached # None
        BY <3>1, Constants
      <4>2. detached' = detached \/ detached' = detached + 1
        BY <2>1, <4>1
      <4>3. QED
        BY <3>1, <4>2
    <3>3. detached' <= wd'.phaseAge \/ wd'.phaseAge >= DetachMs
      BY <1>0, <1>7, <2>1, <2>2, <2>4, <3>1, <3>2, Constants DEF DetachInv, Ages
    <3>4. QED
      BY <1>0, <1>7, <2>2, <2>4, <3>3 DEF DetachInv
  <2>5. QED
    BY <2>3, <2>4
<1>6. QueueInv'
  BY <1>0 DEF Tick, Aged, QueueInv, IsQueue
<1>8. WindowInv'
  <2>1. lastDetach \in Nat /\ wd.phaseAge \in Nat /\ wd'.phaseAge \in Nat
    BY <1>0, <1>7 DEF BackoffInv, WatchdogInv, WdType
  <2>2. lastDetach # None
    BY <2>1, Constants
  <2>3. lastDetach' = (IF lastDetach >= BackoffMaxMs THEN lastDetach ELSE lastDetach + 1)
    BY <2>2 DEF Tick, OneMore
  <2>4. undelivered' = undelivered
    BY DEF Tick
  <2>5. QED
    BY <1>0, <1>7, <2>1, <2>3, <2>4, Constants DEF WindowInv
<1> QED
  BY <1>1, <1>2, <1>3, <1>4, <1>5, <1>6, <1>8 DEF RecoveryInv

\* Steps of loop() before the watchdog.
LEMMA TopKeeps == ASSUME RecoveryInv, Top PROVE RecoveryInv'
<1>0. WatchdogInv /\ WireInv /\ HostInv /\ BackoffInv /\ WindowInv /\ DetachInv /\ QueueInv
  BY DEF RecoveryInv
<1>1. WatchdogInv'
  BY <1>0 DEF Top, WatchdogInv, dongleVars, hostVars, ghostVars
<1>2. WireInv'
  BY <1>0 DEF Top, WireInv, dongleVars, hostVars, ghostVars
<1>3. HostInv'
  BY <1>0 DEF Top, HostInv, dongleVars, hostVars, ghostVars
<1>4. BackoffInv'
  BY <1>0 DEF Top, BackoffInv, dongleVars, hostVars, ghostVars
<1>7. WindowInv'
  BY <1>0 DEF Top, WindowInv, ghostVars
<1>5. DetachInv'
  BY <1>0 DEF Top, DetachInv, dongleVars, hostVars, ghostVars
<1>6. QueueInv'
  <2>1. queue' = queue \/ queue' = <<>>
    BY DEF Top
  <2>2. CASE queue' = queue
    BY <1>0, <2>2 DEF QueueInv
  <2>3. CASE queue' = <<>>
    BY <2>3, EmptyQueue DEF QueueInv, IsQueue
  <2>4. QED
    BY <2>1, <2>2, <2>3
<1> QED
  BY <1>1, <1>2, <1>3, <1>4, <1>5, <1>6, <1>7 DEF RecoveryInv

-----------------------------------------------------------------------------
\* What the operations of the queue return is a queue again.
LEMMA MappedIsQueue ==
  ASSUME NEW q, IsQueue(q), NEW r, DOMAIN r = 1..Len(q), r = [k \in 1..Len(q) |-> r[k]]
  PROVE  IsQueue(r) /\ Len(r) = Len(q)
<1>1. Len(r) = Len(q)
  BY DEF IsQueue
<1> QED
  BY <1>1 DEF IsQueue

LEMMA SeqIsQueue ==
  ASSUME NEW S, NEW q \in Seq(S), Len(q) <= Capacity
  PROVE  IsQueue(q)
BY Constants DEF IsQueue

LEMMA QueueIsSeq ==
  ASSUME NEW q, IsQueue(q)
  PROVE  q \in Seq({q[k] : k \in 1..Len(q)})
<1>1. Len(q) \in Nat /\ q \in [1..Len(q) -> {q[k] : k \in 1..Len(q)}]
  BY Constants DEF IsQueue
<1> QED
  BY <1>1, SeqDef

LEMMA CompactStaleIsQueue ==
  ASSUME NEW q, IsQueue(q)
  PROVE  IsQueue(CompactStale(q))
<1> DEFINE kept == {k \in 1..Len(q) : Keeps(q, k)}
           from == CHOOSE f \in [1..Cardinality(kept) -> kept] :
                     \A i, j \in DOMAIN f : i < j => f[i] < f[j]
<1>1. CompactStale(q) = [i \in 1..Cardinality(kept) |-> q[from[i]]]
  BY DEF CompactStale
<1>2. Len(q) \in 0..Capacity /\ Len(q) \in Nat /\ 1 \in Int /\ Len(q) \in Int
  BY Constants DEF IsQueue
<1>3. IsFiniteSet(1..Len(q)) /\ Cardinality(1..Len(q)) = Len(q)
  <2>1. /\ IsFiniteSet(1..Len(q))
        /\ Cardinality(1..Len(q)) = IF 1 > Len(q) THEN 0 ELSE Len(q) - 1 + 1
    BY <1>2, FS_Interval
  <2>2. QED
    BY <1>2, <2>1
<1>4. kept \in SUBSET (1..Len(q))
  OBVIOUS
<1> HIDE DEF kept, from
<1>5. Cardinality(kept) \in 0..Capacity
  <2>1. IsFiniteSet(kept) /\ Cardinality(kept) <= Len(q)
    BY <1>3, <1>4, FS_Subset
  <2>2. Cardinality(kept) \in Nat
    BY <2>1, FS_CardinalityType
  <2>3. QED
    BY <1>2, <2>1, <2>2, Constants
<1>6. Len(CompactStale(q)) = Cardinality(kept)
  BY <1>1, <1>5
<1> QED
  BY <1>1, <1>5, <1>6 DEF IsQueue

LEMMA DropStaleIsQueue ==
  ASSUME NEW q, IsQueue(q)
  PROVE  IsQueue(DropStale(q))
BY CompactStaleIsQueue DEF DropStale

LEMMA FreshIsQueue == ASSUME QueueInv PROVE IsQueue(Fresh)
<1>1. IsQueue(RefreshTimestamps(queue))
  BY MappedIsQueue DEF RefreshTimestamps, QueueInv
<1>2. Fresh \in {queue, DropStale(RefreshTimestamps(queue)), DropStale(queue)}
  BY DEF Fresh
<1> QED
  BY <1>1, <1>2, DropStaleIsQueue DEF QueueInv

LEMMA ArriveQueue == ASSUME QueueInv, Arrive PROVE IsQueue(queue') /\ queue' # <<>>
<1> DEFINE S == {queue[k] : k \in 1..Len(queue)} \union {Entry(Event)}
<1>1. queue \in Seq({queue[k] : k \in 1..Len(queue)})
  BY QueueIsSeq DEF QueueInv
<1>2. queue \in Seq(S)
  BY <1>1, SeqMonotonic
<1>3. queue' = Append(queue, Entry(Event)) /\ Len(queue) < Capacity
  BY DEF Arrive, Enqueue
<1>4. Entry(Event) \in S
  OBVIOUS
<1> HIDE DEF S
<1>5. /\ Append(queue, Entry(Event)) \in Seq(S) /\ Append(queue, Entry(Event)) # <<>>
      /\ Len(Append(queue, Entry(Event))) = Len(queue) + 1
  BY <1>2, <1>4, AppendProperties
<1>6. Len(queue) + 1 <= Capacity
  BY <1>3, Constants DEF QueueInv, IsQueue
<1> QED
  BY <1>3, <1>5, <1>6, SeqIsQueue

LEMMA ArriveKeeps == ASSUME RecoveryInv, Arrive PROVE RecoveryInv'
<1>0. WatchdogInv /\ WireInv /\ HostInv /\ BackoffInv /\ WindowInv /\ DetachInv /\ QueueInv
  BY DEF RecoveryInv
<1>1. WatchdogInv'
  BY <1>0 DEF Arrive, WatchdogInv
<1>2. WireInv'
  BY <1>0 DEF Arrive, WireInv, hostVars
<1>3. HostInv'
  BY <1>0 DEF Arrive, HostInv, hostVars, ghostVars
<1>4. BackoffInv'
  BY <1>0 DEF Arrive, BackoffInv, ghostVars
<1>7. WindowInv'
  BY <1>0 DEF Arrive, WindowInv, ghostVars
<1>5. DetachInv'
  BY <1>0 DEF Arrive, DetachInv, hostVars
<1>6. QueueInv'
  BY <1>0, ArriveQueue DEF QueueInv
<1> QED
  BY <1>1, <1>2, <1>3, <1>4, <1>5, <1>6, <1>7 DEF RecoveryInv

\* What drainUsbMidiQueue() writes is a first part of the queue that fits.
LEMMA DrainWrites ==
  ASSUME QueueInv, WireInv, Drain
  PROVE  \E n \in Nat :
           /\ n > 0 => mounted
           /\ unread' = unread + n /\ unread' \in 0..Room
           /\ wrote' \in BOOLEAN /\ (wrote' <=> wrote \/ n > 0)
           /\ IsQueue(queue')
<1>1. CASE ~mounted
  <2>1. /\ unread' = unread + 0 /\ unread' \in 0..Room
        /\ wrote' \in BOOLEAN /\ (wrote' <=> wrote) /\ IsQueue(queue')
    BY <1>1, Constants DEF Drain, WireInv, QueueInv
  <2>2. QED
    BY <2>1
<1>2. CASE mounted
  <2> DEFINE n == IF suspended THEN 0 ELSE Written(Fresh)
  <2>1. /\ queue' = SubSeq(Fresh, n + 1, Len(Fresh)) /\ unread' = unread + n
        /\ wrote' = (wrote \/ n > 0)
    BY <1>2 DEF Drain
  <2>2. Len(Fresh) \in 0..Capacity /\ Len(Fresh) \in Nat
    BY FreshIsQueue, Constants DEF IsQueue
  <2>3. n \in Nat /\ n <= Len(Fresh) /\ unread + n <= Room /\ unread \in Nat
    BY <2>2, Constants DEF WireInv, Written
  <2> HIDE DEF n
  <2>4. IsQueue(queue')
    <3> DEFINE S == {Fresh[k] : k \in 1..Len(Fresh)}
    <3>1. \A i \in (n + 1)..Len(Fresh) : Fresh[i] \in S
      BY <2>2, <2>3
    <3> HIDE DEF S
    <3>2. /\ queue' \in Seq(S)
          /\ Len(queue') = IF n + 1 <= Len(Fresh) THEN Len(Fresh) - (n + 1) + 1 ELSE 0
      BY <2>1, <2>2, <2>3, <3>1, SubSeqProperties
    <3>3. Len(queue') <= Capacity
      BY <2>2, <2>3, <3>2, Constants
    <3>4. QED
      BY <3>2, <3>3, SeqIsQueue
  <2>5. wrote' \in BOOLEAN /\ (wrote' <=> wrote \/ n > 0)
    BY <2>1
  <2>6. unread' \in 0..Room
    BY <2>1, <2>3, Constants
  <2>7. QED
    BY <1>2, <2>1, <2>3, <2>4, <2>5, <2>6
<1> QED
  BY <1>1, <1>2

LEMMA DrainKeeps == ASSUME RecoveryInv, Drain PROVE RecoveryInv'
<1>0. WatchdogInv /\ WireInv /\ HostInv /\ BackoffInv /\ WindowInv /\ DetachInv /\ QueueInv
  BY DEF RecoveryInv
<1>a. PICK n \in Nat :
           /\ n > 0 => mounted
           /\ unread' = unread + n /\ unread' \in 0..Room
           /\ wrote' \in BOOLEAN /\ (wrote' <=> wrote \/ n > 0)
           /\ IsQueue(queue')
  BY <1>0, DrainWrites
<1>b. /\ loop = "drain" /\ loop' = "service"
      /\ UNCHANGED <<wd, initialized, detached, attached, mounted, suspended, kind, reading,
                     undelivered, lastDetach, sysexWrote>>
  BY DEF Drain, ghostVars
<1>1. WatchdogInv'
  BY <1>0, <1>b DEF WatchdogInv
<1>2. WireInv'
  BY <1>0, <1>a, <1>b DEF WireInv
<1>3. HostInv'
  BY <1>0, <1>a, <1>b DEF HostInv, WireInv
<1>4. BackoffInv'
  BY <1>0, <1>b DEF BackoffInv
<1>7. WindowInv'
  BY <1>0, <1>b DEF WindowInv
<1>5. DetachInv'
  BY <1>0, <1>b DEF DetachInv
<1>6. QueueInv'
  BY <1>a DEF QueueInv
<1> QED
  BY <1>1, <1>2, <1>3, <1>4, <1>5, <1>6, <1>7 DEF RecoveryInv

-----------------------------------------------------------------------------
\* What serviceUsbWatchdog() does: USB stays detached, is attached again, stays
\* attached, or is detached.
StaysDetached ==
  /\ wd.phase = "Detached" /\ wd' = wd
  /\ UNCHANGED <<attached, detached, suspended, undelivered, lastDetach>>

Reattaches ==
  /\ wd.phase = "Detached" /\ wd.phaseAge >= DetachMs
  /\ wd' = [wd EXCEPT !.phase = "Reattached", !.phaseAge = 0]
  /\ attached' = TRUE /\ detached' = None
  /\ UNCHANGED <<suspended, undelivered, lastDetach>>

StaysAttached(o) ==
  /\ wd.phase # "Detached"
  /\ \E v \in WdType :
       /\ Quiet([wd |-> v, action |-> "None"], o, Sampled)
       /\ wd' = v
  /\ suspended' \in BOOLEAN /\ (suspended' # suspended => mounted /\ suspended)
  /\ UNCHANGED <<attached, detached, undelivered, lastDetach>>

Detaching(o) ==
  /\ wd.phase # "Detached"
  /\ Cuts([wd |-> wd', action |-> "Detach"], o, Sampled)
  /\ attached' = FALSE /\ detached' = 0
  /\ undelivered' = Min({undelivered + 1, MaxAttempts}) /\ lastDetach' = 0
  /\ UNCHANGED suspended

\* The loop samples legal inputs.
LEMMA SampledIs == ASSUME WireInv PROVE Sampled \in Inputs /\ Sampled.known
BY DEF WireInv, Sampled, Inputs

LEMMA ServiceSteps ==
  ASSUME RecoveryInv, Service
  PROVE  \/ StaysDetached \/ Reattaches
         \/ StaysAttached(Observed(wd, Sampled)) \/ Detaching(Observed(wd, Sampled))
<1> DEFINE t == WatchdogTick(wd, Sampled)
           o == Observed(wd, Sampled)
<1>0. WatchdogInv /\ WireInv /\ HostInv /\ BackoffInv /\ WindowInv /\ DetachInv /\ QueueInv
  BY DEF RecoveryInv
<1>1. Acted(t) /\ CountAttempts(t)
  BY DEF Service
<1>2. Sampled \in Inputs /\ Sampled.known /\ wd \in WdType
  BY <1>0, SampledIs DEF WatchdogInv
<1>3. o \in WdType
  BY <1>2, ObservedIs
<1>4. CASE wd.phase = "Detached"
  <2>1. t = TickDetached(wd)
    BY <1>4 DEF WatchdogTick
  <2>2. CASE wd.phaseAge >= DetachMs
    <3>1. t = [wd |-> [wd EXCEPT !.phase = "Reattached", !.phaseAge = 0],
               action |-> "Attach"]
      BY <2>1, <2>2 DEF TickDetached
    <3> HIDE DEF t
    <3>2. t.wd = [wd EXCEPT !.phase = "Reattached", !.phaseAge = 0] /\ t.action = "Attach"
      BY <3>1
    <3>3. QED
      BY <1>1, <1>4, <2>2, <3>2 DEF Acted, CountAttempts, Reattaches
  <2>3. CASE ~(wd.phaseAge >= DetachMs)
    <3>1. t = [wd |-> wd, action |-> "None"]
      BY <2>1, <2>3 DEF TickDetached
    <3> HIDE DEF t
    <3>2. t.wd = wd /\ t.action = "None"
      BY <3>1
    <3>3. ~attached /\ detached \in Nat /\ detached < DetachMs
      BY <1>0, <1>2, <1>4, <2>3, Constants DEF DetachInv, Ages, WdType
    <3>4. ~Forced
      BY <3>3, Constants DEF Forced, Is
    <3>5. attached' = FALSE /\ attached = FALSE
      <4>1. attached' = (t.action = "Attach" \/ Forced \/ attached)
        BY <1>1, <3>2 DEF Acted
      <4>2. attached = FALSE
        BY <1>0, <3>3 DEF DetachInv
      <4>3. QED
        BY <3>2, <3>4, <4>1, <4>2
    <3>6. wd' = wd /\ UNCHANGED <<detached, suspended, undelivered, lastDetach>>
      BY <1>1, <3>2, <3>4 DEF Acted, CountAttempts
    <3>7. QED
      BY <1>4, <3>5, <3>6 DEF StaysDetached
  <2>4. QED
    BY <2>2, <2>3
<1>5. CASE wd.phase # "Detached"
  <2>1. attached /\ detached = None /\ ~Forced
    BY <1>0, <1>5 DEF DetachInv, Forced, Is
  <2>2. Quiet(t, o, Sampled) \/ Cuts(t, o, Sampled)
    BY <1>2, <1>5, TickIs
  <2> HIDE DEF t, o
  <2>3. CASE Quiet(t, o, Sampled) /\ t.action = "None"
    <3>1. /\ wd' = t.wd
          /\ UNCHANGED <<suspended, attached, detached, undelivered, lastDetach>>
      BY <1>1, <2>1, <2>3 DEF Acted, CountAttempts
    <3>2. Quiet([wd |-> wd', action |-> "None"], o, Sampled) /\ wd' \in WdType
      BY <2>3, <3>1 DEF Quiet
    <3>3. StaysAttached(o)
      BY <1>0, <1>5, <3>1, <3>2 DEF StaysAttached, WireInv
    <3>4. QED
      BY <3>3 DEF o
  <2>4. CASE Quiet(t, o, Sampled) /\ t.action = "RemoteWakeup"
    <3>1. PICK accepted, resumed \in BOOLEAN :
            wd' = NoteWakeupResult(t.wd, accepted \/ resumed) /\ suspended' = ~resumed
      BY <1>1, <2>4 DEF Acted, Wakeup
    <3>2. /\ wd' \in WdType
          /\ wd'.phase = t.wd.phase /\ wd'.phaseAge = t.wd.phaseAge
          /\ wd'.inFlight = t.wd.inFlight /\ wd'.hostRead = t.wd.hostRead
          /\ wd'.suspended = t.wd.suspended /\ wd'.busy = t.wd.busy
          /\ wd'.attempts = t.wd.attempts /\ wd'.gate = t.wd.gate
      BY <2>4, <3>1 DEF Quiet, NoteWakeupResult, WdType
    <3>3. attached' = attached /\ detached' = detached
          /\ undelivered' = undelivered /\ lastDetach' = lastDetach
      BY <1>1, <2>4 DEF Acted, CountAttempts
    <3>4. Quiet([wd |-> wd', action |-> "None"], o, Sampled)
      BY <2>4, <3>2 DEF Quiet
    <3>5. mounted /\ suspended
      BY <2>4 DEF Quiet, Sampled
    <3>6. StaysAttached(o)
      BY <1>5, <3>1, <3>2, <3>3, <3>4, <3>5 DEF StaysAttached
    <3>7. QED
      BY <3>6 DEF o
  <2>5. CASE Cuts(t, o, Sampled)
    <3>1. wd' = t.wd /\ suspended' = suspended /\ attached' = FALSE /\ detached' = 0
          /\ undelivered' = Min({undelivered + 1, MaxAttempts}) /\ lastDetach' = 0
      BY <1>1, <2>5 DEF Acted, CountAttempts, Cuts
    <3>2. Cuts([wd |-> wd', action |-> "Detach"], o, Sampled)
      BY <2>5, <3>1 DEF Cuts
    <3>3. Detaching(o)
      BY <1>5, <3>1, <3>2 DEF Detaching
    <3>4. QED
      BY <3>3 DEF o
  <2>6. QED
    BY <2>2, <2>3, <2>4, <2>5 DEF Quiet
<1>6. QED
  BY <1>4, <1>5

\* Each of the four keeps the invariant.
LEMMA ServiceKeeps == ASSUME RecoveryInv, Service PROVE RecoveryInv'
<1> DEFINE o == Observed(wd, Sampled)
<1>0. WatchdogInv /\ WireInv /\ HostInv /\ BackoffInv /\ WindowInv /\ DetachInv /\ QueueInv
  BY DEF RecoveryInv
<1>s. /\ loop = "service" /\ loop' = "top" /\ wrote' = FALSE
      /\ UNCHANGED <<initialized, mounted, unread, kind, reading, sysexWrote>>
  BY DEF Service
<1>i. /\ Sampled \in Inputs /\ Sampled.known
      /\ Sampled.mounted = mounted /\ Sampled.suspended = suspended
      /\ Sampled.txBlocked = (unread > 0) /\ Sampled.wrote = wrote
      /\ Sampled.pending = (queue # <<>>)
  BY <1>0, SampledIs DEF Sampled
<1>q. QueueInv'
  <2>1. queue' = queue \/ queue' = <<>>
    BY DEF Service, ClearDeferred
  <2>2. CASE queue' = queue
    BY <1>0, <2>2 DEF QueueInv
  <2>3. CASE queue' = <<>>
    BY <2>3, EmptyQueue DEF QueueInv, IsQueue
  <2>4. QED
    BY <2>1, <2>2, <2>3
<1>w. /\ wd \in WdType /\ mounted \in BOOLEAN /\ suspended \in BOOLEAN /\ unread \in 0..Room
      /\ wd.attempts \in 0..MaxAttempts /\ undelivered \in 0..wd.attempts
  BY <1>0 DEF WatchdogInv, WireInv, BackoffInv, WdType
<1>1. CASE StaysDetached
  <2>1. WatchdogInv'
    BY <1>0, <1>1 DEF StaysDetached, WatchdogInv
  <2>2. WireInv'
    BY <1>0, <1>1, <1>s DEF StaysDetached, WatchdogInv, WireInv
  <2>3. HostInv'
    BY <1>0, <1>1, <1>s DEF StaysDetached, WatchdogInv, HostInv
  <2>4. BackoffInv'
    BY <1>0, <1>1 DEF StaysDetached, BackoffInv
  <2>7. WindowInv'
    BY <1>0, <1>1 DEF StaysDetached, WindowInv
  <2>5. DetachInv'
    BY <1>0, <1>1 DEF StaysDetached, DetachInv
  <2>6. QED
    BY <1>q, <2>1, <2>2, <2>3, <2>4, <2>5, <2>7 DEF RecoveryInv
<1>2. CASE Reattaches
  <2>0. /\ wd' \in WdType /\ wd'.phase = "Reattached" /\ wd'.phaseAge = 0
        /\ wd'.inFlight = wd.inFlight
        /\ wd'.hostRead = wd.hostRead /\ wd'.busy = wd.busy /\ wd'.suspended = wd.suspended
        /\ wd'.attempts = wd.attempts /\ wd'.gate = wd.gate
    BY <1>2, <1>w DEF Reattaches, WdType
  <2>1. WatchdogInv'
    BY <1>0, <2>0 DEF WatchdogInv
  <2>2. WireInv'
    BY <1>0, <1>2, <1>s, <2>0 DEF Reattaches, WatchdogInv, WireInv
  <2>3. HostInv'
    BY <1>0, <1>2, <1>s, <2>0 DEF Reattaches, WatchdogInv, HostInv
  <2>4. BackoffInv'
    BY <1>0, <1>2, <2>0 DEF Reattaches, BackoffInv
  <2>7. WindowInv'
    <3>1. lastDetach \in Nat /\ wd.phaseAge \in Nat
      BY <1>0, <1>w DEF BackoffInv, WdType
    <3>2. QED
      BY <1>0, <1>2, <2>0, <3>1, Constants DEF Reattaches, WindowInv
  <2>5. DetachInv'
    BY <1>2, <2>0, Constants DEF Reattaches, DetachInv
  <2>6. QED
    BY <1>q, <2>1, <2>2, <2>3, <2>4, <2>5, <2>7 DEF RecoveryInv
<1> DEFINE armed == mounted /\ (wd.inFlight \/ (~suspended /\ wrote))
           read == armed /\ ~suspended /\ ~(unread > 0)
<1>o. /\ o \in WdType
      /\ o.phase \in {wd.phase, "Normal"}
      /\ ~read => WindowStep(wd, o)
      /\ o.inFlight <=> armed /\ ~read
      /\ o.hostRead <=> read \/ (mounted /\ wd.hostRead)
      /\ read => o.attempts = 0 /\ o.gate = None
      /\ ~read => o.attempts = wd.attempts /\ o.gate = wd.gate
      /\ o.suspended <=> mounted /\ suspended
      /\ o.busy = IF ~(mounted /\ ~suspended /\ unread > 0) THEN None
                  ELSE IF wd.busy = None \/ wrote THEN 0 ELSE wd.busy
  BY <1>w, <1>i, ObservedIs DEF Awake
<1>r. read => undelivered = 0 /\ kind # "deaf"
  BY <1>0, <1>w DEF HostInv
<1> HIDE DEF o
<1>3. CASE StaysAttached(o)
  <2>0. /\ wd' \in WdType /\ wd'.phase = o.phase /\ wd'.phaseAge = o.phaseAge
        /\ wd'.inFlight = o.inFlight
        /\ wd'.hostRead = o.hostRead /\ wd'.busy = o.busy /\ wd'.suspended = o.suspended
        /\ Mode = "Recover" => wd'.attempts = o.attempts /\ wd'.gate = o.gate
        /\ wd.phase # "Detached"
        /\ suspended' \in BOOLEAN /\ (suspended' # suspended => mounted /\ suspended)
        /\ UNCHANGED <<attached, detached, undelivered, lastDetach>>
    BY <1>3 DEF StaysAttached, Quiet
  <2>1. WatchdogInv'
    BY <1>o, <2>0 DEF WatchdogInv
  <2>2. WireInv'
    BY <1>0, <1>o, <1>s, <2>0 DEF WireInv
  <2>3. HostInv'
    BY <1>0, <1>o, <1>r, <1>s, <1>w, <2>0 DEF HostInv
  <2>4. BackoffInv'
    BY <1>0, <1>o, <1>r, <1>w, <2>0 DEF BackoffInv, WdType
  <2>7. WindowInv'
    <3>1. lastDetach \in Nat /\ wd.phaseAge \in Nat
      BY <1>0, <1>w DEF BackoffInv, WdType
    <3>2. QED
      BY <1>0, <1>o, <1>r, <1>w, <2>0, <3>1, Constants DEF WindowInv, WindowStep
  <2>5. DetachInv'
    BY <1>0, <1>o, <2>0 DEF DetachInv
  <2>6. QED
    BY <1>q, <2>1, <2>2, <2>3, <2>4, <2>5, <2>7 DEF RecoveryInv
<1>4. CASE Detaching(o)
  <2>0. /\ wd' \in WdType /\ wd'.phase = "Detached" /\ wd'.phaseAge = 0
        /\ ~wd'.inFlight /\ wd'.hostRead = o.hostRead /\ wd'.busy = None
        /\ wd'.attempts = Min({o.attempts + 1, MaxAttempts}) /\ wd'.gate = 0
        /\ wd'.suspended = o.suspended
        /\ Mode = "Recover" /\ mounted /\ (~suspended => Stalled(o))
        /\ attached' = FALSE /\ detached' = 0
        /\ undelivered' = Min({undelivered + 1, MaxAttempts}) /\ lastDetach' = 0
        /\ suspended' = suspended
    BY <1>4, <1>i DEF Detaching, Cuts
  <2>r. ~read
    BY <1>o, <2>0 DEF Stalled, Is
  <2>1. WatchdogInv'
    BY <2>0 DEF WatchdogInv
  <2>2. WireInv'
    BY <1>0, <1>s, <2>0 DEF WireInv
  <2>3. HostInv'
    BY <1>0, <1>o, <1>s, <2>0, <2>r, Constants DEF HostInv
  <2>4. BackoffInv'
    <3>1. undelivered + 1 \in Int /\ wd.attempts + 1 \in Int /\ MaxAttempts \in Int
      BY <1>w, Constants
    <3>2. /\ undelivered' = IF undelivered + 1 <= MaxAttempts THEN undelivered + 1
                            ELSE MaxAttempts
          /\ wd'.attempts = IF wd.attempts + 1 <= MaxAttempts THEN wd.attempts + 1
                            ELSE MaxAttempts
      BY <1>o, <2>0, <2>r, <3>1, MinIs
    <3>3. undelivered' \in 0..wd'.attempts
      BY <1>w, <3>2, Constants
    <3>4. QED
      BY <2>0, <3>3 DEF BackoffInv
  <2>7. WindowInv'
    BY <2>0 DEF WindowInv
  <2>5. DetachInv'
    <3>1. 0 # None /\ 0 \in Ages
      BY Constants DEF Ages
    <3>2. detached' \in Ages /\ detached' # None /\ detached' <= wd'.phaseAge
      BY <2>0, <3>1
    <3>3. QED
      BY <2>0, <3>2 DEF DetachInv
  <2>6. QED
    BY <1>q, <2>1, <2>2, <2>3, <2>4, <2>5, <2>7 DEF RecoveryInv
<1> QED
  BY <1>1, <1>2, <1>3, <1>4, ServiceSteps DEF o

\* Every step keeps the invariant.
LEMMA StutterKeeps == ASSUME RecoveryInv, UNCHANGED vars PROVE RecoveryInv'
  BY DEF vars, dongleVars, hostVars, ghostVars, RecoveryInv, WatchdogInv, WireInv, HostInv,
         BackoffInv, WindowInv, DetachInv, QueueInv

LEMMA NextKeeps == ASSUME RecoveryInv, [Next]_vars PROVE RecoveryInv'
  BY ArriveKeeps, TopKeeps, DrainKeeps, ServiceKeeps, GoneKeeps, MountKeeps, ReadKeeps,
     StopReadingKeeps, SendToDongleKeeps, SuspendKeeps, ResumeKeeps, UnplugKeeps, PlugKeeps,
     TickKeeps, WriteSysExKeeps, StutterKeeps DEF Next, LoopStep

LEMMA RecoveryInvHolds == Spec => []RecoveryInv
  BY InitInv, NextKeeps, PTL DEF Spec

-----------------------------------------------------------------------------
\* Every variable has its type, and USB is detached exactly while the watchdog and the
\* loop say so (UsbStallWatchdog.h, serviceUsbWatchdog()).
THEOREM RecoveryTyped == Spec => []TypeOK
<1>1. RecoveryInv => TypeOK
  BY DEF RecoveryInv, WatchdogInv, WdType, WireInv, DetachInv, QueueInv, IsQueue, TypeOK
<1> QED
  BY <1>1, RecoveryInvHolds, PTL

\* Only serviceUsbWatchdog() detaches, and only while the host is mounted.
LEMMA OnlyServiceDetaches ==
  ASSUME RecoveryInv, [Next]_vars, Detaches
  PROVE  Service /\ Detaching(Observed(wd, Sampled))
<1>1. Service
  <2>1. attached' # attached
    BY DEF Detaches, RecoveryInv, DetachInv
  <2>2. QED
    BY <2>1 DEF Next, LoopStep, WriteSysEx, Arrive, Top, Drain, Gone, Mount, Read, StopReading,
                SendToDongle, Suspend, Resume, Unplug, Plug, Tick, vars, dongleVars, hostVars,
                ghostVars
<1>2. attached' = FALSE /\ attached = TRUE
  BY DEF Detaches, RecoveryInv, DetachInv
<1>3. ~StaysDetached /\ ~Reattaches /\ ~StaysAttached(Observed(wd, Sampled))
  BY <1>2 DEF StaysDetached, Reattaches, StaysAttached
<1> QED
  BY <1>1, <1>3, ServiceSteps

\* What has made the watchdog detach: the back-off is over, and data wait for a host
\* that is suspended or a host that had read has not for as long as a stall takes.
LEMMA DetachIsDue ==
  ASSUME RecoveryInv, Detaching(Observed(wd, Sampled))
  PROVE  /\ mounted
         /\ wd.gate # None => wd.gate >= BackoffFor(wd.attempts)
         /\ suspended => queue # <<>> \/ wd.hostRead
         /\ ~suspended => /\ wd.hostRead /\ unread > 0 /\ ~wrote
                          /\ wd.busy # None /\ wd.busy >= StallMs
<1> DEFINE o == Observed(wd, Sampled)
           armed == mounted /\ (wd.inFlight \/ (~suspended /\ wrote))
           read == armed /\ ~suspended /\ ~(unread > 0)
<1>1. /\ Sampled \in Inputs /\ Sampled.known
      /\ Sampled.mounted = mounted /\ Sampled.suspended = suspended
      /\ Sampled.txBlocked = (unread > 0) /\ Sampled.wrote = wrote
      /\ Sampled.pending = (queue # <<>>)
  BY SampledIs DEF Sampled, RecoveryInv
<1>2. wd \in WdType
  BY DEF RecoveryInv, WatchdogInv
<1>3. /\ o.hostRead <=> read \/ (mounted /\ wd.hostRead)
      /\ ~read => o.attempts = wd.attempts /\ o.gate = wd.gate
      /\ o.busy = IF ~(mounted /\ ~suspended /\ unread > 0) THEN None
                  ELSE IF wd.busy = None \/ wrote THEN 0 ELSE wd.busy
  BY <1>1, <1>2, ObservedIs DEF Awake
<1>4. /\ mounted
      /\ o.gate # None => o.gate >= BackoffFor(o.attempts)
      /\ suspended => (queue # <<>>) \/ (o.inFlight /\ unread > 0 /\ o.hostRead)
      /\ ~suspended => Stalled(o) /\ o.hostRead
  BY <1>1 DEF Detaching, Cuts, DataWaiting
<1> HIDE DEF o
<1>5. ~suspended => o.busy # None /\ o.busy >= StallMs
  BY <1>4 DEF Stalled, Is
<1>6. ~read
  BY <1>3, <1>5
<1>7. ~suspended => unread > 0 /\ ~wrote /\ wd.busy # None /\ wd.busy >= StallMs
  BY <1>3, <1>4, <1>5, Constants
<1> HIDE DEF read
<1> QED
  BY <1>3, <1>4, <1>6, <1>7

\* Detaches that deliver nothing are further and further apart: neither a bus reset nor a
\* host that was away is taken for one that has read (UsbStallWatchdog.h:94-96).
THEOREM BackoffAlwaysRespected == Spec => BackoffRespected
<1>1. ASSUME RecoveryInv, [Next]_vars, Detaches, undelivered > 0
      PROVE  lastDetach >= BackoffFor(undelivered)
  <2>1. wd.gate # None => wd.gate >= BackoffFor(wd.attempts)
    BY <1>1, OnlyServiceDetaches, DetachIsDue
  <2>2. /\ wd.gate = lastDetach /\ lastDetach \in Nat
        /\ undelivered \in 0..wd.attempts /\ wd.attempts \in 0..MaxAttempts
    BY <1>1 DEF RecoveryInv, WatchdogInv, WdType, BackoffInv
  <2>3. wd.gate # None
    BY <2>2, Constants
  <2>4. /\ BackoffFor(wd.attempts) \in Nat
        /\ BackoffFor(undelivered) <= BackoffFor(wd.attempts)
    BY <2>2, BackoffGrows
  <2>5. BackoffFor(undelivered) \in Nat
    <3>1. undelivered \in 0..MaxAttempts
      BY <2>2, Constants
    <3>2. QED
      BY <3>1, BackoffGrows
  <2>6. QED
    BY <2>1, <2>2, <2>3, <2>4, <2>5
<1> QED
  BY <1>1, RecoveryInvHolds, PTL DEF Spec, BackoffRespected

\* A host that reads what it is sent is not disconnected while the bus is awake, unless
\* SysEx was written since the clock last ticked: without it, what looks like a stall
\* never lasts from one tick of the clock to the next (UsbStallWatchdog.h:28-30).
THEOREM PromptHostAlwaysLeftAlone == Spec => PromptHostIsLeftAlone
<1>1. ASSUME RecoveryInv, [Next]_vars, Detaches, kind = "prompt"
      PROVE  suspended \/ sysexWrote
  <2>1. SUFFICES ASSUME ~suspended, ~sysexWrote PROVE FALSE
    BY DEF RecoveryInv
  <2>2. mounted /\ unread > 0 /\ ~wrote /\ wd.busy # None /\ wd.busy >= StallMs
    BY <1>1, <2>1, OnlyServiceDetaches, DetachIsDue
  <2>3. wd.busy \in {None, 0}
    BY <1>1, <2>1, <2>2 DEF RecoveryInv, HostInv
  <2>4. QED
    BY <2>2, <2>3, Constants
<1> QED
  BY <1>1, RecoveryInvHolds, PTL DEF Spec, PromptHostIsLeftAlone

\* A host on which nothing reads is only disconnected while it is suspended and messages
\* wait for it (UsbStallWatchdog.h:83-87).
THEOREM DeafHostAlwaysLeftAlone == Spec => DeafHostIsLeftAlone
<1>1. ASSUME RecoveryInv, [Next]_vars, Detaches, kind = "deaf"
      PROVE  suspended /\ queue # <<>>
  <2>1. ~wd.hostRead
    BY <1>1 DEF RecoveryInv, HostInv
  <2>2. QED
    BY <1>1, <2>1, OnlyServiceDetaches, DetachIsDue
<1> QED
  BY <1>1, RecoveryInvHolds, PTL DEF Spec, DeafHostIsLeftAlone

\* While nothing was delivered and the recovery may still last, it does.
LEMMA StillRecovering ==
  ASSUME RecoveryInv, undelivered > 0, lastDetach < DetachMs + RecoveryWindowMs
  PROVE  IsRecovering(wd)
<1>1. lastDetach \in Nat /\ wd.phaseAge \in Nat
  BY DEF RecoveryInv, BackoffInv, WatchdogInv, WdType
<1> QED
  BY <1>1, Constants DEF RecoveryInv, WindowInv, IsRecovering

\* Until the host reads again, loop() loses none of the messages that waited when the
\* watchdog detached: neither the disconnect nor their age takes any of them as long as a
\* recovery may take (enomik_dongle.h:357-361, 1214-1220, 1385-1395).
THEOREM WaitingAlwaysSurvives == Spec => WaitingSurvives
<1>1. ASSUME RecoveryInv, [Next]_vars, LoopStep, undelivered > 0,
             lastDetach < DetachMs + RecoveryWindowMs
      PROVE  Len(queue') + unread' - unread >= Len(queue)
  <2>0. /\ QueueInv /\ WireInv /\ WindowInv /\ WatchdogInv /\ HostInv
        /\ Len(queue) \in Nat /\ unread \in Nat
    BY <1>1, Constants DEF RecoveryInv, QueueInv, IsQueue, WireInv
  <2>1. IsRecovering(wd)
    BY <1>1, StillRecovering
  <2>2. CASE Top
    <3>1. queue' = queue /\ unread' = unread
      BY <2>1, <2>2 DEF Top, hostVars
    <3>2. QED
      BY <2>0, <3>1
  <2>3. CASE Drain
    <3>1. CASE ~mounted
      <4>1. queue' = queue /\ unread' = unread
        BY <2>3, <3>1 DEF Drain
      <4>2. QED
        BY <2>0, <4>1
    <3>2. CASE mounted
      <4> DEFINE n == IF suspended THEN 0 ELSE Written(queue)
      <4>1. queue' = SubSeq(queue, n + 1, Len(queue)) /\ unread' = unread + n
        BY <2>1, <2>3, <3>2 DEF Drain, Fresh
      <4>2. n \in Nat /\ n <= Len(queue)
        BY <2>0, Constants DEF Written, WireInv
      <4> HIDE DEF n
      <4>3. queue \in Seq({queue[k] : k \in 1..Len(queue)})
        BY <2>0, QueueIsSeq DEF QueueInv
      <4>4. Len(queue') = Len(queue) - n
        <5>1. \A i \in (n + 1)..Len(queue) : queue[i] \in {queue[k] : k \in 1..Len(queue)}
          BY <2>0, <4>2
        <5>2. Len(queue') = IF n + 1 <= Len(queue) THEN Len(queue) - (n + 1) + 1 ELSE 0
          BY <2>0, <4>1, <4>2, <5>1, SubSeqProperties
        <5>3. QED
          BY <2>0, <4>2, <5>2
      <4>5. QED
        BY <2>0, <4>1, <4>2, <4>4
    <3>3. QED
      BY <3>1, <3>2
  <2>4. CASE Service
    <3>1. unread' = unread
      BY <2>4 DEF Service
    <3> DEFINE t == WatchdogTick(wd, Sampled)
    <3>2. Acted(t) /\ ClearDeferred(t.wd)
      BY <2>4 DEF Service
    <3>3. IsRecovering(wd') <=> IsRecovering(t.wd)
      <4> HIDE DEF t
      <4>1. CASE t.action = "RemoteWakeup"
        <5>1. PICK accepted, resumed \in BOOLEAN :
                wd' = NoteWakeupResult(t.wd, accepted \/ resumed)
          BY <3>2, <4>1 DEF Acted, Wakeup
        <5>2. wd'.phase = t.wd.phase /\ wd'.phaseAge = t.wd.phaseAge
          BY <5>1 DEF NoteWakeupResult
        <5>3. QED
          BY <5>2 DEF IsRecovering
      <4>2. CASE t.action # "RemoteWakeup"
        BY <3>2, <4>2 DEF Acted
      <4>3. QED
        BY <4>1, <4>2
    <3> HIDE DEF t
    <3>4. mounted \/ UNCHANGED <<undelivered, lastDetach>>
      <4>1. Detaching(Observed(wd, Sampled)) => mounted
        BY DEF Detaching, Cuts, Sampled
      <4>2. QED
        BY <1>1, <2>4, <4>1, ServiceSteps DEF StaysDetached, Reattaches, StaysAttached
    <3>5. RecoveryInv'
      BY <1>1, <2>4, ServiceKeeps
    <3>6. ASSUME mounted PROVE queue' = queue
      BY <3>2, <3>6 DEF ClearDeferred
    <3>7. ASSUME ~mounted PROVE queue' = queue
      <4>1. /\ undelivered' > 0 /\ lastDetach' < DetachMs + RecoveryWindowMs
            /\ lastDetach' \in Nat /\ wd'.phaseAge \in Nat
        BY <1>1, <3>4, <3>5, <3>7 DEF RecoveryInv, BackoffInv, WatchdogInv, WdType
      <4>2. IsRecovering(wd')
        BY <3>5, <4>1, Constants DEF RecoveryInv, WindowInv, IsRecovering
      <4>3. QED
        BY <3>2, <3>3, <4>2 DEF ClearDeferred
    <3>8. queue' = queue
      BY <3>6, <3>7
    <3>9. QED
      BY <2>0, <3>1, <3>8
  <2>5. QED
    BY <1>1, <2>2, <2>3, <2>4 DEF LoopStep
<1> QED
  BY <1>1, RecoveryInvHolds, PTL DEF Spec, WaitingSurvives
=============================================================================
