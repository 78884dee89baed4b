-------------------------- MODULE UsbStallWatchdog --------------------------
(***************************************************************************)
(* UsbStallWatchdog::tick(): finds out that the USB host stopped taking    *)
(* MIDI and says when to wake it, to detach and to attach again.           *)
(*                                                                         *)
(* The state of the watchdog is one record, and tick() the function from   *)
(* it and the inputs to the next state and an action.  A time stamp is     *)
(* replaced by the time since, counted up to the largest value that any    *)
(* comparison tells apart, or None while the code holds it for invalid.    *)
(***************************************************************************)
EXTENDS Integers, FiniteSetsExt

CONSTANTS
  Mode,                \* "Off", "Observe" or "Recover"
  StallMs, WakeRetryMs, DetachMs, HostActiveGuardMs,
  BackoffBaseMs, BackoffMaxMs, RecoveryWindowMs,
  MaxAttempts          \* bound: attempts are counted up to here

Times ==
  {StallMs, WakeRetryMs, DetachMs, HostActiveGuardMs, BackoffBaseMs, BackoffMaxMs,
   RecoveryWindowMs}

\* The wait before the attempt after `n' that delivered nothing.
BackoffFor(n) ==
  IF n <= 1 THEN Min({BackoffBaseMs, BackoffMaxMs})
  ELSE Min({BackoffBaseMs * 2 ^ (n - 1), BackoffMaxMs})

ASSUME WatchdogAssumption ==
  /\ Mode \in {"Off", "Observe", "Recover"}
  /\ Times \subseteq Nat \ {0} /\ MaxAttempts \in Nat \ {0}
  /\ BackoffFor(MaxAttempts) = BackoffMaxMs

\* Arithmetic that the provers do not know of powers of two; TLC evaluates it.
ASSUME BackoffGrows ==
  \A n \in 0..MaxAttempts :
    BackoffFor(n) \in Nat /\ \A m \in 0..n : BackoffFor(m) <= BackoffFor(n)

None == -1

Is(t, min) == t # None /\ t >= min

NewWatchdog ==
  [ phase |-> "Normal", phaseAge |-> 0, hostRx |-> None, inFlight |-> FALSE,
    hostRead |-> FALSE, busy |-> None, suspended |-> FALSE, wake |-> None,
    refused |-> FALSE, reattached |-> FALSE, attempts |-> 0, gate |-> None ]

Inputs ==
  [mounted : BOOLEAN, suspended : BOOLEAN, pending : BOOLEAN, txBlocked : BOOLEAN,
   wrote : BOOLEAN, known : BOOLEAN]

Awake(in) == in.mounted /\ ~in.suspended

IsRecovering(w) ==
  \/ w.phase = "Detached"
  \/ w.phase = "Reattached" /\ w.phaseAge < RecoveryWindowMs

\* One tick of the clock; no comparison looks further than `cap'.
OneMore(t, cap) == IF t = None \/ t >= cap THEN t ELSE t + 1

AgedWatchdog(w) ==
  [w EXCEPT !.phaseAge = IF w.phase = "Normal" THEN 0
                         ELSE OneMore(@, Max({DetachMs, RecoveryWindowMs})),
            !.hostRx = OneMore(@, HostActiveGuardMs), !.busy = OneMore(@, StallMs),
            !.wake = OneMore(@, WakeRetryMs), !.gate = OneMore(@, BackoffMaxMs)]

NoteHostRx(w) == [w EXCEPT !.hostRx = 0]

NoteWakeupResult(w, accepted) == [w EXCEPT !.refused = @ \/ ~accepted]

-----------------------------------------------------------------------------
\* The steps of tick(), in their order.

EndWindow(w) ==
  IF w.phase = "Reattached" /\ w.phaseAge >= RecoveryWindowMs
  THEN [w EXCEPT !.phase = "Normal", !.phaseAge = 0] ELSE w

HostRecentlyActive(w) == w.hostRx # None /\ w.hostRx < HostActiveGuardMs

ExpireHostRx(w) == IF HostRecentlyActive(w) THEN w ELSE [w EXCEPT !.hostRx = None]

\* Seeded fault: what a bus reset took from the endpoint counts as read.
NoteUnmountedKeepsInFlight(w, in) ==
  IF in.mounted THEN w ELSE [w EXCEPT !.hostRead = FALSE]

NoteUnmounted(w, in) ==
  IF in.mounted THEN w ELSE [w EXCEPT !.inFlight = FALSE, !.hostRead = FALSE]

NoteWrite(w, in) ==
  [w EXCEPT !.inFlight = @ \/ (Awake(in) /\ in.wrote)]

\* The endpoint that was armed is free again: the host has read.
Delivered(w, in) == Awake(in) /\ in.known /\ w.inFlight /\ ~in.txBlocked

NoteDelivery(w, in) ==
  IF Delivered(w, in)
  THEN [w EXCEPT !.inFlight = FALSE, !.hostRead = TRUE, !.attempts = 0, !.gate = None,
                 !.phase = "Normal", !.phaseAge = 0]
  ELSE w

\* The marks of a suspension are set back when the next one begins; they mean
\* nothing between the two.
TrackSuspend(w, in) ==
  IF w.suspended /\ in.mounted /\ in.suspended THEN w
  ELSE [w EXCEPT !.suspended = in.mounted /\ in.suspended, !.wake = None,
                 !.refused = FALSE, !.reattached = FALSE]

\* Seeded fault: an endpoint that was read does not end the stall.
TrackBusyKeeps(w, in) ==
  IF Awake(in) /\ in.txBlocked /\ (w.busy = None \/ in.wrote) THEN [w EXCEPT !.busy = 0]
  ELSE w

\* Seeded fault: the clock of a stall starts again with every tick.
TrackBusyRestarts(w, in) ==
  [w EXCEPT !.busy = IF Awake(in) /\ in.txBlocked THEN 0 ELSE None]

TrackBusy(w, in) ==
  [w EXCEPT !.busy = IF ~(Awake(in) /\ in.txBlocked) THEN None
                     ELSE IF @ = None \/ in.wrote THEN 0 ELSE @]

GateOpen(w) == w.gate # None => w.gate >= BackoffFor(w.attempts)

StartReattach(w) ==
  LET counted == [w EXCEPT !.attempts = Min({@ + 1, MaxAttempts}), !.gate = 0]
  IN  IF Mode # "Recover" THEN [wd |-> counted, action |-> "None"]
      ELSE [wd |-> [counted EXCEPT !.phase = "Detached", !.phaseAge = 0,
                                   !.inFlight = FALSE, !.busy = None],
            action |-> "Detach"]

DataWaiting(w, in) == in.pending \/ (w.inFlight /\ in.txBlocked /\ w.hostRead)

TriesWakeup(w) == w.wake = None \/ (~w.refused /\ w.wake >= WakeRetryMs)

TickSuspended(w, in) ==
  IF ~DataWaiting(w, in) THEN [wd |-> w, action |-> "None"]
  ELSE IF TriesWakeup(w) THEN [wd |-> [w EXCEPT !.wake = 0], action |-> "RemoteWakeup"]
  ELSE IF Mode # "Off" /\ w.refused /\ ~w.reattached /\ GateOpen(w)
  THEN StartReattach([w EXCEPT !.reattached = TRUE])
  ELSE [wd |-> w, action |-> "None"]

Stalled(w) == Is(w.busy, StallMs)

\* Seeded fault: a host that never read is re-attached as well.
TickAwakeUnread(w, in) ==
  IF Stalled(w) /\ Mode # "Off" /\ in.known /\ ~HostRecentlyActive(w) /\ GateOpen(w)
  THEN StartReattach(w)
  ELSE [wd |-> w, action |-> "None"]

TickAwake(w, in) ==
  IF Stalled(w) /\ Mode # "Off" /\ in.known /\ w.hostRead /\ ~HostRecentlyActive(w)
                /\ GateOpen(w)
  THEN StartReattach(w)
  ELSE [wd |-> w, action |-> "None"]

\* Seeded fault: the time of the detach is taken again with every tick.
TickDetachedRestamps(w) ==
  IF w.phaseAge >= DetachMs
  THEN [wd |-> [w EXCEPT !.phase = "Reattached", !.phaseAge = 0], action |-> "Attach"]
  ELSE [wd |-> [w EXCEPT !.phaseAge = 0], action |-> "None"]

TickDetached(w) ==
  IF w.phaseAge >= DetachMs
  THEN [wd |-> [w EXCEPT !.phase = "Reattached", !.phaseAge = 0], action |-> "Attach"]
  ELSE [wd |-> w, action |-> "None"]

\* What the tick notes before it decides.
Observed(w, in) ==
  LET noted == NoteDelivery(
                 NoteWrite(NoteUnmounted(ExpireHostRx(EndWindow(w)), in), in), in)
  IN  TrackBusy(TrackSuspend(noted, in), in)

WatchdogTick(w, in) ==
  IF w.phase = "Detached" THEN TickDetached(w)
  ELSE LET o == Observed(w, in)
       IN  IF ~in.mounted THEN [wd |-> o, action |-> "None"]
           ELSE IF in.suspended THEN TickSuspended(o, in)
           ELSE TickAwake(o, in)
=============================================================================
