-------------------------------- MODULE IoPins --------------------------------
(***************************************************************************)
(* An input pin of a client (src/include/enomik_io.h): the debounced       *)
(* switch, the smoothed analog input and the touch pad, sampled by every   *)
(* call of loop().                                                         *)
(*                                                                         *)
(* The pin has one of the three modes from the start.  Calls of loop() are *)
(* up to MaxGap ticks apart, and the clock is kept as the time since the   *)
(* moments that the code stores.  Readings, MIDI values and percentages    *)
(* are coarse: the floating-point averages move by one step of the grid    *)
(* per sample.                                                             *)
(*                                                                         *)
(* The names of the specification begin with Pin: Client_proofs extends    *)
(* this module beside ClientConfig.                                        *)
(***************************************************************************)
EXTENDS Integers

CONSTANTS
    Modes,        \* the modes to consider, of "switch", "analog" and "touch"
    Debounce,     \* DEBOUNCE_MS
    MinInterval,  \* ANALOG_MIN_INTERVAL
    MaxGap,       \* bound: ticks between two calls of loop()
    AdcMax,       \* ADC_MAX_VALUE
    SpikeLimit,   \* ANALOG_SPIKE_LIMIT
    SpikeConfirm, \* ANALOG_SPIKE_CONFIRM
    MidiMax,      \* 127
    Snap,         \* ANALOG_ENDPOINT_SNAP
    Touches,      \* readings of a touch pad, the least of them untouched
    MinPeakPct,   \* TOUCH_MIN_PEAK_PCT
    Thresholds,   \* touch thresholds in percent; 0 is continuous mode
    CrossTuning   \* whether the host also changes between 0 and another threshold

ASSUME PinAssumption ==
    /\ Modes \subseteq {"switch", "analog", "touch"}
    /\ {Debounce, MinInterval, MaxGap, AdcMax, SpikeLimit, SpikeConfirm, MidiMax} \subseteq Nat \ {0}
    /\ {Snap, MinPeakPct} \subseteq Nat /\ MidiMax > 2 * Snap
    /\ Touches \subseteq Nat \ {0} /\ Thresholds \subseteq 0..127
    /\ CrossTuning \in BOOLEAN

VARIABLES
    mode, threshold,
    position,  \* where the switch, the knob or the finger is
    reading,   \* what the pin reads: the position, or a dropout
    dropout,   \* dropped samples since the last good one; 1 after a move
    pin        \* the PinState; "soon": a value was sent too soon after another

pinVars == <<mode, threshold, position, reading, dropout, pin>>

None == -1
Low == 0
High == MidiMax

Least(S) == CHOOSE x \in S : \A y \in S : x <= y
Greater(a, b) == IF a > b THEN a ELSE b
Distance(a, b) == IF a < b THEN b - a ELSE a - b
After(age, dt, cap) == IF age + dt > cap THEN cap ELSE age + dt
LongAgo == Greater(Debounce, MinInterval)

Positions ==
    IF mode = "switch" THEN {0, 1} ELSE IF mode = "analog" THEN 0..AdcMax ELSE Touches

(* A new PinState; calibrateTouch() measures the untouched reading. *)
Fresh == [last |-> None, raw |-> None, changed |-> LongAgo, sent |-> LongAgo, smooth |-> 0,
          spikes |-> 0, touched |-> FALSE, base |-> IF mode = "touch" THEN reading ELSE 0,
          peak |-> 0, soon |-> FALSE]

PinInit ==
    /\ mode \in Modes
    /\ threshold \in (IF mode = "touch" THEN Thresholds ELSE {0})
    /\ position \in Positions /\ reading = position /\ dropout = 0
    /\ pin = Fresh
------------------------------------------------------------------------------
(* processPinInput(): a value to send is remembered with the time. *)
Sends(p, value) ==
    [p EXCEPT !.last = value, !.sent = 0, !.soon = p.last # None /\ p.sent < Debounce]

Aged(dt) == [pin EXCEPT !.changed = After(@, dt, LongAgo), !.sent = After(@, dt, LongAgo)]

(* processDigitalInput(): every flip starts the time again in which the    *)
(* level has to be stable; the first level is sent at once.                *)
LevelUntimed(p) == [p EXCEPT !.raw = reading]                       \* seeded fault

Level(p) == IF reading # p.raw THEN [p EXCEPT !.raw = reading, !.changed = 0] ELSE p

Switch(p) ==
    IF (p.last = None \/ p.changed >= Debounce) /\ reading # p.last
    THEN Sends(p, reading) ELSE p

(* The averages in which the newest sample has little weight, truncated to *)
(* integers.  One that comes from below reaches the reading late or never, *)
(* as the rounding of float has it; it never overshoots or goes back.      *)
Averages(s, x) ==
    IF s < x - 1 THEN {s + 1} ELSE IF s > x THEN {s - 1} ELSE {s, x}

(* updateSmoothedAnalog(): a sample far from the average only counts when  *)
(* the next ones are far from it as well.                                  *)
Far(p) == p.last # None /\ Distance(reading, p.smooth) > SpikeLimit
Spike(p) == Far(p) /\ p.spikes + 1 < SpikeConfirm

Followed(p) == IF p.last = None \/ Far(p) THEN {reading} ELSE Averages(p.smooth, reading)

UpdateKeepsCount(p) ==                                              \* seeded fault
    IF Spike(p) THEN {[p EXCEPT !.spikes = @ + 1]}
    ELSE {[p EXCEPT !.spikes = IF Far(p) THEN 0 ELSE @, !.smooth = s] : s \in Followed(p)}

Update(p) ==
    IF Spike(p) THEN {[p EXCEPT !.spikes = @ + 1]}
    ELSE {[p EXCEPT !.spikes = 0, !.smooth = s] : s \in Followed(p)}

SnapToLow(v) == IF v <= Snap THEN 0 ELSE v                          \* seeded fault

SnapToEndpoints(v) == IF v <= Snap THEN 0 ELSE IF v >= MidiMax - Snap THEN MidiMax ELSE v
Scaled(x) == SnapToEndpoints((x * MidiMax) \div AdcMax)

SendIfDue(p, value) ==
    IF value # p.last /\ p.sent >= MinInterval THEN Sends(p, value) ELSE p

Analog(p) ==
    IF Spike(p) THEN Update(p) ELSE {SendIfDue(q, Scaled(q.smooth)) : q \in Update(p)}
------------------------------------------------------------------------------
(* processTouchInput(): the change from the untouched reading, in percent, *)
(* and the untouched reading that follows slow drift while it is small.    *)
Delta(p) == IF reading > p.base THEN reading - p.base ELSE 0
Percent(p) == (Delta(p) * 100) \div p.base
DriftLimit == IF threshold > 0 THEN threshold \div 2 ELSE MinPeakPct \div 2

Drifts(p) ==
    IF p.touched \/ Percent(p) > DriftLimit THEN {p}
    ELSE {p, [p EXCEPT !.base = IF reading > @ THEN @ + 1 ELSE IF reading < @ THEN @ - 1 ELSE @]}

(* Continuous mode: normalised to the strongest touch seen. *)
Peak(p, s, base) ==
    LET least == Greater((base * MinPeakPct) \div 100, 1)
    IN  Greater(Greater(p.peak, least), s)

Pressure(p, q, s) ==
    LET peak == Peak(p, s, p.base)
    IN  SendIfDue([q EXCEPT !.smooth = s, !.peak = peak], SnapToEndpoints((s * MidiMax) \div peak))

(* Threshold mode: on at the threshold, off below three quarters of it. *)
ReleaseAt == Greater((threshold * 3) \div 4, 1)
Touched(p) == Percent(p) >= (IF p.touched THEN ReleaseAt ELSE threshold)

Pad(p, q) ==
    IF Touched(p) # p.touched /\ p.changed >= Debounce
    THEN Sends([q EXCEPT !.changed = 0, !.touched = Touched(p)], IF Touched(p) THEN High ELSE Low)
    ELSE q

Touch(p) ==
    IF threshold # 0 THEN {Pad(p, q) : q \in Drifts(p)}
    ELSE {Pressure(p, q, s) : q \in Drifts(p), s \in IF p.last = None THEN {Delta(p)}
                                                     ELSE Averages(p.smooth, Delta(p))}

Process(p) ==
    IF mode = "switch" THEN {Switch(Level(p))}
    ELSE IF mode = "analog" THEN Analog(p) ELSE Touch(p)
------------------------------------------------------------------------------
(* A call of loop(), dt ticks after the one before.  The wiper of a knob    *)
(* that has lost contact has it again before a jump would be confirmed.     *)
Loop(dt) ==
    /\ reading # position => dropout + 1 < SpikeConfirm
    /\ pin' \in Process(Aged(dt))
    /\ dropout' = IF reading # position THEN dropout + 1 ELSE 0
    /\ UNCHANGED <<mode, threshold, position, reading>>

(* SET_PIN_CONFIG that changes the threshold only keeps the state of the   *)
(* pin; any other starts it anew, and its first reading counts as it is:   *)
(* the wiper is assumed to have contact then.                              *)
SetThreshold(t) ==
    /\ mode = "touch" /\ t # threshold
    /\ CrossTuning \/ (t = 0 <=> threshold = 0)
    /\ threshold' = t
    /\ UNCHANGED <<mode, position, reading, dropout, pin>>

Reconfigure ==
    /\ reading = position
    /\ pin' = Fresh
    /\ UNCHANGED <<mode, threshold, position, reading, dropout>>

(* Somebody moves the switch, the knob or the finger. *)
Move(x) ==
    /\ position' = x /\ reading' = x /\ dropout' = 1
    /\ UNCHANGED <<mode, threshold, pin>>

(* The wiper of a knob at rest, read where it is, loses contact: what is   *)
(* read then is far off.                                                   *)
Dropout(x) ==
    /\ mode = "analog" /\ reading = position /\ dropout = 0
    /\ pin.last # None
    /\ Distance(position, pin.smooth) <= SpikeLimit /\ Distance(x, pin.smooth) > SpikeLimit
    /\ reading' = x
    /\ UNCHANGED <<mode, threshold, position, dropout, pin>>

Contact ==
    /\ reading # position
    /\ reading' = position
    /\ UNCHANGED <<mode, threshold, position, dropout, pin>>

PinNext ==
    \/ \E dt \in 0..MaxGap : Loop(dt)
    \/ \E x \in Positions : Move(x) \/ Dropout(x)
    \/ Contact
    \/ \E t \in Thresholds : SetThreshold(t)
    \/ Reconfigure

(* loop() is called again and again, also between two changes of contact,  *)
(* time passes, and a lost contact comes back.                             *)
PinFairness ==
    /\ SF_pinVars(\E dt \in 1..MaxGap : Loop(dt))
    /\ WF_pinVars(Contact)

PinSpec == PinInit /\ [][PinNext]_pinVars /\ PinFairness
------------------------------------------------------------------------------
PinTypeOK ==
    /\ mode \in Modes /\ threshold \in Thresholds \union {0}
    /\ position \in Positions /\ reading \in Positions /\ dropout \in 0..SpikeConfirm
    /\ pin.last \in -1..Greater(MidiMax, 1) /\ {pin.changed, pin.sent} \subseteq 0..LongAgo
    /\ pin.spikes \in 0..SpikeConfirm - 1 /\ {pin.touched, pin.soon} \subseteq BOOLEAN

(* However a contact bounces, its changes are sent no closer together than *)
(* the debounce time; the first level after a configuration is free.       *)
BouncesAreOnePress == mode = "switch" => ~pin.soon

(* A knob at rest whose value was sent, perhaps of the reading below its   *)
(* own, sends at most that of its own and nothing after it, whatever its   *)
(* wiper drops, how often, and however long it rests.                      *)
Settled ==
    /\ mode = "analog" /\ pin.smooth \in {position - 1, position}
    /\ pin.last \in {Scaled(position - 1), Scaled(pin.smooth)}

SettlesOnce ==
    [][Settled /\ UNCHANGED position
         => \/ pin'.last = None
            \/ Settled' /\ pin'.last \in {pin.last, Scaled(position)}]_pinVars

(* What the receiver has in the end is right: the level of the switch, the *)
(* value of the knob, both ends exactly and elsewhere up to one step, and  *)
(* off for a pad that nobody touches, whichever threshold the host has set *)
(* meanwhile.                                                              *)
Right(x) ==
    IF mode = "switch" THEN {x}
    ELSE IF mode = "touch" THEN IF x = Least(Touches) THEN {Low} ELSE Low..High
    ELSE IF x = 0 THEN {0} ELSE IF x = AdcMax THEN {MidiMax} ELSE {Scaled(x - 1), Scaled(x)}

RestIsSent ==
    <>[][UNCHANGED position]_pinVars =>
        /\ <>[](pin.last \in Right(position) \union {None})
        /\ []<>(mode = "touch" \/ pin.last \in Right(position))
=============================================================================
