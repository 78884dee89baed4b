---------------------------- MODULE MidiPriority ----------------------------
(***************************************************************************)
(* How an outgoing packet is classified before it waits in the send queue  *)
(* of esp_now_midi.  A packet is the sequence of its bytes: one to three   *)
(* bytes are a MIDI message, anything longer is a SysEx transport frame.   *)
(***************************************************************************)
EXTENDS Naturals, Sequences

Byte == 0..255

Packet == Seq(Byte)

Priorities == {"Low", "Normal", "High"}

(* The status byte without its channel: status & 0xF0. *)
StatusKind(status) == status - (status % 16)

NoteOff == 128
NoteOn == 144
PolyAftertouch == 160
ControlChange == 176
ChannelAftertouch == 208
PitchBend == 224
Clock == 248
Stop == 252
ActiveSensing == 254
Reset == 255

IsShort(data) == Len(data) \in 1..3

(* Controllers whose order matters (bank select, RPN and NRPN data entry)  *)
(* or whose every value matters (switches, channel mode).                  *)
IsOrderedController(cc) ==
    cc \in {0, 6, 32, 38} \cup 64..69 \cup 96..101 \/ cc >= 120

IsSwitchController(cc) == cc \in 64..69 \/ cc >= 120

(* What ends a sound, or everything: never refused while a slot is free. *)
Silences(data) ==
    \/ StatusKind(data[1]) = NoteOff
    \/ StatusKind(data[1]) = NoteOn /\ Len(data) >= 3 /\ data[3] = 0
    \/ StatusKind(data[1]) = ControlChange /\ Len(data) >= 2 /\ IsSwitchController(data[2])
    \/ data[1] \in {Stop, Reset}

(* One of many values of something that moves: the first to be refused. *)
IsStream(data) ==
    \/ StatusKind(data[1]) \in {PolyAftertouch, ChannelAftertouch, PitchBend}
    \/ /\ StatusKind(data[1]) = ControlChange
       /\ Len(data) < 2 \/ ~IsOrderedController(data[2])
    \/ data[1] \in {Clock, ActiveSensing}

Classify(data) ==
    IF ~IsShort(data) THEN "Normal"
    ELSE IF Silences(data) THEN "High"
    ELSE IF IsStream(data) THEN "Low"
    ELSE "Normal"

(* Whether the waiting message `queued' can be replaced by `data': the    *)
(* same status byte and, for controllers and poly aftertouch, the same    *)
(* number.                                                                *)
Replaces(data, queued) ==
    /\ Len(data) = Len(queued)
    /\ Len(data) >= 2
    /\ data[1] = queued[1]
    /\ \/ StatusKind(data[1]) \in {ChannelAftertouch, PitchBend}
       \/ StatusKind(data[1]) = PolyAftertouch /\ data[2] = queued[2]
       \/ /\ StatusKind(data[1]) = ControlChange
          /\ data[2] = queued[2]
          /\ ~IsOrderedController(data[2])
=============================================================================
