---------------------------- MODULE MCMidiRoutes ----------------------------
EXTENDS MidiRoutes

Call(status, channel, a, b) == [status |-> status, channel |-> channel, a |-> a, b |-> b]

(* Every kind of message, with the ends of its ranges. *)
EveryKind ==
    {Call(s, 16, 127, 127) : s \in Voice \ OneByte} \cup {Call(s, 16, 127, 0) : s \in OneByte}
    \cup {Call(NoteOn, 1, 60, 0), Call(ControlChange, 9, 0, 1)}
    \cup {Call(PitchBend, c, v, 0) : c \in {1, 16}, v \in {-8192, -1, 0, 8191}}
    \cup {Call(SongPosition, 0, v, 0) : v \in {0, 128, 16383}}
    \cup {Call(SongSelect, 0, 127, 0), Call(TimeCode, 0, 127, 0)}
    \cup {Call(s, 0, 0, 0) : s \in RealTime \cup {TuneRequest, ActiveSensing, SystemReset}}
    \cup {Call(SysEx, 0, k, 0) : k \in {Vendor, Config, Announce}}
=============================================================================
