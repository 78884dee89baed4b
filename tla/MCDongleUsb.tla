----------------------------- MODULE MCDongleUsb -----------------------------
(* DongleUsb with a note, one controller, clocks and SysEx. *)
EXTENDS DongleUsb

Note == {Message("NoteOn", 60, 100), Message("NoteOff", 60, 0)}

Volume == {Message("ControlChange", 7, 1), Message("ControlChange", 7, 2)}

AllMessages == Note \cup Volume \cup {ClockMessage}

Load(short, msgs, sys, faults) ==
  [short |-> short, msgs |-> msgs, sysex |-> sys, faults |-> faults]

MixedLoads ==
  { Load(4, Note \cup {Message("ControlChange", 7, 1)}, 0, 0),
    Load(3, Volume \cup {ClockMessage}, 0, 1),
    Load(1, Note, 1, 0), Load(0, {}, 2, 1), Load(0, {}, 3, 0) }
==============================================================================
