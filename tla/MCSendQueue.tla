----------------------------- MODULE MCSendQueue -----------------------------
(***************************************************************************)
(* The send queue with the smallest rings the code allows (eight short     *)
(* slots, one frame slot) and the smallest range of sequence numbers that  *)
(* is still twice the slots, so that every run wraps.                      *)
(***************************************************************************)
EXTENDS SendQueue

To(mac, data) == [mac |-> mac, data |-> data, flags |-> 0]

NoteOffMsg == <<128, 60, 0>>
Volume(v) == <<176, 7, v>>
Frame == <<240, 0, 0, 0>>

(* The highest and the lowest priority: two values and a probe with the    *)
(* same controller, a message that they may not overtake, a frame and a    *)
(* longer one than a slot holds.                                           *)
TargetCalls ==
    { To("m1", NoteOffMsg), To("m1", Volume(1)), To("m1", Volume(2)),
      [To("m1", Volume(1)) EXCEPT !.flags = 1],
      To("m1", Frame), To("m1", Frame \o <<0>>) }
=============================================================================
