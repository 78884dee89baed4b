---------------------------- MODULE MCSysExLink ----------------------------
(* SysExLink with numbered slots and frames of other programs. *)
EXTENDS SysExLink, TLC

Symmetric == Permutations(Devices)

Header(seq, total, len, first, last, payload) ==
  [ msg |-> MaxMsgs + 1, seq |-> seq, total |-> total, len |-> len,
    first |-> first, last |-> last, payload |-> payload ]

\* The header of a message that is longer than the buffer.
OtherPrograms == { Header(0, 5, 1025, TRUE, FALSE, 240) }
=============================================================================
