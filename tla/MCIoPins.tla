------------------------------- MODULE MCIoPins -------------------------------
(***************************************************************************)
(* Every mode of an input pin on a coarse grid: an analog range of twelve  *)
(* steps and five MIDI values, a pad with an untouched reading, a light    *)
(* and a firm touch, continuous mode and two thresholds.                   *)
(***************************************************************************)
EXTENDS IoPins
=============================================================================
