---------------------------- MODULE MCClientConfig ----------------------------
(***************************************************************************)
(* Two pins with three mappings, of which two differ in the threshold only,*)
(* one switch, two firmware builds and two devices of which one can be a   *)
(* peer.                                                                   *)
(***************************************************************************)
EXTENDS ClientConfig, TLC

CONSTANTS p1, p2, note, controller, first, second

Mappings ==
    { [map |-> note, threshold |-> 0], [map |-> note, threshold |-> 1],
      [map |-> controller, threshold |-> 0] }

Builds == <<first, second>>

Symmetry == Permutations(Macs)
=============================================================================
