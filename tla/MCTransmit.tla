----------------------------- MODULE MCTransmit -----------------------------
(***************************************************************************)
(* Sets for the instances of Transmit.                                     *)
(***************************************************************************)
EXTENDS Transmit

Nobody == {{}}
Anybody == SUBSET Mac

NoEvents == {}
=============================================================================
