---------------------------- MODULE MCUsbRecovery ----------------------------
(* UsbRecovery as it is: every constant is a number. *)
EXTENDS UsbRecovery
==============================================================================
