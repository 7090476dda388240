------------------------------- MODULE MCGsm --------------------------------
(***************************************************************************)
(* Gsm for TLC: two codes may wait in the serial port, so that one poll    *)
(* can find both, and one command may be on its way to the modem while     *)
(* the driver goes on.                                                     *)
(***************************************************************************)
EXTENDS Gsm
=============================================================================
