----------------------------- MODULE MCWcfxsFxo -----------------------------
(***************************************************************************)
(* WcfxsFxo with the counters of the code scaled down: four ringing polls  *)
(* fill the ring counter and eight empty it, three change the battery.     *)
(* The readings are dead, at the threshold and both signs of a fed line.   *)
(***************************************************************************)
EXTENDS WcfxsFxo

MCVolts == {-4, 0, 3, 4}
=============================================================================
