----------------------------- MODULE MCZtChannel -----------------------------
(***************************************************************************)
(* One channel with a program that reads or waits for several things and   *)
(* one that writes or waits for its blocks to be sent.                     *)
(***************************************************************************)
EXTENDS ZtChannel
=============================================================================
