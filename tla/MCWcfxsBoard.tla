---------------------------- MODULE MCWcfxsBoard -----------------------------
(***************************************************************************)
(* WcfxsBoard for TLC: three cards, each of any kind or missing, any of    *)
(* which may fail, and two opens.                                          *)
(***************************************************************************)
EXTENDS WcfxsBoard
=============================================================================
