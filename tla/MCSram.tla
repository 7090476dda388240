------------------------------- MODULE MCSram -------------------------------
(* A bank of four words and one byte with four slots: splits run out of slots, *)
(* pieces are freed in every order, and a rest that is no whole word occurs.   *)
EXTENDS Sram
=============================================================================
