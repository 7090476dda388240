--------------------------- MODULE MCWcfxsProslic ---------------------------
(***************************************************************************)
(* WcfxsProslic for TLC: every way to fit four cards with FXS and FXO      *)
(* chips.  The vector of card 0 shares its words with the counters of      *)
(* cards 0 to 2, that of card 1 one word with the counter of card 3; the   *)
(* vectors of the others share none.                                       *)
(***************************************************************************)
EXTENDS WcfxsProslic
=============================================================================
