----------------------------- MODULE WcfxsCards ------------------------------
(***************************************************************************)
(* The cards of a board, which the register bus and the driver's life have *)
(* in common.                                                              *)
(***************************************************************************)
EXTENDS Integers

CONSTANT
  NUM_CARDS     \* the cards on the board

ASSUME CardsAssumption == NUM_CARDS \in Nat \ {0}

Cards == 0 .. NUM_CARDS - 1
=============================================================================
