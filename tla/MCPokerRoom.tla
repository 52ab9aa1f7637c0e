----------------------------- MODULE MCPokerRoom -----------------------------
(***************************************************************************)
(* PokerRoom for TLC: two hands with short stacks.                         *)
(***************************************************************************)
EXTENDS PokerRoom

BothModes == {"holdem", "five-card-draw"}

=============================================================================
