----------------------------- MODULE MCPokerHub -----------------------------
(***************************************************************************)
(* PokerHub for TLC: two players, the public hold'em queue and a private   *)
(* code that is asked for with either mode, three connections: a table and *)
(* a reload, a spectator, a second tab, or a player moving on.             *)
(***************************************************************************)
EXTENDS PokerHub

CONSTANTS a, b

OwnAccount == [id \in {a, b} |-> id]

Requests == {[mode |-> "holdem", invite |-> "none"],
             [mode |-> "holdem", invite |-> "code"],
             [mode |-> "draw",   invite |-> "code"]}

=============================================================================
