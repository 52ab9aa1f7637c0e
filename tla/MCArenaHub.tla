----------------------------- MODULE MCArenaHub -----------------------------
(***************************************************************************)
(* ArenaHub for TLC: two players and the public queues of two series       *)
(* lengths of chess, which the fallback may pair.  Three connections give  *)
(* a reload against an opponent, a reload while another connection of the  *)
(* same player is still open, and a second queue entered from the same tab.*)
(***************************************************************************)
EXTENDS ArenaHub

CONSTANTS a, b, q1, q2

OwnAccount == [id \in {a, b} |-> id]

AllChess == [k \in {q1, q2} |-> "chess"]
AllBlitz == [k \in {q1, q2} |-> "blitz"]

=============================================================================
