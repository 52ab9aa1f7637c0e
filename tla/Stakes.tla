------------------------------- MODULE Stakes -------------------------------
(***************************************************************************)
(* What heads-up poker promises about chips, whatever the streets, turns,  *)
(* raises and cards: a hand starts with forced bets, then somebody may put *)
(* in more or give up, and in the end unmatched chips go back and the      *)
(* better hand takes the rest.  PokerTable implements it.                  *)
(***************************************************************************)
EXTENDS Integers

CONSTANTS StartingStack, SmallBlind, BigBlind

VARIABLE hand   \* chips behind and chips at stake of each player, and whether
                \* the hand is still open

Players == {0, 1}
Opponent(i) == 1 - i

Smaller(a, b) == IF a <= b THEN a ELSE b

Open(behind, stake) == [behind |-> behind, stake |-> stake, open |-> TRUE]
Closed(chips)       == [behind |-> chips, stake |-> [i \in Players |-> 0], open |-> FALSE]

\* Who may have the best hand.
Winners == {{0}, {1}, {0, 1}}

\* What stakes are worth to player i when w have the best hand.
Worth(stake, w, i) ==
  LET matched == Smaller(stake[0], stake[1])
  IN  (stake[i] - matched)
        + (IF i \notin w THEN 0 ELSE IF w = Players THEN matched ELSE 2 * matched)

Compared(behind, stake, w) == [i \in Players |-> behind[i] + Worth(stake, w, i)]

\* Hands are compared when nobody has put in less than the other for want of will.
Answered(behind, stake) ==
  \A i \in Players : stake[i] >= stake[Opponent(i)] \/ behind[i] = 0

-----------------------------------------------------------------------------

\* The blinds, either way round, or two antes.
Forced ==
  {[i \in Players |-> IF i = d THEN SmallBlind ELSE BigBlind] : d \in Players}
    \cup {[i \in Players |-> SmallBlind]}

\* Who has fewer chips than the forced bet puts in what there is.
Posted(forced, chips) == [i \in Players |-> Smaller(forced[i], chips[i])]
Behind(forced, chips) == [i \in Players |-> chips[i] - Posted(forced, chips)[i]]

\* A hand that starts is at once over only if the bets took somebody's last chip.
Started(behind, stake) ==
  {Open(behind, stake)}
    \cup {Closed(Compared(behind, stake, w)) :
            w \in {v \in Winners : \E i \in Players : behind[i] = 0}}

Openings(chips) ==
  UNION {Started(Behind(forced, chips), Posted(forced, chips)) : forced \in Forced}

NewChips == [i \in Players |-> StartingStack]

Init == hand \in Openings(NewChips)

\* Once somebody is bust both start over.
Start ==
  /\ ~ hand.open
  /\ hand' \in Openings(IF \E i \in Players : hand.behind[i] = 0 THEN NewChips ELSE hand.behind)

\* Player i puts in n more, which may settle the hand.
PutIn(i, n) ==
  LET behind == [hand.behind EXCEPT ![i] = @ - n]
      stake  == [hand.stake EXCEPT ![i] = @ + n]
  IN  /\ hand.open
      /\ \/ hand' = Open(behind, stake)
         \/ /\ Answered(behind, stake)
            /\ \E w \in Winners : hand' = Closed(Compared(behind, stake, w))

GiveUp(i) ==
  /\ hand.open
  /\ hand' = Closed([hand.behind EXCEPT ![Opponent(i)] = @ + hand.stake[0] + hand.stake[1]])

Next ==
  \/ Start
  \/ \E i \in Players :
       \/ \E n \in 0 .. hand.behind[i] : PutIn(i, n)
       \/ GiveUp(i)

Spec == Init /\ [][Next]_hand

=============================================================================
