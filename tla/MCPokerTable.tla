---------------------------- MODULE MCPokerTable ----------------------------
(***************************************************************************)
(* PokerTable for TLC: stacks of a few big blinds, so that short blinds,   *)
(* short calls, under-raises by all-in, split and refunded pots and        *)
(* busted players all occur within a couple of hands.                      *)
(*                                                                         *)
(* The ranking of hands, a choice in PokerTable, is checked here against   *)
(* what is known of all hands of the deck.                                 *)
(***************************************************************************)
EXTENDS PokerTable, FiniteSets, FiniteSetsExt

BothModes == {"holdem", "five-card-draw"}

Hands == INSTANCE PokerHands

\* The ranks of five cards of the deck, in order.
RankLists == {v \in [1..5 -> 2..14] : (\A i \in 1..4 : v[i] <= v[i + 1]) /\ v[1] # v[5]}

Distinct(v) == \A i \in 1..4 : v[i] # v[i + 1]

\* Hands with these ranks: a flush, and one that is none, where cards of one rank
\* have the suits in turn and the last of five ranks another suit than the others.
Suited(v) == {[rank |-> v[i], suit |-> "s"] : i \in 1..5}

Offsuit(v) ==
  LET copy(i) == Cardinality({j \in 1..i : v[j] = v[i]})
      suit(i) == IF Distinct(v) /\ i = 5 THEN "h" ELSE <<"s", "h", "d", "c">>[copy(i)]
  IN  {[rank |-> v[i], suit |-> suit(i)] : i \in 1..5}

\* How many hands of the deck have these ranks: so many ways to choose the suits.
Ways(v) ==
  LET suits(r) == <<4, 6, 4, 1>>[Cardinality({i \in 1..5 : v[i] = r})]
  IN  FoldSet(LAMBDA r, n : n * suits(r), 1, {v[i] : i \in 1..5})

\* What the rules of poker tell apart: the ranks, and whether the hand is a flush.
Kinds ==
  {[value |-> Hands!EvaluateFive(Suited(v)), ranks |-> v, flush |-> TRUE, ways |-> 4] :
     v \in {u \in RankLists : Distinct(u)}}
  \cup
  {[value |-> Hands!EvaluateFive(Offsuit(v)), ranks |-> v, flush |-> FALSE,
    ways |-> Ways(v) - IF Distinct(v) THEN 4 ELSE 0] : v \in RankLists}

Straights == {{14, 2, 3, 4, 5}} \cup {h - 4 .. h : h \in 6..14}

\* Every kind of hand has a rank and no two the same, hands of a higher category are rarer
\* than those of the next lower one, and the straights are straights.
ASSUME RarerHandsWin ==
  LET kinds    == Kinds
      of(c, n) == {k \in kinds : k.value.category = c /\ k.ways = n}
      hands(c) == MapThenSumSet(LAMBDA n : n * Cardinality(of(c, n)), {k.ways : k \in kinds})
  IN  /\ \A k \in kinds : k.value \in Hands!HandRanks
      /\ Cardinality({k.value : k \in kinds}) = Cardinality(kinds)
      /\ \A c \in 1..8 : 0 < hands(c) /\ hands(c) < hands(c - 1)
      /\ \A k \in kinds : {k.ranks[i] : i \in 1..5} \in Straights <=> k.value.category \in {4, 8}

\* A part of the deck that has the wheel, another straight, full houses and flushes.
SmallDeck ==
  {c \in Hands!Deck : c.rank \in {2, 3, 4, 5, 6, 14} /\ c.suit \in {"s", "h"}}
    \cup {c \in Hands!Deck : c.rank \in {2, 5} /\ c.suit = "d"}

\* Of two hands of one category that one is higher which has the largest group that
\* they do not share, the highest card among equals; but the wheel is the lowest
\* straight.
Higher(x, y) ==
  LET ranks(groups) == {g.rank : g \in groups}
      wheel         == {14, 2, 3, 4, 5}
      less(g, h)    == g.count < h.count \/ (g.count = h.count /\ g.rank < h.rank)
  IN  IF {ranks(x), ranks(y)} \subseteq Straights /\ wheel \in {ranks(x), ranks(y)}
      THEN ranks(y) = wheel
      ELSE \E g \in x \ y : \A h \in y \ x : less(h, g)

\* Suits count for flushes only, and hands of one category compare as they should.
ASSUME HandsCompare ==
  LET flush(hand) == Cardinality({c.suit : c \in hand}) = 1
      valued      == {[ranks |-> Hands!RankGroups(hand), flush |-> flush(hand),
                       value |-> Hands!EvaluateFive(hand)] : hand \in kSubset(5, SmallDeck)}
  IN  \A x, y \in valued :
        /\ x.ranks = y.ranks /\ x.flush = y.flush => x = y
        /\ x.value.category = y.value.category /\ x.ranks # y.ranks =>
             (Hands!Beats(x.value, y.value) <=> Higher(x.ranks, y.ranks))

\* One more card never makes a hand worse.
ASSUME BestOfSeven ==
  \A seven \in {s \in kSubset(7, SmallDeck) : {c \in SmallDeck : c.rank = 5} \subseteq s} :
    LET best == Hands!EvaluateBest(seven)
    IN  \A six \in kSubset(6, seven) : ~ Hands!Beats(Hands!EvaluateBest(six), best)

=============================================================================
