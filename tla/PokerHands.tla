------------------------------ MODULE PokerHands ------------------------------
(***************************************************************************)
(* The ranking of poker hands (server/core/poker/evaluate.go).  Cards are  *)
(* records of a rank, 14 for the ace, and a suit.  Hands are sets of       *)
(* cards: the code sorts what it needs in order.  A HandRank has a         *)
(* category and kickers; the name is left out.  PokerTable takes who wins  *)
(* a showdown as a choice.                                                 *)
(***************************************************************************)
EXTENDS Integers, FiniteSets, Sequences, SequencesExt

\* NewDeck.
Deck == [rank : 2..14, suit : {"s", "h", "d", "c"}]

\* The ranks that hands have: a category, and kickers that count.
HandRanks == [category : 0..8, kickers : UNION {[1..n -> 2..14] : n \in 0..5}]

Ranked(category, kickers) == [category |-> category, kickers |-> kickers]

RankGroups(hand) ==
  {[rank |-> r, count |-> Cardinality({c \in hand : c.rank = r})] : r \in {c.rank : c \in hand}}

\* Larger groups first, then higher ranks.
Grouped(hand) ==
  SetToSortSeq(RankGroups(hand),
    LAMBDA x, y : x.count > y.count \/ (x.count = y.count /\ x.rank > y.rank))

Descending(hand) == SetToSortSeq(RankGroups(hand), LAMBDA x, y : x.rank > y.rank)

\* A group's rank, once for each of its cards.
ExpandGroups(groups) ==
  FlattenSeq([i \in DOMAIN groups |-> [k \in 1..groups[i].count |-> groups[i].rank]])

\* The highest rank of a straight, 5 for the wheel; 0 when there is none.
StraightHigh(values) ==
  IF Cardinality({values[i] : i \in 1..5}) # 5 THEN 0
  ELSE IF values = <<14, 5, 4, 3, 2>> THEN 5
  ELSE IF values[1] - values[5] = 4 THEN values[1] ELSE 0

EvaluateFive(hand) ==
  LET flush    == Cardinality({c.suit : c \in hand}) = 1
      values   == ExpandGroups(Descending(hand))
      straight == StraightHigh(values)
      groups   == Grouped(hand)
      sizes    == [i \in DOMAIN groups |-> groups[i].count]
      ranks    == [i \in DOMAIN groups |-> groups[i].rank]
  IN  CASE flush /\ straight > 0      -> Ranked(8, <<straight>>)
        [] sizes = <<4, 1>>          -> Ranked(7, ranks)
        [] sizes = <<3, 2>>          -> Ranked(6, ranks)
        [] flush /\ straight = 0     -> Ranked(5, values)
        [] ~ flush /\ straight > 0   -> Ranked(4, <<straight>>)
        [] sizes = <<3, 1, 1>>       -> Ranked(3, ExpandGroups(groups))
        [] sizes = <<2, 2, 1>>       -> Ranked(2, ranks)
        [] sizes = <<2, 1, 1, 1>>    -> Ranked(1, ExpandGroups(groups))
        [] OTHER                     -> Ranked(0, values)

\* CompareRanks(left, right) > 0, where kickers that are missing count as 0.
Beats(left, right) ==
  LET kicker(rank, i) == IF i \in DOMAIN rank.kickers THEN rank.kickers[i] ELSE 0
  IN  \/ left.category > right.category
      \/ /\ left.category = right.category
         /\ \E i \in 1..5 :
              /\ kicker(left, i) > kicker(right, i)
              /\ \A j \in 1 .. i - 1 : kicker(left, j) = kicker(right, j)

\* The hands of five that the loops of EvaluateBest go through.
Fives(cards) == {five \in SUBSET cards : Cardinality(five) = 5}

\* EvaluateBest: the rank of five of the cards that no other five beat.
EvaluateBest(cards) ==
  LET ranks == {EvaluateFive(hand) : hand \in Fives(cards)}
  IN  IF Cardinality(cards) < 5 THEN Ranked(0, <<>>)
      ELSE CHOOSE best \in ranks : \A rank \in ranks : ~ Beats(rank, best)

=============================================================================
