--------------------------- MODULE PokerHandsProofs ---------------------------
(***************************************************************************)
(* CompareRanks puts the ranks of hands in one order, without ties between *)
(* different ranks, so that EvaluateBest finds the same rank in whatever   *)
(* order the cards come, and more cards never make a player's hand worse.  *)
(***************************************************************************)
EXTENDS PokerHands, FiniteSetTheorems, WellFoundedInduction, TLAPS

\* The kicker at a place, 0 when it is missing.
Kicker(rank, i) == IF i \in DOMAIN rank.kickers THEN rank.kickers[i] ELSE 0

\* Missing kickers count less than any that is there.
LEMMA KickersCount ==
  ASSUME NEW rank \in HandRanks
  PROVE  /\ rank.category \in 0..8
         /\ \A i \in 1..5 : Kicker(rank, i) \in 0..14
         /\ \A i \in 1..5 : i \in DOMAIN rank.kickers <=> Kicker(rank, i) # 0
<1>1. PICK n \in 0..5 : rank.kickers \in [1..n -> 2..14]
  BY DEF HandRanks
<1>2. rank.category \in 0..8
  BY DEF HandRanks
<1> QED BY <1>1, <1>2 DEF Kicker

\* The category decides, and the first kicker that differs if it does not.
BeatsInTurn(left, right) ==
  \/ left.category > right.category
  \/ /\ left.category = right.category
     /\ \/ Kicker(left, 1) > Kicker(right, 1)
        \/ /\ Kicker(left, 1) = Kicker(right, 1)
           /\ \/ Kicker(left, 2) > Kicker(right, 2)
              \/ /\ Kicker(left, 2) = Kicker(right, 2)
                 /\ \/ Kicker(left, 3) > Kicker(right, 3)
                    \/ /\ Kicker(left, 3) = Kicker(right, 3)
                       /\ \/ Kicker(left, 4) > Kicker(right, 4)
                          \/ /\ Kicker(left, 4) = Kicker(right, 4)
                             /\ Kicker(left, 5) > Kicker(right, 5)

LEMMA KickersInTurn ==
  ASSUME NEW left \in HandRanks, NEW right \in HandRanks
  PROVE  Beats(left, right) <=> BeatsInTurn(left, right)
<1> DEFINE above(i) == /\ Kicker(left, i) > Kicker(right, i)
                       /\ \A j \in 1 .. i - 1 : Kicker(left, j) = Kicker(right, j)
<1>1. Beats(left, right) <=>
        \/ left.category > right.category
        \/ left.category = right.category /\ \E i \in 1..5 : above(i)
  BY DEF Beats, Kicker
<1>2. (\E i \in 1..5 : above(i)) <=>
        \/ above(1) \/ above(2) \/ above(3) \/ above(4) \/ above(5)
  <2> HIDE DEF above
  <2>1. 1..5 = {1, 2, 3, 4, 5}
    OBVIOUS
  <2> QED BY <2>1
<1>3. /\ above(1) <=> Kicker(left, 1) > Kicker(right, 1)
      /\ above(2) <=> /\ Kicker(left, 1) = Kicker(right, 1)
                      /\ Kicker(left, 2) > Kicker(right, 2)
      /\ above(3) <=> /\ Kicker(left, 1) = Kicker(right, 1)
                      /\ Kicker(left, 2) = Kicker(right, 2)
                      /\ Kicker(left, 3) > Kicker(right, 3)
      /\ above(4) <=> /\ Kicker(left, 1) = Kicker(right, 1)
                      /\ Kicker(left, 2) = Kicker(right, 2)
                      /\ Kicker(left, 3) = Kicker(right, 3)
                      /\ Kicker(left, 4) > Kicker(right, 4)
      /\ above(5) <=> /\ Kicker(left, 1) = Kicker(right, 1)
                      /\ Kicker(left, 2) = Kicker(right, 2)
                      /\ Kicker(left, 3) = Kicker(right, 3)
                      /\ Kicker(left, 4) = Kicker(right, 4)
                      /\ Kicker(left, 5) > Kicker(right, 5)
  <2>1. 1..0 = {} /\ 1..1 = {1} /\ 1..2 = {1, 2} /\ 1..3 = {1, 2, 3} /\ 1..4 = {1, 2, 3, 4}
    OBVIOUS
  <2> QED BY <2>1
<1> HIDE DEF above
<1> QED BY <1>1, <1>2, <1>3 DEF BeatsInTurn

\* Only a rank itself has its category and its kickers.
LEMMA NoTies ==
  ASSUME NEW left \in HandRanks, NEW right \in HandRanks,
         ~ BeatsInTurn(left, right), ~ BeatsInTurn(right, left)
  PROVE  left = right
<1>1. /\ left.category \in Int /\ right.category \in Int
      /\ Kicker(left, 1) \in Int /\ Kicker(right, 1) \in Int
      /\ Kicker(left, 2) \in Int /\ Kicker(right, 2) \in Int
      /\ Kicker(left, 3) \in Int /\ Kicker(right, 3) \in Int
      /\ Kicker(left, 4) \in Int /\ Kicker(right, 4) \in Int
      /\ Kicker(left, 5) \in Int /\ Kicker(right, 5) \in Int
  BY KickersCount
<1>2. /\ left.category = right.category
      /\ Kicker(left, 1) = Kicker(right, 1) /\ Kicker(left, 2) = Kicker(right, 2)
      /\ Kicker(left, 3) = Kicker(right, 3) /\ Kicker(left, 4) = Kicker(right, 4)
      /\ Kicker(left, 5) = Kicker(right, 5)
  BY <1>1 DEF BeatsInTurn
<1>3. \A i \in 1..5 : Kicker(left, i) = Kicker(right, i)
  <2>1. 1..5 = {1, 2, 3, 4, 5}
    OBVIOUS
  <2> QED BY <1>2, <2>1
<1>4. PICK n \in 0..5 : left.kickers \in [1..n -> 2..14]
  BY DEF HandRanks
<1>5. PICK m \in 0..5 : right.kickers \in [1..m -> 2..14]
  BY DEF HandRanks
<1>6. n = m
  <2>1. \A i \in 1..5 : i <= n <=> i <= m
    BY <1>3, <1>4, <1>5, KickersCount
  <2> QED BY <2>1
<1>7. left.kickers = right.kickers
  <2>1. \A i \in 1..n : left.kickers[i] = right.kickers[i]
    BY <1>3, <1>4, <1>5, <1>6 DEF Kicker
  <2> QED BY <1>4, <1>5, <1>6, <2>1
<1> QED BY <1>2, <1>7 DEF HandRanks

\* CompareRanks orders the ranks: none beats itself, what beats a rank beats all that
\* it beats, and of two different ranks one beats the other.
THEOREM RanksAreOrdered ==
  ASSUME NEW x \in HandRanks, NEW y \in HandRanks, NEW z \in HandRanks
  PROVE  /\ ~ Beats(x, x)
         /\ Beats(x, y) /\ Beats(y, z) => Beats(x, z)
         /\ x = y \/ Beats(x, y) \/ Beats(y, x)
<1>1. \A rank \in {x, y, z} :
        /\ rank.category \in Int /\ Kicker(rank, 1) \in Int /\ Kicker(rank, 2) \in Int
        /\ Kicker(rank, 3) \in Int /\ Kicker(rank, 4) \in Int /\ Kicker(rank, 5) \in Int
  BY KickersCount
<1>2. ~ BeatsInTurn(x, x)
  BY <1>1 DEF BeatsInTurn
<1>3. BeatsInTurn(x, y) /\ BeatsInTurn(y, z) => BeatsInTurn(x, z)
  BY <1>1 DEF BeatsInTurn
<1>4. x = y \/ BeatsInTurn(x, y) \/ BeatsInTurn(y, x)
  BY NoTies
<1> QED BY <1>2, <1>3, <1>4, KickersInTurn

\* Of finitely many ranks one is unbeaten: one that the fewest beat.
LEMMA OneIsUnbeaten ==
  ASSUME NEW ranks \in SUBSET HandRanks, IsFiniteSet(ranks), ranks # {}
  PROVE  \E best \in ranks : \A rank \in ranks : ~ Beats(rank, best)
<1> DEFINE above(rank) == {r \in ranks : Beats(r, rank)}
           aboves      == {above(rank) : rank \in ranks}
           R           == StrictSubsetOrdering(ranks)
<1>1. IsWellFoundedOn(R, SUBSET ranks)
  BY FS_StrictSubsetOrderingWellFounded, FS_FiniteSubsetsOfFinite
<1>2. aboves \subseteq SUBSET ranks /\ aboves # {}
  OBVIOUS
<1>3. PICK least \in aboves : \A set \in aboves : <<set, least>> \notin R
  <2> HIDE DEF R, aboves
  <2> QED BY <1>1, <1>2, WFMin
<1>4. PICK best \in ranks : least = above(best)
  BY <1>3
<1>5. ASSUME NEW rank \in ranks, Beats(rank, best)
      PROVE  FALSE
  <2>1. above(rank) \subseteq above(best)
    BY <1>5, RanksAreOrdered
  <2>2. rank \in above(best) /\ rank \notin above(rank)
    BY <1>5, RanksAreOrdered
  <2>3. above(rank) \in aboves
    OBVIOUS
  <2>4. <<above(rank), above(best)>> \in R
    <3> HIDE DEF aboves
    <3>1. above(rank) \in SUBSET ranks /\ above(best) \in SUBSET ranks
      OBVIOUS
    <3> HIDE DEF above
    <3> QED BY <2>1, <2>2, <3>1 DEF StrictSubsetOrdering
  <2> QED BY <1>3, <1>4, <2>3, <2>4
<1> QED BY <1>5

-----------------------------------------------------------------------------

LEMMA DeckIsFinite == IsFiniteSet(Deck)
<1> DEFINE suits == {"s", "h", "d", "c"}
           pairs == (2..14) \X suits
           card  == [p \in pairs |-> [rank |-> p[1], suit |-> p[2]]]
<1>1. IsFiniteSet(suits)
  <2>1. IsFiniteSet({"s"}) /\ IsFiniteSet({"s"} \cup {"h"})
    BY FS_Singleton, FS_AddElement
  <2>2. IsFiniteSet(({"s"} \cup {"h"}) \cup {"d"})
    BY <2>1, FS_AddElement
  <2>3. IsFiniteSet((({"s"} \cup {"h"}) \cup {"d"}) \cup {"c"})
    BY <2>2, FS_AddElement
  <2>4. suits = (({"s"} \cup {"h"}) \cup {"d"}) \cup {"c"}
    OBVIOUS
  <2> QED BY <2>3, <2>4
<1>2. IsFiniteSet(pairs)
  <2>1. IsFiniteSet(2..14)
    BY FS_Interval, 2 \in Int, 14 \in Int
  <2> HIDE DEF suits
  <2> QED BY <1>1, <2>1, FS_Product
<1>3. card \in Surjection(pairs, Deck)
  <2>1. card \in [pairs -> Deck]
    BY DEF Deck
  <2>2. \A c \in Deck : \E p \in pairs : card[p] = c
    <3>1. TAKE c \in Deck
    <3>2. <<c.rank, c.suit>> \in pairs /\ c = [rank |-> c.rank, suit |-> c.suit]
      BY <3>1 DEF Deck
    <3>3. card[<<c.rank, c.suit>>] = c
      BY <3>2
    <3> QED BY <3>2, <3>3
  <2> QED BY <2>1, <2>2 DEF Surjection
<1> QED BY <1>2, <1>3, FS_Surjection

\* Five or more cards hold five.
LEMMA FiveOfThem ==
  ASSUME NEW cards \in SUBSET Deck, Cardinality(cards) >= 5
  PROVE  Fives(cards) # {}
<1>1. IsFiniteSet(cards)
  BY DeckIsFinite, FS_Subset
<1>2. Cardinality(cards) \in Nat /\ ExistsBijection(1 .. Cardinality(cards), cards)
  BY <1>1, FS_CardinalityType
<1>3. PICK f : f \in Bijection(1 .. Cardinality(cards), cards)
  BY <1>2 DEF ExistsBijection
<1> DEFINE five == {f[i] : i \in 1..5}
           g    == [i \in 1..5 |-> f[i]]
<1>4. f \in [1 .. Cardinality(cards) -> cards]
      /\ \A i, j \in 1 .. Cardinality(cards) : f[i] = f[j] => i = j
  BY <1>3 DEF Bijection, Injection, IsInjective
<1>5. 1..5 \subseteq 1 .. Cardinality(cards)
  BY <1>2
<1>6. five \subseteq cards
  BY <1>4, <1>5
<1>7. g \in Surjection(1..5, five) /\ g \in Injection(1..5, five)
  <2>1. g \in [1..5 -> five]
    OBVIOUS
  <2>2. \A t \in five : \E i \in 1..5 : g[i] = t
    OBVIOUS
  <2>3. \A i, j \in 1..5 : g[i] = g[j] => i = j
    BY <1>4, <1>5
  <2> HIDE DEF g, five
  <2> QED BY <2>1, <2>2, <2>3 DEF Surjection, Injection, IsInjective
<1>8. Cardinality(five) = 5
  <2>1. IsFiniteSet(1..5) /\ Cardinality(1..5) = 5
    <3>1. 1 \in Int /\ 5 \in Int /\ ~ (1 > 5) /\ 5 - 1 + 1 = 5
      OBVIOUS
    <3> HIDE DEF g, five
    <3> QED BY <3>1, FS_Interval, Zenon
  <2> HIDE DEF g, five
  <2> QED BY <1>7, <2>1, FS_Surjection
<1> QED BY <1>6, <1>8 DEF Fives

\* The ranks that EvaluateBest compares.
RanksOf(cards) == {EvaluateFive(five) : five \in Fives(cards)}

\* Every hand of five cards of the deck has a rank, of which RarerHandsWin goes over
\* all kinds.
AllRanked == \A five \in Fives(Deck) : EvaluateFive(five) \in HandRanks

LEMMA FinitelyManyRanks ==
  ASSUME NEW cards \in SUBSET Deck, AllRanked
  PROVE  RanksOf(cards) \in SUBSET HandRanks /\ IsFiniteSet(RanksOf(cards))
<1>1. Fives(cards) \subseteq Fives(Deck)
  BY DEF Fives
<1>2. IsFiniteSet(Fives(cards))
  <2>1. IsFiniteSet(SUBSET cards)
    BY DeckIsFinite, FS_Subset, FS_SUBSET
  <2>2. Fives(cards) \in SUBSET (SUBSET cards)
    BY DEF Fives
  <2> QED BY <2>1, <2>2, FS_Subset
<1> DEFINE rank == [five \in Fives(cards) |-> EvaluateFive(five)]
<1>3. rank \in Surjection(Fives(cards), RanksOf(cards))
  BY DEF Surjection, RanksOf
<1>4. IsFiniteSet(RanksOf(cards))
  <2> HIDE DEF rank
  <2> QED BY <1>2, <1>3, FS_Surjection
<1> QED BY <1>1, <1>4 DEF RanksOf, AllRanked

\* EvaluateBest finds the one rank of five of the cards that beats every other rank
\* of five of them: the order in which its loops go through the cards does not matter.
THEOREM BestBeatsTheOthers ==
  ASSUME NEW cards \in SUBSET Deck, Cardinality(cards) >= 5, AllRanked
  PROVE  /\ EvaluateBest(cards) \in RanksOf(cards)
         /\ \A rank \in RanksOf(cards) \ {EvaluateBest(cards)} : Beats(EvaluateBest(cards), rank)
<1>1. RanksOf(cards) \in SUBSET HandRanks /\ IsFiniteSet(RanksOf(cards))
  BY FinitelyManyRanks
<1>2. RanksOf(cards) # {}
  BY FiveOfThem DEF RanksOf
<1>3. Cardinality(cards) \in Nat
  BY DeckIsFinite, FS_Subset, FS_CardinalityType
<1>4. EvaluateBest(cards) =
        CHOOSE best \in RanksOf(cards) : \A rank \in RanksOf(cards) : ~ Beats(rank, best)
  <2>1. ~ (Cardinality(cards) < 5)
    BY <1>3
  <2> QED BY <2>1, Zenon DEF EvaluateBest, RanksOf
<1>5. /\ EvaluateBest(cards) \in RanksOf(cards)
      /\ \A rank \in RanksOf(cards) : ~ Beats(rank, EvaluateBest(cards))
  <2>1. \E best \in RanksOf(cards) : \A rank \in RanksOf(cards) : ~ Beats(rank, best)
    BY <1>1, <1>2, OneIsUnbeaten
  <2> QED BY <1>4, <2>1
<1>6. ASSUME NEW rank \in RanksOf(cards) \ {EvaluateBest(cards)}
      PROVE  Beats(EvaluateBest(cards), rank)
  <2>1. rank \in HandRanks /\ EvaluateBest(cards) \in HandRanks
    BY <1>1, <1>5
  <2> QED BY <1>5, <2>1, RanksAreOrdered
<1> QED BY <1>5, <1>6

\* A player's best hand does not get worse with more cards: what the board adds to it
\* in Hold'em, or a showdown of seven cards instead of six.
THEOREM MoreCardsNeverHurt ==
  ASSUME NEW cards \in SUBSET Deck, NEW fewer \in SUBSET cards, Cardinality(fewer) >= 5,
         AllRanked
  PROVE  ~ Beats(EvaluateBest(fewer), EvaluateBest(cards))
<1>1. IsFiniteSet(cards) /\ Cardinality(cards) \in Nat /\ Cardinality(fewer) \in Nat
      /\ Cardinality(fewer) <= Cardinality(cards)
  BY DeckIsFinite, FS_Subset, FS_CardinalityType
<1>2. fewer \in SUBSET Deck /\ Cardinality(cards) >= 5
  BY <1>1
<1>3. EvaluateBest(fewer) \in RanksOf(cards)
  <2>1. RanksOf(fewer) \subseteq RanksOf(cards)
    BY DEF RanksOf, Fives
  <2> QED BY <1>2, <2>1, BestBeatsTheOthers
<1>4. EvaluateBest(cards) \in RanksOf(cards) /\ RanksOf(cards) \in SUBSET HandRanks
  BY <1>2, BestBeatsTheOthers, FinitelyManyRanks
<1>5. CASE EvaluateBest(fewer) = EvaluateBest(cards)
  BY <1>4, <1>5, RanksAreOrdered
<1>6. CASE EvaluateBest(fewer) # EvaluateBest(cards)
  <2>1. Beats(EvaluateBest(cards), EvaluateBest(fewer))
    BY <1>2, <1>3, <1>6, BestBeatsTheOthers
  <2> QED BY <1>3, <1>4, <2>1, RanksAreOrdered
<1> QED BY <1>5, <1>6

=============================================================================
