-------------------------- MODULE MahjongRoomProofs --------------------------
(***************************************************************************)
(* Boards and rooms of MahjongRoom, on every layout, with any groups,      *)
(* modes and bounds.                                                       *)
(*                                                                         *)
(* First what the deals of MahjongBoard promise: a deal can be cleared, it *)
(* starts with a pair, and a board whose tiles come in pairs can be dealt  *)
(* again whenever its shape allows it.  Sets of tiles are well founded by  *)
(* strict inclusion, which is all that induction over boards needs: a      *)
(* claim about every set of tiles is a set of sets of tiles                *)
(* (SubsetInduction), and a recursive function exists when its value       *)
(* depends on smaller sets only (SubsetRecursion).                         *)
(*                                                                         *)
(* Then the room: pairs are counted once, hints fit, duels end for a cause *)
(* and nobody is stuck with a board that can be dealt again.               *)
(***************************************************************************)
EXTENDS MahjongRoom, FiniteSetTheorems, WellFoundedInduction, TLAPS

-----------------------------------------------------------------------------
(* What the deals promise. *)

TileSets == SUBSET Layout

Smaller(left) == (SUBSET left) \ {left}

\* A claim that holds of a set of tiles when it holds of all smaller ones holds
\* of every set of tiles.
LEMMA SubsetInduction ==
  ASSUME NEW T \in SUBSET TileSets,
         \A left \in TileSets : Smaller(left) \subseteq T => left \in T
  PROVE  T = TileSets
<1> DEFINE R == StrictSubsetOrdering(Layout)
<1>1. IsWellFoundedOn(R, TileSets)
  BY BoardAssumption, FS_StrictSubsetOrderingWellFounded, FS_FiniteSubsetsOfFinite DEF TileSets
<1>2. SUFFICES ASSUME TileSets \ T # {}
               PROVE  FALSE
  OBVIOUS
<1>3. PICK left \in TileSets \ T : \A m \in TileSets \ T : <<m, left>> \notin R
  <2> HIDE DEF R
  <2> QED BY <1>1, <1>2, WFMin
<1>4. ASSUME NEW m \in Smaller(left)
      PROVE  m \in T
  <2>1. m \in TileSets /\ <<m, left>> \in R
    BY <1>4 DEF Smaller, TileSets, StrictSubsetOrdering
  <2> QED BY <1>3, <2>1
<1> QED BY <1>3, <1>4

\* F computes the value for a set of tiles from the values for smaller ones.
Local(F, V) ==
  \A left \in TileSets : \A f, g \in [TileSets -> V] :
    (\A m \in Smaller(left) : f[m] = g[m]) => F[<<left, f>>] = F[<<left, g>>]

\* The functions that follow F on the sets of tiles within all.
Upto(all, F, V) ==
  {f \in [TileSets -> V] : \A left \in SUBSET all : f[left] = F[<<left, f>>]}

LEMMA Agree ==
  ASSUME NEW V, NEW F, Local(F, V),
         NEW a \in TileSets, NEW b \in TileSets, NEW f \in Upto(a, F, V), NEW g \in Upto(b, F, V),
         NEW left \in SUBSET a, left \in SUBSET b
  PROVE  f[left] = g[left]
<1> DEFINE T == {m \in TileSets : m \in SUBSET a /\ m \in SUBSET b => f[m] = g[m]}
<1>1. ASSUME NEW m \in TileSets, Smaller(m) \subseteq T
      PROVE  m \in T
  <2> SUFFICES ASSUME m \in SUBSET a, m \in SUBSET b
               PROVE  f[m] = g[m]
    OBVIOUS
  <2>1. \A n \in Smaller(m) : f[n] = g[n]
    BY <1>1 DEF Smaller
  <2>2. f \in [TileSets -> V] /\ g \in [TileSets -> V]
    BY DEF Upto
  <2>3. F[<<m, f>>] = F[<<m, g>>]
    BY <2>1, <2>2 DEF Local
  <2> QED BY <2>3 DEF Upto
<1>2. T = TileSets
  <2>1. T \in SUBSET TileSets
    OBVIOUS
  <2> HIDE DEF T
  <2> QED BY <1>1, <2>1, SubsetInduction
<1>3. left \in T
  BY <1>2 DEF TileSets
<1> QED BY <1>3

\* Recursion over sets of tiles defines a function.
LEMMA SubsetRecursion ==
  ASSUME NEW V, NEW v \in V, NEW F, Local(F, V),
         \A left \in TileSets : \A f \in [TileSets -> V] : F[<<left, f>>] \in V
  PROVE  \E f \in [TileSets -> V] : \A left \in TileSets : f[left] = F[<<left, f>>]
<1> DEFINE T    == {a \in TileSets : Upto(a, F, V) # {}}
           C(a) == CHOOSE f \in Upto(a, F, V) : TRUE
<1>1. ASSUME NEW a \in TileSets, Smaller(a) \subseteq T
      PROVE  a \in T
  <2> DEFINE h == [m \in TileSets |-> IF m \in Smaller(a) THEN C(m)[m] ELSE v]
             g == [m \in TileSets |-> IF m = a THEN F[<<a, h>>] ELSE h[m]]
  <2>1. \A m \in Smaller(a) : m \in TileSets /\ m # a /\ C(m) \in Upto(m, F, V)
    BY <1>1 DEF Smaller, TileSets
  <2> HIDE DEF C
  <2>2. h \in [TileSets -> V]
    <3>1. \A m \in Smaller(a) : C(m)[m] \in V
      BY <2>1 DEF Upto
    <3> QED BY <3>1
  <2>3. g \in [TileSets -> V]
    BY <2>2
  <2>4. \A m \in Smaller(a) : h[m] = C(m)[m] /\ g[m] = C(m)[m]
    BY <2>1
  <2>5. g[a] = F[<<a, h>>]
    OBVIOUS
  <2> HIDE DEF g, h
  <2>6. ASSUME NEW m \in SUBSET a
        PROVE  g[m] = F[<<m, g>>]
    <3>1. CASE m = a
      <4>1. F[<<a, h>>] = F[<<a, g>>]
        BY <2>2, <2>3, <2>4 DEF Local
      <4> QED BY <2>5, <3>1, <4>1
    <3>2. CASE m # a
      <4>1. m \in Smaller(a)
        BY <3>2 DEF Smaller
      <4>2. C(m)[m] = F[<<m, C(m)>>] /\ C(m) \in [TileSets -> V]
        BY <2>1, <4>1 DEF Upto
      <4>3. ASSUME NEW n \in Smaller(m)
            PROVE  g[n] = C(m)[n]
        <5>1. n \in Smaller(a) /\ n \in SUBSET m /\ n \in SUBSET n
          BY <4>1, <4>3 DEF Smaller
        <5>2. C(n)[n] = C(m)[n]
          BY <2>1, <4>1, <5>1, Agree
        <5> QED BY <2>4, <5>1, <5>2
      <4>4. F[<<m, C(m)>>] = F[<<m, g>>]
        BY <2>1, <2>3, <4>1, <4>2, <4>3 DEF Local
      <4> QED BY <2>4, <4>1, <4>2, <4>4
    <3> QED BY <3>1, <3>2
  <2>7. g \in Upto(a, F, V)
    BY <2>3, <2>6 DEF Upto
  <2> QED BY <2>7
<1>2. T = TileSets
  <2>1. T \in SUBSET TileSets
    OBVIOUS
  <2> HIDE DEF T
  <2> QED BY <1>1, <2>1, SubsetInduction
<1>3. Layout \in T
  BY <1>2 DEF TileSets
<1> QED BY <1>3 DEF Upto, TileSets

-----------------------------------------------------------------------------
(* The recursive functions of MahjongBoard. *)

With(pairing, pq) == pairing \cup {pq}
Without(left, pq) == left \ pq

LEMMA FreeTwosFacts ==
  ASSUME NEW left \in TileSets, NEW pq \in FreeTwos(left)
  PROVE  /\ \E p, q \in left : pq = {p, q} /\ p # q /\ IsFree(left, p) /\ IsFree(left, q)
         /\ Without(left, pq) \in Smaller(left) /\ Without(left, pq) \in TileSets
<1>1. PICK p \in Free(left), q \in Free(left) : pq = {p, q} /\ p # q
  BY DEF FreeTwos
<1> QED BY <1>1 DEF Free, Smaller, TileSets, Without

SetsOfPairings == SUBSET SUBSET TileSets

\* The pairings of left that go on with f after the first pair.
FirstPair(f, left, pq) == {With(pairing, pq) : pairing \in f[Without(left, pq)]}

Extensions(f, left) == UNION {FirstPair(f, left, pq) : pq \in FreeTwos(left)}

LEMMA ExtensionsFacts ==
  ASSUME NEW f, NEW left, NEW x
  PROVE  x \in Extensions(f, left) <=>
           \E pq \in FreeTwos(left) : \E rest \in f[Without(left, pq)] : x = With(rest, pq)
<1>1. x \in Extensions(f, left) <=> \E pq \in FreeTwos(left) : x \in FirstPair(f, left, pq)
  BY DEF Extensions
<1>2. \A pq \in FreeTwos(left) :
        x \in FirstPair(f, left, pq) <=> \E rest \in f[Without(left, pq)] : x = With(rest, pq)
  BY DEF FirstPair
<1> QED BY <1>1, <1>2

PairingsFrom(f, left) == IF left = {} THEN {{}} ELSE Extensions(f, left)

\* removalOrder goes on with the tiles that are left after the first pair.
LEMMA PairingsStep ==
  \A left \in TileSets :
    /\ Pairings[left] \in SetsOfPairings
    /\ Pairings[left] = PairingsFrom(Pairings, left)
<1> DEFINE F == [x \in TileSets \X [TileSets -> SetsOfPairings] |-> PairingsFrom(x[2], x[1])]
<1>1. \A left \in TileSets, f \in [TileSets -> SetsOfPairings] : F[<<left, f>>] = PairingsFrom(f, left)
  OBVIOUS
<1>2. ASSUME NEW left \in TileSets, NEW f \in [TileSets -> SetsOfPairings]
      PROVE  PairingsFrom(f, left) \in SetsOfPairings
  <2>1. ASSUME NEW pq \in FreeTwos(left), NEW pairing \in f[Without(left, pq)]
        PROVE  With(pairing, pq) \in SUBSET TileSets
    <3>1. pq \in TileSets /\ Without(left, pq) \in TileSets
      BY FreeTwosFacts DEF TileSets
    <3> QED BY <3>1 DEF SetsOfPairings, With
  <2>2. {{}} \in SetsOfPairings
    BY DEF SetsOfPairings
  <2>3. Extensions(f, left) \in SetsOfPairings
    <3>1. ASSUME NEW x \in Extensions(f, left)
          PROVE  x \in SUBSET TileSets
      <4>1. PICK pq \in FreeTwos(left) : \E rest \in f[Without(left, pq)] : x = With(rest, pq)
        BY ExtensionsFacts
      <4> QED BY <2>1, <4>1
    <3> QED BY <3>1 DEF SetsOfPairings
  <2> QED BY <2>2, <2>3 DEF PairingsFrom
<1>3. ASSUME NEW left \in TileSets, NEW f, NEW g, \A m \in Smaller(left) : f[m] = g[m]
      PROVE  PairingsFrom(f, left) = PairingsFrom(g, left)
  <2>1. \A pq \in FreeTwos(left) : f[Without(left, pq)] = g[Without(left, pq)]
    BY <1>3, FreeTwosFacts
  <2>2. \A pq \in FreeTwos(left) : FirstPair(f, left, pq) = FirstPair(g, left, pq)
    BY <2>1 DEF FirstPair
  <2> QED BY <2>2 DEF PairingsFrom, Extensions
<1>4. Local(F, SetsOfPairings)
  <2> HIDE DEF F
  <2> QED BY <1>1, <1>3 DEF Local
<1>5. PICK f \in [TileSets -> SetsOfPairings] : \A left \in TileSets : f[left] = PairingsFrom(f, left)
  <2> HIDE DEF F
  <2>1. {} \in SetsOfPairings
    BY DEF SetsOfPairings
  <2>2. \A left \in TileSets : \A g \in [TileSets -> SetsOfPairings] : F[<<left, g>>] \in SetsOfPairings
    BY <1>1, <1>2
  <2>3. \E g \in [TileSets -> SetsOfPairings] : \A left \in TileSets : g[left] = F[<<left, g>>]
    BY <1>4, <2>1, <2>2, SubsetRecursion
  <2> QED BY <1>1, <2>3
<1>6. f = [left \in TileSets |-> PairingsFrom(f, left)]
  BY <1>5
<1>7. Pairings = CHOOSE g : g = [left \in TileSets |-> PairingsFrom(g, left)]
  BY DEF Pairings, TileSets, PairingsFrom, Extensions, FirstPair, With, Without
<1>8. Pairings = [left \in TileSets |-> PairingsFrom(Pairings, left)]
  BY <1>6, <1>7
<1>9. \A left \in TileSets : Pairings[left] = PairingsFrom(Pairings, left)
  BY <1>8
<1>10. \A left \in TileSets : Pairings[left] = f[left]
  <2> DEFINE T == {left \in TileSets : Pairings[left] = f[left]}
  <2>1. ASSUME NEW left \in TileSets, Smaller(left) \subseteq T
        PROVE  left \in T
    <3>1. PairingsFrom(Pairings, left) = PairingsFrom(f, left)
      BY <1>3, <2>1
    <3> QED BY <1>5, <1>9, <3>1
  <2>2. T = TileSets
    <3>1. T \in SUBSET TileSets
      OBVIOUS
    <3> HIDE DEF T
    <3> QED BY <2>1, <3>1, SubsetInduction
  <2> QED BY <2>2
<1> QED BY <1>5, <1>9, <1>10

\* The pairings of one more pair.
LEMMA PairingsCases ==
  ASSUME NEW left \in TileSets, left # {}, NEW pairing
  PROVE  pairing \in Pairings[left] <=>
           \E p, q \in left :
             /\ p # q /\ IsFree(left, p) /\ IsFree(left, q)
             /\ \E rest \in Pairings[Without(left, {p, q})] : pairing = With(rest, {p, q})
<1>1. pairing \in Pairings[left] <=>
        \E pq \in FreeTwos(left) : \E rest \in Pairings[Without(left, pq)] : pairing = With(rest, pq)
  <2>1. Pairings[left] = Extensions(Pairings, left)
    BY PairingsStep DEF PairingsFrom
  <2> QED BY <2>1, ExtensionsFacts
<1>2. ASSUME NEW p \in left, NEW q \in left, p # q, IsFree(left, p), IsFree(left, q)
      PROVE  {p, q} \in FreeTwos(left)
  BY <1>2 DEF FreeTwos, Free
<1>3. \A pq \in FreeTwos(left) :
        \E p, q \in left : pq = {p, q} /\ p # q /\ IsFree(left, p) /\ IsFree(left, q)
  BY FreeTwosFacts
<1>4. ASSUME NEW p \in left, NEW q \in left, p # q, IsFree(left, p), IsFree(left, q),
             NEW rest \in Pairings[Without(left, {p, q})], pairing = With(rest, {p, q})
      PROVE  pairing \in Pairings[left]
  BY <1>1, <1>2, <1>4
<1>5. ASSUME pairing \in Pairings[left]
      PROVE  \E p, q \in left :
               /\ p # q /\ IsFree(left, p) /\ IsFree(left, q)
               /\ \E rest \in Pairings[Without(left, {p, q})] : pairing = With(rest, {p, q})
  <2>1. PICK pq \in FreeTwos(left) : \E rest \in Pairings[Without(left, pq)] : pairing = With(rest, pq)
    BY <1>1, <1>5
  <2>2. PICK p \in left, q \in left : pq = {p, q} /\ p # q /\ IsFree(left, p) /\ IsFree(left, q)
    BY <1>3
  <2> QED BY <2>1, <2>2
<1> QED BY <1>4, <1>5

ClearsFrom(f, left) ==
  {group \in [Layout -> Group] :
     \/ left = {}
     \/ \E p, q \in Free(left) : p # q /\ group[p] = group[q] /\ group \in f[left \ {p, q}]}

\* A board is cleared by two free tiles of one group first, and then the rest.
LEMMA ClearsStep == \A left \in TileSets : Clears[left] = ClearsFrom(Clears, left)
<1> DEFINE V == SUBSET [Layout -> Group]
           F == [x \in TileSets \X [TileSets -> V] |-> ClearsFrom(x[2], x[1])]
<1>1. \A left \in TileSets, f \in [TileSets -> V] : F[<<left, f>>] = ClearsFrom(f, left)
  <2> HIDE DEF V
  <2> QED OBVIOUS
<1>2. \A left, f : ClearsFrom(f, left) \in V
  BY DEF ClearsFrom
<1>3. ASSUME NEW left \in TileSets, NEW f, NEW g, \A m \in Smaller(left) : f[m] = g[m]
      PROVE  ClearsFrom(f, left) = ClearsFrom(g, left)
  <2>1. \A p, q \in Free(left) : f[left \ {p, q}] = g[left \ {p, q}]
    BY <1>3 DEF Smaller, Free
  <2> QED BY <2>1 DEF ClearsFrom
<1>4. Local(F, V)
  <2> HIDE DEF F, V
  <2> QED BY <1>1, <1>3 DEF Local
<1>5. PICK f \in [TileSets -> V] : \A left \in TileSets : f[left] = ClearsFrom(f, left)
  <2>1. {} \in V
    OBVIOUS
  <2> HIDE DEF F, V
  <2>2. \A left \in TileSets : \A g \in [TileSets -> V] : F[<<left, g>>] \in V
    BY <1>1, <1>2
  <2>3. \E g \in [TileSets -> V] : \A left \in TileSets : g[left] = F[<<left, g>>]
    BY <1>4, <2>1, <2>2, SubsetRecursion
  <2> QED BY <1>1, <2>3
<1>6. f = [left \in TileSets |-> ClearsFrom(f, left)]
  BY <1>5
<1>7. Clears = CHOOSE g : g = [left \in TileSets |-> ClearsFrom(g, left)]
  BY DEF Clears, TileSets, ClearsFrom
<1>8. Clears = [left \in TileSets |-> ClearsFrom(Clears, left)]
  BY <1>6, <1>7
<1> QED BY <1>8

-----------------------------------------------------------------------------
(* Counting tiles. *)

LEMMA TilesFinite ==
  ASSUME NEW left \in SUBSET Layout
  PROVE  IsFiniteSet(left) /\ Cardinality(left) \in Nat
BY BoardAssumption, FS_Subset, FS_CardinalityType

LEMMA TwoFewer ==
  ASSUME NEW left \in SUBSET Layout, NEW p \in left, NEW q \in left, p # q
  PROVE  Cardinality(left \ {p, q}) + 2 = Cardinality(left)
<1>1. IsFiniteSet(left) /\ Cardinality(left) \in Nat
  BY TilesFinite
<1>2. IsFiniteSet(left \ {p}) /\ Cardinality(left \ {p}) = Cardinality(left) - 1
  BY <1>1, FS_RemoveElement
<1>3. Cardinality((left \ {p}) \ {q}) = Cardinality(left \ {p}) - 1
  BY <1>2, FS_RemoveElement
<1>4. (left \ {p}) \ {q} = left \ {p, q}
  OBVIOUS
<1>5. Cardinality(left \ {p, q}) = Cardinality(left) - 1 - 1
  BY <1>2, <1>3, <1>4
<1> QED BY <1>1, <1>5

\* The tiles of every group come in pairs.
Even(group, left) == \A k \in Group : \E n \in Nat : Count(group, left, k) = 2 * n

\* A pair more or less of one group.
LEMMA CountPair ==
  ASSUME NEW left \in TileSets, NEW p \in left, NEW q \in left, p # q,
         NEW group, group[p] = group[q], NEW k
  PROVE  /\ Count(group, left, k) \in Nat /\ Count(group, Without(left, {p, q}), k) \in Nat
         /\ Count(group, left, k) =
              Count(group, Without(left, {p, q}), k) + (IF group[p] = k THEN 2 ELSE 0)
<1> DEFINE S == {t \in left : group[t] = k}
           R == {t \in Without(left, {p, q}) : group[t] = k}
<1>1. S \in SUBSET Layout /\ R \in SUBSET Layout
  BY DEF TileSets, Without
<1>2. Cardinality(S) \in Nat /\ Cardinality(R) \in Nat
  BY <1>1, TilesFinite
<1>3. CASE group[p] = k
  <2>1. R = S \ {p, q} /\ p \in S /\ q \in S
    BY <1>3 DEF Without
  <2>2. Cardinality(R) + 2 = Cardinality(S)
    <3> HIDE DEF R, S
    <3> QED BY <1>1, <2>1, TwoFewer
  <2>3. Cardinality(S) = Cardinality(R) + 2
    <3> HIDE DEF R, S
    <3> QED BY <1>2, <2>2
  <2> QED BY <1>2, <1>3, <2>3 DEF Count
<1>4. CASE group[p] # k
  <2>1. R = S
    BY <1>4 DEF Without
  <2> QED BY <1>2, <1>4, <2>1 DEF Count
<1> QED BY <1>3, <1>4

LEMMA WithoutSmaller ==
  ASSUME NEW left \in TileSets, NEW p \in left, NEW q
  PROVE  Without(left, {p, q}) \in Smaller(left) /\ Without(left, {p, q}) \in TileSets
BY DEF Without, Smaller, TileSets

-----------------------------------------------------------------------------
(* Deals. *)

\* A pairing pairs tiles that are left.
LEMMA PairingInside ==
  \A left \in TileSets : \A pairing \in Pairings[left] : \A pq \in pairing : pq \subseteq left
<1> DEFINE T == {left \in TileSets : \A pairing \in Pairings[left] : \A pq \in pairing : pq \subseteq left}
<1>1. ASSUME NEW left \in TileSets, Smaller(left) \subseteq T
      PROVE  left \in T
  <2> SUFFICES ASSUME NEW pairing \in Pairings[left], NEW pq \in pairing
               PROVE  pq \subseteq left
    OBVIOUS
  <2>1. CASE left = {}
    BY <2>1, PairingsStep DEF PairingsFrom
  <2>2. CASE left # {}
    <3>1. PICK p \in left, q \in left :
            /\ p # q /\ IsFree(left, p) /\ IsFree(left, q)
            /\ \E rest \in Pairings[Without(left, {p, q})] : pairing = With(rest, {p, q})
      BY <2>2, PairingsCases
    <3>2. PICK rest \in Pairings[Without(left, {p, q})] : pairing = With(rest, {p, q})
      BY <3>1
    <3>3. Without(left, {p, q}) \in T
      BY <1>1, WithoutSmaller
    <3>4. \A other \in rest : other \subseteq Without(left, {p, q})
      BY <3>3
    <3> QED BY <3>2, <3>4 DEF With, Without
  <2> QED BY <2>1, <2>2
<1>2. T = TileSets
  <2>1. T \in SUBSET TileSets
    OBVIOUS
  <2> HIDE DEF T
  <2> QED BY <1>1, <2>1, SubsetInduction
<1> QED BY <1>2

\* Places that can be taken off in pairs start with two that are free.
LEMMA FirstPairIsFree ==
  ASSUME NEW left \in TileSets, left # {}, Pairings[left] # {}
  PROVE  \E p, q \in left :
           /\ p # q /\ IsFree(left, p) /\ IsFree(left, q)
           /\ Pairings[Without(left, {p, q})] # {}
<1>1. PICK pairing \in Pairings[left] : TRUE
  OBVIOUS
<1>2. PICK p \in left, q \in left :
        /\ p # q /\ IsFree(left, p) /\ IsFree(left, q)
        /\ \E rest \in Pairings[Without(left, {p, q})] : pairing = With(rest, {p, q})
  BY PairingsCases
<1>3. Pairings[Without(left, {p, q})] # {}
  BY <1>2
<1> QED BY <1>2, <1>3

\* The first pair of a pairing that fits, and the rest.
LEMMA FirstPairFits ==
  ASSUME NEW left \in TileSets, left # {}, NEW group, NEW pairing \in Pairings[left],
         Fits(group, pairing)
  PROVE  \E p, q \in left :
           /\ p # q /\ IsFree(left, p) /\ IsFree(left, q) /\ group[p] = group[q]
           /\ \E rest \in Pairings[Without(left, {p, q})] : Fits(group, rest)
<1>1. PICK p \in left, q \in left :
        /\ p # q /\ IsFree(left, p) /\ IsFree(left, q)
        /\ \E rest \in Pairings[Without(left, {p, q})] : pairing = With(rest, {p, q})
  BY PairingsCases
<1>2. PICK rest \in Pairings[Without(left, {p, q})] : pairing = With(rest, {p, q})
  BY <1>1
<1>3. Fits(group, rest) /\ group[p] = group[q]
  BY <1>2 DEF Fits, With
<1> QED BY <1>1, <1>3

\* Whatever fits a pairing has an even number of tiles of every group.
LEMMA FitsEven ==
  \A left \in TileSets : \A group : \A pairing \in Pairings[left] :
    Fits(group, pairing) => Even(group, left)
<1> DEFINE T == {left \in TileSets : \A group : \A pairing \in Pairings[left] :
                   Fits(group, pairing) => Even(group, left)}
<1>1. ASSUME NEW left \in TileSets, Smaller(left) \subseteq T
      PROVE  left \in T
  <2> SUFFICES ASSUME NEW group, NEW pairing \in Pairings[left], Fits(group, pairing), NEW k \in Group
               PROVE  \E n \in Nat : Count(group, left, k) = 2 * n
    BY DEF Even
  <2>1. CASE left = {}
    <3>1. {t \in left : group[t] = k} = {}
      BY <2>1
    <3>2. Count(group, left, k) = 2 * 0
      BY <3>1, FS_EmptySet DEF Count
    <3> QED BY <3>2
  <2>2. CASE left # {}
    <3>1. PICK p \in left, q \in left :
            /\ p # q /\ group[p] = group[q]
            /\ \E rest \in Pairings[Without(left, {p, q})] : Fits(group, rest)
      BY <2>2, FirstPairFits
    <3>2. Even(group, Without(left, {p, q}))
      BY <1>1, <3>1, WithoutSmaller
    <3>3. PICK n \in Nat : Count(group, Without(left, {p, q}), k) = 2 * n
      BY <3>2 DEF Even
    <3>4. Count(group, left, k) = 2 * n + (IF group[p] = k THEN 2 ELSE 0)
      BY <3>1, <3>3, CountPair
    <3>5. Count(group, left, k) = 2 * n \/ Count(group, left, k) = 2 * (n + 1)
      BY <3>4
    <3>6. n + 1 \in Nat
      OBVIOUS
    <3> QED BY <3>5, <3>6
  <2> QED BY <2>1, <2>2
<1>2. T = TileSets
  <2>1. T \in SUBSET TileSets
    OBVIOUS
  <2> HIDE DEF T
  <2> QED BY <1>1, <2>1, SubsetInduction
<1> QED BY <1>2

\* Whatever fits a pairing can be cleared.
LEMMA FitsClears ==
  \A left \in TileSets : \A group \in [Layout -> Group] : \A pairing \in Pairings[left] :
    Fits(group, pairing) => group \in Clears[left]
<1> DEFINE T == {left \in TileSets : \A group \in [Layout -> Group] : \A pairing \in Pairings[left] :
                   Fits(group, pairing) => group \in Clears[left]}
<1>1. ASSUME NEW left \in TileSets, Smaller(left) \subseteq T
      PROVE  left \in T
  <2> SUFFICES ASSUME NEW group \in [Layout -> Group], NEW pairing \in Pairings[left],
                      Fits(group, pairing)
               PROVE  group \in ClearsFrom(Clears, left)
    BY ClearsStep
  <2>1. CASE left = {}
    BY <2>1 DEF ClearsFrom
  <2>2. CASE left # {}
    <3>1. PICK p \in left, q \in left :
            /\ p # q /\ IsFree(left, p) /\ IsFree(left, q) /\ group[p] = group[q]
            /\ \E rest \in Pairings[Without(left, {p, q})] : Fits(group, rest)
      BY <2>2, FirstPairFits
    <3>2. group \in Clears[left \ {p, q}]
      BY <1>1, <3>1, WithoutSmaller DEF Without
    <3> QED BY <3>1, <3>2 DEF ClearsFrom, Free
  <2> QED BY <2>1, <2>2
<1>2. T = TileSets
  <2>1. T \in SUBSET TileSets
    OBVIOUS
  <2> HIDE DEF T
  <2> QED BY <1>1, <2>1, SubsetInduction
<1> QED BY <1>2

\* Tiles that come in pairs can be put onto any set of places of their number
\* that can be taken off in pairs: walk down the places and take the next two
\* tiles of one group each time.
LEMMA DealFits ==
  \A left \in TileSets : \A tiles \in TileSets : \A group :
    /\ Pairings[left] # {} /\ Cardinality(tiles) = Cardinality(left)
    /\ Even(group, tiles) /\ (\A t \in tiles : group[t] \in Group)
    => \E deal \in [left -> Group] :
         /\ \E pairing \in Pairings[left] : Fits(deal, pairing)
         /\ \A k \in Group : Count(deal, left, k) = Count(group, tiles, k)
<1> DEFINE Deals(left, tiles, group) ==
             \E deal \in [left -> Group] :
               /\ \E pairing \in Pairings[left] : Fits(deal, pairing)
               /\ \A k \in Group : Count(deal, left, k) = Count(group, tiles, k)
           Possible(left, tiles, group) ==
             /\ Pairings[left] # {} /\ Cardinality(tiles) = Cardinality(left)
             /\ Even(group, tiles) /\ (\A t \in tiles : group[t] \in Group)
           T == {left \in TileSets : \A tiles \in TileSets : \A group :
                   Possible(left, tiles, group) => Deals(left, tiles, group)}
<1>1. ASSUME NEW left \in TileSets, Smaller(left) \subseteq T
      PROVE  left \in T
  <2> SUFFICES ASSUME NEW tiles \in TileSets, NEW group, Possible(left, tiles, group)
               PROVE  Deals(left, tiles, group)
    OBVIOUS
  <2>0. /\ Pairings[left] # {} /\ Even(group, tiles)
        /\ Cardinality(tiles) = Cardinality(left) /\ \A t \in tiles : group[t] \in Group
    OBVIOUS
  <2>3. IsFiniteSet(left) /\ IsFiniteSet(tiles) /\ (left = {} <=> tiles = {})
    BY <2>0, TilesFinite, FS_EmptySet DEF TileSets
  <2>1. CASE left = {}
    <3>1. PICK deal \in [left -> Group] : TRUE
      <4>1. [s \in left |-> 0] \in [left -> Group]
        BY <2>1
      <4> QED BY <4>1
    <3>2. {} \in Pairings[left] /\ Fits(deal, {})
      BY <2>1, PairingsStep DEF PairingsFrom, Fits
    <3>3. \A k \in Group : {t \in left : deal[t] = k} = {t \in tiles : group[t] = k}
      BY <2>1, <2>3
    <3>4. \A k \in Group : Count(deal, left, k) = Count(group, tiles, k)
      BY <3>3 DEF Count
    <3> QED BY <3>1, <3>2, <3>4
  <2>2. CASE left # {}
    <3>1. PICK p \in left, q \in left :
            /\ p # q /\ IsFree(left, p) /\ IsFree(left, q)
            /\ Pairings[Without(left, {p, q})] # {}
      BY <2>0, <2>2, FirstPairIsFree
    <3>2. PICK t \in tiles, u \in tiles : t # u /\ group[t] = group[u] /\ group[t] \in Group
      <4>1. PICK t \in tiles : group[t] \in Group
        BY <2>0, <2>2, <2>3
      <4> DEFINE same == {u \in tiles : group[u] = group[t]}
      <4>2. same \in SUBSET Layout /\ t \in same
        BY DEF TileSets
      <4>3. IsFiniteSet(same) /\ Cardinality(same) \in Nat
        BY <4>2, TilesFinite
      <4>4. PICK n \in Nat : Cardinality(same) = 2 * n
        BY <2>0, <4>1 DEF Even, Count
      <4>5. ASSUME same \subseteq {t}
            PROVE  FALSE
        <5>1. same = {t}
          BY <4>2, <4>5
        <5>2. Cardinality(same) = 1
          BY <5>1, FS_Singleton
        <5> HIDE DEF same
        <5> QED BY <4>4, <5>2
      <4> QED BY <4>1, <4>5
    <3> DEFINE rest == Without(left, {p, q})
               stock == Without(tiles, {t, u})
    <3>3. rest \in Smaller(left) /\ rest \in TileSets /\ stock \in TileSets
      BY WithoutSmaller
    <3>4. Cardinality(stock) = Cardinality(rest)
      <4>1. Cardinality(rest) + 2 = Cardinality(left) /\ Cardinality(stock) + 2 = Cardinality(tiles)
        BY <3>1, <3>2, TwoFewer DEF TileSets, Without
      <4>2. Cardinality(rest) \in Nat /\ Cardinality(stock) \in Nat
        BY <3>3, TilesFinite DEF TileSets
      <4> HIDE DEF rest, stock
      <4> QED BY <2>0, <4>1, <4>2
    <3>5. ASSUME NEW k \in Group
          PROVE  /\ Count(group, tiles, k) = Count(group, stock, k) + (IF group[t] = k THEN 2 ELSE 0)
                 /\ Count(group, stock, k) \in Nat
      BY <3>2, CountPair
    <3>6. Even(group, stock)
      <4> SUFFICES ASSUME NEW k \in Group
                   PROVE  \E n \in Nat : Count(group, stock, k) = 2 * n
        BY DEF Even
      <4> HIDE DEF stock
      <4>1. PICK n \in Nat : Count(group, tiles, k) = 2 * n
        BY <2>0 DEF Even
      <4>2. Count(group, stock, k) = 2 * n \/ (Count(group, stock, k) = 2 * (n - 1) /\ n - 1 \in Nat)
        BY <3>5, <4>1
      <4> QED BY <4>2
    <3>7. Possible(rest, stock, group)
      <4>1. \A s \in stock : group[s] \in Group
        BY <2>0 DEF Without
      <4> HIDE DEF stock
      <4> QED BY <3>1, <3>4, <3>6, <4>1
    <3>8. Deals(rest, stock, group)
      <4> HIDE DEF Deals, Possible, stock, rest
      <4>1. rest \in T
        BY <1>1, <3>3
      <4> QED BY <3>3, <3>7, <4>1
    <3>9. PICK deal \in [rest -> Group] :
            /\ \E pairing \in Pairings[rest] : Fits(deal, pairing)
            /\ \A k \in Group : Count(deal, rest, k) = Count(group, stock, k)
      <4> HIDE DEF rest, stock, Possible
      <4> QED BY <3>8
    <3> DEFINE whole == [s \in left |-> IF s \in {p, q} THEN group[t] ELSE deal[s]]
    <3>10. /\ whole \in [left -> Group] /\ whole[p] = group[t] /\ whole[q] = group[t]
           /\ \A s \in rest : whole[s] = deal[s]
      BY <3>2 DEF Without
    <3>11. \E pairing \in Pairings[left] : Fits(whole, pairing)
      <4>1. PICK pairing \in Pairings[rest] : Fits(deal, pairing)
        BY <3>9
      <4>2. With(pairing, {p, q}) \in Pairings[left]
        BY <2>2, <3>1, PairingsCases
      <4>3. \A pq \in pairing : pq \subseteq rest
        BY <3>3, PairingInside
      <4> HIDE DEF whole, rest
      <4>4. Fits(whole, With(pairing, {p, q}))
        BY <3>10, <4>1, <4>3 DEF Fits, With
      <4> QED BY <4>2, <4>4
    <3>12. ASSUME NEW k \in Group
           PROVE  Count(whole, left, k) = Count(group, tiles, k)
      <4> HIDE DEF whole
      <4>1. Count(whole, left, k) = Count(whole, rest, k) + (IF whole[p] = k THEN 2 ELSE 0)
        BY <3>1, <3>10, CountPair
      <4> HIDE DEF rest, stock
      <4>2. {s \in rest : whole[s] = k} = {s \in rest : deal[s] = k}
        BY <3>10
      <4>3. Count(whole, rest, k) = Count(deal, rest, k)
        BY <4>2 DEF Count
      <4>4. Count(whole, rest, k) = Count(group, stock, k)
        BY <3>9, <4>3
      <4> QED BY <3>5, <3>10, <4>1, <4>4
    <3> HIDE DEF whole
    <3> QED BY <3>10, <3>11, <3>12
  <2> QED BY <2>1, <2>2
<1>2. T = TileSets
  <2>1. T \in SUBSET TileSets
    OBVIOUS
  <2> HIDE DEF T
  <2> QED BY <1>1, <2>1, SubsetInduction
<1> QED BY <1>2

-----------------------------------------------------------------------------
(* Boards. *)

BoardType == [group : [Layout -> Group], left : SUBSET Layout]

EvenBoard(b) == Even(b.group, b.left)

LEMMA NewBoardType ==
  ASSUME NEW b \in NewBoards
  PROVE  b \in BoardType /\ b.left = Layout
BY DEF NewBoards, Dealt, BoardType

LEMMA ReshuffledType ==
  ASSUME NEW b \in BoardType, NEW c \in Reshuffled(b)
  PROVE  c \in BoardType /\ c.left = b.left
<1>1. PICK group \in [b.left -> Group] :
        c = [b EXCEPT !.group = [p \in Layout |-> IF p \in b.left THEN group[p] ELSE @[p]]]
  BY DEF Reshuffled, Dealt
<1>2. [p \in Layout |-> IF p \in b.left THEN group[p] ELSE b.group[p]] \in [Layout -> Group]
  BY DEF BoardType
<1>3. c = [b EXCEPT !.group = [p \in Layout |-> IF p \in b.left THEN group[p] ELSE b.group[p]]]
  BY <1>1 DEF BoardType
<1> QED BY <1>2, <1>3 DEF BoardType

\* The order of the indexes is total.
LEMMA BeforeTotal ==
  ASSUME NEW p \in Layout, NEW q \in Layout, p # q
  PROVE  (Before(p, q) \/ Before(q, p)) /\ ~ (Before(p, q) /\ Before(q, p))
<1>1. p \in Int \X Int \X Nat /\ q \in Int \X Int \X Nat
  BY BoardAssumption
<1>2. /\ p = <<p[1], p[2], p[3]>> /\ q = <<q[1], q[2], q[3]>>
      /\ p[1] \in Int /\ p[2] \in Int /\ p[3] \in Int
      /\ q[1] \in Int /\ q[2] \in Int /\ q[3] \in Int
  BY <1>1
<1>3. p[1] # q[1] \/ p[2] # q[2] \/ p[3] # q[3]
  BY <1>2
<1> QED BY <1>2, <1>3 DEF Before

LEMMA BeforeTransitive ==
  ASSUME NEW p \in Layout, NEW q \in Layout, NEW r \in Layout, Before(p, q), Before(q, r)
  PROVE  Before(p, r)
<1>1. p \in Int \X Int \X Nat /\ q \in Int \X Int \X Nat /\ r \in Int \X Int \X Nat
  BY BoardAssumption
<1>2. /\ p[1] \in Int /\ p[2] \in Int /\ p[3] \in Int
      /\ q[1] \in Int /\ q[2] \in Int /\ q[3] \in Int
      /\ r[1] \in Int /\ r[2] \in Int /\ r[3] \in Int
  BY <1>1
<1> QED BY <1>2 DEF Before

\* Two free tiles of one group are found whatever their order.
LEMMA PairFound ==
  ASSUME NEW b \in BoardType, NEW p \in b.left, NEW q \in b.left, p # q,
         IsFree(b.left, p), IsFree(b.left, q), b.group[p] = b.group[q]
  PROVE  Pairs(b) # {}
<1>1. p \in Layout /\ q \in Layout /\ p \in Free(b.left) /\ q \in Free(b.left)
  BY DEF BoardType, TileSets, Free
<1>2. CanRemove(b, p, q) /\ CanRemove(b, q, p)
  BY DEF CanRemove
<1>3. CASE Before(p, q)
  <2>1. <<p, q>> \in Pairs(b)
    BY <1>1, <1>2, <1>3 DEF Pairs
  <2> QED BY <2>1
<1>4. CASE Before(q, p)
  <2>1. <<q, p>> \in Pairs(b)
    BY <1>1, <1>2, <1>4 DEF Pairs
  <2> QED BY <2>1
<1> QED BY <1>1, <1>3, <1>4, BeforeTotal

LEMMA FitsInside ==
  ASSUME NEW left \in TileSets, NEW pairing \in Pairings[left], NEW g, NEW h,
         \A p \in left : g[p] = h[p], Fits(g, pairing)
  PROVE  Fits(h, pairing)
BY PairingInside DEF Fits

\* A board that was dealt along a pairing.
Dealing(b) == \E pairing \in Pairings[b.left] : Fits(b.group, pairing)

LEMMA DealingFacts ==
  ASSUME NEW b \in BoardType, Dealing(b)
  PROVE  EvenBoard(b) /\ b \in Clearable /\ (b.left # {} => Pairs(b) # {})
<1>1. b.left \in TileSets /\ b.group \in [Layout -> Group]
      /\ b = [group |-> b.group, left |-> b.left]
  BY DEF BoardType, TileSets
<1>2. PICK pairing \in Pairings[b.left] : Fits(b.group, pairing)
  BY DEF Dealing
<1>3. EvenBoard(b)
  BY <1>1, <1>2, FitsEven DEF EvenBoard
<1>4. b.group \in Clears[b.left]
  BY <1>1, <1>2, FitsClears
<1>5. b \in Clearable
  BY <1>1, <1>4 DEF Clearable, TileSets
<1>6. ASSUME b.left # {}
      PROVE  Pairs(b) # {}
  <2>1. PICK p \in b.left, q \in b.left :
          /\ p # q /\ IsFree(b.left, p) /\ IsFree(b.left, q) /\ b.group[p] = b.group[q]
          /\ \E rest \in Pairings[Without(b.left, {p, q})] : Fits(b.group, rest)
    BY <1>1, <1>2, <1>6, FirstPairFits
  <2> QED BY <2>1, PairFound
<1> QED BY <1>3, <1>5, <1>6

LEMMA NewBoardDealing ==
  ASSUME NEW b \in NewBoards
  PROVE  Dealing(b)
BY DEF NewBoards, Dealt, Dealing

LEMMA ReshuffledDealing ==
  ASSUME NEW b \in BoardType, NEW c \in Reshuffled(b)
  PROVE  Dealing(c)
<1>1. PICK group \in Dealt(b.left, [k \in Group |-> Count(b.group, b.left, k)]) :
        c = [b EXCEPT !.group = [p \in Layout |-> IF p \in b.left THEN group[p] ELSE @[p]]]
  BY DEF Reshuffled
<1>2. PICK pairing \in Pairings[b.left] : Fits(group, pairing)
  BY <1>1 DEF Dealt
<1>3. c.left = b.left /\ \A p \in b.left : c.group[p] = group[p]
  BY <1>1 DEF BoardType, TileSets
<1>4. Fits(c.group, pairing)
  BY <1>2, <1>3, FitsInside DEF BoardType, TileSets
<1> QED BY <1>2, <1>3, <1>4 DEF Dealing

\* A reshuffle succeeds whenever the places that are left can be taken off in
\* pairs: the tiles on them come in pairs.
LEMMA ReshuffleSucceeds ==
  ASSUME NEW b \in BoardType, EvenBoard(b), Pairings[b.left] # {}
  PROVE  Reshuffled(b) # {}
<1> DEFINE stock == [k \in Group |-> Count(b.group, b.left, k)]
<1>1. b.left \in TileSets /\ \A t \in b.left : b.group[t] \in Group
  BY DEF BoardType, TileSets
<1>2. PICK deal \in [b.left -> Group] :
        /\ \E pairing \in Pairings[b.left] : Fits(deal, pairing)
        /\ \A k \in Group : Count(deal, b.left, k) = Count(b.group, b.left, k)
  BY <1>1, DealFits DEF EvenBoard
<1>3. \A k \in Group : Count(deal, b.left, k) <= stock[k]
  <2>1. \A k \in Group : {t \in b.left : b.group[t] = k} \in SUBSET Layout
    BY <1>1 DEF TileSets
  <2>2. \A k \in Group : Count(b.group, b.left, k) \in Nat
    BY <2>1, TilesFinite DEF Count
  <2> QED BY <1>2, <2>2
<1>4. deal \in Dealt(b.left, stock)
  BY <1>2, <1>3 DEF Dealt
<1>5. [b EXCEPT !.group = [p \in Layout |-> IF p \in b.left THEN deal[p] ELSE @[p]]] \in Reshuffled(b)
  BY <1>4 DEF Reshuffled
<1> QED BY <1>5

-----------------------------------------------------------------------------
(* Hints. *)

\* Some tile comes before all others.
LEMMA FirstTile ==
  \A tiles \in TileSets :
    tiles # {} => \E p \in tiles : \A q \in tiles \ {p} : Before(p, q)
<1> DEFINE T == {tiles \in TileSets : tiles # {} => \E p \in tiles : \A q \in tiles \ {p} : Before(p, q)}
<1>1. ASSUME NEW tiles \in TileSets, Smaller(tiles) \subseteq T
      PROVE  tiles \in T
  <2> SUFFICES ASSUME tiles # {}
               PROVE  \E p \in tiles : \A q \in tiles \ {p} : Before(p, q)
    OBVIOUS
  <2>1. PICK x \in tiles : TRUE
    OBVIOUS
  <2>2. tiles \ {x} \in T
    BY <1>1 DEF Smaller
  <2>3. CASE tiles \ {x} = {}
    BY <2>3
  <2>4. CASE tiles \ {x} # {}
    <3>1. PICK p \in tiles \ {x} : \A q \in (tiles \ {x}) \ {p} : Before(p, q)
      BY <2>2, <2>4
    <3>2. x \in Layout /\ \A q \in tiles : q \in Layout
      BY DEF TileSets
    <3>3. CASE Before(x, p)
      <4>1. ASSUME NEW q \in tiles \ {x}
            PROVE  Before(x, q)
        <5>1. CASE q = p
          BY <3>3, <5>1
        <5>2. CASE q # p
          BY <3>1, <3>2, <3>3, <5>2, BeforeTransitive
        <5> QED BY <5>1, <5>2
      <4> QED BY <4>1
    <3>4. CASE Before(p, x)
      BY <3>1, <3>4
    <3> QED BY <3>2, <3>3, <3>4, BeforeTotal
  <2> QED BY <2>3, <2>4
<1>2. T = TileSets
  <2>1. T \in SUBSET TileSets
    OBVIOUS
  <2> HIDE DEF T
  <2> QED BY <1>1, <2>1, SubsetInduction
<1> QED BY <1>2

\* A hint is found, and only one, whenever there is a pair (AvailablePair).
THEOREM HintFound ==
  \A b \in BoardType : Pairs(b) # {} => \E pq \in Pairs(b) : AvailablePair(b) = {pq}
<1> SUFFICES ASSUME NEW b \in BoardType, Pairs(b) # {}
             PROVE  \E pq \in Pairs(b) : AvailablePair(b) = {pq}
  OBVIOUS
<1>1. \A pq \in Pairs(b) : pq = <<pq[1], pq[2]>> /\ pq[1] \in Layout /\ pq[2] \in Layout
  BY DEF Pairs, Free, BoardType, TileSets
<1> DEFINE firsts == {pq[1] : pq \in Pairs(b)}
<1>2. PICK p \in firsts : \A r \in firsts \ {p} : Before(p, r)
  <2>1. firsts \in TileSets /\ firsts # {}
    BY <1>1 DEF TileSets
  <2> HIDE DEF firsts
  <2> QED BY <2>1, FirstTile
<1> DEFINE seconds == {q \in Layout : <<p, q>> \in Pairs(b)}
<1>3. PICK q \in seconds : \A r \in seconds \ {q} : Before(q, r)
  <2>1. seconds \in TileSets /\ seconds # {}
    BY <1>1 DEF TileSets
  <2> HIDE DEF seconds
  <2> QED BY <2>1, FirstTile
<1>4. <<p, q>> \in Pairs(b) /\ p \in Layout /\ q \in Layout
  BY <1>1
<1>5. ASSUME NEW other \in Pairs(b), other # <<p, q>>
      PROVE  Before(p, other[1]) \/ (p = other[1] /\ Before(q, other[2]))
  <2>1. CASE other[1] # p
    BY <1>2, <2>1
  <2>2. CASE other[1] = p
    <3>1. other[2] \in seconds /\ other[2] # q
      BY <1>1, <1>5, <2>2
    <3> QED BY <1>3, <2>2, <3>1
  <2> QED BY <2>1, <2>2
<1>6. <<p, q>> \in AvailablePair(b)
  BY <1>4, <1>5 DEF AvailablePair
<1>7. ASSUME NEW other \in AvailablePair(b), other # <<p, q>>
      PROVE  FALSE
  <2>1. other \in Pairs(b) /\ other[1] \in Layout /\ other[2] \in Layout
    BY <1>1 DEF AvailablePair
  <2>2. Before(other[1], p) \/ (other[1] = p /\ Before(other[2], q))
    BY <1>4, <1>7 DEF AvailablePair
  <2>3. Before(p, other[1]) \/ (p = other[1] /\ Before(q, other[2]))
    BY <1>5, <1>7, <2>1
  <2>4. \A s \in Layout : ~ Before(s, s)
    <3>1. \A s \in Layout : s[1] \in Int /\ s[2] \in Int /\ s[3] \in Int
      BY BoardAssumption
    <3> QED BY <3>1 DEF Before
  <2>5. CASE other[1] = p
    <3>1. q # other[2]
      BY <1>1, <1>7, <2>1, <2>5
    <3>2. Before(other[2], q) /\ Before(q, other[2])
      BY <1>4, <2>2, <2>3, <2>4, <2>5
    <3> QED BY <1>4, <2>1, <3>1, <3>2, BeforeTotal
  <2>6. CASE other[1] # p
    BY <1>4, <2>1, <2>2, <2>3, <2>6, BeforeTotal
  <2> QED BY <2>5, <2>6
<1> QED BY <1>4, <1>6, <1>7

-----------------------------------------------------------------------------
(* The players' connections. *)

PlayerType == [generation : Nat, connected : BOOLEAN, left : BOOLEAN]
SocketType == [object : Objects, join : Nat, read : Nat, at : Stages]
GraceType  == [object : Objects, join : Nat, generation : Nat, back : BOOLEAN]

\* A socket holds no later generation than that of its object.
Known(s) == s.read <= player[s.object].generation

\* A player who has come back since the socket was gone has a later generation.
Past(d) ==
  /\ d.generation <= player[d.object].generation
  /\ d.back => d.generation < player[d.object].generation

Generations == (\A s \in sockets : Known(s)) /\ (\A d \in grace : Past(d))

SeatingInv == SeatingTypeOK /\ Generations

SeatingStep ==
  \/ Connecting
  \/ \E s \in sockets : StandUp(s)
  \/ \E i \in Places \cap Movers : MoveAway(i)
  \/ \E d \in grace : GraceOver(d)

LEMMA SeatingInitSound == SeatingInit => SeatingInv
<1> SUFFICES ASSUME SeatingInit
             PROVE  SeatingInv
  OBVIOUS
<1>1. player \in [Objects -> PlayerType] /\ \A o \in Objects : player[o].generation = 1
  BY DEF SeatingInit, Joined, PlayerType
<1>2. ASSUME NEW o \in Movers
      PROVE  /\ Serving(o, 1) \in SocketType /\ Serving(o, 1).read <= 1 /\ Serving(o, 1).object = o
             /\ Waiting(o) \in SocketType /\ Waiting(o).read <= 1 /\ Waiting(o).object = o
  BY <1>2 DEF Serving, Waiting, SocketType, Objects, Stages
<1>3. \A s \in sockets : \E o \in Movers : s = Serving(o, 1) \/ s = Waiting(o)
  BY DEF SeatingInit
<1>4. \A s \in sockets : s \in SocketType /\ Known(s)
  BY <1>1, <1>2, <1>3 DEF Known, Objects
<1> QED
  BY <1>1, <1>4 DEF SeatingInit, SeatingInv, SeatingTypeOK, Generations, PlayerType, SocketType

LEMMA SeatingUnchanged == SeatingInv /\ UNCHANGED seating => SeatingInv'
BY DEF SeatingInv, SeatingTypeOK, Generations, Known, Past, seating, Objects, Places, Stages

\* Steps that change no generation.
LEMMA GenerationsKept ==
  ASSUME SeatingInv,
         player' \in [Objects -> PlayerType],
         \A o \in Objects : player'[o].generation = player[o].generation,
         entries' \subseteq entries,
         \A s \in sockets' : s \in SocketType /\ Known(s),
         \A d \in grace' : d \in GraceType /\ Past(d)
  PROVE  SeatingInv'
<1>1. Objects' = Objects
  BY DEF Objects, Places
<1>2. ASSUME NEW s \in sockets'
      PROVE  Known(s)'
  <2>1. s.object \in Objects
    BY DEF SocketType
  <2> QED BY <2>1 DEF Known
<1>3. ASSUME NEW d \in grace'
      PROVE  Past(d)'
  <2>1. d.object \in Objects
    BY DEF GraceType
  <2> QED BY <2>1 DEF Past
<1>4. SeatingTypeOK'
  BY <1>1 DEF SeatingInv, SeatingTypeOK, PlayerType, SocketType, GraceType, Stages, Places
<1> QED BY <1>2, <1>3, <1>4 DEF SeatingInv, Generations

LEMMA SeatingKept ==
  ASSUME SeatingInv, SeatingStep
  PROVE  SeatingInv'
<1>0. /\ player \in [Objects -> PlayerType] /\ entries \subseteq Places
      /\ \A s \in sockets : s \in SocketType /\ Known(s)
      /\ \A d \in grace : d \in GraceType /\ Past(d)
  BY DEF SeatingInv, SeatingTypeOK, Generations, PlayerType, SocketType, GraceType
<1>1. ASSUME NEW o \in Objects
      PROVE  /\ player[o] \in PlayerType
             /\ LeftBy(o) \in [Objects -> PlayerType]
             /\ \A p \in Objects : LeftBy(o)[p].generation = player[p].generation
  <2>1. player[o] \in PlayerType
    BY <1>0
  <2>2. LeftBy(o) = [player EXCEPT ![o] = [player[o] EXCEPT !.connected = FALSE, !.left = TRUE]]
    BY <1>0 DEF LeftBy
  <2> QED BY <1>0, <2>1, <2>2 DEF PlayerType
<1>2. ASSUME NEW o \in Objects
      PROVE  /\ [player EXCEPT ![o].connected = FALSE] \in [Objects -> PlayerType]
             /\ \A p \in Objects :
                  [player EXCEPT ![o].connected = FALSE][p].generation = player[p].generation
  BY <1>0, <1>1 DEF PlayerType
<1>3. ASSUME NEW s \in sockets, NEW stage \in Stages
      PROVE  /\ s.object \in Objects /\ s.read \in Nat /\ s.join \in Nat
             /\ [s EXCEPT !.at = stage] \in SocketType /\ Known([s EXCEPT !.at = stage])
  BY <1>0 DEF SocketType, Known
<1>4. ASSUME NEW s \in sockets
      PROVE  \A t \in Returned(s) : t \in SocketType /\ Known(t)
  <2>1. \A t \in Returned(s) : t \in sockets \/ t = [s EXCEPT !.at = "closing"]
    BY DEF Returned, Going
  <2> QED BY <1>0, <1>3, <2>1 DEF Stages
<1>5. ASSUME NEW s \in sockets, StandUp(s)
      PROVE  SeatingInv'
  <2>1. \A t \in sockets' : t \in sockets \/ t = [s EXCEPT !.at = "leaving"]
    BY <1>5 DEF StandUp, Going
  <2>2. \A t \in sockets' : t \in SocketType /\ Known(t)
    BY <1>0, <1>3, <2>1 DEF Stages
  <2>3. player' = LeftBy(s.object) /\ s.object \in Objects /\ UNCHANGED <<entries, grace>>
    BY <1>3, <1>5 DEF StandUp, Stages
  <2> QED BY <1>0, <1>1, <2>2, <2>3, GenerationsKept
<1>6. ASSUME NEW i \in Places \cap Movers, MoveAway(i)
      PROVE  SeatingInv'
  <2>1. player' = LeftBy(i) /\ i \in Objects /\ entries' \subseteq entries /\ UNCHANGED <<sockets, grace>>
    BY <1>6 DEF MoveAway, Objects
  <2> QED BY <1>0, <1>1, <2>1, GenerationsKept
<1>7. ASSUME NEW d \in grace, GraceOver(d)
      PROVE  SeatingInv'
  BY <1>0, <1>7, GenerationsKept DEF GraceOver
<1>8. ASSUME NEW i \in Places \cap Movers, Rejoin(i)
      PROVE  SeatingInv'
  <2> DEFINE n == player[i].generation + 1
             Met(d) == [d EXCEPT !.back = d.back \/ d.object = i]
  <2>0. i \in Objects /\ player[i].generation \in Nat /\ n \in Nat
    BY <1>0, <1>8 DEF Objects, PlayerType
  <2>1. /\ player' = [player EXCEPT ![i] = Joined(n)] /\ entries' = entries
        /\ sockets' = sockets \cup {Serving(i, n)}
        /\ grace' = {Met(d) : d \in grace}
    BY <1>8 DEF Rejoin
  <2>2. Joined(n) \in PlayerType /\ Joined(n).generation = n
    BY <2>0 DEF Joined, PlayerType
  <2>3. /\ player' \in [Objects -> PlayerType] /\ player'[i].generation = n
        /\ \A o \in Objects : o # i => player'[o].generation = player[o].generation
    BY <1>0, <2>0, <2>1, <2>2
  <2>4. ASSUME NEW s \in sockets'
        PROVE  s \in SocketType /\ Known(s)'
    <3>1. CASE s = Serving(i, n)
      BY <2>0, <2>3, <3>1 DEF Serving, SocketType, Known, Stages
    <3>2. CASE s \in sockets
      <4>1. s \in SocketType /\ Known(s) /\ s.object \in Objects /\ s.read \in Nat
        BY <1>0, <3>2 DEF SocketType
      <4>2. s.object = i => s.read <= player[i].generation
        BY <4>1 DEF Known
      <4> QED BY <2>0, <2>3, <4>1, <4>2 DEF Known
    <3> QED BY <2>1, <3>1, <3>2
  <2>5. ASSUME NEW e \in grace'
        PROVE  e \in GraceType /\ Past(e)'
    <3>1. PICK d \in grace : e = Met(d)
      BY <2>1
    <3>2. d \in GraceType /\ Past(d) /\ d.object \in Objects /\ d.generation \in Nat
      BY <1>0 DEF GraceType
    <3>3. /\ e \in GraceType /\ e.object = d.object /\ e.generation = d.generation
          /\ e.back = (d.back \/ d.object = i)
      BY <3>1, <3>2 DEF GraceType
    <3>4. CASE d.object = i
      BY <2>0, <2>3, <3>2, <3>3, <3>4 DEF Past
    <3>5. CASE d.object # i
      BY <2>3, <3>2, <3>3, <3>5 DEF Past
    <3> QED BY <3>3, <3>4, <3>5
  <2> HIDE DEF n, Met
  <2>6. SeatingTypeOK'
    BY <1>0, <2>1, <2>3, <2>4, <2>5
       DEF SeatingTypeOK, Objects, Places, PlayerType, SocketType, GraceType, Stages
  <2> QED BY <2>4, <2>5, <2>6 DEF SeatingInv, Generations
<1>9. ASSUME NEW s \in sockets, ReadGeneration(s)
      PROVE  SeatingInv'
  <2>1. PICK r : r = player[s.object].generation
    OBVIOUS
  <2>2. r \in Nat /\ s \in SocketType
    BY <1>0, <2>1 DEF SocketType, PlayerType
  <2>3. \A t \in sockets' : t \in sockets \/ t = [s EXCEPT !.at = "serving", !.read = r]
    BY <1>9, <2>1 DEF ReadGeneration, Going
  <2>4. PICK t : t = [s EXCEPT !.at = "serving", !.read = r]
    OBVIOUS
  <2>5. t \in SocketType /\ t.read = r /\ t.object = s.object
    BY <2>2, <2>4 DEF SocketType, Stages
  <2>6. Known(t)
    BY <2>1, <2>2, <2>5 DEF Known
  <2>7. \A u \in sockets' : u \in SocketType /\ Known(u)
    BY <1>0, <2>3, <2>4, <2>5, <2>6
  <2>8. UNCHANGED <<player, entries, grace>>
    BY <1>9 DEF ReadGeneration
  <2> QED BY <1>0, <2>7, <2>8, GenerationsKept
<1>10. ASSUME NEW s \in sockets, Unmap(s)
       PROVE  SeatingInv'
  <2>1. sockets' = Returned(s) /\ entries' \subseteq entries /\ UNCHANGED <<player, grace>>
    BY <1>10 DEF Unmap
  <2> QED BY <1>0, <1>4, <2>1, GenerationsKept
<1>11. ASSUME NEW s \in sockets, Close(s)
       PROVE  SeatingInv'
  <2>1. sockets' = Returned(s) /\ UNCHANGED <<player, entries, grace>>
    BY <1>11 DEF Close
  <2> QED BY <1>0, <1>4, <2>1, GenerationsKept
<1>12. ASSUME NEW s \in sockets, CloseUnmatched(s)
       PROVE  SeatingInv'
  <2>1. /\ player' = [player EXCEPT ![s.object].connected = FALSE] /\ s.object \in Objects
        /\ \A t \in sockets' : t \in sockets
        /\ UNCHANGED <<entries, grace>>
    BY <1>3, <1>12 DEF CloseUnmatched, Stages
  <2> QED BY <1>0, <1>2, <2>1, GenerationsKept
<1>13. ASSUME NEW s \in sockets, Drop(s)
       PROVE  SeatingInv'
  <2>1. PICK d : d = [object |-> s.object, join |-> s.join, generation |-> s.read,
                      back |-> player[s.object].generation # s.read]
    OBVIOUS
  <2>2. /\ player' = [player EXCEPT ![s.object].connected = FALSE] /\ s.object \in Objects
        /\ \A t \in sockets' : t \in sockets
        /\ \A e \in grace' : e \in grace \/ e = d
        /\ UNCHANGED entries
    BY <1>3, <1>13, <2>1 DEF Drop, Stages
  <2>3. d \in GraceType /\ Past(d)
    <3>1. /\ s.read <= player[s.object].generation
          /\ s.read \in Nat /\ s.join \in Nat /\ player[s.object].generation \in Nat
      BY <1>0, <2>2 DEF Known, SocketType, PlayerType
    <3>2. d \in GraceType
      BY <2>1, <2>2, <3>1 DEF GraceType
    <3>3. d.object = s.object /\ d.generation = s.read
          /\ (d.back <=> player[s.object].generation # s.read)
      BY <2>1
    <3> QED BY <3>1, <3>2, <3>3 DEF Past
  <2> QED BY <1>0, <1>2, <2>2, <2>3, GenerationsKept
<1> QED
  BY <1>5, <1>6, <1>7, <1>8, <1>9, <1>10, <1>11, <1>12, <1>13 DEF SeatingStep, Connecting

\* The grace period costs nothing to a player who has come back.
LEMMA NobodyBack ==
  ASSUME SeatingInv, NEW d \in grace, Absent(d)
  PROVE  ~ d.back /\ d.object \in Objects /\ SeatOf(d.object) \in Places
<1>1. d \in GraceType /\ Past(d) /\ player[d.object].generation = d.generation
  BY DEF SeatingInv, SeatingTypeOK, Generations, GraceType, Absent
<1> QED BY <1>1 DEF GraceType, Past, SeatOf, Places

\* Who leaves is marked as gone.
LEMMA StandUpLeaves ==
  ASSUME SeatingInv, NEW s \in sockets, StandUp(s)
  PROVE  s.object \in Objects /\ player'[s.object].left /\ sockets' # sockets
<1>1. /\ player \in [Objects -> PlayerType]
      /\ s \in SocketType
  BY DEF SeatingInv, SeatingTypeOK, PlayerType, SocketType
<1>2. s.object \in Objects /\ s.at = "serving"
  BY <1>1 DEF SocketType, StandUp
<1>3. player'[s.object].left
  BY <1>1, <1>2 DEF StandUp, LeftBy, PlayerType
<1>4. s # [s EXCEPT !.at = "leaving"]
  BY <1>1, <1>2 DEF SocketType
<1>5. s \notin sockets'
  BY <1>4 DEF StandUp, Going
<1> QED BY <1>2, <1>3, <1>5

LEMMA MoveAwayLeaves ==
  ASSUME SeatingInv, NEW i \in Places, MoveAway(i)
  PROVE  i \in Objects /\ SeatOf(i) = i /\ player'[i].left /\ entries' # entries
<1>1. player \in [Objects -> PlayerType] /\ i \in Objects
  BY DEF SeatingInv, SeatingTypeOK, PlayerType, Objects
<1>2. player'[i].left /\ i \in entries /\ entries' = entries \ {i}
  BY <1>1 DEF MoveAway, LeftBy, PlayerType
<1> QED BY <1>1, <1>2 DEF SeatOf

-----------------------------------------------------------------------------
(* The room. *)

RoundType ==
  /\ mode \in Modes /\ status \in {"playing", "finished"} /\ winner \in Seats \cup {Nobody}
  /\ board \in [Boards -> BoardType]
  /\ removedBy \in [Seats -> SUBSET Layout] /\ pairs \in [Seats -> Nat]
  /\ hints \in [Seats -> 0..StartingHints]
  /\ hint \in [Seats -> {NoHint} \cup (Layout \X Layout)]
  /\ ready \in SUBSET Seats /\ timer \in BOOLEAN /\ fired \in 0..MaxFired

\* The tiles on every board come in pairs of a group.
BoardsEven == \A i \in Boards : EvenBoard(board[i])

\* The inductive invariant.
MahjongInv == RoundType /\ SeatingInv /\ EveryPairCounted /\ DuelHintFits

-----------------------------------------------------------------------------
(* What a pair takes off a board. *)

LEMMA Indexes ==
  /\ \A s \in Seats : StateIndex(s) \in Boards
  /\ Duel => StateIndex(0) = 0 /\ StateIndex(1) = 1
  /\ ~ Duel => StateIndex(0) = 0 /\ StateIndex(1) = 0
BY DEF StateIndex, Boards, Seats

\* Whatever a removal does to the groups, it takes the two tiles away.
LEMMA RemovalType ==
  ASSUME NEW b \in BoardType, NEW p, NEW q, NEW c \in AfterRemoval(b, p, q)
  PROVE  c \in BoardType /\ c.left = b.left \ {p, q}
<1> DEFINE rest == [b EXCEPT !.left = b.left \ {p, q}]
<1>1. rest \in BoardType /\ rest.left = b.left \ {p, q}
  BY DEF BoardType
<1>2. c = rest \/ c \in Reshuffled(rest)
  BY DEF AfterRemoval, BoardType
<1> HIDE DEF rest
<1> QED BY <1>1, <1>2, ReshuffledType

LEMMA TwoMore ==
  ASSUME NEW tiles \in SUBSET Layout, NEW p, NEW q, p # q, p \notin tiles, q \notin tiles
  PROVE  Cardinality(tiles \cup {p, q}) = Cardinality(tiles) + 2
<1>1. IsFiniteSet(tiles) /\ Cardinality(tiles) \in Nat
  BY TilesFinite
<1>2. IsFiniteSet(tiles \cup {p}) /\ Cardinality(tiles \cup {p}) = Cardinality(tiles) + 1
  BY <1>1, FS_AddElement
<1>3. Cardinality((tiles \cup {p}) \cup {q}) = Cardinality(tiles \cup {p}) + 1
  BY <1>2, FS_AddElement
<1>4. (tiles \cup {p}) \cup {q} = tiles \cup {p, q}
  OBVIOUS
<1>5. Cardinality(tiles \cup {p, q}) = Cardinality(tiles) + 1 + 1
  BY <1>2, <1>3, <1>4
<1> QED BY <1>1, <1>5

-----------------------------------------------------------------------------
(* What the steps do to the round. *)

\* The steps that leave the boards alone and neither start a round nor show a hint.
Calm ==
  /\ UNCHANGED <<mode, board, removedBy, pairs, hints, hint>>
  /\ status' \in {status, "finished"}
  /\ winner' \in Seats \cup {Nobody}
  /\ ready' \in SUBSET Seats /\ timer' \in BOOLEAN /\ fired' \in 0..MaxFired

LEMMA CalmKeeps ==
  ASSUME RoundType, EveryPairCounted, DuelHintFits, Calm
  PROVE  RoundType' /\ EveryPairCounted' /\ DuelHintFits'
<1>1. RoundType'
  BY DEF RoundType, Calm, Boards, StateIndex, Duel
<1>2. EveryPairCounted'
  BY DEF EveryPairCounted, Calm, Tiles, StateIndex, Duel
<1>3. DuelHintFits'
  BY DEF DuelHintFits, Calm, StateIndex, Duel
<1> QED BY <1>1, <1>2, <1>3

LEMMA ConcedeCalm ==
  ASSUME RoundType, NEW s \in Seats, Concede(s), UNCHANGED <<mode, ready, fired>>
  PROVE  Calm
<1>1. Other(s) \in Seats
  BY DEF Other, Seats
<1> QED BY <1>1 DEF Calm, Concede, Finish, RoundType, round

LEMMA CalmSteps ==
  ASSUME RoundType,
         \/ Fire \/ TimeUp \/ Connection
         \/ \E s \in Seats : AskRematch(s)
         \/ \E c \in sockets : LeaveTable(c)
         \/ \E s \in Seats \cap Movers : MoveOn(s)
         \/ \E d \in grace : Expire(d)
  PROVE  Calm
<1>0. /\ status' \in {status, "finished"} => status' \in {"playing", "finished"}
      /\ MaxFired \in Nat /\ \A o : SeatOf(o) \in Seats
  BY RoomAssumption DEF RoundType, Seats, SeatOf, Places
<1>1. CASE Fire
  <2>1. fired' \in 0..MaxFired
    BY <1>0, <1>1 DEF Fire, RoundType
  <2> QED BY <1>0, <1>1, <2>1 DEF Fire, Calm, RoundType, round
<1>2. CASE TimeUp
  <2>1. TimedWinner(Tiles(0), Tiles(1)) \in Seats \cup {Nobody}
    BY DEF TimedWinner, Seats
  <2> QED BY <1>0, <1>2, <2>1 DEF TimeUp, Calm, RoundType
<1>3. ASSUME NEW s \in Seats, AskRematch(s)
      PROVE  Calm
  BY <1>3 DEF AskRematch, Calm, RoundType, round
<1>4. ASSUME NEW c \in sockets, LeaveTable(c)
      PROVE  Calm
  BY <1>0, <1>4, ConcedeCalm DEF LeaveTable
<1>5. ASSUME NEW s \in Seats, MoveOn(s)
      PROVE  Calm
  BY <1>5, ConcedeCalm DEF MoveOn
<1>6. CASE Connection
  BY <1>6 DEF Connection, Calm, RoundType, round
<1>7. ASSUME NEW d \in grace, Expire(d)
      PROVE  Calm
  <2>1. CASE Absent(d)
    BY <1>0, <1>7, <2>1, ConcedeCalm DEF Expire
  <2>2. CASE ~ Absent(d)
    BY <1>7, <2>2 DEF Expire, Calm, RoundType, round
  <2> QED BY <2>1, <2>2
<1> QED BY <1>1, <1>2, <1>3, <1>4, <1>5, <1>6, <1>7

LEMMA StartRoundKeeps ==
  ASSUME RoundType, NEW b \in NewBoards, StartRound(b), UNCHANGED <<mode, fired>>
  PROVE  RoundType' /\ EveryPairCounted' /\ DuelHintFits'
<1>1. b \in BoardType /\ b.left = Layout
  BY NewBoardType
<1>2. UNCHANGED <<Duel, Boards>> /\ \A s \in Seats : StateIndex(s)' = StateIndex(s)
  BY DEF Duel, Boards, StateIndex
<1>3. \A s \in Seats : board'[StateIndex(s)'] = b
  BY <1>2, Indexes DEF StartRound
<1>4. RoundType'
  BY <1>1, <1>2, RoomAssumption DEF RoundType, StartRound, Timed
<1>5. EveryPairCounted'
  <2>1. Cardinality(Layout) \in Nat /\ Cardinality({}) = 0
    BY TilesFinite, FS_EmptySet
  <2>2. \A s \in Seats : pairs'[s] = 0 /\ removedBy'[s] = {}
    BY DEF StartRound
  <2>3. \A s \in Seats : Tiles(s)' = Cardinality(Layout)
    BY <1>1, <1>3 DEF Tiles
  <2>4. ~ Duel => board'[0].left = Layout \ (removedBy'[0] \cup removedBy'[1])
    BY <1>1, <1>2, <1>3, <2>2, Indexes DEF Seats
  <2>5. CASE Duel
    <3>1. \A s \in Seats : Tiles(s)' + 2 * pairs'[s] = Cardinality(Layout)
      BY <2>1, <2>2, <2>3
    <3> QED BY <1>2, <2>5, <3>1 DEF EveryPairCounted
  <2>6. CASE ~ Duel
    <3>1. \A s \in Seats : Cardinality(removedBy'[s]) = 2 * pairs'[s]
      BY <2>1, <2>2
    <3> QED BY <1>2, <2>4, <2>6, <3>1 DEF EveryPairCounted
  <2> QED BY <2>5, <2>6
<1>6. DuelHintFits'
  BY DEF DuelHintFits, StartRound
<1> QED BY <1>4, <1>5, <1>6

LEMMA RequestHintKeeps ==
  ASSUME RoundType, EveryPairCounted, DuelHintFits, NEW s \in Seats, RequestHint(s)
  PROVE  RoundType' /\ EveryPairCounted' /\ DuelHintFits'
<1>1. PICK pq \in AvailablePair(board[StateIndex(s)]) : hint' = [hint EXCEPT ![s] = pq]
  BY DEF RequestHint
<1>2. UNCHANGED <<mode, status, winner, board, removedBy, pairs, ready, timer, fired>>
      /\ hints' = [hints EXCEPT ![s] = @ - 1] /\ hints[s] > 0
  BY DEF RequestHint
<1>3. board[StateIndex(s)] \in BoardType
  BY Indexes DEF RoundType
<1>4. pq \in Layout \X Layout /\ CanRemove(board[StateIndex(s)], pq[1], pq[2])
  BY <1>1, <1>3 DEF AvailablePair, Pairs, Free, BoardType
<1>5. UNCHANGED <<Duel, Boards>> /\ \A r \in Seats : StateIndex(r)' = StateIndex(r)
  BY <1>2 DEF Duel, Boards, StateIndex
<1>6. RoundType'
  <2>1. hints' \in [Seats -> 0..StartingHints]
    BY <1>2, RoomAssumption DEF RoundType
  <2>2. hint' \in [Seats -> {NoHint} \cup (Layout \X Layout)]
    BY <1>1, <1>4 DEF RoundType
  <2> QED BY <1>2, <1>5, <2>1, <2>2 DEF RoundType
<1>7. EveryPairCounted'
  BY <1>2, <1>5 DEF EveryPairCounted, Tiles
<1>8. DuelHintFits'
  <2> SUFFICES ASSUME Duel, status = "playing", NEW r \in Seats, hint'[r] # NoHint
               PROVE  CanRemove(board[StateIndex(r)], hint'[r][1], hint'[r][2])
    BY <1>2, <1>5 DEF DuelHintFits
  <2>1. CASE r = s
    BY <1>1, <1>4, <2>1 DEF RoundType
  <2>2. CASE r # s
    BY <1>1, <2>2 DEF RoundType, DuelHintFits
  <2> QED BY <2>1, <2>2
<1> QED BY <1>6, <1>7, <1>8

LEMMA RemovePairKeeps ==
  ASSUME RoundType, EveryPairCounted, DuelHintFits,
         NEW s \in Seats, NEW p \in Layout, NEW q \in Layout, RemovePair(s, p, q)
  PROVE  RoundType' /\ EveryPairCounted' /\ DuelHintFits'
<1>1. PICK b \in AfterRemoval(board[StateIndex(s)], p, q) :
        board' = [board EXCEPT ![StateIndex(s)] = b]
  BY DEF RemovePair
<1>2. /\ status = "playing" /\ UNCHANGED <<mode, hints, ready, fired>>
      /\ pairs' = [pairs EXCEPT ![s] = @ + 1]
      /\ hint' = [hint EXCEPT ![s] = NoHint]
      /\ removedBy' = IF Duel THEN removedBy ELSE [removedBy EXCEPT ![s] = @ \cup {p, q}]
  BY DEF RemovePair, HintDropped, Credited
<1>3. StateIndex(s) \in Boards /\ board[StateIndex(s)] \in BoardType
  BY Indexes DEF RoundType
<1>4. p # q /\ p \in board[StateIndex(s)].left /\ q \in board[StateIndex(s)].left
  BY DEF RemovePair, CanRemove, IsFree
<1>5. b \in BoardType /\ b.left = board[StateIndex(s)].left \ {p, q}
  BY <1>3, RemovalType
<1>6. UNCHANGED <<Duel, Boards>> /\ \A r \in Seats : StateIndex(r)' = StateIndex(r)
  BY <1>2 DEF Duel, Boards, StateIndex
<1>7. board' \in [Boards -> BoardType] /\ board'[StateIndex(s)] = b
  BY <1>1, <1>3, <1>5 DEF RoundType
<1>8. \A r \in Seats : Duel /\ r # s => board'[StateIndex(r)] = board[StateIndex(r)]
  <2>1. \A r \in Seats : Duel /\ r # s => StateIndex(r) # StateIndex(s)
    BY Indexes DEF Seats
  <2> QED BY <1>1, <1>3, <2>1, Indexes DEF RoundType
<1>9. RoundType'
  <2>1. status' \in {"playing", "finished"} /\ winner' \in Seats \cup {Nobody} /\ timer' \in BOOLEAN
    <3>1. CASE board'[StateIndex(s)].left = {}
      BY <3>1 DEF RemovePair, Finish
    <3>2. CASE board'[StateIndex(s)].left # {}
      BY <3>2 DEF RemovePair, RoundType
    <3> QED BY <3>1, <3>2
  <2>2. removedBy' \in [Seats -> SUBSET Layout]
    BY <1>2 DEF RoundType
  <2>3. pairs' \in [Seats -> Nat]
    BY <1>2 DEF RoundType
  <2>4. hint' \in [Seats -> {NoHint} \cup (Layout \X Layout)]
    BY <1>2 DEF RoundType
  <2> QED BY <1>2, <1>6, <1>7, <2>1, <2>2, <2>3, <2>4 DEF RoundType
<1>10. Cardinality(b.left) + 2 = Cardinality(board[StateIndex(s)].left)
       /\ Cardinality(b.left) \in Nat
  BY <1>3, <1>4, <1>5, TwoFewer, TilesFinite DEF BoardType
<1>11. pairs'[s] = pairs[s] + 1 /\ \A r \in Seats : r # s => pairs'[r] = pairs[r]
  BY <1>2 DEF RoundType
<1>12. \A r \in Seats : pairs[r] \in Nat
  BY DEF RoundType
<1>13. ASSUME Duel
       PROVE  EveryPairCounted'
  <2>1. ASSUME NEW r \in Seats
        PROVE  Tiles(r)' + 2 * pairs'[r] = Cardinality(Layout)
    <3>1. Tiles(r) + 2 * pairs[r] = Cardinality(Layout)
      BY <1>13 DEF EveryPairCounted
    <3>2. CASE r = s
      BY <1>6, <1>7, <1>10, <1>11, <1>12, <3>1, <3>2 DEF Tiles
    <3>3. CASE r # s
      BY <1>6, <1>8, <1>11, <1>13, <3>1, <3>3 DEF Tiles
    <3> QED BY <3>2, <3>3
  <2>2. \A r \in Seats : Tiles(r)' + 2 * pairs'[r] = Cardinality(Layout)
    BY <2>1
  <2> QED BY <1>6, <1>13, <2>2 DEF EveryPairCounted
<1>14. ASSUME ~ Duel
       PROVE  EveryPairCounted'
  <2>1. removedBy' = [removedBy EXCEPT ![s] = @ \cup {p, q}]
        /\ StateIndex(s) = 0 /\ board[0].left = Layout \ (removedBy[0] \cup removedBy[1])
    BY <1>2, <1>14, Indexes DEF EveryPairCounted, Seats
  <2>2. board'[0].left = Layout \ (removedBy'[0] \cup removedBy'[1])
    BY <1>5, <1>7, <2>1 DEF RoundType, Seats
  <2>3. p \notin removedBy[s] /\ q \notin removedBy[s] /\ removedBy[s] \in SUBSET Layout
        /\ removedBy'[s] = removedBy[s] \cup {p, q}
        /\ \A r \in Seats : r # s => removedBy'[r] = removedBy[r]
    BY <1>4, <2>1 DEF RoundType, Seats
  <2>4. ASSUME NEW r \in Seats
        PROVE  Cardinality(removedBy'[r]) = 2 * pairs'[r]
    <3>1. Cardinality(removedBy[r]) = 2 * pairs[r]
      BY <1>14 DEF EveryPairCounted
    <3>2. CASE r = s
      <4>1. Cardinality(removedBy'[s]) = Cardinality(removedBy[s]) + 2
        BY <1>4, <2>3, TwoMore
      <4> QED BY <1>11, <1>12, <3>1, <3>2, <4>1
    <3>3. CASE r # s
      BY <1>11, <2>3, <3>1, <3>3
    <3> QED BY <3>2, <3>3
  <2>5. \A r \in Seats : Cardinality(removedBy'[r]) = 2 * pairs'[r]
    BY <2>4
  <2> QED BY <1>6, <1>14, <2>2, <2>5 DEF EveryPairCounted
<1>15. DuelHintFits'
  <2> SUFFICES ASSUME Duel, NEW r \in Seats, hint'[r] # NoHint
               PROVE  CanRemove(board'[StateIndex(r)], hint'[r][1], hint'[r][2])
    BY <1>6 DEF DuelHintFits
  <2>1. r # s /\ hint'[r] = hint[r]
    BY <1>2 DEF RoundType
  <2> QED BY <1>2, <1>8, <2>1 DEF DuelHintFits
<1> QED BY <1>9, <1>13, <1>14, <1>15

\* The room adds nothing to what its connections do.
LEMMA RoomKeepsSeating ==
  ASSUME SeatingInv, Next
  PROVE  SeatingInv'
<1>1. UNCHANGED seating \/ SeatingStep
  <2>1. \A s \in Seats \cap Movers : s \in Places \cap Movers
    BY DEF Seats, Places
  <2> QED
    BY <2>1 DEF Next, SeatingStep, Fire, TimeUp, RemovePair, RequestHint, AskRematch, Rematch,
                LeaveTable, MoveOn, Expire, Connection
<1>2. CASE UNCHANGED seating
  BY <1>2, SeatingUnchanged
<1> QED BY <1>1, <1>2, SeatingKept

-----------------------------------------------------------------------------
(* The invariant. *)

LEMMA InitSound == Init => MahjongInv
<1> SUFFICES ASSUME Init
             PROVE  MahjongInv
  OBVIOUS
<1>1. PICK b \in NewBoards : board = [i \in Boards |-> b]
  BY DEF Init
<1>2. b \in BoardType /\ b.left = Layout
  BY NewBoardType
<1>3. RoundType
  BY <1>1, <1>2, RoomAssumption DEF Init, RoundType, Timed
<1>4. SeatingInv
  BY SeatingInitSound DEF Init
<1>5. \A s \in Seats : board[StateIndex(s)] = b
  BY <1>1, Indexes
<1>6. EveryPairCounted
  <2>1. Cardinality(Layout) \in Nat /\ Cardinality({}) = 0
    BY TilesFinite, FS_EmptySet
  <2>2. \A s \in Seats : pairs[s] = 0 /\ removedBy[s] = {} /\ Tiles(s) = Cardinality(Layout)
    BY <1>2, <1>5 DEF Init, Tiles
  <2>3. ~ Duel => board[0].left = Layout \ (removedBy[0] \cup removedBy[1])
    BY <1>2, <1>5, <2>2, Indexes DEF Seats
  <2>4. \A s \in Seats : Tiles(s) + 2 * pairs[s] = Cardinality(Layout)
                         /\ Cardinality(removedBy[s]) = 2 * pairs[s]
    BY <2>1, <2>2
  <2> QED BY <2>3, <2>4 DEF EveryPairCounted
<1>7. DuelHintFits
  BY DEF Init, DuelHintFits
<1> QED BY <1>3, <1>4, <1>6, <1>7 DEF MahjongInv

LEMMA StepSound == MahjongInv /\ [Next]_vars => MahjongInv'
<1>1. ASSUME MahjongInv, Next
      PROVE  MahjongInv'
  <2>1. RoundType /\ SeatingInv /\ EveryPairCounted /\ DuelHintFits
    BY <1>1 DEF MahjongInv
  <2>2. SeatingInv'
    BY <1>1, <2>1, RoomKeepsSeating
  <2>3. RoundType' /\ EveryPairCounted' /\ DuelHintFits'
    <3>1. ASSUME NEW s \in Seats, NEW b \in NewBoards, Rematch(s, b)
          PROVE  RoundType' /\ EveryPairCounted' /\ DuelHintFits'
      BY <2>1, <3>1, StartRoundKeeps DEF Rematch
    <3> QED BY <1>1, <2>1, <3>1, CalmSteps, CalmKeeps, RequestHintKeeps, RemovePairKeeps DEF Next
  <2> QED BY <2>2, <2>3 DEF MahjongInv
<1>2. ASSUME MahjongInv, UNCHANGED vars
      PROVE  MahjongInv'
  <2>1. UNCHANGED <<mode, status, winner, board, removedBy, pairs, hints, hint, ready, timer,
                    fired, seating>>
    BY <1>2 DEF vars, round
  <2>2. UNCHANGED <<Duel, Boards>> /\ \A r \in Seats : StateIndex(r)' = StateIndex(r)
    BY <2>1 DEF Duel, Boards, StateIndex
  <2>3. RoundType' /\ SeatingInv'
    BY <1>2, <2>1, <2>2, SeatingUnchanged DEF MahjongInv, RoundType
  <2>4. EveryPairCounted' /\ DuelHintFits'
    BY <1>2, <2>1, <2>2 DEF MahjongInv, EveryPairCounted, DuelHintFits, Tiles
  <2> QED BY <2>3, <2>4 DEF MahjongInv
<1> QED BY <1>1, <1>2

\* The inductive invariant of the room, on every layout: pairs, boards and hints
\* agree, and whoever joins again has a later generation than all who were gone.
THEOREM MahjongInvariant == Spec => []MahjongInv
BY InitSound, StepSound, PTL DEF Spec

\* The variables have their types, whatever the layout, the groups and the bounds.
THEOREM TypeCorrect == Spec => []TypeOK
<1>1. MahjongInv => TypeOK
  BY DEF MahjongInv, RoundType, SeatingInv, BoardType, TypeOK
<1> QED BY <1>1, MahjongInvariant, PTL

\* Each tile that is gone counts for one player, on every layout.
THEOREM CountsEveryPair == Spec => []EveryPairCounted
<1>1. MahjongInv => EveryPairCounted
  BY DEF MahjongInv
<1> QED BY <1>1, MahjongInvariant, PTL

\* The hint of a player in a duel can always be used.
THEOREM HintsFit == Spec => []DuelHintFits
<1>1. MahjongInv => DuelHintFits
  BY DEF MahjongInv
<1> QED BY <1>1, MahjongInvariant, PTL

\* A duel is won by clearing the board, by having fewer tiles when the time is up,
\* or because the other seat is left, or absent with nobody back.
THEOREM DuelEndsHaveCauses == Spec => DuelEndHasCause
<1> DEFINE Caused ==
      status = "playing" /\ status' = "finished" =>
        IF winner' = Nobody
        THEN Duel => Tiles(0) = Tiles(1)
        ELSE \/ board'[StateIndex(winner')].left = {}
             \/ Tiles(winner') < Tiles(Other(winner'))
             \/ Forfeits(Other(winner'))
<1>1. ASSUME MahjongInv, Next
      PROVE  Caused
  <2> SUFFICES ASSUME status = "playing", status' = "finished"
               PROVE  IF winner' = Nobody
                      THEN Duel => Tiles(0) = Tiles(1)
                      ELSE \/ board'[StateIndex(winner')].left = {}
                           \/ Tiles(winner') < Tiles(Other(winner'))
                           \/ Forfeits(Other(winner'))
    OBVIOUS
  <2>0. RoundType /\ SeatingInv /\ \A o : SeatOf(o) \in Seats
    BY <1>1 DEF MahjongInv, SeatOf, Places, Seats
  <2>1. ASSUME NEW s \in Seats
        PROVE  Tiles(s) \in Nat
    BY <2>0, Indexes, TilesFinite DEF Tiles, RoundType, BoardType
  <2>2. \A s \in Seats : s # Nobody /\ Other(s) \in Seats /\ Other(Other(s)) = s
    BY DEF Seats, Nobody, Other
  <2>3. CASE TimeUp
    <3>1. winner' = IF Duel THEN TimedWinner(Tiles(0), Tiles(1)) ELSE Nobody
      BY <2>3 DEF TimeUp
    <3>2. Tiles(0) \in Nat /\ Tiles(1) \in Nat
      BY <2>1 DEF Seats
    <3>3. CASE Duel /\ Tiles(0) < Tiles(1)
      BY <3>1, <3>2, <3>3 DEF TimedWinner, Nobody, Other
    <3>4. CASE Duel /\ Tiles(1) < Tiles(0)
      BY <3>1, <3>2, <3>4 DEF TimedWinner, Nobody, Other
    <3>5. CASE Duel /\ Tiles(0) = Tiles(1)
      BY <3>1, <3>2, <3>5 DEF TimedWinner
    <3>6. CASE ~ Duel
      BY <3>1, <3>6
    <3>7. Tiles(0) < Tiles(1) \/ Tiles(1) < Tiles(0) \/ Tiles(0) = Tiles(1)
      BY <3>2
    <3> QED BY <3>3, <3>4, <3>5, <3>6, <3>7
  <2>4. ASSUME NEW s \in Seats, NEW p, NEW q, RemovePair(s, p, q)
        PROVE  /\ winner' = (IF Duel THEN s ELSE Nobody)
               /\ board'[StateIndex(s)].left = {}
    BY <2>4 DEF RemovePair, Finish
  <2>5. ASSUME NEW s \in Seats, Concede(s)
        PROVE  winner' = Other(s) /\ winner' # Nobody /\ Other(winner') = s
    BY <2>2, <2>5 DEF Concede, Finish, round
  <2>6. ASSUME NEW c \in sockets, LeaveTable(c)
        PROVE  winner' # Nobody /\ Forfeits(Other(winner'))
    <3>1. StandUp(c) /\ Concede(SeatOf(c.object))
      BY <2>6 DEF LeaveTable
    <3>2. winner' # Nobody /\ Other(winner') = SeatOf(c.object)
      BY <2>0, <2>5, <3>1
    <3>3. c.object \in Objects /\ player'[c.object].left /\ sockets' # sockets
      BY <2>0, <3>1, StandUpLeaves
    <3> QED BY <3>2, <3>3 DEF Forfeits
  <2>7. ASSUME NEW s \in Seats, MoveOn(s)
        PROVE  winner' # Nobody /\ Forfeits(Other(winner'))
    <3>1. MoveAway(s) /\ Concede(s) /\ s \in Places
      BY <2>7 DEF MoveOn, Seats, Places
    <3>2. winner' # Nobody /\ Other(winner') = s
      BY <2>5, <3>1
    <3>3. s \in Objects /\ SeatOf(s) = s /\ player'[s].left /\ entries' # entries
      BY <2>0, <3>1, MoveAwayLeaves
    <3> QED BY <3>2, <3>3 DEF Forfeits
  <2>8. ASSUME NEW d \in grace, Expire(d)
        PROVE  winner' # Nobody /\ Forfeits(Other(winner'))
    <3>1. Absent(d) /\ Concede(SeatOf(d.object)) /\ GraceOver(d)
      BY <2>8 DEF Expire, round
    <3>2. winner' # Nobody /\ Other(winner') = SeatOf(d.object)
      BY <2>0, <2>5, <3>1
    <3>3. ~ d.back /\ d \in grace \ grace'
      BY <2>0, <3>1, NobodyBack DEF GraceOver
    <3> QED BY <3>2, <3>3 DEF Forfeits
  <2>9. ASSUME \/ Fire \/ Connection
               \/ \E s \in Seats : RequestHint(s) \/ AskRematch(s) \/ \E b : Rematch(s, b)
        PROVE  FALSE
    BY <2>9 DEF Fire, RequestHint, AskRematch, Rematch, Connection, round
  <2>10. ASSUME NEW s \in Seats, NEW p, NEW q, RemovePair(s, p, q)
         PROVE  IF winner' = Nobody
                THEN Duel => Tiles(0) = Tiles(1)
                ELSE board'[StateIndex(winner')].left = {}
    <3>1. CASE Duel
      BY <2>2, <2>4, <2>10, <3>1
    <3>2. CASE ~ Duel
      BY <2>4, <2>10, <3>2
    <3> QED BY <3>1, <3>2
  <2> QED BY <1>1, <2>3, <2>6, <2>7, <2>8, <2>9, <2>10 DEF Next
<1>2. MahjongInv /\ [Next]_vars => [Caused]_vars
  BY <1>1
<1> QED BY <1>2, MahjongInvariant, PTL DEF Spec, DuelEndHasCause

-----------------------------------------------------------------------------
(* Pairs to remove, and deals that can be cleared. *)

\* When a removal leaves no pair the rest is dealt again, unless it cannot be.
LEMMA RemovalLeavesPair ==
  ASSUME NEW b \in BoardType, EvenBoard(b), NEW p, NEW q, CanRemove(b, p, q),
         NEW c \in AfterRemoval(b, p, q)
  PROVE  /\ EvenBoard(c)
         /\ c.left # {} => Pairs(c) # {} \/ Pairings[c.left] = {}
         /\ c.group = b.group \/ c \in Clearable
<1> DEFINE rest == [b EXCEPT !.left = b.left \ {p, q}]
<1>1. rest \in BoardType /\ rest.left = Without(b.left, {p, q}) /\ rest.group = b.group
  BY DEF BoardType, Without
<1>2. p \in b.left /\ q \in b.left /\ p # q /\ b.group[p] = b.group[q] /\ b.left \in TileSets
  BY DEF CanRemove, IsFree, BoardType, TileSets
<1>3. EvenBoard(rest)
  <2> SUFFICES ASSUME NEW k \in Group
               PROVE  \E n \in Nat : Count(b.group, Without(b.left, {p, q}), k) = 2 * n
    BY <1>1 DEF EvenBoard, Even
  <2>1. PICK n \in Nat : Count(b.group, b.left, k) = 2 * n
    BY DEF EvenBoard, Even
  <2>2. /\ Count(b.group, Without(b.left, {p, q}), k) \in Nat
        /\ Count(b.group, b.left, k) =
             Count(b.group, Without(b.left, {p, q}), k) + (IF b.group[p] = k THEN 2 ELSE 0)
    BY <1>2, CountPair
  <2>3. \/ Count(b.group, Without(b.left, {p, q}), k) = 2 * n
        \/ (Count(b.group, Without(b.left, {p, q}), k) = 2 * (n - 1) /\ n - 1 \in Nat)
    BY <2>1, <2>2
  <2> QED BY <2>3
<1>4. \/ c = rest /\ (rest.left = {} \/ Pairs(rest) # {} \/ Reshuffled(rest) = {})
      \/ c \in Reshuffled(rest)
  BY DEF AfterRemoval, BoardType
<1> HIDE DEF rest
<1>5. CASE c \in Reshuffled(rest)
  <2>1. c \in BoardType /\ Dealing(c)
    BY <1>1, <1>5, ReshuffledType, ReshuffledDealing
  <2> QED BY <2>1, DealingFacts
<1>6. CASE c = rest /\ (rest.left = {} \/ Pairs(rest) # {} \/ Reshuffled(rest) = {})
  <2>1. Reshuffled(rest) = {} => Pairings[rest.left] = {}
    BY <1>1, <1>3, ReshuffleSucceeds
  <2> QED BY <1>1, <1>3, <1>6, <2>1
<1> QED BY <1>4, <1>5, <1>6

LEMMA NewBoardFacts ==
  ASSUME NEW b \in NewBoards
  PROVE  EvenBoard(b) /\ b \in Clearable /\ Pairs(b) # {}
<1>1. b \in BoardType /\ b.left # {} /\ Dealing(b)
  BY NewBoardType, NewBoardDealing, BoardAssumption
<1> QED BY <1>1, DealingFacts

\* The part of the invariant about pairs.
PairInv == MahjongInv /\ BoardsEven /\ PairUnlessIrreducible

LEMMA RemovePairLeavesPair ==
  ASSUME RoundType, BoardsEven, PairUnlessIrreducible,
         NEW s \in Seats, NEW p \in Layout, NEW q \in Layout, RemovePair(s, p, q)
  PROVE  BoardsEven' /\ PairUnlessIrreducible'
<1>1. PICK b \in AfterRemoval(board[StateIndex(s)], p, q) :
        board' = [board EXCEPT ![StateIndex(s)] = b]
  BY DEF RemovePair
<1>2. status = "playing" /\ UNCHANGED mode /\ CanRemove(board[StateIndex(s)], p, q)
  BY DEF RemovePair
<1>3. StateIndex(s) \in Boards /\ board[StateIndex(s)] \in BoardType
  BY Indexes DEF RoundType
<1>4. Boards' = Boards
  BY <1>2 DEF Boards, StateIndex, Duel
<1>5. board'[StateIndex(s)] = b /\ \A i \in Boards : i # StateIndex(s) => board'[i] = board[i]
  BY <1>1, <1>3 DEF RoundType
<1>6. EvenBoard(b) /\ (b.left # {} => Pairs(b) # {} \/ Pairings[b.left] = {})
  BY <1>2, <1>3, RemovalLeavesPair DEF BoardsEven
<1>7. \A i \in Boards : EvenBoard(board'[i])
  BY <1>5, <1>6 DEF BoardsEven
<1>8. ASSUME status' = "playing", NEW i \in Boards
      PROVE  Pairs(board'[i]) # {} \/ Pairings[board'[i].left] = {}
  <2>1. CASE i = StateIndex(s)
    <3>1. b.left # {}
      BY <1>5, <1>8 DEF RemovePair, Finish
    <3> QED BY <1>5, <1>6, <2>1, <3>1
  <2>2. CASE i # StateIndex(s)
    BY <1>2, <1>5, <2>2 DEF PairUnlessIrreducible
  <2> QED BY <2>1, <2>2
<1>9. BoardsEven'
  BY <1>4, <1>7 DEF BoardsEven
<1>10. PairUnlessIrreducible'
  BY <1>4, <1>8 DEF PairUnlessIrreducible
<1> QED BY <1>9, <1>10

LEMMA PairInit == Init => PairInv
<1> SUFFICES ASSUME Init
             PROVE  PairInv
  OBVIOUS
<1>1. PICK b \in NewBoards : board = [i \in Boards |-> b]
  BY DEF Init
<1>2. \A i \in Boards : EvenBoard(board[i]) /\ Pairs(board[i]) # {}
  BY <1>1, NewBoardFacts
<1> QED BY <1>2, InitSound DEF PairInv, BoardsEven, PairUnlessIrreducible

LEMMA PairStep == PairInv /\ [Next]_vars => PairInv'
<1> SUFFICES ASSUME PairInv, [Next]_vars
             PROVE  PairInv'
  OBVIOUS
<1>1. MahjongInv' /\ RoundType /\ BoardsEven /\ PairUnlessIrreducible
  BY StepSound DEF PairInv, MahjongInv
<1>2. ASSUME UNCHANGED <<mode, board>>, status' = "playing" => status = "playing"
      PROVE  BoardsEven' /\ PairUnlessIrreducible'
  <2>1. Boards' = Boards
    BY <1>2 DEF Boards, StateIndex, Duel
  <2>2. BoardsEven'
    BY <1>1, <1>2, <2>1 DEF BoardsEven
  <2>3. PairUnlessIrreducible'
    BY <1>1, <1>2, <2>1 DEF PairUnlessIrreducible
  <2> QED BY <2>2, <2>3
<1>3. ASSUME Calm
      PROVE  BoardsEven' /\ PairUnlessIrreducible'
  BY <1>2, <1>3 DEF Calm
<1>4. ASSUME NEW s \in Seats, RequestHint(s)
      PROVE  BoardsEven' /\ PairUnlessIrreducible'
  BY <1>2, <1>4 DEF RequestHint
<1>5. ASSUME NEW s \in Seats, NEW b \in NewBoards, Rematch(s, b)
      PROVE  BoardsEven' /\ PairUnlessIrreducible'
  <2>1. board' = [i \in Boards |-> b] /\ UNCHANGED mode
    BY <1>5 DEF Rematch, StartRound
  <2>2. Boards' = Boards
    BY <2>1 DEF Boards, StateIndex, Duel
  <2>3. \A i \in Boards : EvenBoard(board'[i]) /\ Pairs(board'[i]) # {}
    BY <2>1, NewBoardFacts
  <2>4. BoardsEven'
    BY <2>2, <2>3 DEF BoardsEven
  <2>5. PairUnlessIrreducible'
    BY <2>2, <2>3 DEF PairUnlessIrreducible
  <2> QED BY <2>4, <2>5
<1>6. CASE Next
  BY <1>1, <1>3, <1>4, <1>5, <1>6, CalmSteps, RemovePairLeavesPair DEF Next, PairInv
<1>7. CASE UNCHANGED vars
  BY <1>1, <1>2, <1>7 DEF vars, round, PairInv
<1> QED BY <1>6, <1>7

\* While a round is played there is a pair on every board, or the places that are
\* left cannot be taken off in pairs at all: no layout, no set of groups and no
\* order of removals gets a room stuck that a reshuffle could save.
THEOREM NobodyIsStuck == Spec => []PairUnlessIrreducible
<1>1. Spec => []PairInv
  BY PairInit, PairStep, PTL DEF Spec
<1>2. PairInv => PairUnlessIrreducible
  BY DEF PairInv
<1> QED BY <1>1, <1>2, PTL

\* Every deal, of a new round or of a reshuffle, can be cleared.
THEOREM DealsCanBeCleared == Spec => DealsAreSolvable
<1> DEFINE Solvable ==
      \A i \in Boards :
        board'[i].group # board[i].group \/ ~ board'[i].left \subseteq board[i].left =>
          board'[i] \in Clearable
<1>1. ASSUME PairInv, Next
      PROVE  Solvable
  <2>1. RoundType /\ BoardsEven
    BY <1>1 DEF PairInv, MahjongInv
  <2>2. ASSUME UNCHANGED board
        PROVE  Solvable
    BY <2>2
  <2>3. ASSUME NEW s \in Seats, NEW p \in Layout, NEW q \in Layout, RemovePair(s, p, q)
        PROVE  Solvable
    <3>1. PICK b \in AfterRemoval(board[StateIndex(s)], p, q) :
            board' = [board EXCEPT ![StateIndex(s)] = b]
      BY <2>3 DEF RemovePair
    <3>2. StateIndex(s) \in Boards /\ board[StateIndex(s)] \in BoardType
          /\ CanRemove(board[StateIndex(s)], p, q)
      BY <2>1, <2>3, Indexes DEF RoundType, RemovePair
    <3>3. board'[StateIndex(s)] = b /\ \A i \in Boards : i # StateIndex(s) => board'[i] = board[i]
      BY <2>1, <3>1, <3>2 DEF RoundType
    <3>4. b.left \subseteq board[StateIndex(s)].left
      BY <3>2, RemovalType
    <3>5. b.group = board[StateIndex(s)].group \/ b \in Clearable
      BY <2>1, <3>2, RemovalLeavesPair DEF BoardsEven
    <3> QED BY <3>3, <3>4, <3>5
  <2>4. ASSUME NEW s \in Seats, NEW b \in NewBoards, Rematch(s, b)
        PROVE  Solvable
    <3>1. \A i \in Boards : board'[i] = b
      BY <2>4 DEF Rematch, StartRound
    <3> QED BY <3>1, NewBoardFacts
  <2>5. ASSUME NEW s \in Seats, RequestHint(s)
        PROVE  UNCHANGED board
    BY <2>5 DEF RequestHint
  <2>6. ASSUME Calm
        PROVE  UNCHANGED board
    BY <2>6 DEF Calm
  <2> HIDE DEF Solvable
  <2> QED BY <1>1, <2>1, <2>2, <2>3, <2>4, <2>5, <2>6, CalmSteps DEF Next
<1>2. PairInv /\ [Next]_vars => [Solvable]_vars
  BY <1>1
<1> QED BY <1>2, PairInit, PairStep, PTL DEF Spec, DealsAreSolvable

=============================================================================
