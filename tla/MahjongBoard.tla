----------------------------- MODULE MahjongBoard -----------------------------
(***************************************************************************)
(* Mahjong solitaire boards (server/core/mahjong/board.go).  A tile is     *)
(* its position <<x, y, z>>.  A board has the group of every tile of the   *)
(* layout and the set of tiles that are left, the complement of the code's *)
(* removed; two tiles match when their groups are equal, so the faces of a *)
(* group are left out.                                                     *)
(*                                                                         *)
(* Shuffles are choices from a set of outcomes.  removalOrder tries 256    *)
(* random walks; it is taken to find an order when there is one.           *)
(***************************************************************************)
EXTENDS Integers, FiniteSets

CONSTANTS
  Layout,        \* the positions of a fresh board
  Group,         \* the groups of matching tiles
  TilesOfGroup   \* how many tiles of a group there are in a set

ASSUME BoardAssumption ==
  /\ Layout \subseteq Int \X Int \X Nat
  /\ IsFiniteSet(Layout) /\ Layout # {}
  /\ TilesOfGroup \in Nat

Layer(xs, ys, z) == xs \X ys \X {z}

FullPositions ==
  Layer(0..11, 0..7, 0) \cup Layer(1..10, 2..5, 1) \cup Layer(4..7, 3..4, 2)

CompactPositions ==
  Layer(0..7, 0..5, 0) \cup Layer(1..6, 1..3, 1) \cup Layer(3..5, 1..2, 2)

\* The groups of standardPairs, with four tiles each: any two of the seasons match,
\* and any two of the flowers.
StandardGroups ==
  ({"characters", "dots", "bamboo"} \X (1..9)) \cup ({"honour"} \X (1..7))
    \cup {<<"season", 0>>, <<"flower", 0>>}

-----------------------------------------------------------------------------
(* Free tiles and pairs. *)

Above(p, q) == p[1] = q[1] /\ p[2] = q[2] /\ p[3] > q[3]

Beside(p, dx) == <<p[1] + dx, p[2], p[3]>>

IsFreeCovered(left, p) ==   \* mutant of IsFree: tiles above do not matter
  p \in left /\ ~ (Beside(p, -1) \in left /\ Beside(p, 1) \in left)

\* Nothing lies on the tile, and it can be slid out to one side.
IsFree(left, p) ==
  /\ p \in left
  /\ \A q \in left : ~ Above(q, p)
  /\ ~ (Beside(p, -1) \in left /\ Beside(p, 1) \in left)

Free(left) == {p \in left : IsFree(left, p)}

CanRemove(b, p, q) ==
  p # q /\ b.group[p] = b.group[q] /\ IsFree(b.left, p) /\ IsFree(b.left, q)

\* The order of the tiles' indexes.
Before(p, q) ==
  \/ p[3] < q[3]
  \/ p[3] = q[3] /\ p[2] < q[2]
  \/ p[3] = q[3] /\ p[2] = q[2] /\ p[1] < q[1]

Pairs(b) == {pq \in Free(b.left) \X Free(b.left) : Before(pq[1], pq[2]) /\ CanRemove(b, pq[1], pq[2])}

\* The first pair by index, if there is one.
AvailablePair(b) ==
  {pq \in Pairs(b) : \A other \in Pairs(b) \ {pq} :
     \/ Before(pq[1], other[1])
     \/ pq[1] = other[1] /\ Before(pq[2], other[2])}

-----------------------------------------------------------------------------
(* Deals that can be cleared. *)

\* Two tiles that are both free, whatever their groups.
FreeTwos(left) == {{p, q} : p, q \in Free(left)} \ {{p} : p \in Free(left)}

\* The pairings of the tiles in left that removalOrder can return: pairs that
\* are free one after the other.
Pairings[left \in SUBSET Layout] ==
  IF left = {} THEN {{}}
  ELSE UNION {{pairing \cup {pq} : pairing \in Pairings[left \ pq]} : pq \in FreeTwos(left)}

Count(group, left, k) == Cardinality({p \in left : group[p] = k})

\* Every pair of the pairing has got tiles of one group.
Fits(group, pairing) == \A pq \in pairing : \A p, q \in pq : group[p] = group[q]

AnyDeal(left, stock) ==   \* mutant of Dealt: the tiles are just shuffled
  {group \in [left -> Group] : \A k \in Group : Count(group, left, k) <= stock[k]}

\* The ways to deal pairs of tiles onto the tiles that are left.
Dealt(left, stock) ==
  {group \in [left -> Group] :
     /\ \E pairing \in Pairings[left] : Fits(group, pairing)
     /\ \A k \in Group : Count(group, left, k) <= stock[k]}

\* NewBoard: pairs of a shuffled set, as many as the layout takes.
NewBoards ==
  {[group |-> group, left |-> Layout] : group \in Dealt(Layout, [k \in Group |-> TilesOfGroup])}

\* Reshuffle: the tiles that are left change places.  There is no outcome when
\* they cannot be taken off in pairs.
Reshuffled(b) ==
  LET stock == [k \in Group |-> Count(b.group, b.left, k)]
  IN  {[b EXCEPT !.group = [p \in Layout |-> IF p \in b.left THEN group[p] ELSE @[p]]] :
         group \in Dealt(b.left, stock)}

\* The groups with which the tiles in left can be cleared, two free tiles of one
\* group after the other.
Clears[left \in SUBSET Layout] ==
  {group \in [Layout -> Group] :
     \/ left = {}
     \/ \E p, q \in Free(left) : p # q /\ group[p] = group[q] /\ group \in Clears[left \ {p, q}]}

Clearable ==
  UNION {{[group |-> group, left |-> left] : group \in Clears[left]} : left \in SUBSET Layout}

=============================================================================
