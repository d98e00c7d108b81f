------------------------------ MODULE MCShelves ------------------------------
(* Small rooms for Shelves: the fiction on pieces 1 and 2, poetry after it. *)
EXTENDS Shelves

CONSTANTS f1, f2, f3, p1, fiction, poetry, guest

MCKey == f1 :> 2 @@ f2 :> 4 @@ f3 :> 6 @@ p1 :> 2
MCRangeOf == f1 :> fiction @@ f2 :> fiction @@ f3 :> fiction @@ p1 :> poetry

Pieces(positions) == {[id |-> i, position |-> positions[i]] : i \in DOMAIN positions}
Board(id, piece, position, startsAt) ==
  [id |-> id, piece |-> piece, position |-> position, startsAt |-> startsAt, own |-> FALSE]
RoomOf(positions, boards, fictionAt, poetryAt) ==
  [pieces |-> Pieces(positions), areas |-> boards, named |-> {},
   nextArea |-> 1 + Cardinality(boards),
   rules |-> fiction :> fictionAt @@ poetry :> poetryAt @@ guest :> Unplaced]
On(piece) == [area |-> Null, piece |-> piece]
At1(area) == [area |-> area, piece |-> Null]

\* Two planks and a second piece; poetry on a piece of its own.
Apart == RoomOf(<<1, 2, 3>>,
  {Board(1, 1, 0, 0), Board(2, 1, 1, 4), Board(3, 2, 0, 6), Board(4, 3, 0, 0)}, On(1), On(3))
\* Poetry begins halfway down the piece the fiction ends on.
Shared == RoomOf(<<1, 2>>,
  {Board(1, 1, 0, 0), Board(2, 2, 0, 4), Board(3, 2, 1, 0)}, On(1), At1(3))
\* A piece with two planks, reached from the piece before it.
Wide == RoomOf(<<1, 2, 4>>,
  {Board(1, 1, 0, 0), Board(2, 2, 0, 4), Board(3, 2, 1, 6), Board(4, 3, 0, 0)}, On(1), On(3))
\* Fiction alone, begun on a piece that has been renumbered past its next one, whose
\* plank no run reaches; no rule places poetry.
Stray == RoomOf(<<3, 2>>, {Board(1, 1, 0, 0), Board(2, 1, 1, 4), Board(3, 2, 0, 6)}, On(1), Unplaced)
\* A plank that orders itself cuts the fiction short of the plank behind it.
Cut == RoomOf(<<1, 2, 3>>,
  {Board(1, 1, 0, 0), [Board(2, 2, 0, 4) EXCEPT !.own = TRUE], Board(3, 3, 0, 4)}, On(1), Unplaced)
\* Two runs on one piece and a gap in its numbers, as two planks said to be full on
\* the piece before leave it: the plank between went off the face with a row naming it.
Gapped == [RoomOf(<<1, 2>>,
  {Board(1, 1, 0, 0), Board(2, 2, 0, 4), Board(3, 2, -2, 6), Board(4, 2, 2, 0)}, On(1), At1(4))
    EXCEPT !.named = {3}]
MCRooms == {Apart, Shared, Wide, Stray, Cut, Gapped}
MCSpent == [rm \in MCRooms |-> IF rm = Shared THEN 0 ELSE IF rm = Cut THEN 2 ELSE 1]
=============================================================================
