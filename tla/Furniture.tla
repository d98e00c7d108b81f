----------------------------- MODULE Furniture -----------------------------
(***************************************************************************)
(* The furniture, the runs of books laid across it and the boundaries a    *)
(* run is cut by (infrastructure/shelving/areas.ts,                        *)
(* domain/placement/geography.ts, domain/placement/rules.ts,               *)
(* shared/layout.ts).                                                      *)
(*                                                                         *)
(* A room is what the tables hold: pieces [id, position], areas            *)
(* [id, piece, position, startsAt, own], the place each rule names         *)
(* [area, piece] and the ids of the areas a row of the ledger names.  An   *)
(* area off its face keeps a row with a negative position.  `own` is a     *)
(* sort strategy other than inherit.  A sort key is a number, 0 the empty  *)
(* one; an id of 0 is null.                                                *)
(***************************************************************************)
EXTENDS Integers, SequencesExt, FiniteSetsExt

CONSTANTS Ranges,       \* each with one rule that serves it
          OtherRules    \* rules that serve no range

Rules == Ranges \cup OtherRules
Null == 0

PieceRow == [id : Nat \ {Null}, position : Int]
AreaRow == [id : Nat \ {Null}, piece : Nat, position : Int, startsAt : Nat, own : BOOLEAN]
RoomRow == [pieces : SUBSET PieceRow, areas : SUBSET AreaRow, named : SUBSET Nat,
            nextArea : Nat \ {Null}, rules : [Rules -> [area : Nat, piece : Nat]]]
IdsOf(rows) == {row.id : row \in rows}

\* What the schema holds a room to: its keys, what they refer to, and no two planks
\* numbered alike on a piece (unique (fixture_id, position)).
OnePlankAPlace(room) ==
  \A a, c \in room.areas : a # c => a.id # c.id /\ (a.piece = c.piece => a.position # c.position)
SchemaHolds(room) ==
  /\ \A f, g \in room.pieces : f.id = g.id => f = g
  /\ OnePlankAPlace(room)
  /\ \A a \in room.areas : a.id < room.nextArea /\ a.piece \in IdsOf(room.pieces)
  /\ room.named \subseteq IdsOf(room.areas)
  /\ \A r \in Rules : /\ room.rules[r].area \in IdsOf(room.areas) \cup {Null}
                       /\ room.rules[r].piece \in IdsOf(room.pieces) \cup {Null}

-----------------------------------------------------------------------------
(* Reading the furniture *)

\* A set in the order of its ranks, tuples of numbers.
Below(p, q) == \E k \in DOMAIN p : p[k] < q[k] /\ \A j \in 1 .. k - 1 : p[j] = q[j]
Sorted(S, rank) ==
  FoldSet(LAMBDA x, s : InsertAt(s, 1 + Cardinality({i \in DOMAIN s : Below(rank[s[i]], rank[x])}), x),
          <<>>, S)

PieceOf(room, area) == CHOOSE f \in room.pieces : f.id = area.piece
OnAFace(room) == {a \in room.areas : a.position >= 0 /\ PieceOf(room, a).position >= 0}
At(room, area) == [shelf |-> PieceOf(room, area).position, area |-> area.position]
Earlier(p, q) == p.shelf < q.shelf \/ (p.shelf = q.shelf /\ p.area < q.area)

\* slotsInOrder, of some areas, and of those furnitureIn reads
OrderOf(room, areas) ==
  Sorted(areas, [a \in areas |-> <<PieceOf(room, a).position, a.piece, a.position>>])
Order(room) == OrderOf(room, OnAFace(room))

\* entryAreaOf: the area itself, or the first one of the piece.
EntryAreaOf(room, place) ==
  IF place.area # Null
  THEN IF \E a \in OnAFace(room) : a.id = place.area THEN place.area ELSE Null
  ELSE LET face == {a \in OnAFace(room) : a.piece = place.piece} IN
       IF face = {} THEN Null
       ELSE (CHOOSE a \in face : \A b \in face : a.position <= b.position).id

Entries(room) == {EntryAreaOf(room, room.rules[r]) : r \in Rules} \ {Null}
\* startsARun
Starting(room) ==
  LET entries == Entries(room) IN {a \in OnAFace(room) : a.id \in entries \/ a.own}

\* The part of a sequence before the first element that does not qualify.
While(s, Test(_)) ==
  LET stops == {i \in DOMAIN s : ~Test(s[i])} IN
  IF stops = {} THEN s ELSE SubSeq(s, 1, Min(stops) - 1)

\* runFrom
RunFrom(order, starting, area) ==
  LET from == {i \in DOMAIN order : order[i].id = area /\ order[i] \in starting}
      i == Min(from)
  IN IF from = {} THEN <<>>
     ELSE <<order[i]>> \o While(SubSeq(order, i + 1, Len(order)), LAMBDA a : a \notin starting)

\* nextRunStartAfter: {} when no run begins past that piece.
NextRunStartAfter(room, starting, from) ==
  LET starts == {p \in {PieceOf(room, a).position : a \in starting} : p > from}
  IN IF starts = {} THEN {} ELSE {Min(starts)}

\* bandsOf: the first plank past a run at which another begins, if there is one.
MutPast(room, order, starting, opening) ==
  LET at == CHOOSE i \in DOMAIN order : order[i] = opening
      later == {i \in DOMAIN order : i > at /\ order[i] \in starting /\ order[i].position = 0}
  IN IF later = {} THEN {} ELSE {At(room, order[Min(later)])}
Past(room, order, starting, opening) ==
  LET at == CHOOSE i \in DOMAIN order : order[i] = opening
      later == {i \in DOMAIN order : i > at /\ order[i] \in starting}
  IN IF later = {} THEN {} ELSE {At(room, order[Min(later)])}

\* runAreasOf: one piece at each position, the one that was there first.
RunAreasOf(room, start, past) ==
  LET inside == {a \in OnAFace(room) : /\ ~Earlier(At(room, a), start)
                                       /\ \A p \in past : Earlier(At(room, a), p)}
  IN OrderOf(room, {a \in inside :
       \A b \in inside : At(room, b).shelf = At(room, a).shelf => a.piece <= b.piece})

\* boundariesFrom: each area after the first is a boundary, anchored where it starts.
BoundariesFrom(room, run) ==
  IF run = <<>> THEN <<>>
  ELSE [i \in 1 .. Len(run) - 1 |->
          [id |-> run[i + 1].id,
           kind |-> IF At(room, run[i + 1]).shelf > At(room, run[i]).shelf THEN "shelf" ELSE "area",
           startsAt |-> run[i + 1].startsAt]]

\* What is read of a run before anything is written: where it starts, the plank
\* it may not reach, its areas and its boundaries.
Band(room, start, past) ==
  LET run == RunAreasOf(room, start, past)
  IN [open |-> TRUE, start |-> start, past |-> past,
      run |-> run, boundaries |-> BoundariesFrom(room, run)]
BandOf(room, order, starting, entry) ==
  IF entry = Null THEN [open |-> FALSE, run |-> <<>>, boundaries |-> <<>>]
  ELSE LET opening == CHOOSE a \in room.areas : a.id = entry IN
       Band(room, At(room, opening), Past(room, order, starting, opening))

\* What is read of a room.
Surveyed(room, order, starting) ==
  [order |-> order,
   starting |-> starting,
   bands |-> [r \in Ranges |-> BandOf(room, order, starting, EntryAreaOf(room, room.rules[r]))]]
Survey(room) == Surveyed(room, Order(room), Starting(room))

-----------------------------------------------------------------------------
(* The walk over a run *)

\* A boundary is met in the order of the anchors, and of the list where two are
\* anchored alike.
Anchored(boundaries) ==
  LET places == Sorted(DOMAIN boundaries, [i \in DOMAIN boundaries |-> <<boundaries[i].startsAt, i>>])
  IN [i \in DOMAIN boundaries |-> boundaries[places[i]]]

\* areasOf: the planks a list of boundaries cuts, the one the run opens at first.
AreasOf(start, boundaries) ==
  LET met == Anchored(boundaries)
      shelves(i) == {j \in 1 .. i - 1 : met[j].kind = "shelf"}
  IN [i \in 1 .. Len(boundaries) + 1 |->
        [shelf |-> start.shelf + Cardinality(shelves(i)),
         area |-> IF shelves(i) = {} THEN start.area + i - 1 ELSE i - 1 - Max(shelves(i)),
         startsAt |-> IF i = 1 THEN 0 ELSE met[i - 1].startsAt]]

MutPlankFor(start, boundaries, key) ==
  LET plank == AreasOf(start, boundaries)
                 [1 + Cardinality({i \in DOMAIN boundaries : boundaries[i].startsAt < key})]
  IN [shelf |-> plank.shelf, area |-> plank.area]
\* layoutRange: where it puts a book, having stepped over every boundary it has
\* reached.
PlankFor(start, boundaries, key) ==
  LET plank == AreasOf(start, boundaries)
                 [1 + Cardinality({i \in DOMAIN boundaries : boundaries[i].startsAt <= key})]
  IN [shelf |-> plank.shelf, area |-> plank.area]

\* areaOfKey: which row of the run that is, in the order of the anchors.
AreaOfKey(run, key) ==
  IF run = <<>> THEN Null
  ELSE LET met == Anchored(Tail(run))
           reached == {i \in DOMAIN met : met[i].startsAt <= key}
       IN IF reached = {} THEN run[1].id ELSE met[Max(reached)].id

\* areaFor: where the rules put it, in the order of the planks.
AreaFor(run, key) ==
  IF run = <<>> THEN Null
  ELSE (<<run[1]>> \o While(Tail(run), LAMBDA a : a.startsAt <= key))
         [1 + Len(While(Tail(run), LAMBDA a : a.startsAt <= key))].id

-----------------------------------------------------------------------------
(* Writing boundaries *)

NewId(things) == IF things = {} THEN 1 ELSE 1 + Max({x.id : x \in things})
RetiredPosition(position) == -(position + 1)
Changed(room, area, new) == [room EXCEPT !.areas = (@ \ {area}) \cup {new}]
Row(room, id) == CHOOSE a \in room.areas : a.id = id

\* repointRulesOffTheFace
Repointed(room, area) ==
  [room EXCEPT !.rules = [r \in Rules |->
     IF @[r].area = area.id THEN [area |-> Null, piece |-> area.piece] ELSE @[r]]]

\* retireArea: below every other when the number is taken.
RetireArea(room, id) ==
  LET area == Row(room, id)
      others == {a \in room.areas : a.piece = area.piece /\ a # area}
      taken == \E a \in others : a.position = RetiredPosition(area.position)
      low == Min({a.position : a \in others \cup {area}}) - 1
  IN Changed(Repointed(room, area), area,
       [area EXCEPT !.position = IF taken THEN low ELSE RetiredPosition(@)])

\* retireOrRemove: an area goes for good when no row of the ledger and no rule
\* names it.
RetireOrRemove(room, id) ==
  IF id \in room.named \/ \E r \in Rules : room.rules[r].area = id THEN RetireArea(room, id)
  ELSE [room EXCEPT !.areas = {a \in @ : a.id # id}]

\* The piece standing at a position, the one that was there first; made if none.
PieceAt(room, position) ==
  LET there == {f \in room.pieces : f.position = position} IN
  IF there = {} THEN Null ELSE Min({f.id : f \in there})
WithPieceAt(room, position) ==
  IF PieceAt(room, position) # Null THEN room
  ELSE [room EXCEPT !.pieces = @ \cup {[id |-> NewId(@), position |-> position]}]

\* One plank of the run: found on the face, or brought back, or made.  The one
\* the run opens at keeps the anchor it has.
HangOn(room, piece, plank, opens) ==
  LET there(position) == {a \in room.areas : a.piece = piece /\ a.position = position}
      found == IF there(plank.area) # {} THEN there(plank.area)
               ELSE there(RetiredPosition(plank.area))
  IN IF found = {}
     THEN [room EXCEPT !.areas = @ \cup
             {[id |-> room.nextArea, piece |-> piece, position |-> plank.area,
               startsAt |-> plank.startsAt, own |-> FALSE]},
                       !.nextArea = @ + 1]
     ELSE LET area == CHOOSE a \in found : TRUE IN
          Changed(room, area, [area EXCEPT !.position = plank.area,
                                           !.startsAt = IF opens THEN @ ELSE plank.startsAt])
Hang(room, plank, opens) ==
  LET with == WithPieceAt(room, plank.shelf) IN
  HangOn(with, PieceAt(with, plank.shelf), plank, opens)

\* writeBoundaries, of a band read from the room: a plank of the band that no
\* boundary reaches goes, on the pieces the run has to itself.
Hung(room, derived) ==
  FoldLeft(LAMBDA r, i : Hang(r, derived[i], i = 1), room, [i \in DOMAIN derived |-> i])
Leaves(room, band, limits, derived, a) ==
  LET f == PieceOf(room, a)
      reached == {derived[i].area : i \in {j \in DOMAIN derived : derived[j].shelf = f.position}}
  IN /\ f.position >= band.start.shelf
     /\ \A p \in band.past : f.position <= p.shelf
     /\ PieceAt(room, f.position) = f.id
     /\ IF reached # {}
        THEN /\ a.position > Max(reached)
             /\ \A p \in band.past : f.position = p.shelf => a.position < p.area
        ELSE \A limit \in limits : f.position < limit
Cleared(room, hung, band, limits, derived) ==
  LET leaving == OrderOf(hung, {a \in OnAFace(hung) : /\ a.piece \in IdsOf(room.pieces)
                                                      /\ Leaves(room, band, limits, derived, a)})
  IN FoldLeft(RetireOrRemove, hung, [i \in DOMAIN leaving |-> leaving[i].id])
Written(room, band, limits, derived) ==
  Cleared(room, Hung(room, derived), band, limits, derived)
WriteBoundaries(room, survey, range, boundaries) ==
  LET band == survey.bands[range] IN
  IF ~band.open THEN room
  ELSE Written(room, band, NextRunStartAfter(room, survey.starting, band.start.shelf),
               While(AreasOf(band.start, boundaries),
                     LAMBDA plank : \A p \in band.past : Earlier(plank, p)))

-----------------------------------------------------------------------------
(* Moving a run *)

\* The planks a move takes: the run as far as the next piece another run begins on.
TakenByMove(room, survey, range) ==
  LET band == survey.bands[range] IN
  While(band.run, LAMBDA a :
    \A limit \in NextRunStartAfter(room, survey.starting, band.start.shelf) :
      PieceOf(room, a).position < limit)

\* relocateRunTo, without its last check
Opened(room, piece, to) ==
  IF \E a \in room.areas : a.piece = piece /\ a.position = 0 THEN room
  ELSE Hang(room, [shelf |-> to, area |-> 0, startsAt |-> 0], TRUE)
Pointed(room, range, to) ==
  LET piece == PieceAt(room, to) IN
  [Opened(room, piece, to) EXCEPT !.rules[range] = [area |-> Null, piece |-> piece]]
Rewritten(room, range, boundaries) == WriteBoundaries(room, Survey(room), range, boundaries)
Relocated(room, range, taken, to) ==
  Rewritten(
    Pointed(WithPieceAt(FoldLeft(RetireArea, room, [i \in DOMAIN taken |-> taken[i].id]), to), range, to),
    range, BoundariesFrom(room, taken))

\* refuseAHalfStrippedPiece
HalfStripped(room, taken) ==
  \E i \in DOMAIN taken :
    /\ \E a \in room.areas : a.piece = taken[i].piece /\ a.position < 0
    /\ \E a \in room.areas : a.piece = taken[i].piece /\ a.position >= 0
=============================================================================
