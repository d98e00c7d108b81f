------------------------------ MODULE Shelves ------------------------------
(***************************************************************************)
(* What people do to the shelves: saying a plank is full, carrying a book  *)
(* across a boundary and taking that back, taking a boundary out, adding,  *)
(* moving, renumbering and removing pieces and areas, writing a rule on a  *)
(* place, moving a run and putting a book down (server/shelves.ts,         *)
(* server/furniture.ts, server/relocate-run.ts, server/what-moved.ts,      *)
(* shared/layout.ts, domain/placement/arrangement.ts and relocate.ts).     *)
(*                                                                         *)
(* Each of these is a transaction under the lock of the furniture (see     *)
(* UnitsOfWork), so each is one step.                                      *)
(***************************************************************************)
EXTENDS Furniture, Standing

CONSTANTS Books,
          Key,          \* of each book, an even number
          RangeOf,      \* of each book
          Pinned,       \* the books somebody has pinned to their plank
          MaxPiece,
          MaxSteps,     \* how much a history holds
          Rooms,        \* the rooms a history may begin in
          Spent         \* of each of them, how much of a history lies behind it

ASSUME ShelvesAssumption ==
  /\ Nowhere = Null /\ MaxPiece \in Nat /\ MaxSteps \in Nat
  /\ IsFiniteSet(Books) /\ IsFiniteSet(Ranges)
  /\ Key \in [Books -> Nat \ {0}] /\ RangeOf \in [Books -> Ranges]
  /\ Rooms \subseteq RoomRow /\ Spent \in [Rooms -> Nat]
  /\ \A rm \in Rooms : IsFiniteSet(rm.pieces) /\ IsFiniteSet(rm.areas) /\ SchemaHolds(rm)

VARIABLES room,
          standing,     \* what the ledger says of each book
          receipt,      \* outstanding_move: what taking a move back would undo, with the
                        \* layout before the first move and the runs after the last (history)
          answered,     \* the books put down whose receipt is still to be cleared
          steps,        \* how much has been done
          survey,       \* of room: its runs and their boundaries (see Furniture)
          walk,         \* of room: where the layout and the run put each book, and its shape
          did           \* history: what was done last, and how it was meant to end

vars == <<room, standing, receipt, answered, steps, survey, walk, did>>

NoReceipt == [outstanding |-> FALSE]
NoPlank == [shelf |-> 0, area |-> 0]
Positions == 1 .. MaxPiece
Nothing == [what |-> "nothing"]

-----------------------------------------------------------------------------
(* A room as the arithmetic of boundaries takes it to be: one piece at a       *)
(* number, and along a run each plank the next of its piece or the first of    *)
(* the next number, anchored in order.                                         *)

NextPlank(at, kind) ==
  IF kind = "shelf" THEN [shelf |-> at.shelf + 1, area |-> 0]
  ELSE [shelf |-> at.shelf, area |-> at.area + 1]
Follows(rm, a, c) ==
  At(rm, c) \in {NextPlank(At(rm, a), "shelf"), NextPlank(At(rm, a), "area")}
StraightRun(rm, run) ==
  \A i \in 1 .. Len(run) - 1 :
    /\ Follows(rm, run[i], run[i + 1])
    /\ i > 1 => run[i].startsAt <= run[i + 1].startsAt
Straight(rm, surveyed) ==
  /\ \A a, c \in OnAFace(rm) : a.piece # c.piece => At(rm, a).shelf # At(rm, c).shelf
  /\ \A r \in Ranges : StraightRun(rm, surveyed.bands[r].run)

-----------------------------------------------------------------------------
(* The books of a run *)

BooksIn(range) ==
  LET books == {b \in Books : RangeOf[b] = range} IN Sorted(books, [b \in books |-> <<Key[b]>>])

\* shelvesForSortKeys, of a run that stands somewhere
PlankOfKey(surveyed, range, key) ==
  PlankFor(surveyed.bands[range].start, surveyed.bands[range].boundaries, key)
\* Shelves.layout, of every run
Layout(surveyed) ==
  [b \in Books |-> IF surveyed.bands[RangeOf[b]].open
                   THEN PlankOfKey(surveyed, RangeOf[b], Key[b]) ELSE NoPlank]

\* whereTheRunPutsThem, of every run
Belonging(surveyed) ==
  [b \in Books |-> AreaOfKey(surveyed.bands[RangeOf[b]].run, Key[b])]

\* recordWhatMoved, recordWhatTheRoomMoved: the books whose answer changed.
MutAssigned(before, is, where) ==
  [b \in Books |->
     LET to == AssignmentFor(where[b], is[b]) IN
     IF before[b] = is[b] \/ to = Nowhere \/ NeedsAttention(where[b]) THEN where[b]
     ELSE AfterRow(where[b], [kind |-> "assigned", area |-> to])]
Assigned(before, is, where) ==
  [b \in Books |->
     LET to == AssignmentFor(where[b], is[b]) IN
     IF before[b] = is[b] \/ to = Nowhere THEN where[b]
     ELSE AfterRow(where[b], [kind |-> "assigned", area |-> to])]

Walk(rm, surveyed) ==
  [layout |-> Layout(surveyed), belonging |-> Belonging(surveyed),
   straight |-> Straight(rm, surveyed)]

\* The areas a row names stay named.
Naming(rm, where) ==
  [rm EXCEPT !.named = @ \cup ((UNION {{where[b].area, where[b].assigned} : b \in Books}) \ {Nowhere})]

\* A change of the furniture counts for two things done to the books.
Counts(weight) == steps + weight <= MaxSteps /\ steps' = steps + weight

Done(new, where, said) ==
  /\ room' = Naming(new, where)
  /\ survey' = Survey(room')
  /\ walk' = Walk(room', survey')
  /\ standing' = where
  /\ did' = said

\* The books a change of the room moves, put on the carry list: those of every run,
\* and those of the run whose boundaries were moved.
MovedBy(new, where) == Assigned(walk.belonging, Belonging(Survey(new)), where)
MovedIn(range, new, where) ==
  LET moved == MovedBy(new, where) IN
  [b \in Books |-> IF RangeOf[b] = range THEN moved[b] ELSE where[b]]
Rearranged(new, said) == Done(new, MovedBy(new, standing), said)
RunRearranged(range, new, said) == Done(new, MovedIn(range, new, standing), said)

-----------------------------------------------------------------------------
(* Saying a plank is full *)

\* groupByShelf: the planks with books on them, and the boundary that opens one.
Opener(boundaries, key) ==
  LET there == {i \in DOMAIN boundaries : boundaries[i].startsAt = key} IN
  IF there = {} THEN {} ELSE {boundaries[Max(there)]}

Create(at, key, kind) == [to |-> NextPlank(at, kind), create |-> {[startsAt |-> key, kind |-> kind]}, shift |-> <<>>]
Shift(at, boundary, key) ==
  [to |-> NextPlank(at, boundary.kind), create |-> {}, shift |-> <<[id |-> boundary.id, startsAt |-> key]>>]

MutOverflowStep(books, boundaries, last, at, kindIfNew) ==
  LET opener == Opener(boundaries, Key[books[last + 1]]) IN
  IF last = Len(books) THEN Create(at, Key[books[last]], kindIfNew)
  ELSE IF opener = {}
  THEN [to |-> NextPlank(at, "area"), create |-> {}, shift |-> <<>>]
  ELSE [Shift(at, CHOOSE o \in opener : TRUE, Key[books[last]]) EXCEPT !.to = NextPlank(at, kindIfNew)]
\* overflow: the last book of the plank comes off it.
OverflowStep(books, boundaries, last, at, kindIfNew) ==
  LET opener == Opener(boundaries, Key[books[last + 1]]) IN
  IF last = Len(books)
     \/ (kindIfNew = "shelf" /\ \A o \in opener : o.kind # "shelf")
  THEN Create(at, Key[books[last]], kindIfNew)
  ELSE IF opener = {}
  THEN [to |-> NextPlank(at, "area"), create |-> {}, shift |-> <<>>]
  ELSE Shift(at, CHOOSE o \in opener : TRUE, Key[books[last]])

\* boundariesBetween, the newest key being past everything
Between(boundaries, low, high) ==
  LET reached(key) == Cardinality({i \in DOMAIN boundaries : boundaries[i].startsAt <= key})
  IN SubSeq(Anchored(boundaries), reached(low) + 1, reached(high))

\* carryOn: a new book that belongs at the end of the plank goes on the next.
EndOfRun == 1 + Max({Key[b] : b \in Books})
AtTheEnd(range, at, key) ==
  \A b \in Books : RangeOf[b] = range /\ Key[b] > key => walk.layout[b] # at
CarryOnStep(range, at, key, kindIfNew) ==
  LET after == {Key[b] : b \in {c \in Books : RangeOf[c] = range /\ Key[c] > key}}
      crossed == Between(survey.bands[range].boundaries, key, IF after = {} THEN EndOfRun ELSE Min(after))
  IN IF crossed = <<>> \/ (kindIfNew = "shelf" /\ crossed[1].kind # "shelf")
     THEN Create(at, key, kindIfNew)
     ELSE Shift(at, crossed[1], key)

\* offTheRun
OffTheRun(range, to) == \E past \in survey.bands[range].past : ~Earlier(to, past)

\* SeparatorRepository.change, and .add
Shifted(list, shifts) ==
  [i \in DOMAIN list |->
     LET to == {shifts[k].startsAt : k \in {j \in DOMAIN shifts : shifts[j].id = list[i].id}} IN
     IF to = {} THEN list[i] ELSE [list[i] EXCEPT !.startsAt = CHOOSE x \in to : TRUE]]
ReanchorAll(rm, surveyed, shifts) ==
  LET ranges == {r \in IF shifts = <<>> THEN {} ELSE Ranges :
                   \E i \in DOMAIN surveyed.bands[r].boundaries :
                     surveyed.bands[r].boundaries[i].id = shifts[1].id}
      range == CHOOSE r \in ranges : TRUE
  IN IF ranges = {} THEN rm
     ELSE WriteBoundaries(rm, surveyed, range, Shifted(surveyed.bands[range].boundaries, shifts))
AddBoundary(rm, surveyed, range, one) ==
  WriteBoundaries(rm, surveyed, range,
    Append(surveyed.bands[range].boundaries,
           [id |-> Null, kind |-> one.kind, startsAt |-> one.startsAt]))

\* Shelves.applyBoundary
Applied(range, plan) ==
  IF plan.create # {} THEN AddBoundary(room, survey, range, CHOOSE c \in plan.create : TRUE)
  ELSE ReanchorAll(room, survey, plan.shift)

\* Shelves.overflow, with no book in hand, and then with one
Overflow(range, at, kindIfNew) ==
  LET books == BooksIn(range)
      layout == walk.layout
      last == Max({i \in DOMAIN books : layout[books[i]] = at})
      plan == OverflowStep(books, survey.bands[range].boundaries, last, at, kindIfNew)
  IN /\ Counts(1)
     /\ survey.bands[range].open
     /\ \E b \in ToSet(books) : layout[b] = at
     /\ ~OffTheRun(range, plan.to)
     /\ RunRearranged(range, Applied(range, plan),
          [what |-> "overflow", range |-> range, book |-> books[last], to |-> plan.to])
     /\ UNCHANGED <<receipt, answered>>

CarryOn(range, key, kindIfNew) ==
  LET at == PlankOfKey(survey, range, key)
      plan == CarryOnStep(range, at, key, kindIfNew)
  IN /\ Counts(1)
     /\ survey.bands[range].open
     /\ AtTheEnd(range, at, key)
     /\ ~OffTheRun(range, plan.to)
     /\ RunRearranged(range, Applied(range, plan),
          [what |-> "carry on", range |-> range, key |-> key, to |-> plan.to])
     /\ UNCHANGED <<receipt, answered>>

-----------------------------------------------------------------------------
(* Carrying one book across a boundary *)

After(b) == {Key[c] : c \in {d \in Books : RangeOf[d] = RangeOf[b] /\ Key[d] > Key[b]}}
Before(b) == {Key[c] : c \in {d \in Books : RangeOf[d] = RangeOf[b] /\ Key[d] < Key[b]}}
Neighbours(b, way) == IF way = "next" THEN After(b) ELSE Before(b)
Neighbour(b, way) == IF way = "next" THEN Min(After(b)) ELSE Max(Before(b))
CrossedIds(b, way) ==
  LET list == survey.bands[RangeOf[b]].boundaries
      crossed == IF way = "next" THEN Between(list, Key[b], Neighbour(b, way))
                 ELSE Between(list, Neighbour(b, way), Key[b])
  IN [i \in DOMAIN crossed |-> crossed[i].id]

\* boundaryMove: refused within a plank and at the ends of the run.
MayCross(b, way) ==
  /\ survey.bands[RangeOf[b]].open
  /\ Neighbours(b, way) # {}
  /\ PlankOfKey(survey, RangeOf[b], Neighbour(b, way)) # PlankOfKey(survey, RangeOf[b], Key[b])
  /\ CrossedIds(b, way) # <<>>
Removes(b, way) == way = "previous" /\ After(b) = {}

\* dropArea: the area before it on the face takes its books, or the one after
\* it, which then begins where it began.
Planks(rm, piece) == {a \in OnAFace(rm) : a.piece = piece}
Along(planks) == Sorted(planks, [a \in planks |-> <<a.position>>])
Face(rm, piece) == Along(Planks(rm, piece))
MutResequenced(rm, ids) == rm
Resequenced(rm, ids) ==
  [rm EXCEPT !.areas = {IF a.id \in ToSet(ids)
                        THEN [a EXCEPT !.position = (CHOOSE i \in DOMAIN ids : ids[i] = a.id) - 1]
                        ELSE a : a \in @}]
Absorbing(rm, area) ==
  LET face == Face(rm, area.piece)
      at == CHOOSE i \in DOMAIN face : face[i] = area
  IN IF at > 1 THEN face[at - 1] ELSE face[2]
CanDrop(rm, id) ==
  id \in IdsOf(OnAFace(rm)) /\ Len(Face(rm, Row(rm, id).piece)) > 1
Without(rm, id) ==
  LET area == Row(rm, id)
      into == Absorbing(rm, area)
      anchored == IF into.position > area.position
                  THEN Changed(rm, into, [into EXCEPT !.startsAt = area.startsAt]) ELSE rm
      rest == Along(Planks(rm, area.piece) \ {area})
  IN Resequenced(RetireOrRemove(anchored, id), [i \in DOMAIN rest |-> rest[i].id])
\* foldForRemoval
MutJoining(rm, where, id) ==
  [b \in Books |->
     LET to == AssignmentFor(where[b], Absorbing(rm, Row(rm, id)).id) IN
     IF id = where[b].area /\ to # Nowhere
     THEN AfterRow(where[b], [kind |-> "assigned", area |-> to]) ELSE where[b]]
Joining(rm, where, id) ==
  [b \in Books |->
     LET to == AssignmentFor(where[b], Absorbing(rm, Row(rm, id)).id) IN
     IF id \in {where[b].area, where[b].assigned} /\ to # Nowhere
     THEN AfterRow(where[b], [kind |-> "assigned", area |-> to]) ELSE where[b]]
Dropped(at, id) ==
  IF ~at.ok \/ ~CanDrop(at.room, id) THEN [at EXCEPT !.ok = FALSE]
  ELSE LET where == Joining(at.room, at.where, id)
       IN [ok |-> TRUE, where |-> where, room |-> Naming(Without(at.room, id), where)]

AtBooks(range) ==
  \A i \in DOMAIN survey.bands[range].boundaries :
    \E b \in Books : RangeOf[b] = range /\ Key[b] = survey.bands[range].boundaries[i].startsAt
MutAsItWas(list, i) ==
  [kind |-> list[i].kind, startsAt |-> IF i = 1 THEN 0 ELSE list[i - 1].startsAt, position |-> i]
AsItWas(list, i) == [kind |-> list[i].kind, startsAt |-> list[i].startsAt, position |-> i]
\* The members of a list that stand at these places
Picked(list, at) ==
  LET places == Sorted(at, [i \in at |-> <<i>>]) IN [k \in DOMAIN places |-> list[places[k]]]
\* receiptFor: what was there before, to put back.
ReceiptFor(b, way, after) ==
  LET list == survey.bands[RangeOf[b]].boundaries
      at == {i \in DOMAIN list : list[i].id \in ToSet(CrossedIds(b, way))}
  IN [outstanding |-> TRUE,
      from |-> PlankOfKey(survey, RangeOf[b], Key[b]),
      reanchor |-> IF Removes(b, way) THEN <<>>
                   ELSE Picked([i \in at |-> [id |-> list[i].id, startsAt |-> list[i].startsAt]], at),
      recreate |-> IF ~Removes(b, way) THEN <<>>
                   ELSE Picked([i \in at |-> AsItWas(list, i)], at),
      before |-> walk.layout, after |-> after,
      straight |-> walk.straight /\ AtBooks(RangeOf[b])]

\* merged: a second crossing keeps where the first one began.
Merged(existing, made) ==
  IF ~existing.outstanding THEN made
  ELSE LET already == {existing.reanchor[k].id : k \in DOMAIN existing.reanchor} IN
       [made EXCEPT !.from = existing.from, !.before = existing.before,
                    !.straight = @ /\ existing.straight /\ survey.bands = existing.after,
                    !.reanchor = existing.reanchor \o
                      Picked(@, {i \in DOMAIN @ : @[i].id \notin already}),
                    !.recreate = existing.recreate \o @]

\* Shelves.moveAcrossBoundary, told that an area may go
MoveAcross(b, way) ==
  LET range == RangeOf[b]
      crossed == CrossedIds(b, way)
      key == IF way = "next" THEN Key[b] ELSE Min(After(b))
      shifted == IF Removes(b, way) THEN room
                 ELSE ReanchorAll(room, survey, [k \in DOMAIN crossed |-> [id |-> crossed[k], startsAt |-> key]])
      done == FoldLeft(Dropped, [ok |-> TRUE, room |-> shifted, where |-> standing],
                       IF Removes(b, way) THEN crossed ELSE <<>>)
      to == PlankOfKey(survey, range, Neighbour(b, way))
  IN /\ Counts(1)
     /\ MayCross(b, way)
     /\ done.ok
     /\ Done(done.room, MovedIn(range, done.room, done.where),
             [what |-> "crossing", range |-> range, book |-> b, to |-> to])
     /\ receipt' = [receipt EXCEPT ![b] = Merged(@, ReceiptFor(b, way, survey'.bands))]
     /\ UNCHANGED answered

\* Shelves.retractMove: the boundaries taken out, from the first on
InPlace(lost) ==
  LET places == Sorted(DOMAIN lost, [i \in DOMAIN lost |-> <<lost[i].position, i>>])
  IN [k \in DOMAIN lost |-> lost[places[k]]]
Recreated(rm, range, lost) ==
  FoldLeft(LAMBDA r, one : AddBoundary(r, Survey(r), range, one), rm, lost)
TakeBack(b, shifted, back, lost) ==
  /\ lost # <<>> => Len(Survey(shifted).bands[RangeOf[b]].boundaries) + 1 = lost[1].position
  /\ Survey(back).bands[RangeOf[b]].open
  /\ PlankOfKey(Survey(back), RangeOf[b], Key[b]) = receipt[b].from
  /\ RunRearranged(RangeOf[b], back,
       [what |-> "retraction", range |-> RangeOf[b], before |-> receipt[b].before,
        unchanged |-> receipt[b].straight /\ survey.bands = receipt[b].after])
Retract(b) ==
  LET shifted == ReanchorAll(room, survey, receipt[b].reanchor)
      lost == InPlace(receipt[b].recreate)
  IN /\ Counts(1)
     /\ receipt[b].outstanding
     /\ survey.bands[RangeOf[b]].open
     /\ TakeBack(b, shifted, Recreated(shifted, RangeOf[b], lost), lost)
     /\ receipt' = [receipt EXCEPT ![b] = NoReceipt]
     /\ UNCHANGED answered

\* The book's location is said to be where the carry list sends it, and then,
\* in a transaction of its own, its receipt is cleared.
PutDown(b) ==
  /\ Counts(1)
  /\ NeedsAttention(standing[b])
  /\ standing[b].assigned \in IdsOf(OnAFace(room))
  /\ Done(room, [standing EXCEPT ![b] = AfterRow(@, [kind |-> "placed", area |-> @.assigned])], Nothing)
  /\ answered' = answered \cup {b}
  /\ UNCHANGED receipt
ClearMove(b) ==
  /\ b \in answered
  /\ receipt' = [receipt EXCEPT ![b] = NoReceipt]
  /\ answered' = answered \ {b}
  /\ did' = Nothing
  /\ UNCHANGED <<room, survey, standing, walk, steps>>

\* dropArea, asked for on its own or as a boundary taken out
DropArea(id) ==
  LET done == Dropped([ok |-> TRUE, room |-> room, where |-> standing], id) IN
  /\ Counts(2)
  /\ done.ok
  /\ Done(done.room, done.where, [what |-> "area gone", area |-> id])
  /\ UNCHANGED <<receipt, answered>>

-----------------------------------------------------------------------------
(* Pieces and areas *)

\* addFixture: at a number somebody said, or past every other
AddPiece(position) ==
  /\ room' = [room EXCEPT !.pieces = @ \cup {[id |-> NewId(@), position |-> position]}]
  /\ Counts(2)
  /\ did' = Nothing
  /\ UNCHANGED <<survey, standing, receipt, answered, walk>>

\* editFixture
Renumber(f, position) ==
  /\ Counts(2)
  /\ f.position >= 0
  /\ position # f.position
  /\ Rearranged([room EXCEPT !.pieces = (@ \ {f}) \cup {[f EXCEPT !.position = position]}],
                [what |-> "renumbering", piece |-> f.id])
  /\ UNCHANGED <<receipt, answered>>

\* whatHoldsFixture
BooksOf(f) ==
  LET planks == IdsOf({a \in room.areas : a.piece = f.id})
  IN {b \in Books : standing[b].area \in planks \/ standing[b].assigned \in planks}
RulesOn(f) ==
  {r \in Rules : \/ room.rules[r].piece = f.id
                 \/ \E a \in room.areas : a.id = room.rules[r].area /\ a.piece = f.id}
\* dropFixture: a piece with areas left, all off its face, keeps its row.
DropPiece(f) ==
  LET face == Face(room, f.id)
      bare == FoldLeft(RetireOrRemove, room, [i \in DOMAIN face |-> face[i].id])
      left == \E a \in bare.areas : a.piece = f.id
  IN /\ Counts(2)
     /\ f.position >= 0
     /\ BooksOf(f) = {}
     /\ RulesOn(f) = {}
     /\ Done([bare EXCEPT !.pieces = IF left
                THEN (@ \ {f}) \cup {[f EXCEPT !.position = RetiredPosition(@)]} ELSE @ \ {f}],
             standing, [what |-> "piece gone", piece |-> f.id])
     /\ UNCHANGED <<receipt, answered>>

AnchorsAscend(face) ==
  \A i \in 1 .. Len(face) - 1 : face[i].startsAt <= face[i + 1].startsAt

\* anchorForNewArea: where the area after it starts, if it takes its books from
\* the same run, or past every book on the run before it.
PastTheRun(order, at, starting) ==
  LET starts == {i \in 1 .. at - 1 : order[i].id \in starting}
      run == {order[i].id : i \in (IF starts = {} THEN 1 ELSE Max(starts)) .. at - 1}
      past == {Key[b] + 1 : b \in {c \in Books : standing[c].area \in run}}
  IN Max(past \cup (IF at = 1 THEN {0} ELSE {order[at - 1].startsAt}))
AnchorInto(order) ==
  LET at == CHOOSE i \in DOMAIN order : order[i].id = Null
      starting == IdsOf(Starting(room))
  IN IF at < Len(order) /\ order[at + 1].id \notin starting THEN order[at + 1].startsAt
     ELSE PastTheRun(order, at, starting)
AnchorForNewArea(f, landing) ==
  AnchorInto(Order([room EXCEPT !.areas =
    {IF a.piece = f.id /\ a.position >= landing THEN [a EXCEPT !.position = @ + 1] ELSE a : a \in @}
      \cup {[id |-> Null, piece |-> f.id, position |-> landing, startsAt |-> 0, own |-> FALSE]}]))

\* What a request leaves out.
NotSaid == -1

\* addAreaTo: begun where somebody said, or where the room says.  The row is
\* written on the end first, which a face with a gap in its numbers can refuse.
AddArea(f, landing, said, own) ==
  LET face == Face(room, f.id)
      new == [id |-> room.nextArea, piece |-> f.id, position |-> landing,
              startsAt |-> IF said = NotSaid THEN AnchorForNewArea(f, landing) ELSE said,
              own |-> own]
      grown == InsertAt(face, landing + 1, new)
  IN /\ Counts(2)
     /\ f.position >= 0
     /\ landing <= Len(face)
     /\ \A a \in ToSet(face) : a.position # Len(face)
     /\ AnchorsAscend(grown)
     /\ Rearranged(Resequenced([room EXCEPT !.areas = @ \cup {new}, !.nextArea = @ + 1],
                               [i \in DOMAIN grown |-> grown[i].id]),
                   [what |-> "area added", area |-> new.id])
     /\ UNCHANGED <<receipt, answered>>

\* editArea: moved along its face, which is then numbered from 0, started at
\* another book, or told to order itself
EditArea(area, landing, startsAt, own) ==
  LET restated == [area EXCEPT !.startsAt = startsAt, !.own = own]
      stated == Changed(room, area, restated)
      order == IF landing = NotSaid THEN Face(stated, area.piece)
               ELSE InsertAt(Along(Planks(room, area.piece) \ {area}), landing + 1, restated)
      edited == IF landing = NotSaid THEN stated
                ELSE Resequenced(stated, [i \in DOMAIN order |-> order[i].id])
  IN /\ Counts(2)
     /\ landing < Len(Face(room, area.piece))
     /\ edited # room
     /\ AnchorsAscend(order)
     /\ Rearranged(edited, [what |-> "area edited", area |-> area.id])
     /\ UNCHANGED <<receipt, answered>>

-----------------------------------------------------------------------------
(* Rules and runs *)

\* AssignPlacementsHandler, by placementOf
RuleAnswer(rm, surveyed, b) ==
  AreaFor(RunFrom(surveyed.order, surveyed.starting, EntryAreaOf(rm, rm.rules[RangeOf[b]])), Key[b])
RuleAnswers(rm, surveyed, books) == [b \in books |-> RuleAnswer(rm, surveyed, b)]
AssignPlacements(answers, where) ==
  [b \in Books |->
     LET to == IF b \in DOMAIN answers THEN AssignmentFor(where[b], answers[b]) ELSE Nowhere IN
     IF to # Nowhere
     THEN AfterRow(where[b], [kind |-> "assigned", area |-> to]) ELSE where[b]]

\* applyRuleChange, of a rule that claims none of these books: written on a
\* plank or a piece with a plank on its face, or taken away.
Unplaced == [area |-> Null, piece |-> Null]
Places == {[area |-> a.id, piece |-> Null] : a \in OnAFace(room)}
            \cup {[area |-> Null, piece |-> a.piece] : a \in OnAFace(room)}
RuleChange(r, place) ==
  LET new == [room EXCEPT !.rules[r] = place] IN
  /\ Counts(2)
  /\ place # room.rules[r]
  /\ room.rules[r] = Unplaced \/ place = Unplaced
  /\ Done(new, AssignPlacements(RuleAnswers(new, Survey(new), Books), standing),
          [what |-> "rule changed", rule |-> r])
  /\ UNCHANGED <<receipt, answered>>

\* runToMove and relocateRun
Flowing(range) ==
  RunFrom(survey.order, survey.starting, EntryAreaOf(room, room.rules[range]))
OtherRunOn(position, entry) ==
  \E a \in survey.starting : a.id # entry /\ At(room, a).shelf = position
Movable(range) ==
  /\ room.rules[range].area = Null
  /\ Flowing(range) # <<>>
  /\ ~OtherRunOn(At(room, Flowing(range)[1]).shelf, Flowing(range)[1].id)
OnTheMove(range) ==
  LET flowing == Flowing(range)
      limits == NextRunStartAfter(room, survey.starting, At(room, flowing[1]).shelf)
  IN SelectSeq(flowing, LAMBDA a : \A limit \in limits : At(room, a).shelf < limit)
Occupied(moving, shift) ==
  \E a \in OnAFace(room) \ ToSet(moving) :
    \E i \in DOMAIN moving : At(room, moving[i]).shelf + shift = At(room, a).shelf
\* The furniture as it would stand: the planks on pieces not made yet.
Piece(position) == [id |-> NewId(room.pieces) + position, position |-> position]
Prospective(range, moving, shift) ==
  LET rehung(a) == Piece(At(room, a).shelf + shift)
  IN IF shift = 0 THEN room
     ELSE [room EXCEPT
            !.pieces = @ \cup {rehung(a) : a \in ToSet(moving)},
            !.areas = (@ \ ToSet(moving)) \cup {[a EXCEPT !.piece = rehung(a).id] : a \in ToSet(moving)},
            !.rules[range] = [area |-> Null, piece |-> rehung(moving[1]).id]]
\* planPlacements: the plank the plan names for each book of the run.
BooksOfRun(range) == {b \in Books : RangeOf[b] = range}
PlannedIn(then, range) ==
  LET answers == RuleAnswers(then, Survey(then), BooksOfRun(range))
  IN [b \in BooksOfRun(range) |-> At(then, Row(then, answers[b]))]

\* applyRunMove
Relocation(range, new, half, planned) ==
  \/ /\ ~half
     /\ Done(new, AssignPlacements(RuleAnswers(new, Survey(new), BooksOfRun(range)), standing),
             [what |-> "run moved", range |-> range, planned |-> planned])
  \/ half /\ Done(room, standing, [what |-> "half stripped", range |-> range])
RelocateRun(range, to) ==
  LET moving == OnTheMove(range)
      shift == to - At(room, moving[1]).shelf
      taken == TakenByMove(room, survey, range)
      new == Relocated(room, range, taken, to)
  IN /\ Counts(2)
     /\ Movable(range)
     /\ shift # 0 => ~Occupied(moving, shift)
     /\ Relocation(range, new, HalfStripped(new, taken), PlannedIn(Prospective(range, moving, shift), range))
     /\ UNCHANGED <<receipt, answered>>

-----------------------------------------------------------------------------
WhereTheRunPuts(is) ==
  [b \in Books |-> [NowhereAtAll EXCEPT !.area = is[b], !.pinned = b \in Pinned]]

Init ==
  \E rm \in Rooms :
    /\ survey = Survey(rm)
    /\ walk = Walk(rm, survey)
    /\ standing = WhereTheRunPuts(walk.belonging)
    /\ room = Naming(rm, standing)
    /\ receipt = [b \in Books |-> NoReceipt]
    /\ answered = {}
    /\ steps = Spent[rm]
    /\ did = Nothing

Kinds == {"shelf", "area"}
Slots == {At(room, a) : a \in OnAFace(room)}
Anchors == {Key[b] : b \in Books} \cup {a.startsAt : a \in OnAFace(room)}

Edits(a) ==
  {[landing |-> landing, startsAt |-> a.startsAt, own |-> a.own] : landing \in 0 .. Cardinality(room.areas)}
    \cup {[landing |-> NotSaid, startsAt |-> startsAt, own |-> a.own] : startsAt \in Anchors}
    \cup {[landing |-> NotSaid, startsAt |-> a.startsAt, own |-> ~a.own]}

Next ==
  \/ \E range \in Ranges, at \in Slots, kind \in Kinds : Overflow(range, at, kind)
  \/ \E range \in Ranges, b \in Books, kind \in Kinds : CarryOn(range, Key[b] + 1, kind)
  \/ \E b \in Books, way \in {"next", "previous"} : MoveAcross(b, way)
  \/ \E b \in Books : Retract(b) \/ PutDown(b) \/ ClearMove(b)
  \/ \E position \in Positions : AddPiece(position)
  \/ \E f \in room.pieces, position \in Positions : Renumber(f, position)
  \/ \E f \in room.pieces : DropPiece(f)
  \/ \E f \in room.pieces, landing \in 0 .. Cardinality(room.areas) :
       \E said \in Anchors \cup {NotSaid}, own \in BOOLEAN : AddArea(f, landing, said, own)
  \/ \E a \in OnAFace(room) : DropArea(a.id)
  \/ \E a \in OnAFace(room) : \E edit \in Edits(a) : EditArea(a, edit.landing, edit.startsAt, edit.own)
  \/ \E r \in OtherRules, place \in Places \cup {Unplaced} : RuleChange(r, place)
  \/ \E range \in Ranges, to \in Positions : RelocateRun(range, to)

Spec == Init /\ [][Next]_vars

-----------------------------------------------------------------------------
(* Properties *)

\* What the schema holds: an area has its piece, and what a book's row or a rule
\* names is still there, off its face if need be.  No two planks are numbered alike
\* on a piece, whatever order areas are taken off a face, brought back and
\* renumbered in.
TypeOK ==
  /\ SchemaHolds(room)
  /\ \A b \in Books : {standing[b].area, standing[b].assigned} \subseteq
                        IdsOf(room.areas) \cup {Nowhere}

\* The layout counted out from the boundaries, the area a key falls in and the
\* area the rules answer are three walks, written in three files; in a straight
\* room they name the same plank for every book.
AreaAt(range, plank) ==
  {a.id : a \in {c \in ToSet(survey.bands[range].run) : At(room, c) = plank}}
WalksAgree ==
  walk.straight =>
    \A b \in Books : survey.bands[RangeOf[b]].open =>
      /\ AreaAt(RangeOf[b], walk.layout[b]) = {walk.belonging[b]}
      /\ RuleAnswer(room, survey, b) = walk.belonging[b]

\* A plank that goes leaves its books to a plank of its own run: the one that takes
\* them, or the run it does not begin (a lone plank ordering itself keeps the run
\* before it out).  A crossing takes its planks out one after another, so one of the
\* run must stay on the piece for the last of them.
GoneAreas == {a \in OnAFace(room) : a.id \notin IdsOf(OnAFace(room'))}
JoinsItsRun(a) ==
  IF Len(Face(room, a.piece)) < 2 THEN a \notin survey.starting
  ELSE \E r \in Ranges : {a, Absorbing(room, a)} \subseteq ToSet(survey.bands[r].run)
OneStays(a) ==
  \E r \in Ranges : LET run == ToSet(survey.bands[r].run) IN
    a \in run /\ \E c \in run \ GoneAreas : c.piece = a.piece
JoinTheirRuns ==
  \A a \in GoneAreas : JoinsItsRun(a) /\ (did'.what = "crossing" => OneStays(a))

\* When what was done changes where a book's run puts it, the book is owed that
\* move: a book that was where the rules had it, or was on its way there, is on
\* its way to where they have it now (the carry list is complete).
FollowsTheRules(b) ==
  (/\ ~LeftAlone(standing[b])
   /\ walk'.belonging[b] \notin {Nowhere, standing'[b].declined}
   /\ Owed(standing[b]) = walk.belonging[b])
    => Owed(standing'[b]) = walk'.belonging[b]
LeavingAnyway(b) ==
  /\ standing[b].area \in IdsOf(GoneAreas)
  /\ standing[b].assigned \notin IdsOf(GoneAreas) \cup {Nowhere}
OfOneRun == {"overflow", "carry on", "crossing", "retraction"}
OfPlanks == {"run moved", "area gone", "piece gone"}
CarryListHas(b) ==
  \/ LeavingAnyway(b)
  \/ did'.what \in OfOneRun /\ RangeOf[b] # did'.range
  \/ did'.what = "rule changed" /\ ~walk'.straight
  \/ did'.what \in OfPlanks
  \/ FollowsTheRules(b)
CarryListFollows == [][\A b \in Books : CarryListHas(b)]_vars

\* So is it when planks leave their place with the books on them: taken out or
\* taken away with their piece, or moved with the run of the book.
PlankLeaves(b) ==
  \/ did'.what \in {"area gone", "piece gone"} /\ JoinTheirRuns /\ walk.straight
  \/ did'.what = "run moved" /\ RangeOf[b] = did'.range /\ walk'.straight
BooksFollowPlanks == [][
  \A b \in Books : PlankLeaves(b) => LeavingAnyway(b) \/ FollowsTheRules(b)]_vars

\* Carrying a book across a boundary moves that book, to the plank that was
\* offered, and no other book of any run.  (Where a boundary is anchored at a key
\* no book of the run has, as after a book carried on and never saved, another
\* boundary can be carried past it and take its books along.)
CrossingMovesOne ==
  did'.what = "crossing" /\ JoinTheirRuns /\ walk.straight /\ AtBooks(did'.range) =>
    \A b \in Books :
      IF RangeOf[b] = did'.range
      THEN walk'.layout[b] = IF b = did'.book THEN did'.to ELSE walk.layout[b]
      ELSE walk'.belonging[b] = walk.belonging[b]

\* Saying a plank is full sends its last book to the plank that was offered, and
\* leaves where they were the books before it and every other run's.
OverflowLands ==
  did'.what = "overflow" /\ walk.straight /\ AtBooks(did'.range) =>
    /\ walk'.layout[did'.book] = did'.to
    /\ \A b \in Books : (RangeOf[b] # did'.range \/ Key[b] < Key[did'.book])
                          => walk'.layout[b] = walk.layout[b]

\* A run that is moved is where the plan said, plank for plank, in a room where
\* every plank belongs to a run.  (A plank no run reaches stays in the room the plan
\* is worked out in, and is taken off by the move.)
NoStrays == OnAFace(room) = UNION {ToSet(survey.bands[r].run) : r \in Ranges}
RunLands ==
  did'.what = "run moved" /\ walk.straight /\ NoStrays =>
    \A b \in DOMAIN did'.planned : walk'.layout[b] = did'.planned[b]

\* What is done to a run takes the books that were offered to where they were
\* offered, and no others.
MovesAsOffered == [][CrossingMovesOne /\ OverflowLands /\ RunLands]_vars

\* What is done to the books of one run leaves the planks of the others as they
\* were: the same areas, in the same order, at the same anchors, though a plank taken
\* out before them on their piece renumbers them.  (The boundaries a retraction puts
\* back are written in whatever run they have come to cut since.)
PutsBackItsOwn ==
  \A b \in Books : receipt[b].outstanding /\ ~receipt'[b].outstanding =>
    \A k \in DOMAIN receipt[b].reanchor :
      receipt[b].reanchor[k].id \in IdsOf(ToSet(survey.bands[RangeOf[b]].boundaries))
Unnumbered(run) == [i \in DOMAIN run |-> [run[i] EXCEPT !.position = 0]]
OthersStay == [][
  did'.what \in OfOneRun \cup {"run moved"} /\ walk.straight /\ JoinTheirRuns /\ PutsBackItsOwn =>
    \A r \in Ranges \ {did'.range} :
      Unnumbered(survey'.bands[r].run) = Unnumbered(survey.bands[r].run)]_vars

\* Taking back a move of one or more crossings, when nothing has been moved
\* since, puts every book where it was before the first.
TakenBack == [][
  did'.what = "retraction" /\ did'.unchanged => walk'.layout = did'.before]_vars
=============================================================================
