----------------------------- MODULE UnitsOfWork -----------------------------
(***************************************************************************)
(* The units of work of the application over AdvisoryLocks: which names    *)
(* each handler asks for, in which nesting, and what those names protect   *)
(* of the room: the ranges whose run one plank stands in, which removing   *)
(* the plank rewrites (application/locks.ts, the handlers of               *)
(* application/, server/store.ts, server/shelves.ts, server/furniture.ts). *)
(*                                                                         *)
(* One ISBN, one book, the two ranges and the furniture are in play.  What *)
(* a handler reads and writes under its names is left out, but for the     *)
(* plank.  The genre a handler settles on, which decides its range, is     *)
(* chosen when it starts: nothing else depends on it.                      *)
(***************************************************************************)
EXTENDS AdvisoryLocks, Sequences

CONSTANT MayShare       \* may both runs open on one plank?

Isbn == 1
Book == 2
Fiction == 3
NonFiction == 4
Furniture == 5

Ranges == {Fiction, NonFiction}
BoundaryLocks(range) == {range, Furniture}

ASSUME UnitsAssumption ==
  LastName = 5 /\ Calls = SUBSET Names /\ Catches = FALSE /\ MayShare \in BOOLEAN

Asking == [how : {"tx", "also", "separator", "drop"}, names : SUBSET Names]

\* The ways a handler asks: a transaction or one inside another, serialiseOn,
\* RemoveSeparatorHandler, dropArea.
InTx(names) == [how |-> "tx", names |-> names]
Also(name) == [how |-> "also", names |-> {name}]
Separator == [how |-> "separator", names |-> {}]
Drop == [how |-> "drop", names |-> {}]

\* CatalogueBookHandler: a new book or the scan, with or without an ISBN.
Saves == {<<InTx(first), Also(range)>> : first \in SUBSET {Isbn, Book}, range \in Ranges}
MutRevisions == {<<InTx({Book}), Also(Furniture), Also(range)>> : range \in Ranges}
                \cup {<<InTx({Book}), Also(Furniture)>>}
\* ReviseBookHandler: the new range, and the furniture if it is filed elsewhere.
Revisions == {<<InTx({Book}), Also(range), Also(Furniture)>> : range \in Ranges}
             \cup {<<InTx({Book}), Also(Furniture)>>}
\* Store.deleteBook; discards, tags and credits ask for the book alone.
Deletions == {<<InTx({Book}), InTx({range})>> : range \in Ranges}
Refilings == {<<InTx(Ranges \cup {Furniture})>>}
\* Furniture, rules and the reset of the room; overflow, undo and a run's move.
Rearrangements == {<<InTx({Furniture})>>} \cup {<<InTx(BoundaryLocks(range))>> : range \in Ranges}
\* An area taken off by itself, a boundary removed, a book moved across one.
Removals == {<<Drop>>, <<Separator, Drop>>}
            \cup {<<InTx(BoundaryLocks(range)), Separator, Drop>> : range \in Ranges}

Units == Saves \cup Revisions \cup Deletions \cup Refilings \cup Rearrangements \cup Removals

VARIABLES left,         \* calls each handler has still to make
          known,        \* ranges it takes the plank to stand in
          plank,        \* how far the handler is with taking the plank off
          changes,      \* does the handler rearrange the room?
          standing      \* ranges whose run the plank stands in

work == <<left, known, plank, changes>>
unitVars == <<vars, work, standing>>

\* rangesStandingOn: one run, or none; both, if both may open on one plank.
Rooms == IF MayShare THEN SUBSET Ranges ELSE {{}} \cup {{range} : range \in Ranges}

UnitsTypeOK ==
  /\ TypeOK
  /\ left \in [Txs -> Seq(Asking)] /\ changes \in [Txs -> BOOLEAN]
  /\ known \in [Txs -> SUBSET Ranges]
  /\ plank \in [Txs -> {"stays", "going", "gone"}]
  /\ standing \in Rooms

UnitsInit ==
  /\ Init
  /\ left = [t \in Txs |-> <<>>] /\ changes = [t \in Txs |-> FALSE]
  /\ known = [t \in Txs |-> {}]
  /\ plank = [t \in Txs |-> "stays"]
  /\ standing \in Rooms

-----------------------------------------------------------------------------
(* What a call names *)

\* rangeOf answers with the first range, in the order of GENRE_RANGES.
RangeOf == IF Fiction \in standing THEN Fiction ELSE NonFiction

\* The ranges a handler takes the plank to stand in once it has made a call.
Found(call) ==
  CASE call.how = "separator" -> {RangeOf}
    [] call.how = "drop" -> standing
    [] OTHER -> call.names \cap Ranges

Asks(call) ==
  CASE call.how = "separator" -> BoundaryLocks(RangeOf)
    [] call.how = "drop" -> standing \cup {Furniture}
    [] OTHER -> call.names

\* A boundary no range has is not removed, and one to be removed is looked for,
\* under the locks, in the range that was locked for it.
Applies(t, call) ==
  /\ call.how = "separator" => standing # {}
  /\ call.how \in {"separator", "drop"} => known[t] \subseteq standing

Made(t, call, rest) ==
  /\ left' = [left EXCEPT ![t] = rest]
  /\ known' = [known EXCEPT ![t] = Found(call)]
  /\ plank' = [plank EXCEPT ![t] = IF call.how = "drop" THEN "going" ELSE @]
  /\ UNCHANGED standing

-----------------------------------------------------------------------------
(* A unit of work *)

\* What is read to name the first locks is read before they are taken.
Start(t, unit) ==
  /\ Head(unit).how = "separator" => standing # {}
  /\ Begin(t, Asks(Head(unit)))
  /\ Made(t, Head(unit), Tail(unit))
  /\ changes' = [changes EXCEPT ![t] = unit \in Rearrangements]

Ready(t) == pc[t] = "work" /\ plank[t] # "going"

Ask(t) ==
  /\ Ready(t) /\ left[t] # <<>>
  /\ LET call == Head(left[t]) IN
       /\ Applies(t, call)
       /\ IF call.how = "also"
          THEN \E n \in call.names : SerialiseOn(t, n)
          ELSE Nest(t, Asks(call))
       /\ Made(t, call, Tail(left[t]))
  /\ UNCHANGED changes

Refused(t) ==
  /\ Ready(t) /\ left[t] # <<>>
  /\ Applies(t, Head(left[t]))
  /\ Refuse(t, Asks(Head(left[t])))
  /\ UNCHANGED <<work, standing>>

\* No genre, no change of place, no assent, no such row: the rest is not asked.
NoMore(t) ==
  /\ Ready(t) /\ left[t] # <<>>
  /\ left' = [left EXCEPT ![t] = <<>>]
  /\ UNCHANGED <<vars, known, plank, changes, standing>>

MutDropArea(t) ==
  /\ pc[t] = "work" /\ plank[t] = "going"
  /\ plank' = [plank EXCEPT ![t] = "gone"]
  /\ UNCHANGED <<vars, left, known, changes, standing>>

\* dropArea asks again under its locks, and refuses if the plank has come to
\* stand in a run that was not locked.
DropArea(t) ==
  /\ pc[t] = "work" /\ plank[t] = "going"
  /\ \E next \in IF standing \subseteq known[t] THEN {"gone", "stays"} ELSE {"stays"} :
       plank' = [plank EXCEPT ![t] = next]
  /\ UNCHANGED <<vars, left, known, changes, standing>>

Locks(t) ==
  /\ (\E n \in Names : Take(t, n)) \/ Locked(t)
  /\ UNCHANGED <<work, standing>>

Close(t) ==
  /\ Ready(t) /\ left[t] = <<>>
  /\ Release(t)
  /\ UNCHANGED <<work, standing>>

Forgotten(t) ==
  /\ left' = [left EXCEPT ![t] = <<>>] /\ known' = [known EXCEPT ![t] = {}]
  /\ plank' = [plank EXCEPT ![t] = "stays"] /\ changes' = [changes EXCEPT ![t] = FALSE]

\* Until the commit nobody else sees what the handler wrote.
Finish(t) ==
  /\ Ready(t) /\ left[t] = <<>>
  /\ Commit(t)
  /\ Forgotten(t)
  /\ standing' \in IF plank[t] = "gone" THEN {{}}
                   ELSE IF changes[t] THEN Rooms ELSE {standing}

\* A throw leaves every level: no handler catches one of an inner transaction.
Throw(t) ==
  /\ StatementFails(t) \/ RollbackTo(t)
  /\ UNCHANGED <<work, standing>>

Undo(t) == Rollback(t) /\ Forgotten(t) /\ UNCHANGED standing

UnitStep(t) ==
  \/ \E unit \in Units : Start(t, unit)
  \/ Ask(t) \/ Refused(t) \/ NoMore(t)
  \/ DropArea(t) \/ Locks(t) \/ Close(t) \/ Finish(t)
  \/ Throw(t) \/ Undo(t)

UnitsNext == \E t \in Txs : UnitStep(t)

UnitsSpec == UnitsInit /\ [][UnitsNext]_unitVars

-----------------------------------------------------------------------------
(* Properties *)

OutOfTurn(t) ==
  /\ Ready(t) /\ left[t] # <<>>
  /\ Applies(t, Head(left[t]))
  /\ OutOfOrder(t, Asks(Head(left[t])))

\* A handler is refused in one case: it takes off a plank both runs stand on.
RefusedOnSharedPlank ==
  \A t \in Txs : OutOfTurn(t) =>
    standing = Ranges /\ Head(left[t]).how \in {"separator", "drop"}

\* "if the furniture changed in between and put the area in a run this did not
\* lock, it refuses rather than writing that run unguarded" (dropArea): when a
\* removal commits, it has held every run the plank stands in, and the furniture.
DropHoldsItsRuns ==
  [][\A t \in Txs : Finish(t) /\ plank[t] = "gone"
       => standing \cup {Furniture} \subseteq Owned(t)]_unitVars
=============================================================================
