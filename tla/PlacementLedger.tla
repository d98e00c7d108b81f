-------------------------- MODULE PlacementLedger --------------------------
(***************************************************************************)
(* The placement ledger and the column folded from it, written by          *)
(* transactions at READ COMMITTED, statement by statement                  *)
(* (infrastructure/placement/ledger-repository.ts and projection.ts,       *)
(* server/placement-ledger.ts, server/store.ts, server/carry.ts,           *)
(* server/place-rule.ts, application/placement/).                          *)
(*                                                                         *)
(* A statement sees what was committed when it began, and what its own     *)
(* transaction wrote.  A row of `books` written by one transaction is      *)
(* locked until that ends: another that wants to write it waits, and then  *)
(* goes on from the new version, its subqueries still seeing what they saw *)
(* before it waited.                                                       *)
(*                                                                         *)
(* `wanted` stands for rules and furniture: the area they give a book.     *)
(* Changing them is one step of the transaction that does.                 *)
(***************************************************************************)
EXTENDS Standing

CONSTANTS Books, Areas,
          Txs,          \* requests in flight, each with a connection
          Nobody,       \* holds no lock
          MaxRows       \* the last id the ledger may give out

ASSUME LedgerAssumption ==
  /\ Nowhere \notin Areas /\ Nobody \notin Txs
  /\ IsFiniteSet(Books)
  /\ MaxRows \in Nat \ {0, 1}

States == {"identified", "shelved", "checked_out", "discarded"}

VARIABLES rows,         \* book_placement, rows not yet committed among them
          nextId,       \* its sequence, which no rollback takes back
          book,         \* books.state and books.current_area_id, committed
          draft,        \* the version its locker has written of it
          lockedBy,     \* who has written the row and not committed
          wanted,       \* where the rules put each book, committed
          table,        \* who holds LOCK TABLE book_placement
          tx,           \* what each request does, and how far it is
          mine,         \* the rows each has inserted and not committed
          seen,         \* what the statement it is in sees of the ledger
          alone,        \* history: has each been the only request so far?
          read          \* history: the books and rows a change of the rules went by

ledgerVars ==
  <<rows, nextId, book, draft, lockedBy, wanted, table, tx, mine, seen, alone, read>>

\* op: the handler.  at: the statement it does next.  of: the one book it is
\* about.  to: the area it was asked for.  todo: rows it has still to record.
\* writes: books whose row its UPDATE has still to write.
Idle == [op |-> "none", at |-> "none", of |-> Nobody, to |-> Nowhere, todo |-> {}, writes |-> {}]
Ops == {"none", "place", "out", "in", "save", "rules", "leave", "restore",
        "unplace", "erase", "rebuild"}
Ats == {"none", "land", "insert", "fold", "write", "came", "commit"}

MaybeAreas == Areas \cup {Nowhere}
NewRow(b, kind, area) == [book |-> b, kind |-> kind, area |-> area]
NewRows == {r \in [book : Books, kind : PlacementKinds, area : MaybeAreas] :
              r.kind \in KindsAtAPlace <=> r.area # Nowhere}
Rows == {r \in [id : 1 .. MaxRows, book : Books, kind : PlacementKinds, area : MaybeAreas,
                reset : BOOLEAN] : r.kind \in KindsAtAPlace <=> r.area # Nowhere}
Versions == [state : States, area : MaybeAreas]
Requests == [op : Ops, at : Ats, of : Books \cup {Nobody}, to : MaybeAreas,
             todo : SUBSET NewRows, writes : SUBSET Books]
Readings == [books : SUBSET Books, rows : SUBSET Rows]
Nothing == [books |-> {}, rows |-> {}]

TypeOK ==
  /\ rows \subseteq Rows
  /\ nextId \in 1 .. MaxRows + 1
  /\ book \in [Books -> Versions] /\ draft \in [Books -> Versions]
  /\ lockedBy \in [Books -> Txs \cup {Nobody}]
  /\ wanted \in MaybeAreas
  /\ table \in Txs \cup {Nobody}
  /\ tx \in [Txs -> Requests]
  /\ mine \in [Txs -> SUBSET Rows] /\ seen \in [Txs -> SUBSET Rows]
  /\ alone \in [Txs -> BOOLEAN]
  /\ read \in [Txs -> Readings]

About(b, set) == {r \in set : r.book = b}
Committed == rows \ UNION {mine[t] : t \in Txs}
Sees(t) == Committed \cup mine[t]
SaysNow(b) == StandingOf(About(b, Committed))

\* A book the server may find: never placed, pinned by a migration, or standing
\* in one area with another on the carry list.
Seeded(id, b, kind, area) == [id |-> id, book |-> b, kind |-> kind, area |-> area, reset |-> FALSE]
Histories(b) ==
  {{}} \cup {{Seeded(1, b, "pinned", area)} : area \in Areas}
  \cup {{Seeded(1, b, "placed", from), Seeded(2, b, "assigned", to)} : from, to \in Areas}

Init ==
  /\ \E b \in Books : rows \in Histories(b)
  /\ nextId = 3
  /\ \E states \in [Books -> States \ {"checked_out"}] :
       book = [b \in Books |-> [state |-> IF About(b, rows) = {} THEN states[b] ELSE "shelved",
                                area |-> FoldedArea(About(b, rows))]]
  /\ draft = book
  /\ lockedBy = [b \in Books |-> Nobody]
  /\ wanted \in MaybeAreas
  /\ table = Nobody
  /\ tx = [t \in Txs |-> Idle]
  /\ mine = [t \in Txs |-> {}] /\ seen = [t \in Txs |-> {}]
  /\ alone = [t \in Txs |-> FALSE]
  /\ read = [t \in Txs |-> Nothing]

-----------------------------------------------------------------------------
(* Statements every request is made of *)

Free(t) == tx[t].op = "none"
MayWrite(t, b) == lockedBy[b] \in {Nobody, t}
Goto(t, at) == tx' = [tx EXCEPT ![t].at = at]
Do(t, at, todo) == tx' = [tx EXCEPT ![t].at = at, ![t].todo = todo]

\* A request begins with its first statement: from here on nobody else is alone.
Begins(t) ==
  /\ Free(t)
  /\ alone' = [u \in Txs |-> u = t /\ \A v \in Txs : Free(v)]
Request(op, at, b, area, todo) ==
  [op |-> op, at |-> at, of |-> b, to |-> area, todo |-> todo, writes |-> {}]

\* record: the row.
Record(t, new) ==
  LET row == [id |-> nextId, book |-> new.book, kind |-> new.kind,
              area |-> new.area, reset |-> FALSE] IN
  /\ table \in {Nobody, t}
  /\ nextId <= MaxRows
  /\ rows' = rows \cup {row}
  /\ mine' = [mine EXCEPT ![t] = @ \cup {row}]
  /\ nextId' = nextId + 1

Insert(t) ==
  /\ tx[t].at = "insert"
  /\ \E new \in tx[t].todo : Record(t, new) /\ Do(t, "fold", tx[t].todo \ {new})
  /\ UNCHANGED <<book, draft, lockedBy, wanted, table, seen, alone, read>>

\* The UPDATE begins: what it sees of the ledger, and which books it is about.
BooksToWrite(t) ==
  CASE tx[t].op = "erase" -> {b \in Books : book[b].area # Nowhere}
    [] tx[t].op = "unplace" -> {r.book : r \in mine[t]}
    [] OTHER -> {Latest(mine[t]).book}

MutFold(t) ==
  /\ tx[t].at = "fold"
  /\ seen' = [seen EXCEPT ![t] = mine[t]]
  /\ tx' = [tx EXCEPT ![t].writes = BooksToWrite(t),
                      ![t].at = IF BooksToWrite(t) = {} THEN "commit" ELSE "write"]
  /\ UNCHANGED <<rows, nextId, book, draft, lockedBy, wanted, table, mine, alone, read>>
Fold(t) ==
  /\ tx[t].at = "fold"
  /\ seen' = [seen EXCEPT ![t] = Sees(t)]
  /\ tx' = [tx EXCEPT ![t].writes = BooksToWrite(t),
                      ![t].at = IF BooksToWrite(t) = {} THEN "commit" ELSE "write"]
  /\ UNCHANGED <<rows, nextId, book, draft, lockedBy, wanted, table, mine, alone, read>>

\* Once its last book is written: the second row of a book that came back, the
\* next book, or the end.
AfterWriting(t) ==
  IF tx[t].op = "in" /\ Latest(mine[t]).kind = "checked_in" THEN "came"
  ELSE IF tx[t].op = "rules" /\ tx[t].todo # {} THEN "insert" ELSE "commit"

\* The UPDATE has the row of one book: it writes what it saw when it began.
Write(t, b) ==
  LET area == IF tx[t].op \in {"unplace", "erase"} THEN Nowhere
              ELSE FoldedArea(About(b, seen[t]))
      left == tx[t].writes \ {b} IN
  /\ tx[t].at = "write" /\ b \in tx[t].writes
  /\ MayWrite(t, b)
  /\ draft' = [draft EXCEPT ![b].area = area]
  /\ lockedBy' = [lockedBy EXCEPT ![b] = t]
  /\ tx' = [tx EXCEPT ![t].writes = left,
                      ![t].at = IF left = {} THEN AfterWriting(t) ELSE @]
  /\ seen' = IF left = {} THEN [seen EXCEPT ![t] = {}] ELSE seen
  /\ UNCHANGED <<rows, nextId, book, wanted, table, mine, alone, read>>

-----------------------------------------------------------------------------
(* The requests *)

\* setLocation, setLocationIn: under no lock, whatever state the book is in.
Place(t, b, area) ==
  /\ Begins(t)
  /\ Record(t, NewRow(b, "placed", area))
  /\ tx' = [tx EXCEPT ![t] = Request("place", "fold", b, Nowhere, {})]
  /\ UNCHANGED <<book, draft, lockedBy, wanted, table, seen, read>>

MutMoves(op, state) == op # "save" \/ state = "identified"
\* The state a handler compares and sets, and what it sets it to.
Moves(op, state) ==
  CASE op = "out" -> state # "checked_out"
    [] op = "in" -> state = "checked_out"
    [] op = "save" -> state = "identified"
MovedTo(op) == IF op = "out" THEN "checked_out" ELSE "shelved"

MutMark(t, op, b, at, area, todo) ==
  /\ Begins(t) /\ MayWrite(t, b) /\ Moves(op, book[b].state)
  /\ book' = [book EXCEPT ![b].state = MovedTo(op)]
  /\ draft' = [draft EXCEPT ![b].state = MovedTo(op)]
  /\ tx' = [tx EXCEPT ![t] = Request(op, at, b, area, todo)]
  /\ UNCHANGED <<rows, nextId, lockedBy, wanted, table, mine, seen, read>>
\* UPDATE books SET state ... WHERE state ... RETURNING; no row, and the handler
\* has nothing more to do.
Mark(t, op, b, at, area, todo) ==
  /\ Begins(t)
  /\ MayWrite(t, b)
  /\ Moves(op, book[b].state)
  /\ draft' = [draft EXCEPT ![b].state = MovedTo(op)]
  /\ lockedBy' = [lockedBy EXCEPT ![b] = t]
  /\ tx' = [tx EXCEPT ![t] = Request(op, at, b, area, todo)]
  /\ UNCHANGED <<rows, nextId, book, wanted, table, mine, seen, read>>

\* setCheckedOut
CheckOut(t, b) == Mark(t, "out", b, "insert", Nowhere, {NewRow(b, "checked_out", Nowhere)})
CheckIn(t, b) == Mark(t, "in", b, "insert", Nowhere, {NewRow(b, "checked_in", Nowhere)})

\* recordCheckedOut, coming back: the plank the book came off.
Came(t) ==
  LET been == {r \in About(tx[t].of, Sees(t)) : r.kind \in {"placed", "pinned"}} IN
  /\ tx[t].at = "came"
  /\ IF been = {} THEN Goto(t, "commit")
     ELSE Do(t, "insert", {NewRow(tx[t].of, "placed", Latest(been).area)})
  /\ UNCHANGED <<rows, nextId, book, draft, lockedBy, wanted, table, mine, seen, alone, read>>

\* A save from the queue, where the book lands or on a plank that was said.
Save(t, b, area) == Mark(t, "save", b, "land", area, {})

\* recordSave: a book no rule claims is recorded nowhere.
Land(t) ==
  LET area == IF tx[t].to # Nowhere THEN tx[t].to ELSE wanted IN
  /\ tx[t].at = "land"
  /\ IF area = Nowhere THEN Goto(t, "commit")
     ELSE Do(t, "insert", {NewRow(tx[t].of, "placed", area)})
  /\ UNCHANGED <<rows, nextId, book, draft, lockedBy, wanted, table, mine, seen, alone, read>>

\* Requests that read every book and then record a row for each of some.
Catalogued(b) == book[b].state \in {"shelved", "checked_out"}
Lists(t, op, area, todo) ==
  /\ Begins(t)
  /\ tx' = [tx EXCEPT ![t] = Request(op, IF todo = {} THEN "commit" ELSE "insert", Nobody, area, todo)]
  /\ UNCHANGED <<rows, nextId, book, draft, lockedBy, wanted, table, mine, seen>>

\* AssignPlacementsHandler, in the transaction that changes the rules; the
\* furniture lock keeps it to one.
Rules(t, area) ==
  /\ \A u \in Txs : tx[u].op # "rules"
  /\ Lists(t, "rules", area,
       {NewRow(b, "assigned", area) : b \in
          {c \in Books : Catalogued(c) /\ AssignmentFor(SaysNow(c), area) # Nowhere}})
  /\ read' = [read EXCEPT ![t] = [books |-> {b \in Books : Catalogued(b)}, rows |-> Committed]]

\* leaveWhereTheyAre, putBackOnTheList: each row is a transaction of its own.
\* One trip may be asked for, or all.
Answered(b) == \E r \in About(b, Committed) : r.kind \in KindsAboutTheAnswer
Trips(choice) == {choice} \cup
  {{b \in choice : SaysNow(b).area = from /\ to \in {SaysNow(b).assigned, SaysNow(b).declined}} :
     from, to \in Areas}

Leave(t) ==
  \E chosen \in Trips({b \in Books : Catalogued(b) /\ Answered(b) /\ Withdrawable(SaysNow(b))}) :
    /\ chosen # {}
    /\ Lists(t, "leave", Nowhere, {NewRow(b, "released", Nowhere) : b \in chosen})
    /\ UNCHANGED read

Restore(t) ==
  \E chosen \in Trips({b \in Books : Catalogued(b) /\ Answered(b) /\ Restorable(SaysNow(b))}) :
    /\ chosen # {}
    /\ Lists(t, "restore", Nowhere, {NewRow(b, "assigned", SaysNow(b).declined) : b \in chosen})
    /\ UNCHANGED read

\* LOCK TABLE waits for every transaction that has inserted a row.
LocksTable(t) ==
  /\ Begins(t)
  /\ table = Nobody /\ \A u \in Txs \ {t} : mine[u] = {}
  /\ table' = t

\* STILL_SOMEWHERE
StillSomewhere ==
  {b \in Books : /\ book[b].state = "shelved"
                 /\ About(b, Committed) # {}
                 /\ Latest(About(b, Committed)).kind # "checked_in"}

\* recordUnplacedAll
Unplace(t) ==
  LET due == StillSomewhere
      last == nextId + Cardinality(due) - 1 IN
  /\ LocksTable(t)
  /\ last <= MaxRows
  /\ \E id \in [due -> nextId .. last] :
       /\ \A b, c \in due : id[b] = id[c] => b = c
       /\ mine' = [mine EXCEPT ![t] =
            {[id |-> id[b], book |-> b, kind |-> "checked_in", area |-> Nowhere, reset |-> TRUE] :
               b \in due}]
  /\ rows' = rows \cup mine'[t]
  /\ nextId' = last + 1
  /\ tx' = [tx EXCEPT ![t] =
       Request("unplace", IF due = {} THEN "commit" ELSE "fold", Nobody, Nowhere, {})]
  /\ UNCHANGED <<book, draft, lockedBy, wanted, seen, read>>

\* eraseLedger: the others see the rows until the commit.
Erase(t) ==
  /\ LocksTable(t)
  /\ tx' = [tx EXCEPT ![t] = Request("erase", "fold", Nobody, Nowhere, {})]
  /\ UNCHANGED <<rows, nextId, book, draft, lockedBy, wanted, mine, seen, read>>

\* rebuildProjection: one UPDATE of the books that disagree.
Rebuild(t) ==
  LET wrong == {b \in Books : book[b].area # FoldedArea(About(b, Committed))} IN
  /\ Begins(t)
  /\ wrong # {}
  /\ seen' = [seen EXCEPT ![t] = Committed]
  /\ tx' = [tx EXCEPT ![t] = [Request("rebuild", "write", Nobody, Nowhere, {}) EXCEPT !.writes = wrong]]
  /\ UNCHANGED <<rows, nextId, book, draft, lockedBy, wanted, table, mine, read>>

-----------------------------------------------------------------------------
(* The end *)

Unlocked(t) ==
  /\ lockedBy' = [b \in Books |-> IF lockedBy[b] = t THEN Nobody ELSE lockedBy[b]]
  /\ table' = IF table = t THEN Nobody ELSE table
  /\ mine' = [mine EXCEPT ![t] = {}] /\ seen' = [seen EXCEPT ![t] = {}]
  /\ alone' = [alone EXCEPT ![t] = FALSE] /\ read' = [read EXCEPT ![t] = Nothing]
  /\ UNCHANGED nextId

\* The rest of a list that is recorded book by book.
GoesOn(t) == tx[t].op \in {"leave", "restore"} /\ tx[t].todo # {}

Commit(t) ==
  /\ tx[t].at = "commit"
  /\ book' = [b \in Books |-> IF lockedBy[b] = t THEN draft[b] ELSE book[b]]
  /\ rows' = IF tx[t].op = "erase" THEN {} ELSE rows
  /\ wanted' = IF tx[t].op = "rules" THEN tx[t].to ELSE wanted
  /\ tx' = [tx EXCEPT ![t] = IF GoesOn(t) THEN [@ EXCEPT !.at = "insert"] ELSE Idle]
  /\ Unlocked(t)
  /\ UNCHANGED draft

\* Any statement, a wait for a lock among them: Postgres breaks a deadlock so.
StatementFails(t) ==
  /\ ~Free(t)
  /\ draft' = [b \in Books |-> IF lockedBy[b] = t THEN book[b] ELSE draft[b]]
  /\ rows' = rows \ mine[t]
  /\ tx' = [tx EXCEPT ![t] = Idle]
  /\ Unlocked(t)
  /\ UNCHANGED <<book, wanted>>

Handle(t) ==
  \/ \E b \in Books : CheckOut(t, b) \/ CheckIn(t, b)
  \/ \E b \in Books, area \in Areas : Place(t, b, area)
  \/ \E b \in Books, area \in MaybeAreas : Save(t, b, area)
  \/ \E area \in MaybeAreas : Rules(t, area)
  \/ Leave(t) \/ Restore(t) \/ Unplace(t) \/ Erase(t) \/ Rebuild(t)

Statement(t) ==
  \/ Insert(t) \/ Fold(t) \/ (\E b \in Books : Write(t, b)) \/ Came(t) \/ Land(t)
  \/ Commit(t) \/ StatementFails(t)

Next == \E t \in Txs : Handle(t) \/ Statement(t)

Spec == Init /\ [][Next]_ledgerVars

-----------------------------------------------------------------------------
(* Properties *)

\* "There is no window in which the ledger says one thing and the column says
\* another" (ledger-repository.ts): with nothing under way, the column of every
\* book is the fold of its rows.
NoWindow ==
  (\A t \in Txs : Free(t)) => \A b \in Books : book[b].area = FoldedArea(About(b, Committed))

\* What does hold: a request that was the only one from its beginning to its
\* commit leaves the column of every book it recorded a row of as the fold of
\* all its rows, whatever the column said before; so does a rebuild, of all.
SoleWriterHeals ==
  [][\A t \in Txs : Commit(t) /\ alone[t] =>
       \A b \in IF tx[t].op = "rebuild" THEN Books ELSE {r.book : r \in mine[t]} :
         book'[b].area = FoldedArea(About(b, rows'))]_ledgerVars

\* "one definition of the fold in SQL and one in domain/placement/ledger.ts,
\* which a test compares": on every ledger the requests can write.
FoldsAgree ==
  \A b \in Books : FoldedArea(About(b, Committed)) = SaysNow(b).area

\* "a second checkout arriving at once changes no rows here, so it writes no row
\* there either" (setCheckedOut): a book goes out and comes back by turns.
Circulation(b) ==
  {r \in About(b, rows) : r.kind \in {"checked_out", "checked_in"} /\ ~r.reset}
CirculationAlternates ==
  \A b \in Books : \A r, s \in Circulation(b) :
    r.id < s.id /\ r.kind = s.kind =>
      \E between \in Circulation(b) : r.id < between.id /\ between.id < s.id

\* A book whose rows say it is out is out: the row and the state commit together,
\* and a reset takes no book off a shelf it is not on.
OutIsOut ==
  \A b \in Books : SaysNow(b).out => book[b].state = "checked_out"

\* A released row "says no to one answer and the next different answer is asked
\* for normally" (ledger.ts), although somebody may leave books where they are, or
\* take them out, between the reading of a change of the rules and its commit, and
\* the change then goes by standings that are gone.  When it commits, every book it
\* read owes what the rules want or declined it, or is left alone.
\*
\* Undisturbed: beside its own, only such rows have come since, behind those it
\* read.  The fold remembers one refusal, so a book that had declined this answer
\* already may have declined another in its place.
ReadOf(t, b) == About(b, read[t].rows)
Undisturbed(t, b) ==
  /\ ReadOf(t, b) \subseteq Committed
  /\ \A r \in About(b, Committed) \ ReadOf(t, b) :
       r.kind \in {"released", "checked_out"} /\ \A s \in ReadOf(t, b) : s.id < r.id
  /\ StandingOf(ReadOf(t, b)).declined # tx[t].to
AskedFor(standing, area) == LeftAlone(standing) \/ area \in {Owed(standing), standing.declined}
NextAnswerIsAsked ==
  [][\A t \in Txs : Commit(t) /\ tx[t].op = "rules" /\ tx[t].to # Nowhere =>
       \A b \in read[t].books :
         Undisturbed(t, b) => AskedFor(StandingOf(About(b, Sees(t))), tx[t].to)]_ledgerVars

=============================================================================
