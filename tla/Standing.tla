------------------------------ MODULE Standing ------------------------------
(***************************************************************************)
(* What the rows of one book in the placement ledger say of it: the fold   *)
(* of domain/placement/ledger.ts, the fold of infrastructure/placement/    *)
(* projection.ts, and what the writers of the ledger conclude from them.   *)
(* A row is [id, book, kind, area]; an area or Nowhere stands where the    *)
(* code has an id or null.                                                 *)
(***************************************************************************)
EXTENDS Integers, SequencesExt

CONSTANT Nowhere        \* null where an area could stand

PlacementKinds == {"assigned", "released", "placed", "pinned",
                   "checked_out", "checked_in", "withdrawn"}
KindsAtAPlace == {"assigned", "placed", "pinned"}
KindsAboutTheAnswer == {"assigned", "released"}

-----------------------------------------------------------------------------
(* standingOf *)

NowhereAtAll == [area |-> Nowhere, assigned |-> Nowhere, declined |-> Nowhere,
                 pinned |-> FALSE, out |-> FALSE, withdrawn |-> FALSE]

MutRefused(standing) == standing.declined
\* Only an answer that was outstanding is declined.
Refused(standing) ==
  IF standing.assigned \notin {Nowhere, standing.area} THEN standing.assigned
  ELSE standing.declined

AfterRow(standing, row) ==
  CASE row.kind = "assigned" ->
         [standing EXCEPT !.assigned = row.area,
                          !.declined = IF @ = row.area THEN Nowhere ELSE @]
    [] row.kind = "released" ->
         [standing EXCEPT !.assigned = Nowhere, !.declined = Refused(standing)]
    [] row.kind = "placed" ->
         [standing EXCEPT !.area = row.area, !.declined = Nowhere,
                          !.pinned = FALSE, !.out = FALSE, !.withdrawn = FALSE]
    [] row.kind = "pinned" -> [NowhereAtAll EXCEPT !.area = row.area, !.pinned = TRUE]
    [] row.kind = "checked_out" -> [NowhereAtAll EXCEPT !.out = TRUE]
    [] row.kind = "checked_in" -> NowhereAtAll
    [] row.kind = "withdrawn" -> [NowhereAtAll EXCEPT !.withdrawn = TRUE]

InOrder(rows) ==
  [i \in 1 .. Cardinality(rows) |->
     CHOOSE r \in rows : Cardinality({s \in rows : s.id < r.id}) = i - 1]

StandingOf(rows) == FoldLeft(AfterRow, NowhereAtAll, InOrder(rows))

-----------------------------------------------------------------------------
(* The fold in SQL *)

\* ORDER BY id DESC LIMIT 1
Latest(rows) == CHOOSE r \in rows : \A s \in rows : s.id <= r.id

MutFoldedArea(rows) ==
  IF rows # {} /\ Latest(rows).kind \in {"placed", "pinned"} THEN Latest(rows).area ELSE Nowhere
\* FOLDED: the rows about the answer are walked past.
FoldedArea(rows) ==
  LET moves == {r \in rows : r.kind \notin KindsAboutTheAnswer}
  IN IF moves # {} /\ Latest(moves).kind \in {"placed", "pinned"}
     THEN Latest(moves).area ELSE Nowhere

-----------------------------------------------------------------------------
(* What the writers conclude *)

LeftAlone(standing) == standing.pinned \/ standing.withdrawn \/ standing.out

NeedsAttention(standing) ==
  /\ ~LeftAlone(standing)
  /\ standing.assigned \notin {Nowhere, standing.area}

\* Where a book is to be once it has been carried.
Owed(standing) == IF standing.assigned # Nowhere THEN standing.assigned ELSE standing.area

\* assignmentFor: the area an `assigned` row would name, or Nowhere for no row.
AssignmentFor(standing, wanted) ==
  IF LeftAlone(standing) \/ wanted \in {Nowhere, standing.declined, Owed(standing)}
  THEN Nowhere ELSE wanted

\* WithdrawAssignmentsHandler: the books whose assignment is withdrawn.
Withdrawable(standing) == NeedsAttention(standing) /\ standing.area # Nowhere

\* RestoreAssignmentsHandler: the books whose withdrawn assignment is asked again.
Restorable(standing) ==
  /\ ~LeftAlone(standing)
  /\ standing.area # Nowhere
  /\ standing.declined \notin {Nowhere, standing.area}
=============================================================================
