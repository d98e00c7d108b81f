------------------------------ MODULE BookLife ------------------------------
(***************************************************************************)
(* What every component that writes `books.state` promises about a book,   *)
(* with the workings left out.  A book enters the queue once, leaves it    *)
(* once, and leaves it either for the catalogue or for the bin: nothing    *)
(* brings a discarded scan or a catalogued book back to be read again.     *)
(* The seven states of domain/books/state.ts fold onto the three stages    *)
(* below the way its QUEUED_STATES and CATALOGUED_STATES divide them.      *)
(***************************************************************************)
CONSTANT Books      \* every row `books` may ever hold

VARIABLE stage      \* where each book is in its life

Stages == {"absent", "queued", "catalogued", "discarded"}

\* A database may already hold captures when the server starts.
Init == stage \in [Books -> {"absent", "queued"}]

Scan(b) == /\ stage[b] = "absent"
           /\ stage' = [stage EXCEPT ![b] = "queued"]

Catalogue(b) == /\ stage[b] = "queued"
                /\ stage' = [stage EXCEPT ![b] = "catalogued"]

Discard(b) == /\ stage[b] = "queued"
              /\ stage' = [stage EXCEPT ![b] = "discarded"]

Next == \E b \in Books : Scan(b) \/ Catalogue(b) \/ Discard(b)

Spec == Init /\ [][Next]_stage
=============================================================================
