------------------------- MODULE CaptureQueueProofs -------------------------
(***************************************************************************)
(* What CaptureQueue guarantees for every set of books, slots, people and  *)
(* requests, and every value of its bounds: types, the bound on the crash  *)
(* loop, the wake-ups, the life of a book; then, from PassInv, what the    *)
(* reading itself leaves: OfferInv, ReadInv, StatedInv, EditInv.           *)
(***************************************************************************)
EXTENDS CaptureQueue, TLAPS

\* Whoever is at work is at work on something: the facts about the local states
\* that the type invariant alone does not carry.
InHand ==
  /\ worker.pc \notin {"idle", "query", "nothing"} => worker.id \in Books
  /\ \A r \in Requests : edits[r].pc \notin {"unsent", "done"}
                         => edits[r].book \in Books /\ edits[r].who \in People

Typed == TypeOK /\ InHand

-----------------------------------------------------------------------------
(* The records stay in their types under the updates the actions make. *)

LEMMA RowAnalysed ==
  ASSUME NEW r \in Row, NEW a \in SUBSET Slots
  PROVE  [r EXCEPT !.analysed = a] \in Row
BY DEF Row

LEMMA RowSaved ==
  ASSUME NEW r \in Row, NEW i \in Isbns
  PROVE  [r EXCEPT !.isbn = i] \in Row
BY DEF Row

LEMMA RowCounted ==
  ASSUME NEW r \in Row, NEW k \in Nat
  PROVE  [r EXCEPT !.attempts = k] \in Row
BY DEF Row

LEMMA RowSettled ==
  ASSUME NEW r \in Row, NEW a \in SUBSET Slots, NEW n \in Notes
  PROVE  [r EXCEPT !.analysed = a, !.note = n, !.attempts = 0] \in Row
BY DEF Row

LEMMA RowRead ==
  ASSUME NEW r \in Row, NEW a \in SUBSET Slots, NEW i \in Isbns, NEW d \in BOOLEAN
  PROVE  [r EXCEPT !.isbn = i, !.analysed = a, !.draft = d, !.note = "",
                   !.attempts = 0] \in Row
BY DEF Row, Notes

LEMMA RowEdited ==
  ASSUME NEW r \in Row, NEW f \in SUBSET Fields, NEW who \in People, NEW i \in Isbns
  PROVE  [r EXCEPT !.stated = f, !.editor = who, !.isbn = i] \in Row
BY DEF Row

LEMMA LookingTyped ==
  ASSUME NEW pc \in WorkerPcs
  PROVE  Looking(pc) \in Worker
BY DEF Worker, Looking, NoShots, Isbns, Notes, NoBook

LEMMA WorkerUncounted ==
  ASSUME NEW w \in Worker
  PROVE  [w EXCEPT !.counted = FALSE] \in Worker
BY DEF Worker

LEMMA ProcessedTyped ==
  ASSUME TypeOK, worker.id \in Books
  PROVE  Processed \in Worker /\ Processed.pc = "derive" /\ Processed.id \in Books
BY DEF Processed, Looking, Worker, WorkerPcs, NoShots, Isbns, Notes, NoBook, TypeOK

LEMMA ShotTyped ==
  ASSUME NEW f \in [Slots -> Nat], NEW s \in Slots, NEW n \in Nat
  PROVE  [f EXCEPT ![s] = n] \in [Slots -> Nat]
OBVIOUS

LEMMA ShotsAtStart ==
  ASSUME NEW f \in [Slots -> {0, 1}]
  PROVE  f \in [Slots -> Nat]
OBVIOUS

LEMMA StaysInHand ==
  ASSUME InHand, worker'.pc = worker.pc, worker'.id = worker.id, edits' = edits
  PROVE  InHand'
BY DEF InHand

-----------------------------------------------------------------------------
LEMMA InitTyped == Init => Typed
<1> SUFFICES ASSUME Init PROVE Typed
    OBVIOUS
<1>1. PICK old \in [Books -> SUBSET Slots], isbn \in [Books -> {"", "read"}] :
         /\ row = [b \in Books |-> [NewRow EXCEPT !.analysed = old[b],
                                                  !.isbn = isbn[b]]]
         /\ offered = [b \in Books |->
                         [s \in Slots |-> IF s \in old[b] THEN 1 ELSE 0]]
  BY DEF Init
<1>2. row \in [Books -> Row]
  BY <1>1 DEF Row, NewRow, Isbns, Notes
<1>3. offered \in [Books -> [Slots -> Nat]]
  BY <1>1
<1>4. state \in [Books -> States] /\ shot \in [Books -> [Slots -> Nat]]
  <2>1. state \in [Books -> States]
    BY DEF Init, States, Queued
  <2>2. shot \in [Books -> [Slots -> {0, 1}]]
    BY DEF Init
  <2>3. ASSUME NEW b \in Books PROVE shot[b] \in [Slots -> Nat]
    <3>1. shot[b] \in [Slots -> {0, 1}]
      BY <2>2
    <3> QED BY <3>1, ShotsAtStart
  <2> QED BY <2>1, <2>2, <2>3
<1>5. worker = Looking("idle") /\ worker \in Worker
  BY LookingTyped DEF Init, WorkerPcs
<1>6. /\ edits = [r \in Requests |-> NoEdit("unsent")]
      /\ edits \in [Requests -> Edit]
  BY DEF Init, Edit, NoEdit, EditPcs, NoBook
<1>7. claim \in [Books -> Lease]
  BY DEF Init, Unclaimed, Lease
<1>8. TypeOK
  BY <1>2, <1>3, <1>4, <1>5, <1>6, <1>7 DEF TypeOK, Init, Budget
<1>9. InHand
  BY <1>5, <1>6 DEF InHand, Looking, NoEdit
<1> QED BY <1>8, <1>9 DEF Typed

LEMMA ShutterTyped ==
  ASSUME Typed, NEW b \in Books, NEW s \in Slots,
         NewCapture(b, s) \/ Attach(b, s)
  PROVE  Typed'
<1> USE DEF Typed
<1>1. CASE NewCapture(b, s)
  <2>1. [shot[b] EXCEPT ![s] = 1] \in [Slots -> Nat]
    BY ShotTyped DEF TypeOK
  <2>2. TypeOK'
    BY <1>1, <2>1 DEF NewCapture, TypeOK, States, Queued, history
  <2> QED BY <1>1, <2>2, StaysInHand DEF NewCapture
<1>2. CASE Attach(b, s)
  <2>1. /\ shot[b] \in [Slots -> Nat] /\ row[b] \in Row
        /\ row[b].analysed \in SUBSET Slots
    BY DEF TypeOK, Row
  <2>2. [shot[b] EXCEPT ![s] = shot[b][s] + 1] \in [Slots -> Nat]
    BY <2>1, ShotTyped
  <2>3. [row[b] EXCEPT !.analysed = row[b].analysed \ {s}] \in Row
    BY <2>1, RowAnalysed
  <2>4. state' \in [Books -> States]
    BY <1>2 DEF Attach, TypeOK, States, Queued
  <2>5. row' \in [Books -> Row]
    <3>1. row' = [row EXCEPT ![b] = [row[b] EXCEPT !.analysed = row[b].analysed \ {s}]]
      BY <1>2 DEF Attach
    <3> QED BY <2>3, <3>1 DEF TypeOK
  <2>6. shot' \in [Books -> [Slots -> Nat]]
    <3>1. shot' = [shot EXCEPT ![b] = [shot[b] EXCEPT ![s] = shot[b][s] + 1]]
      BY <1>2 DEF Attach
    <3> QED BY <2>2, <3>1 DEF TypeOK
  <2>7. asks' \in Nat
    BY <1>2 DEF Attach, TypeOK
  <2>8. TypeOK'
    BY <1>2, <2>4, <2>5, <2>6, <2>7 DEF Attach, TypeOK, history
  <2> QED BY <1>2, <2>8, StaysInHand DEF Attach
<1> QED BY <1>1, <1>2

LEMMA ReadAgainTyped ==
  ASSUME Typed, NEW b \in Books, ReadAgain(b) PROVE Typed'
<1> USE DEF Typed
<1>1. [row[b] EXCEPT !.analysed = {}, !.note = "", !.attempts = 0] \in Row
  BY RowSettled DEF TypeOK, Notes
<1>2. worker' \in Worker
  BY WorkerUncounted DEF ReadAgain, TypeOK
<1>3. worker'.pc = worker.pc /\ worker'.id = worker.id
  BY DEF ReadAgain, TypeOK, Worker
<1>4. spent' \in Budget
  <2>1. spent \in Budget /\ spent' = [spent EXCEPT !.again = @ + 1]
    BY DEF ReadAgain, TypeOK
  <2> QED BY <2>1 DEF Budget
<1>5. TypeOK'
  BY <1>1, <1>2, <1>4 DEF ReadAgain, TypeOK, States, Queued
<1> QED BY <1>3, <1>5, StaysInHand DEF ReadAgain

LEMMA LeavingTyped ==
  ASSUME Typed, NEW b \in Books, Save(b) \/ Discard(b) PROVE Typed'
<1> USE DEF Typed
<1>1. CASE Save(b)
  <2>1. PICK isbn \in {"", "saved"} :
           row' = [row EXCEPT ![b] = [row[b] EXCEPT !.isbn = isbn]]
    BY <1>1 DEF Save
  <2>2. [row[b] EXCEPT !.isbn = isbn] \in Row
    BY RowSaved DEF TypeOK, Isbns
  <2>3. row' \in [Books -> Row]
    BY <2>1, <2>2 DEF TypeOK
  <2>4. TypeOK'
    BY <1>1, <2>3 DEF Save, TypeOK, States, Queued, memory, history
  <2> QED BY <1>1, <2>4, StaysInHand DEF Save, memory
<1>2. CASE Discard(b)
  <2>1. Unclaimed \in Lease
    BY DEF Unclaimed, Lease
  <2>2. TypeOK'
    BY <1>2, <2>1 DEF Discard, TypeOK, States, memory, history
  <2> QED BY <1>2, <2>2, StaysInHand DEF Discard, memory
<1> QED BY <1>1, <1>2

LEMMA ClaimTyped ==
  ASSUME Typed, NEW b \in Books,
         LeaseExpires(b) \/ \E who \in People : Claim(b, who)
  PROVE  Typed'
<1> USE DEF Typed
<1>1. CASE \E who \in People : Claim(b, who)
  <2>1. PICK who \in People : Claim(b, who)
    BY <1>1
  <2>2. [who |-> who, fresh |-> TRUE] \in Lease
    BY DEF Lease
  <2>3. TypeOK'
    BY <2>1, <2>2 DEF Claim, Claimed, TypeOK, memory, history
  <2> QED BY <2>1, <2>3, StaysInHand DEF Claim, memory
<1>2. CASE LeaseExpires(b)
  <2>1. [claim[b] EXCEPT !.fresh = FALSE] \in Lease
    BY DEF TypeOK, Lease
  <2>2. TypeOK'
    BY <1>2, <2>1 DEF LeaseExpires, TypeOK, memory, history
  <2> QED BY <1>2, <2>2, StaysInHand DEF LeaseExpires, memory
<1> QED BY <1>1, <1>2

\* An edit that names a book and a person keeps naming them until it is over.
LEMMA EditMoves ==
  ASSUME Typed, NEW r \in Requests, NEW e, e \in Edit,
         e.pc \notin {"unsent", "done"} => e.book \in Books /\ e.who \in People,
         edits' = [edits EXCEPT ![r] = e], worker' = worker
  PROVE  edits' \in [Requests -> Edit] /\ InHand'
BY DEF Typed, TypeOK, InHand

LEMMA AnsweredIs ==
  ASSUME Typed, NEW r \in Requests, edits[r].pc \notin {"unsent", "done"},
         edits' = Answered(r), worker' = worker
  PROVE  edits' \in [Requests -> Edit] /\ InHand'
<1> DEFINE e == IF edits[r].letGo THEN [edits[r] EXCEPT !.pc = "release"]
                ELSE NoEdit("done")
<1>1. edits[r] \in Edit /\ edits[r].book \in Books /\ edits[r].who \in People
  BY DEF Typed, TypeOK, InHand
<1>2. [edits[r] EXCEPT !.pc = "release"] \in Edit
  BY <1>1 DEF Edit, EditPcs
<1>3. NoEdit("done") \in Edit /\ NoEdit("done").pc = "done"
  BY DEF Edit, EditPcs, NoEdit, NoBook
<1>4. [edits[r] EXCEPT !.pc = "release"].book = edits[r].book
      /\ [edits[r] EXCEPT !.pc = "release"].who = edits[r].who
  BY <1>1 DEF Edit
<1>5. e \in Edit /\ (e.pc \notin {"unsent", "done"} => e.book \in Books /\ e.who \in People)
  BY <1>1, <1>2, <1>3, <1>4
<1>6. edits' = [edits EXCEPT ![r] = e]
  BY DEF Answered
<1> HIDE DEF e
<1> QED BY <1>5, <1>6, EditMoves

LEMMA EditReadTyped ==
  ASSUME Typed, NEW r \in Requests, NEW b \in Books, NEW who \in People,
         NEW patch \in Patches, NEW letGo \in LettingGo,
         EditRead(r, b, who, patch, letGo)
  PROVE  Typed'
<1> DEFINE e == [pc |-> IF state[b] \in Queued THEN "claim" ELSE "release",
                 book |-> b, who |-> who, patch |-> patch,
                 merged |-> row[b].stated \cup patch, letGo |-> letGo]
<1>1. row[b].stated \in SUBSET Fields
  <2>1. row[b] \in Row
    BY DEF Typed, TypeOK
  <2> QED BY <2>1 DEF Row
<1>2. row[b].stated \cup patch \in SUBSET Fields /\ patch \in SUBSET Fields
  BY <1>1, PatchesAssumption
<1>3. letGo \in BOOLEAN
  BY PeopleAssumption
<1>4. e \in Edit
  BY <1>2, <1>3 DEF Edit, EditPcs
<1>5. e.book \in Books /\ e.who \in People
  OBVIOUS
<1>6. edits' = [edits EXCEPT ![r] = e] /\ worker' = worker
  BY DEF EditRead, memory
<1> HIDE DEF e
<1>7. edits' \in [Requests -> Edit] /\ InHand'
  BY <1>4, <1>5, <1>6, EditMoves
<1>8. TypeOK'
  BY <1>7 DEF EditRead, Typed, TypeOK, db, memory, history
<1> QED BY <1>7, <1>8 DEF Typed

LEMMA EditStepTyped ==
  ASSUME Typed, NEW r \in Requests, EditStep(r) PROVE Typed'
<1> DEFINE e == edits[r]
<1> USE DEF Typed
<1>0. e.pc \notin {"unsent", "done"}
  BY DEF EditStep, EditClaim, EditLookup, EditWrite, EditRelease
<1>1. e \in Edit /\ e.book \in Books /\ e.who \in People
  BY <1>0 DEF TypeOK, InHand
<1>2. CASE EditClaim(r)
  <2>1. [who |-> e.who, fresh |-> TRUE] \in Lease
    BY <1>1 DEF Lease
  <2>2. CASE Claimable(e.book, e.who)
    <3>1. PICK next \in {"lookup", "write"} :
             edits' = [edits EXCEPT ![r] = [e EXCEPT !.pc = next]]
      BY <1>2, <2>2 DEF EditClaim
    <3>2. [e EXCEPT !.pc = next] \in Edit
      BY <1>1 DEF Edit, EditPcs
    <3>3. [e EXCEPT !.pc = next].book = e.book /\ [e EXCEPT !.pc = next].who = e.who
      BY <1>1 DEF Edit
    <3>4. worker' = worker
      BY <1>2 DEF EditClaim, memory
    <3>5. edits' \in [Requests -> Edit] /\ InHand'
      BY <1>1, <3>1, <3>2, <3>3, <3>4, EditMoves
    <3>6. claim' \in [Books -> Lease]
      BY <1>2, <1>1, <2>1, <2>2 DEF EditClaim, Claimed, TypeOK
    <3>7. TypeOK'
      BY <1>2, <3>5, <3>6 DEF EditClaim, TypeOK, memory, history
    <3> QED BY <3>5, <3>7
  <2>3. CASE ~Claimable(e.book, e.who)
    <3>1. edits' = Answered(r) /\ claim' = claim /\ worker' = worker
      BY <1>2, <2>3 DEF EditClaim, memory
    <3>2. edits' \in [Requests -> Edit] /\ InHand'
      BY <1>0, <3>1, AnsweredIs
    <3>3. TypeOK'
      BY <1>2, <3>1, <3>2 DEF EditClaim, TypeOK, memory, history
    <3> QED BY <3>2, <3>3
  <2> QED BY <2>2, <2>3
<1>3. CASE EditLookup(r)
  <2>1. PICK found \in {{}, {"title"}} :
           edits' = [edits EXCEPT ![r] = [e EXCEPT !.pc = "write",
                                                   !.merged = e.merged \cup found]]
    BY <1>3 DEF EditLookup
  <2> DEFINE f == [e EXCEPT !.pc = "write", !.merged = e.merged \cup found]
  <2>2. e.merged \in SUBSET Fields
    BY <1>1 DEF Edit
  <2>3. e.merged \cup found \in SUBSET Fields
    BY <2>2 DEF Fields
  <2>4. f \in Edit /\ f.book = e.book /\ f.who = e.who
    BY <1>1, <2>3 DEF Edit, EditPcs
  <2> HIDE DEF f
  <2>5. worker' = worker
    BY <1>3 DEF EditLookup, memory
  <2>6. edits' \in [Requests -> Edit] /\ InHand'
    BY <1>1, <2>1, <2>4, <2>5, EditMoves DEF f
  <2>7. TypeOK'
    BY <1>3, <2>6 DEF EditLookup, TypeOK, db, memory, history
  <2> QED BY <2>6, <2>7
<1>4. CASE EditWrite(r)
  <2>1. edits' = Answered(r) /\ worker' = worker
    BY <1>4 DEF EditWrite, memory
  <2>2. edits' \in [Requests -> Edit] /\ InHand'
    BY <1>0, <2>1, AnsweredIs
  <2> DEFINE i == IF "isbn" \in e.merged THEN "stated" ELSE row[e.book].isbn
             new == [row[e.book] EXCEPT !.stated = e.merged, !.editor = e.who,
                                        !.isbn = i]
  <2>3. row[e.book] \in Row
    BY <1>1 DEF TypeOK
  <2>4. e.merged \in SUBSET Fields
    BY <1>1 DEF Edit
  <2>5. i \in Isbns
    BY <2>3 DEF Row, Isbns
  <2>6. row' = [row EXCEPT ![e.book] = new]
    BY <1>4 DEF EditWrite
  <2> HIDE DEF i
  <2>7. new \in Row
    BY <1>1, <2>3, <2>4, <2>5, RowEdited
  <2> HIDE DEF new
  <2>8. row' \in [Books -> Row]
    BY <2>6, <2>7 DEF TypeOK
  <2>9. state' \in [Books -> States]
    BY <1>4 DEF EditWrite, TypeOK, States, Queued, Outcome
  <2>10. raced' \in SUBSET Books
    <3>1. raced' \in {raced, raced \cup {e.book}}
      BY <1>4 DEF EditWrite
    <3> QED BY <1>1, <3>1 DEF TypeOK
  <2>11. TypeOK'
    BY <1>4, <2>2, <2>8, <2>9, <2>10 DEF EditWrite, TypeOK, memory
  <2> QED BY <2>2, <2>11
<1>5. CASE EditRelease(r)
  <2>1. edits' = [edits EXCEPT ![r] = NoEdit("done")] /\ worker' = worker
    BY <1>5 DEF EditRelease, memory
  <2>2. NoEdit("done") \in Edit /\ NoEdit("done").pc = "done"
    BY DEF Edit, EditPcs, NoEdit, NoBook
  <2>3. edits' \in [Requests -> Edit] /\ InHand'
    BY <2>1, <2>2, EditMoves
  <2>4. Unclaimed \in Lease
    BY DEF Unclaimed, Lease
  <2>5. claim' \in [Books -> Lease]
    BY <1>5, <2>4 DEF EditRelease, TypeOK
  <2>6. TypeOK'
    BY <1>5, <2>3, <2>5 DEF EditRelease, TypeOK, memory, history
  <2> QED BY <2>3, <2>6
<1> QED BY <1>2, <1>3, <1>4, <1>5 DEF EditStep

\* A step that touches nothing but the worker's own memory.
LEMMA WorkerMemoryTyped ==
  ASSUME Typed, worker' \in Worker, drainAgain' \in BOOLEAN, asks' \in Nat,
         worker'.pc \notin {"idle", "query", "nothing"} => worker'.id \in Books,
         UNCHANGED <<db, edits, history, spent>>
  PROVE  Typed'
BY DEF Typed, TypeOK, InHand, db, history

LEMMA PassTyped ==
  ASSUME Typed,
         \/ Drain \/ NextPending \/ NothingPending \/ LoadPhotographs
         \/ ReadOverlay \/ Recheck \/ RecheckPhotographs \/ Derive
  PROVE  Typed'
<1> USE DEF Typed
<1> DEFINE w == worker
<1>0. w \in Worker /\ asks \in Nat /\ drainAgain \in BOOLEAN
  BY DEF TypeOK
<1>1. CASE Drain
  <2>1. Looking("query") \in Worker /\ Looking("query").pc = "query"
    BY LookingTyped DEF Looking, WorkerPcs
  <2>2. asks' \in Nat
    BY <1>1 DEF Drain, TypeOK
  <2> QED BY <1>0, <1>1, <2>1, <2>2, WorkerMemoryTyped DEF Drain, InHand
<1>2. CASE NextPending
  <2>1. CASE worker' = Looking("nothing")
    <3>1. Looking("nothing") \in Worker /\ Looking("nothing").pc = "nothing"
      BY LookingTyped DEF Looking, WorkerPcs
    <3> QED BY <1>0, <1>2, <2>1, <3>1, WorkerMemoryTyped DEF NextPending
  <2>2. CASE worker' # Looking("nothing")
    <3>1. PICK b \in Books :
            worker' = [Looking("photos") EXCEPT
               !.id = b, !.analysed = row[b].analysed, !.isbn = row[b].isbn,
               !.draft = row[b].draft, !.stated = row[b].stated]
      BY <1>2, <2>2 DEF NextPending
    <3>2. row[b] \in Row
      BY DEF TypeOK
    <3>3. /\ row[b].analysed \in SUBSET Slots /\ row[b].isbn \in Isbns
          /\ row[b].draft \in BOOLEAN /\ row[b].stated \in SUBSET Fields
      BY <3>2 DEF Row
    <3>4. worker' \in Worker /\ worker'.id = b
      BY <3>1, <3>3 DEF Looking, Worker, WorkerPcs, NoShots, Notes
    <3> QED BY <1>0, <1>2, <3>4, WorkerMemoryTyped DEF NextPending
  <2> QED BY <2>1, <2>2
<1>3. CASE NothingPending
  <2>1. Looking("query") \in Worker /\ Looking("idle") \in Worker
    BY LookingTyped DEF WorkerPcs
  <2>2. Looking("query").pc = "query" /\ Looking("idle").pc = "idle"
    BY DEF Looking
  <2> QED BY <1>0, <1>3, <2>1, <2>2, WorkerMemoryTyped DEF NothingPending
<1>4. CASE LoadPhotographs
  <2>1. w.id \in Books
    BY <1>4 DEF LoadPhotographs, InHand
  <2>2. shot[w.id] \in [Slots -> Nat]
    BY <2>1 DEF TypeOK
  <2> DEFINE todo == Photographed(shot[w.id]) \ w.analysed
             pc == IF todo = {} THEN "settle" ELSE "count"
  <2>3. todo \in SUBSET Slots /\ pc \in WorkerPcs
    BY DEF Photographed, WorkerPcs
  <2>4. worker' = [w EXCEPT !.photos = shot[w.id], !.todo = todo, !.pc = pc]
    BY <1>4 DEF LoadPhotographs
  <2> HIDE DEF todo, pc
  <2>5. worker' \in Worker /\ worker'.id = w.id
    BY <1>0, <2>2, <2>3, <2>4 DEF Worker
  <2> QED BY <1>0, <1>4, <2>1, <2>5, WorkerMemoryTyped DEF LoadPhotographs
<1>5. CASE ReadOverlay
  <2>1. w.id \in Books
    BY <1>5 DEF ReadOverlay, InHand
  <2>2. row[w.id] \in Row
    BY <2>1 DEF TypeOK
  <2>3. row[w.id].stated \in SUBSET Fields
    BY <2>2 DEF Row
  <2>4. worker' = [w EXCEPT !.stated = row[w.id].stated, !.pc = "write"]
    BY <1>5 DEF ReadOverlay
  <2>5. worker' \in Worker /\ worker'.id = w.id
    BY <1>0, <2>3, <2>4 DEF Worker, WorkerPcs, ReadingPcs
  <2>6. raced' \in SUBSET Books
    BY <1>5 DEF ReadOverlay, TypeOK
  <2> QED BY <1>5, <2>1, <2>5, <2>6 DEF ReadOverlay, Elsewhere, TypeOK, InHand
<1>6. CASE Recheck
  <2>1. w.id \in Books
    BY <1>6 DEF Recheck, InHand
  <2>2. row[w.id] \in Row
    BY <2>1 DEF TypeOK
  <2>3. row[w.id].analysed \in SUBSET Slots
    BY <2>2 DEF Row
  <2> DEFINE again == [w EXCEPT !.read = row[w.id].analysed, !.pc = "recheckPhotos"]
  <2>4. again \in Worker /\ again.id = w.id
    BY <1>0, <2>3 DEF Worker, WorkerPcs
  <2>5. worker' = again \/ worker' = Processed
    BY <1>6 DEF Recheck
  <2> HIDE DEF again
  <2>6. worker' \in Worker /\ worker'.id \in Books
    BY <2>1, <2>4, <2>5, ProcessedTyped
  <2> QED BY <1>0, <1>6, <2>6, WorkerMemoryTyped DEF Recheck, Elsewhere, db, history
<1>7. CASE RecheckPhotographs
  <2>1. w.id \in Books
    BY <1>7 DEF RecheckPhotographs, InHand
  <2>2. [w EXCEPT !.pc = "repend"] \in Worker /\ [w EXCEPT !.pc = "repend"].id = w.id
    BY <1>0 DEF Worker, WorkerPcs
  <2>3. worker' = [w EXCEPT !.pc = "repend"] \/ worker' = Processed
    BY <1>7 DEF RecheckPhotographs
  <2>4. worker' \in Worker /\ worker'.id \in Books
    BY <2>1, <2>2, <2>3, ProcessedTyped
  <2> QED BY <1>0, <1>7, <2>4, WorkerMemoryTyped
          DEF RecheckPhotographs, Elsewhere, db, history
<1>8. CASE Derive
  <2>1. Looking("query") \in Worker /\ Looking("query").pc = "query"
    BY LookingTyped DEF Looking, WorkerPcs
  <2> QED BY <1>0, <1>8, <2>1, WorkerMemoryTyped DEF Derive, Elsewhere, db, history
<1> QED BY <1>1, <1>2, <1>3, <1>4, <1>5, <1>6, <1>7, <1>8

\* A step of the worker's that writes the row it is holding.
LEMMA WorkerWriteTyped ==
  ASSUME Typed, state' \in [Books -> States], row' \in [Books -> Row],
         worker' \in Worker, worker'.id \in Books,
         offered' \in [Books -> [Slots -> Nat]], lost' \in [Books -> Nat],
         raced' \in SUBSET Books, UNCHANGED <<shot, claim, drainAgain, asks, edits, spent>>
  PROVE  Typed'
BY DEF Typed, TypeOK, InHand

LEMMA ProcessTyped ==
  ASSUME Typed,
         \/ SettleNothingNew \/ CountReading \/ GiveUpOn \/ ReadPhotograph
         \/ WriteReading \/ Repend \/ FailReading
  PROVE  Typed'
<1> USE DEF Typed
<1> DEFINE w == worker
           b == worker.id
<1>0. /\ w \in Worker /\ b \in Books /\ row[b] \in Row
      /\ state \in [Books -> States] /\ row \in [Books -> Row]
      /\ offered \in [Books -> [Slots -> Nat]] /\ lost \in [Books -> Nat]
      /\ raced \in SUBSET Books
  <2>1. b \in Books
    BY DEF InHand, SettleNothingNew, CountReading, GiveUpOn, ReadPhotograph,
           ReadSlot, WriteReading, Repend, FailReading
  <2> QED BY <2>1 DEF TypeOK
<1>1. /\ w.analysed \in SUBSET Slots /\ w.todo \in SUBSET Slots
      /\ w.photos \in [Slots -> Nat] /\ w.stated \in SUBSET Fields
      /\ w.isbn \in Isbns /\ w.draft \in BOOLEAN /\ w.note \in Notes
  BY <1>0 DEF Worker
<1>2. Processed \in Worker /\ Processed.id \in Books
  BY <1>0, ProcessedTyped
<1>3. CASE SettleNothingNew
  <2>1. state' \in [Books -> States]
    BY <1>0, <1>3 DEF SettleNothingNew, States, Queued, Outcome
  <2> QED BY <1>0, <1>2, <1>3, <2>1, WorkerWriteTyped
          DEF SettleNothingNew, Elsewhere, history
<1>4. CASE CountReading
  <2>1. CASE state[b] \notin Queued
    BY <1>0, <1>2, <1>4, <2>1, WorkerWriteTyped
       DEF CountReading, Elsewhere, history
  <2>2. CASE state[b] \in Queued
    <3>1. row[b].attempts + 1 \in Nat
      <4>1. row[b].attempts \in Nat
        BY <1>0 DEF Row
      <4> QED BY <4>1
    <3>2. [row[b] EXCEPT !.attempts = row[b].attempts + 1] \in Row
      BY <1>0, <3>1, RowCounted
    <3>3. row' = [row EXCEPT ![b] = [row[b] EXCEPT !.attempts = row[b].attempts + 1]]
      BY <1>4, <2>2 DEF CountReading
    <3>4. row' \in [Books -> Row]
      BY <1>0, <3>2, <3>3
    <3>5. PICK pc \in {"giveup", "read"}, c \in BOOLEAN :
             worker' = [w EXCEPT !.pc = pc, !.counted = c]
      BY <1>4, <2>2 DEF CountReading
    <3>6. worker' \in Worker /\ worker'.id = b
      BY <1>0, <3>5 DEF Worker, WorkerPcs, ReadingPcs
    <3> QED BY <1>0, <1>4, <3>4, <3>6, WorkerWriteTyped
            DEF CountReading, Elsewhere, history
  <2> QED BY <2>1, <2>2
<1>5. CASE GiveUpOn
  <2>1. CASE state[b] \in Queued
    <3> DEFINE new == [row[b] EXCEPT !.analysed = w.analysed \cup w.todo,
                                     !.note = "error", !.attempts = 0]
               off == [s \in Slots |-> IF s \in w.todo THEN w.photos[s]
                                       ELSE offered[b][s]]
    <3>1. new \in Row
      BY <1>0, <1>1, RowSettled DEF Notes
    <3>2. off \in [Slots -> Nat]
      BY <1>0, <1>1
    <3>3. /\ row' = [row EXCEPT ![b] = new]
          /\ offered' = [offered EXCEPT ![b] = off]
      BY <1>5, <2>1 DEF GiveUpOn
    <3> HIDE DEF new, off
    <3>4. row' \in [Books -> Row] /\ offered' \in [Books -> [Slots -> Nat]]
      BY <1>0, <3>1, <3>2, <3>3
    <3>5. state' \in [Books -> States]
      BY <1>0, <1>5, <2>1 DEF GiveUpOn, States, Queued, Outcome
    <3>6. lost' \in [Books -> Nat]
      BY <1>0, <1>5, <2>1 DEF GiveUpOn
    <3> QED BY <1>0, <1>2, <1>5, <3>4, <3>5, <3>6, WorkerWriteTyped
            DEF GiveUpOn, Elsewhere
  <2>2. CASE state[b] \notin Queued
    BY <1>0, <1>2, <1>5, <2>2, WorkerWriteTyped DEF GiveUpOn, Elsewhere
  <2> QED BY <2>1, <2>2
<1>6. CASE ReadPhotograph
  <2>1. PICK s \in Slots, verdict \in Verdicts : ReadSlot(s, verdict)
    BY <1>6 DEF ReadPhotograph
  <2> DEFINE t == w.todo \ {s}
             a == w.analysed \cup MarkedRead(s, verdict)
             i == IF ~w.draft /\ verdict \in {"barcode", "found"} THEN "read" ELSE w.isbn
             d == w.draft \/ verdict = "found"
             n == IF verdict \in Failures THEN verdict ELSE w.note
             pc == IF verdict \in Failures THEN "fail"
                   ELSE IF t = {} THEN "stated" ELSE w.pc
  <2>2. worker' = [w EXCEPT !.todo = t, !.analysed = a, !.isbn = i, !.draft = d,
                            !.note = n, !.pc = pc]
    BY <2>1 DEF ReadSlot
  <2>3. /\ t \in SUBSET Slots /\ a \in SUBSET Slots /\ i \in Isbns
        /\ d \in BOOLEAN /\ n \in Notes
    BY <1>1 DEF Isbns, Notes, Failures, MarkedRead
  <2>4. pc \in WorkerPcs
    BY <1>0 DEF Worker, WorkerPcs, ReadingPcs
  <2> HIDE DEF t, a, i, d, n, pc
  <2>5. worker' \in Worker /\ worker'.id = b
    BY <1>0, <2>2, <2>3, <2>4 DEF Worker
  <2>6. offered' \in [Books -> [Slots -> Nat]]
    <3>1. [offered[b] EXCEPT ![s] = w.photos[s]] \in [Slots -> Nat]
      BY <1>0, <1>1
    <3>2. offered' = offered
          \/ offered' = [offered EXCEPT ![b] = [offered[b] EXCEPT ![s] = w.photos[s]]]
      BY <2>1 DEF ReadSlot
    <3> QED BY <1>0, <3>1, <3>2
  <2> QED BY <1>0, <2>1, <2>5, <2>6, WorkerWriteTyped DEF ReadSlot, Elsewhere
<1>7. CASE WriteReading
  <2> DEFINE next == [Looking("recheck") EXCEPT !.id = b, !.analysed = w.analysed]
  <2>1. next \in Worker /\ next.id = b
    BY <1>0, <1>1 DEF Looking, Worker, WorkerPcs, NoShots, Isbns, Notes
  <2>2. worker' = next
    BY <1>7 DEF WriteReading
  <2> HIDE DEF next
  <2>3. CASE state[b] \in Queued
    <3> DEFINE i == IF "isbn" \in w.stated THEN "stated" ELSE w.isbn
               new == [row[b] EXCEPT !.isbn = i, !.analysed = w.analysed,
                                     !.draft = w.draft, !.note = "", !.attempts = 0]
    <3>1. i \in Isbns
      BY <1>1 DEF Isbns
    <3>2. row' = [row EXCEPT ![b] = new]
      BY <1>7, <2>3 DEF WriteReading
    <3> HIDE DEF i
    <3>3. new \in Row
      BY <1>0, <1>1, <3>1, RowRead
    <3> HIDE DEF new
    <3>4. row' \in [Books -> Row]
      BY <1>0, <3>2, <3>3
    <3>5. state' \in [Books -> States]
      BY <1>0, <1>7, <2>3 DEF WriteReading, States, Queued, Outcome
    <3>6. lost' \in [Books -> Nat]
      BY <1>0, <1>7, <2>3 DEF WriteReading
    <3> QED BY <1>0, <1>7, <2>1, <2>2, <3>4, <3>5, <3>6, WorkerWriteTyped
            DEF WriteReading, Elsewhere
  <2>4. CASE state[b] \notin Queued
    BY <1>0, <1>7, <2>1, <2>2, <2>4, WorkerWriteTyped DEF WriteReading, Elsewhere
  <2> QED BY <2>3, <2>4
<1>8. CASE Repend
  <2>1. state' \in [Books -> States]
    BY <1>0, <1>8 DEF Repend, States, Queued
  <2> QED BY <1>0, <1>2, <1>8, <2>1, WorkerWriteTyped DEF Repend, Elsewhere, history
<1>9. CASE FailReading
  <2>1. CASE state[b] \in Queued
    <3>1. [row[b] EXCEPT !.analysed = w.analysed, !.note = w.note, !.attempts = 0]
            \in Row
      BY <1>0, <1>1, RowSettled
    <3>2. row' = [row EXCEPT ![b] = [row[b] EXCEPT !.analysed = w.analysed,
                                            !.note = w.note, !.attempts = 0]]
      BY <1>9, <2>1 DEF FailReading
    <3>3. row' \in [Books -> Row]
      BY <1>0, <3>1, <3>2
    <3>4. state' \in [Books -> States] /\ lost' \in [Books -> Nat]
      BY <1>0, <1>9, <2>1 DEF FailReading, States, Queued, Outcome
    <3> QED BY <1>0, <1>2, <1>9, <3>3, <3>4, WorkerWriteTyped
            DEF FailReading, Elsewhere
  <2>2. CASE state[b] \notin Queued
    BY <1>0, <1>2, <1>9, <2>2, WorkerWriteTyped DEF FailReading, Elsewhere
  <2> QED BY <2>1, <2>2
<1> QED BY <1>3, <1>4, <1>5, <1>6, <1>7, <1>8, <1>9

LEMMA FaultTyped ==
  ASSUME Typed, StatementFails \/ Restart PROVE Typed'
<1> USE DEF Typed
<1> DEFINE w == worker
<1>0. w \in Worker /\ spent \in Budget /\ lost \in [Books -> Nat]
  BY DEF TypeOK
<1>1. Looking("idle") \in Worker /\ Looking("idle").pc = "idle"
  BY LookingTyped DEF Looking, WorkerPcs
<1>2. ASSUME ReadingDied PROVE lost' \in [Books -> Nat]
  <2>1. CASE lost' = lost
    BY <1>0, <2>1
  <2>2. CASE lost' # lost
    <3>1. w.pc \in ReadingPcs /\ lost' = [lost EXCEPT ![w.id] = @ + 1]
      BY <1>2, <2>2 DEF ReadingDied
    <3>2. w.id \in Books
      BY <3>1 DEF InHand, ReadingPcs
    <3>3. lost[w.id] + 1 \in Nat
      BY <1>0, <3>2
    <3> QED BY <1>0, <3>1, <3>2, <3>3
  <2> QED BY <2>1, <2>2
<1>3. CASE StatementFails
  <2>1. spent' \in Budget
    <3>1. spent' = [spent EXCEPT !.faults = @ + 1]
      BY <1>3 DEF StatementFails
    <3> QED BY <1>0, <3>1 DEF Budget
  <2>2. CASE worker' = Looking("idle")
    <3>1. lost' \in [Books -> Nat] /\ drainAgain' \in BOOLEAN
      BY <1>0, <1>2, <1>3 DEF StatementFails, TypeOK
    <3> QED BY <1>1, <1>3, <2>1, <2>2, <3>1
            DEF StatementFails, TypeOK, InHand, db
  <2>3. CASE worker' # Looking("idle")
    <3>1. /\ w.pc \in {"settle", "count", "giveup", "stated", "write",
                       "recheck", "recheckPhotos", "repend"}
          /\ worker' = [w EXCEPT !.pc = "fail", !.note = "error"]
          /\ UNCHANGED <<drainAgain, lost>>
      BY <1>3, <2>3 DEF StatementFails
    <3>2. w.id \in Books
      BY <3>1 DEF InHand
    <3>3. worker' \in Worker /\ worker'.id = w.id
      BY <1>0, <3>1 DEF Worker, WorkerPcs, ReadingPcs, Notes
    <3> QED BY <1>3, <2>1, <3>1, <3>2, <3>3
            DEF StatementFails, TypeOK, InHand, db
  <2> QED BY <2>2, <2>3
<1>4. CASE Restart
  <2>1. spent' \in Budget
    <3>1. spent' = [spent EXCEPT !.crashes = @ + 1]
      BY <1>4 DEF Restart
    <3> QED BY <1>0, <3>1 DEF Budget
  <2>2. lost' \in [Books -> Nat]
    BY <1>2, <1>4 DEF Restart
  <2>3. NoEdit("done") \in Edit /\ NoEdit("done").pc = "done"
    BY DEF Edit, EditPcs, NoEdit, NoBook
  <2>4. edits' = [r \in Requests |-> IF edits[r].pc = "unsent" THEN edits[r]
                                     ELSE NoEdit("done")]
    BY <1>4 DEF Restart
  <2>5. edits' \in [Requests -> Edit]
    BY <2>3, <2>4 DEF TypeOK
  <2>6. \A r \in Requests : edits'[r].pc \in {"unsent", "done"}
    BY <2>3, <2>4
  <2>7. worker' = Looking("idle") /\ drainAgain' \in BOOLEAN /\ asks' \in Nat
    BY <1>4 DEF Restart
  <2>8. InHand'
    BY <1>1, <2>6, <2>7 DEF InHand
  <2>9. TypeOK'
    BY <1>1, <1>4, <2>1, <2>2, <2>5, <2>7 DEF Restart, TypeOK, db
  <2> QED BY <2>8, <2>9
<1> QED BY <1>3, <1>4

LEMMA StepTyped == Typed /\ [Next]_vars => Typed'
<1> SUFFICES ASSUME Typed, [Next]_vars PROVE Typed'
    OBVIOUS
<1>1. ASSUME NEW b \in Books, NEW s \in Slots, NewCapture(b, s) \/ Attach(b, s)
      PROVE  Typed'
  BY <1>1, ShutterTyped
<1>2. ASSUME NEW b \in Books, ReadAgain(b) PROVE Typed'
  BY <1>2, ReadAgainTyped
<1>3. ASSUME NEW b \in Books, Save(b) \/ Discard(b) PROVE Typed'
  BY <1>3, LeavingTyped
<1>4. ASSUME NEW b \in Books, LeaseExpires(b) \/ \E who \in People : Claim(b, who)
      PROVE  Typed'
  BY <1>4, ClaimTyped
<1>5. ASSUME NEW r \in Requests, NEW b \in Books, NEW who \in People,
             NEW patch \in Patches, NEW letGo \in LettingGo,
             EditRead(r, b, who, patch, letGo)
      PROVE  Typed'
  BY <1>5, EditReadTyped
<1>6. ASSUME NEW r \in Requests, EditStep(r) PROVE Typed'
  BY <1>6, EditStepTyped
<1>7. CASE Drain \/ WorkerStep
  BY <1>7, PassTyped, ProcessTyped DEF WorkerStep
<1>8. CASE StatementFails \/ Restart
  BY <1>8, FaultTyped
<1>9. CASE UNCHANGED vars
  BY <1>9 DEF vars, Typed, TypeOK, InHand
<1> QED BY <1>1, <1>2, <1>3, <1>4, <1>5, <1>6, <1>7, <1>8, <1>9 DEF Next

\* Every column, every local variable of the worker and of an edit keeps to the
\* values the code gives it.
THEOREM TypeCorrect == Spec => []TypeOK
<1>1. Typed /\ [Next]_vars => Typed'
  BY StepTyped
<1>2. Typed => TypeOK
  BY DEF Typed
<1> QED BY InitTyped, <1>1, <1>2, PTL DEF Spec

-----------------------------------------------------------------------------
(* The crash loop is bounded.  Every reading that dies was counted on the  *)
(* row before it began, so the deaths never outrun the count, and a        *)
(* reading that is under way has not been added to the deaths yet.         *)

CrashInv ==
  \A b \in Books :
    /\ lost[b] <= ReadingsThatMayDie
    /\ lost[b] <= row[b].attempts
    /\ worker.counted /\ worker.id = b => /\ lost[b] + 1 <= row[b].attempts
                                         /\ row[b].attempts <= ReadingsThatMayDie

CountsKept == \A b \in Books : row'[b].attempts = row[b].attempts
NotCountedAnew == worker'.counted => worker.counted /\ worker'.id = worker.id

LEMMA DeathsStay ==
  ASSUME CrashInv, lost' = lost, CountsKept, NotCountedAnew
  PROVE  CrashInv'
BY DEF CrashInv, CountsKept, NotCountedAnew

\* A reading that ends, and a capture sent back to be read, start from nothing.
LEMMA DeathsForgotten ==
  ASSUME Typed, CrashInv, NEW b \in Books, lost' = [lost EXCEPT ![b] = 0],
         row' \in [Books -> Row], row'[b].attempts = 0,
         \A c \in Books \ {b} : row'[c] = row[c],
         NotCountedAnew, worker'.counted => worker.id # b
  PROVE  CrashInv'
<1>1. ReadingsThatMayDie \in Nat /\ lost \in [Books -> Nat]
  BY LimitAssumption DEF Typed, TypeOK
<1> QED BY <1>1 DEF CrashInv, NotCountedAnew

LEMMA OneRowKeepsCount ==
  ASSUME Typed, NEW b \in Books, NEW r, r.attempts = row[b].attempts,
         row' = [row EXCEPT ![b] = r]
  PROVE  CountsKept
BY DEF Typed, TypeOK, CountsKept

LEMMA DeathsBesidePass ==
  ASSUME Typed, CrashInv, worker' = worker, lost' = lost,
         \/ row' = row
         \/ \E b \in Books : \/ \E s \in Slots : Attach(b, s)
                            \/ Save(b)
         \/ \E r \in Requests : EditWrite(r)
  PROVE  CrashInv'
<1>1. NotCountedAnew
  BY DEF NotCountedAnew
<1>2. ASSUME NEW b \in Books, NEW s \in Slots, Attach(b, s) PROVE CountsKept
  <2> DEFINE new == [row[b] EXCEPT !.analysed = row[b].analysed \ {s}]
  <2>1. row' = [row EXCEPT ![b] = new]
    BY <1>2 DEF Attach
  <2>2. row[b] \in Row
    BY DEF Typed, TypeOK
  <2>3. new.attempts = row[b].attempts
    BY <2>2 DEF Row
  <2> HIDE DEF new
  <2> QED BY <2>1, <2>3, OneRowKeepsCount
<1>3. ASSUME NEW b \in Books, Save(b) PROVE CountsKept
  <2>1. PICK isbn \in {"", "saved"} :
           row' = [row EXCEPT ![b] = [row[b] EXCEPT !.isbn = isbn]]
    BY <1>3 DEF Save
  <2> DEFINE new == [row[b] EXCEPT !.isbn = isbn]
  <2>2. row[b] \in Row
    BY DEF Typed, TypeOK
  <2>3. new.attempts = row[b].attempts
    BY <2>2 DEF Row
  <2>4. row' = [row EXCEPT ![b] = new]
    BY <2>1
  <2> HIDE DEF new
  <2> QED BY <2>3, <2>4, OneRowKeepsCount
<1>4. ASSUME NEW r \in Requests, EditWrite(r) PROVE CountsKept
  <2> DEFINE b == edits[r].book
             i == IF "isbn" \in edits[r].merged THEN "stated" ELSE row[b].isbn
             new == [row[b] EXCEPT !.stated = edits[r].merged,
                                   !.editor = edits[r].who, !.isbn = i]
  <2>1. b \in Books
    BY <1>4 DEF EditWrite, Typed, InHand
  <2>2. row[b] \in Row
    BY <2>1 DEF Typed, TypeOK
  <2>3. new.attempts = row[b].attempts
    BY <2>2 DEF Row
  <2>4. row' = [row EXCEPT ![b] = new]
    BY <1>4 DEF EditWrite
  <2> HIDE DEF b, i, new
  <2> QED BY <2>1, <2>3, <2>4, OneRowKeepsCount
<1>5. CountsKept
  BY <1>2, <1>3, <1>4 DEF CountsKept
<1> QED BY <1>1, <1>5, DeathsStay

LEMMA DeathsReadAgain ==
  ASSUME Typed, Typed', CrashInv, NEW b \in Books, ReadAgain(b)
  PROVE  CrashInv'
<1> DEFINE new == [row[b] EXCEPT !.analysed = {}, !.note = "", !.attempts = 0]
<1>1. row' = [row EXCEPT ![b] = new] /\ lost' = [lost EXCEPT ![b] = 0]
  BY DEF ReadAgain
<1>2. row \in [Books -> Row] /\ row[b] \in Row /\ row' \in [Books -> Row]
      /\ worker \in Worker
  BY DEF Typed, TypeOK
<1>3. new.attempts = 0
  BY <1>2 DEF Row
<1>4. worker' = IF worker.id = b THEN [worker EXCEPT !.counted = FALSE] ELSE worker
  BY DEF ReadAgain
<1>5. NotCountedAnew /\ (worker'.counted => worker.id # b)
  BY <1>2, <1>4 DEF NotCountedAnew, Worker
<1> HIDE DEF new
<1>6. row'[b].attempts = 0 /\ \A c \in Books \ {b} : row'[c] = row[c]
  BY <1>1, <1>2, <1>3
<1> QED BY <1>1, <1>2, <1>5, <1>6, DeathsForgotten

\* `process` has returned, or has not been called: nothing is being counted.
LEMMA NothingCounted ==
  ASSUME NEW pc
  PROVE  Looking(pc).counted = FALSE /\ Processed.counted = FALSE
BY DEF Looking, Processed

LEMMA DeathsInPass ==
  ASSUME Typed, CrashInv,
         \/ Drain \/ NextPending \/ NothingPending \/ LoadPhotographs
         \/ SettleNothingNew \/ ReadPhotograph \/ ReadOverlay \/ Recheck
         \/ RecheckPhotographs \/ Repend \/ Derive
  PROVE  CrashInv'
<1> DEFINE w == worker
<1>1. w \in Worker
  BY DEF Typed, TypeOK
<1>2. row' = row /\ lost' = lost
  BY DEF Drain, NextPending, NothingPending, LoadPhotographs, SettleNothingNew,
         ReadPhotograph, ReadSlot, ReadOverlay, Recheck, RecheckPhotographs,
         Repend, Derive, db, history
<1>3. CASE \/ Drain \/ NothingPending \/ SettleNothingNew \/ Repend \/ Derive
  <2>1. worker' \in {w, Looking("query"), Looking("idle"), Processed}
    BY <1>3 DEF Drain, NothingPending, SettleNothingNew, Repend, Derive
  <2>2. NotCountedAnew
    BY <2>1, NothingCounted DEF NotCountedAnew
  <2> QED BY <1>2, <2>2, DeathsStay DEF CountsKept
<1>4. CASE NextPending
  <2>1. CASE worker' = Looking("nothing")
    BY <1>2, <2>1, NothingCounted, DeathsStay DEF NotCountedAnew, CountsKept
  <2>2. CASE worker' # Looking("nothing")
    <3>1. PICK b \in Books :
            worker' = [Looking("photos") EXCEPT
               !.id = b, !.analysed = row[b].analysed, !.isbn = row[b].isbn,
               !.draft = row[b].draft, !.stated = row[b].stated]
      BY <1>4, <2>2 DEF NextPending
    <3>2. worker'.counted = FALSE
      BY <3>1 DEF Looking
    <3> QED BY <1>2, <3>2, DeathsStay DEF NotCountedAnew, CountsKept
  <2> QED BY <2>1, <2>2
<1>5. CASE LoadPhotographs
  <2>1. worker'.counted = w.counted /\ worker'.id = w.id
    BY <1>1, <1>5 DEF LoadPhotographs, Worker
  <2> QED BY <1>2, <2>1, DeathsStay DEF NotCountedAnew, CountsKept
<1>6. CASE ReadPhotograph
  <2>1. PICK s \in Slots, verdict \in Verdicts : ReadSlot(s, verdict)
    BY <1>6 DEF ReadPhotograph
  <2>2. worker'.counted = w.counted /\ worker'.id = w.id
    BY <1>1, <2>1 DEF ReadSlot, Worker
  <2> QED BY <1>2, <2>2, DeathsStay DEF NotCountedAnew, CountsKept
<1>7. CASE ReadOverlay
  <2>1. worker'.counted = w.counted /\ worker'.id = w.id
    BY <1>1, <1>7 DEF ReadOverlay, Worker
  <2> QED BY <1>2, <2>1, DeathsStay DEF NotCountedAnew, CountsKept
<1>8. CASE Recheck \/ RecheckPhotographs
  <2>1. worker' = Processed \/ (worker'.counted = w.counted /\ worker'.id = w.id)
    BY <1>1, <1>8 DEF Recheck, RecheckPhotographs, Worker
  <2>2. NotCountedAnew
    BY <2>1, NothingCounted DEF NotCountedAnew
  <2> QED BY <1>2, <2>2, DeathsStay DEF CountsKept
<1> QED BY <1>3, <1>4, <1>5, <1>6, <1>7, <1>8

LEMMA DeathsCounted ==
  ASSUME Typed, Typed', CrashInv, CountReading
  PROVE  CrashInv'
<1> DEFINE w == worker
           b == worker.id
           n == row[b].attempts + 1
<1>1. /\ w \in Worker /\ b \in Books /\ row \in [Books -> Row] /\ row[b] \in Row
      /\ lost \in [Books -> Nat] /\ lost' = lost
  BY DEF Typed, TypeOK, InHand, CountReading, history
<1>2. CASE state[b] \notin Queued
  <2>1. row' = row /\ worker' = Processed
    BY <1>2 DEF CountReading
  <2> QED BY <1>1, <2>1, NothingCounted, DeathsStay DEF NotCountedAnew, CountsKept
<1>3. CASE state[b] \in Queued
  <2> DEFINE new == [row[b] EXCEPT !.attempts = n]
  <2>1. row[b].attempts \in Nat /\ new.attempts = n
    BY <1>1 DEF Row
  <2>2. row' = [row EXCEPT ![b] = new]
    BY <1>3 DEF CountReading
  <2>3. worker' = [w EXCEPT !.pc = IF TooMany(n) THEN "giveup" ELSE "read",
                            !.counted = ~TooMany(n)]
    BY <1>3 DEF CountReading
  <2>4. worker'.id = b /\ worker'.counted = ~TooMany(n)
    BY <1>1, <2>3 DEF Worker
  <2> HIDE DEF new
  <2>5. row'[b].attempts = n /\ \A c \in Books \ {b} : row'[c] = row[c]
    BY <1>1, <2>1, <2>2
  <2>6. ~TooMany(n) => n <= ReadingsThatMayDie
    BY <2>1, LimitAssumption DEF TooMany
  <2>7. worker'.counted => n <= ReadingsThatMayDie
    BY <2>4, <2>6
  <2> QED BY <1>1, <2>1, <2>4, <2>5, <2>7 DEF CrashInv
<1> QED BY <1>2, <1>3

LEMMA DeathsSettled ==
  ASSUME Typed, Typed', CrashInv, GiveUpOn \/ WriteReading \/ FailReading
  PROVE  CrashInv'
<1> DEFINE w == worker
           b == worker.id
<1>1. /\ w \in Worker /\ b \in Books /\ row \in [Books -> Row] /\ row[b] \in Row
      /\ row' \in [Books -> Row]
  BY DEF Typed, TypeOK, InHand, GiveUpOn, WriteReading, FailReading, ReadingPcs
<1>2. worker'.counted = FALSE
  <2>1. CASE WriteReading
    BY <2>1 DEF WriteReading, Looking
  <2>2. CASE GiveUpOn \/ FailReading
    BY <2>2, NothingCounted DEF GiveUpOn, FailReading
  <2> QED BY <2>1, <2>2
<1>3. CASE state[b] \notin Queued
  <2>1. row' = row /\ lost' = lost
    BY <1>3 DEF GiveUpOn, WriteReading, FailReading
  <2> QED BY <1>2, <2>1, DeathsStay DEF NotCountedAnew, CountsKept
<1>4. CASE state[b] \in Queued
  <2>1. PICK new : new.attempts = 0 /\ row' = [row EXCEPT ![b] = new]
    <3>1. CASE GiveUpOn
      <4> DEFINE new == [row[b] EXCEPT !.analysed = w.analysed \cup w.todo,
                                       !.note = "error", !.attempts = 0]
      <4>1. new.attempts = 0
        BY <1>1 DEF Row
      <4>2. row' = [row EXCEPT ![b] = new]
        BY <1>4, <3>1 DEF GiveUpOn
      <4> QED BY <4>1, <4>2
    <3>2. CASE WriteReading
      <4> DEFINE new == [row[b] EXCEPT
                   !.isbn = IF "isbn" \in w.stated THEN "stated" ELSE w.isbn,
                   !.analysed = w.analysed, !.draft = w.draft,
                   !.note = "", !.attempts = 0]
      <4>1. new.attempts = 0
        BY <1>1 DEF Row
      <4>2. row' = [row EXCEPT ![b] = new]
        BY <1>4, <3>2 DEF WriteReading
      <4> QED BY <4>1, <4>2
    <3>3. CASE FailReading
      <4> DEFINE new == [row[b] EXCEPT !.analysed = w.analysed, !.note = w.note,
                                       !.attempts = 0]
      <4>1. new.attempts = 0
        BY <1>1 DEF Row
      <4>2. row' = [row EXCEPT ![b] = new]
        BY <1>4, <3>3 DEF FailReading
      <4> QED BY <4>1, <4>2
    <3> QED BY <3>1, <3>2, <3>3
  <2>2. row'[b].attempts = 0 /\ \A c \in Books \ {b} : row'[c] = row[c]
    BY <1>1, <2>1
  <2>3. lost' = [lost EXCEPT ![b] = 0]
    BY <1>4 DEF GiveUpOn, WriteReading, FailReading
  <2> QED BY <1>1, <1>2, <2>2, <2>3, DeathsForgotten DEF NotCountedAnew
<1> QED BY <1>3, <1>4

LEMMA DeathsAtFaults ==
  ASSUME Typed, CrashInv, StatementFails \/ Restart
  PROVE  CrashInv'
<1> DEFINE w == worker
<1>1. /\ w \in Worker /\ lost \in [Books -> Nat] /\ row' = row
      /\ \A b \in Books : row[b].attempts \in Nat
  BY DEF Typed, TypeOK, StatementFails, Restart, db, Row
<1>2. CASE worker' = Looking("idle") /\ ReadingDied
  <2>1. worker'.counted = FALSE
    BY <1>2, NothingCounted
  <2>2. CASE w.counted /\ w.pc \in ReadingPcs
    <3>1. lost' = [lost EXCEPT ![w.id] = lost[w.id] + 1]
      BY <1>2, <2>2 DEF ReadingDied
    <3> QED BY <1>1, <2>1, <2>2, <3>1, LimitAssumption DEF CrashInv
  <2>3. CASE ~(w.counted /\ w.pc \in ReadingPcs)
    <3>1. lost' = lost
      BY <1>2, <2>3 DEF ReadingDied
    <3> QED BY <1>1, <2>1, <3>1, DeathsStay DEF NotCountedAnew, CountsKept
  <2> QED BY <2>2, <2>3
<1>3. CASE worker' = [w EXCEPT !.pc = "fail", !.note = "error"] /\ lost' = lost
  <2>1. worker'.counted = w.counted /\ worker'.id = w.id
    BY <1>1, <1>3 DEF Worker
  <2> QED BY <1>1, <1>3, <2>1, DeathsStay DEF NotCountedAnew, CountsKept
<1> QED BY <1>2, <1>3 DEF StatementFails, Restart

LEMMA CrashStep == Typed /\ CrashInv /\ [Next]_vars => CrashInv'
<1> SUFFICES ASSUME Typed, CrashInv, [Next]_vars PROVE CrashInv'
    OBVIOUS
<1>1. Typed'
  BY StepTyped
<1>2. ASSUME NEW b \in Books, NEW s \in Slots, NewCapture(b, s) \/ Attach(b, s)
      PROVE  CrashInv'
  BY <1>2, DeathsBesidePass DEF NewCapture, Attach, history
<1>3. ASSUME NEW b \in Books, ReadAgain(b) PROVE CrashInv'
  BY <1>1, <1>3, DeathsReadAgain
<1>4. ASSUME NEW b \in Books, Save(b) \/ Discard(b) \/ LeaseExpires(b)
      PROVE  CrashInv'
  BY <1>4, DeathsBesidePass DEF Save, Discard, LeaseExpires, memory, history
<1>5. ASSUME NEW b \in Books, NEW who \in People, Claim(b, who) PROVE CrashInv'
  BY <1>5, DeathsBesidePass DEF Claim, memory, history
<1>6. ASSUME NEW r \in Requests, NEW b \in Books, NEW who \in People,
             NEW patch \in Patches, NEW letGo \in LettingGo,
             EditRead(r, b, who, patch, letGo)
      PROVE  CrashInv'
  BY <1>6, DeathsBesidePass DEF EditRead, db, memory, history
<1>7. ASSUME NEW r \in Requests, EditStep(r) PROVE CrashInv'
  BY <1>7, DeathsBesidePass
     DEF EditStep, EditClaim, EditLookup, EditWrite, EditRelease, db, memory, history
<1>8. CASE Drain \/ WorkerStep
  BY <1>1, <1>8, DeathsInPass, DeathsCounted, DeathsSettled DEF WorkerStep
<1>9. CASE StatementFails \/ Restart
  BY <1>9, DeathsAtFaults
<1>10. CASE UNCHANGED vars
  BY <1>10, DeathsBesidePass DEF vars
<1> QED BY <1>2, <1>3, <1>4, <1>5, <1>6, <1>7, <1>8, <1>9, <1>10 DEF Next

LEMMA CrashInit == Init => CrashInv
<1> SUFFICES ASSUME Init PROVE CrashInv
    OBVIOUS
<1>1. \A b \in Books : row[b].attempts = 0
  <2>1. PICK old \in [Books -> SUBSET Slots], isbn \in [Books -> {"", "read"}] :
           row = [b \in Books |-> [NewRow EXCEPT !.analysed = old[b],
                                                 !.isbn = isbn[b]]]
    BY DEF Init
  <2> QED BY <2>1 DEF NewRow
<1>2. (\A b \in Books : lost[b] = 0) /\ worker.counted = FALSE
  BY DEF Init, Looking
<1> QED BY <1>1, <1>2, LimitAssumption DEF CrashInv

\* However often the process dies, a capture is read at most READINGS_THAT_MAY_DIE
\* times on the way down before the worker fails it instead of reading it again.
THEOREM CrashLoopIsBounded == Spec => []CrashLoopBounded
<1>1. Typed /\ [Next]_vars => Typed'
  BY StepTyped
<1>2. Typed /\ CrashInv /\ [Next]_vars => CrashInv'
  BY CrashStep
<1>3. CrashInv => CrashLoopBounded
  BY DEF CrashInv, CrashLoopBounded
<1> QED BY InitTyped, CrashInit, <1>1, <1>2, <1>3, PTL DEF Spec

-----------------------------------------------------------------------------
(* No wake-up is lost.  A pass that has just found nothing is as good as   *)
(* gone: whoever queued a capture since has been refused and recorded in   *)
(* `drainAgain`, or is still on the way.                                   *)

Waiting == \E b \in Books : state[b] = "scanned"

AwakeInv ==
  spent.faults = 0 /\ Waiting =>
    /\ worker.pc # "idle" \/ asks > 0
    /\ worker.pc = "nothing" /\ ~drainAgain => asks > 0

LEMMA AwakeWhenAsked ==
  ASSUME asks \in Nat, asks' = asks + 1
  PROVE  AwakeInv'
BY DEF AwakeInv

LEMMA AwakeInPass ==
  ASSUME worker'.pc \notin {"idle", "nothing"}
  PROVE  AwakeInv'
BY DEF AwakeInv

\* Nothing becomes pending, and neither the pass nor the calls change.
LEMMA AwakeBesides ==
  ASSUME AwakeInv, UNCHANGED <<worker, drainAgain, asks, spent>>, Waiting' => Waiting
  PROVE  AwakeInv'
BY DEF AwakeInv

LEMMA NothingLeftOut ==
  ASSUME Typed, NEW b \in Books,
         state' = [state EXCEPT ![b] = "shelved"]
         \/ state' = [state EXCEPT ![b] = "discarded"]
  PROVE  Waiting' => Waiting
BY DEF Typed, TypeOK, Waiting

LEMMA EditWakesNobody ==
  ASSUME Typed, NEW r \in Requests, EditStep(r)
  PROVE  (Waiting' => Waiting) /\ UNCHANGED <<worker, drainAgain, asks, spent>>
<1>1. UNCHANGED <<worker, drainAgain, asks, spent>>
  BY DEF EditStep, EditClaim, EditLookup, EditWrite, EditRelease, memory
<1>2. state' = state \/ EditWrite(r)
  BY DEF EditStep, EditClaim, EditLookup, EditRelease, db
<1>3. ASSUME EditWrite(r), NEW b \in Books, state'[b] = "scanned"
      PROVE  state[b] = "scanned"
  <2>1. /\ state \in [Books -> States]
        /\ state' = [state EXCEPT ![edits[r].book] =
             IF @ \in {"identified", "unidentified"}
                /\ Resolved(FALSE, edits[r].merged)
             THEN Outcome(TRUE) ELSE @]
    BY <1>3 DEF EditWrite, Typed, TypeOK
  <2> QED BY <1>3, <2>1 DEF Outcome
<1> QED BY <1>1, <1>2, <1>3 DEF Waiting

LEMMA AwakePass ==
  ASSUME Typed, AwakeInv, Drain \/ WorkerStep
  PROVE  AwakeInv'
<1> DEFINE w == worker
<1>0. w \in Worker /\ asks \in Nat
  BY DEF Typed, TypeOK
<1>1. CASE Drain
  <2>1. CASE w.pc = "idle"
    <3>1. worker' = Looking("query")
      BY <1>1, <2>1 DEF Drain
    <3>2. worker'.pc = "query"
      BY <3>1 DEF Looking
    <3> QED BY <3>2, AwakeInPass
  <2>2. CASE w.pc # "idle"
    BY <1>1, <2>2 DEF Drain, AwakeInv
  <2> QED BY <2>1, <2>2
<1>2. CASE NextPending
  <2>1. CASE {b \in Books : state[b] = "scanned"} = {}
    BY <1>2, <2>1 DEF NextPending, AwakeInv, Waiting, db
  <2>2. CASE {b \in Books : state[b] = "scanned"} # {}
    <3>1. PICK b \in Books :
            worker' = [Looking("photos") EXCEPT
               !.id = b, !.analysed = row[b].analysed, !.isbn = row[b].isbn,
               !.draft = row[b].draft, !.stated = row[b].stated]
      BY <1>2, <2>2 DEF NextPending
    <3>2. worker'.pc = "photos"
      BY <3>1 DEF Looking
    <3> QED BY <3>2, AwakeInPass
  <2> QED BY <2>1, <2>2
<1>3. CASE NothingPending
  <2>1. CASE drainAgain
    BY <1>3, <2>1, AwakeInPass DEF NothingPending, Looking
  <2>2. CASE ~drainAgain
    <3>1. w.pc = "nothing" /\ UNCHANGED <<state, asks, spent>>
      BY <1>3 DEF NothingPending, db
    <3>2. worker'.pc = "idle"
      BY <1>3, <2>2 DEF NothingPending, Looking
    <3> QED BY <2>2, <3>1, <3>2 DEF AwakeInv, Waiting
  <2> QED BY <2>1, <2>2
<1>4. CASE LoadPhotographs \/ ReadOverlay \/ CountReading \/ ReadPhotograph
  <2>1. worker'.pc \notin {"idle", "nothing"}
    BY <1>0, <1>4 DEF LoadPhotographs, ReadOverlay, CountReading, ReadPhotograph,
                      ReadSlot, Processed, Looking, Worker
  <2> QED BY <2>1, AwakeInPass
<1>5. CASE Recheck \/ RecheckPhotographs
  <2>1. worker'.pc \notin {"idle", "nothing"}
    BY <1>0, <1>5 DEF Recheck, RecheckPhotographs, Processed, Looking, Worker
  <2> QED BY <2>1, AwakeInPass
<1>7. CASE Derive \/ WriteReading
  <2>1. CASE Derive
    BY <2>1, AwakeInPass DEF Derive, Looking
  <2>2. CASE WriteReading
    <3>1. worker' = [Looking("recheck") EXCEPT !.id = w.id, !.analysed = w.analysed]
      BY <2>2 DEF WriteReading
    <3>2. worker'.pc = "recheck"
      BY <3>1 DEF Looking
    <3> QED BY <3>2, AwakeInPass
  <2> QED BY <1>7, <2>1, <2>2
<1>6. CASE SettleNothingNew \/ GiveUpOn \/ Repend \/ FailReading
  <2>1. worker'.pc = "derive"
    BY <1>6 DEF SettleNothingNew, GiveUpOn, Repend, FailReading, Processed, Looking
  <2> QED BY <2>1, AwakeInPass
<1> QED BY <1>1, <1>2, <1>3, <1>4, <1>5, <1>6, <1>7 DEF WorkerStep

\* The one call of resumeOnStartup is enough.
LEMMA AwakeAtBoot ==
  /\ worker = Looking("idle") /\ asks = 1 => AwakeInv
  /\ worker' = Looking("idle") /\ asks' = 1 => AwakeInv'
<1>1. Looking("idle").pc = "idle" /\ 1 > 0
  BY DEF Looking
<1> QED BY <1>1 DEF AwakeInv

LEMMA AwakeStep == Typed /\ AwakeInv /\ [Next]_vars => AwakeInv'
<1> SUFFICES ASSUME Typed, AwakeInv, [Next]_vars PROVE AwakeInv'
    OBVIOUS
<1>0. asks \in Nat /\ spent \in Budget
  BY DEF Typed, TypeOK
<1>1. ASSUME NEW b \in Books, NEW s \in Slots, NewCapture(b, s) \/ Attach(b, s)
      PROVE  AwakeInv'
  BY <1>0, <1>1, AwakeWhenAsked DEF NewCapture, Attach
<1>2. ASSUME NEW b \in Books, ReadAgain(b) PROVE AwakeInv'
  BY <1>0, <1>2, AwakeWhenAsked DEF ReadAgain
<1>3. ASSUME NEW b \in Books, Save(b) \/ Discard(b) PROVE AwakeInv'
  BY <1>3, NothingLeftOut, AwakeBesides DEF Save, Discard, memory
<1>4. ASSUME NEW b \in Books, LeaseExpires(b) PROVE AwakeInv'
  BY <1>4, AwakeBesides DEF LeaseExpires, memory, Waiting
<1>5. ASSUME NEW b \in Books, NEW who \in People, Claim(b, who) PROVE AwakeInv'
  BY <1>5, AwakeBesides DEF Claim, memory, Waiting
<1>6. ASSUME NEW r \in Requests, NEW b \in Books, NEW who \in People,
             NEW patch \in Patches, NEW letGo \in LettingGo,
             EditRead(r, b, who, patch, letGo)
      PROVE  AwakeInv'
  BY <1>6, AwakeBesides DEF EditRead, db, memory, Waiting
<1>7. ASSUME NEW r \in Requests, EditStep(r) PROVE AwakeInv'
  BY <1>7, EditWakesNobody, AwakeBesides
<1>8. CASE Drain \/ WorkerStep
  BY <1>8, AwakePass
<1>9. CASE StatementFails
  <2>1. spent.faults \in Nat /\ spent' = [spent EXCEPT !.faults = spent.faults + 1]
    BY <1>0, <1>9 DEF StatementFails, Budget
  <2>2. spent'.faults = spent.faults + 1
    BY <1>0, <2>1 DEF Budget
  <2> QED BY <2>1, <2>2 DEF AwakeInv
<1>10. CASE Restart
  BY <1>10, AwakeAtBoot DEF Restart
<1>11. CASE UNCHANGED vars
  BY <1>11, AwakeBesides DEF vars, Waiting
<1> QED BY <1>1, <1>2, <1>3, <1>4, <1>5, <1>6, <1>7, <1>8, <1>9, <1>10, <1>11
        DEF Next

\* As long as no statement of the worker's fails, a pending capture never waits
\* on a queue that nobody is looking at or about to look at: the guard that
\* refuses a second drain loses none of the calls it refuses.
THEOREM NoWakeUpIsLost == Spec => []WorkerWillLook
<1>1. Init => AwakeInv
  BY AwakeAtBoot DEF Init
<1>2. Typed /\ [Next]_vars => Typed'
  BY StepTyped
<1>3. Typed /\ AwakeInv /\ [Next]_vars => AwakeInv'
  BY AwakeStep
<1>4. AwakeInv => WorkerWillLook
  BY DEF AwakeInv, WorkerWillLook, Waiting
<1> QED BY InitTyped, <1>1, <1>2, <1>3, <1>4, PTL DEF Spec

-----------------------------------------------------------------------------
(* The queue implements BookLife: each step maps to a step or a stutter.   *)

StageNow == [b \in Books |-> Stage(b)]

LEMMA StageStays ==
  ASSUME state' \in [Books -> States],
         \A b \in Books : state'[b] = state[b]
                          \/ (state[b] \in Queued /\ state'[b] \in Queued)
  PROVE  StageNow' = StageNow
BY DEF StageNow, Stage, Queued

LEMMA StageUntouched == ASSUME state' = state PROVE StageNow' = StageNow
BY DEF StageNow, Stage

\* The three steps that move a book from one stage to the next.
LEMMA StageMoves ==
  ASSUME Typed, NEW b \in Books,
         \/ \E s \in Slots : NewCapture(b, s)
         \/ Save(b) \/ Discard(b)
  PROVE  Life!Next
<1>1. state \in [Books -> States]
  BY DEF Typed, TypeOK
<1>2. CASE \E s \in Slots : NewCapture(b, s)
  <2>1. state[b] = "absent" /\ state' = [state EXCEPT ![b] = "scanned"]
    BY <1>2 DEF NewCapture
  <2>2. Life!Scan(b)
    BY <1>1, <2>1 DEF Life!Scan, Stage, Queued
  <2> QED BY <2>2 DEF Life!Next
<1>3. CASE Save(b)
  <2>1. state[b] \in Queued /\ state' = [state EXCEPT ![b] = "shelved"]
    BY <1>3 DEF Save
  <2>2. Life!Catalogue(b)
    BY <1>1, <2>1 DEF Life!Catalogue, Stage, Queued
  <2> QED BY <2>2 DEF Life!Next
<1>4. CASE Discard(b)
  <2>1. state[b] \in Queued /\ state' = [state EXCEPT ![b] = "discarded"]
    BY <1>4 DEF Discard
  <2>2. Life!Discard(b)
    BY <1>1, <2>1 DEF Life!Discard, Stage, Queued
  <2> QED BY <2>2 DEF Life!Next
<1> QED BY <1>2, <1>3, <1>4

LEMMA StageInQueue ==
  ASSUME Typed, Typed', NEW b \in Books,
         \/ \E s \in Slots : Attach(b, s)
         \/ ReadAgain(b)
         \/ \E r \in Requests : EditWrite(r)
         \/ SettleNothingNew \/ GiveUpOn \/ WriteReading \/ Repend \/ FailReading
  PROVE  StageNow' = StageNow
<1>1. state \in [Books -> States] /\ state' \in [Books -> States]
  BY DEF Typed, TypeOK
<1>2. PICK c, new :
        state' = state
        \/ /\ state' = [state EXCEPT ![c] = new]
           /\ new = state[c] \/ (state[c] \in Queued /\ new \in Queued)
  <2>1. CASE \/ \E s \in Slots : Attach(b, s)
             \/ ReadAgain(b)
    BY <2>1 DEF Attach, ReadAgain, Queued
  <2>2. CASE \E r \in Requests : EditWrite(r)
    BY <2>2 DEF EditWrite, Outcome, Queued
  <2>3. CASE SettleNothingNew \/ GiveUpOn
    BY <2>3 DEF SettleNothingNew, GiveUpOn, Outcome, Queued
  <2>4. CASE WriteReading \/ Repend \/ FailReading
    BY <2>4 DEF WriteReading, Repend, FailReading, Outcome, Queued
  <2> QED BY <2>1, <2>2, <2>3, <2>4
<1>3. \A d \in Books : state'[d] = state[d]
                        \/ (state[d] \in Queued /\ state'[d] \in Queued)
  BY <1>1, <1>2
<1> QED BY <1>1, <1>3, StageStays

LEMMA StageStep == Typed /\ [Next]_vars => Life!Next \/ StageNow' = StageNow
<1> SUFFICES ASSUME Typed, [Next]_vars PROVE Life!Next \/ StageNow' = StageNow
    OBVIOUS
<1>0. Typed'
  BY StepTyped
<1>1. ASSUME NEW b \in Books,
             (\E s \in Slots : NewCapture(b, s)) \/ Save(b) \/ Discard(b)
      PROVE  Life!Next
  BY <1>1, StageMoves
<1>2. ASSUME NEW b \in Books, (\E s \in Slots : Attach(b, s)) \/ ReadAgain(b)
      PROVE  StageNow' = StageNow
  BY <1>0, <1>2, StageInQueue
<1>3. ASSUME NEW b \in Books, LeaseExpires(b) \/ \E who \in People : Claim(b, who)
      PROVE  StageNow' = StageNow
  BY <1>3, StageUntouched DEF LeaseExpires, Claim
<1>4. ASSUME NEW r \in Requests, NEW b \in Books, NEW who \in People,
             NEW patch \in Patches, NEW letGo \in LettingGo,
             EditRead(r, b, who, patch, letGo)
      PROVE  StageNow' = StageNow
  BY <1>4, StageUntouched DEF EditRead, db
<1>5. ASSUME NEW r \in Requests, EditStep(r) PROVE StageNow' = StageNow
  <2>1. CASE EditWrite(r)
    <3>1. edits[r].book \in Books
      BY <2>1 DEF EditWrite, Typed, InHand
    <3> QED BY <1>0, <2>1, <3>1, StageInQueue
  <2>2. CASE EditClaim(r) \/ EditLookup(r) \/ EditRelease(r)
    BY <2>2, StageUntouched DEF EditClaim, EditLookup, EditRelease, db
  <2> QED BY <1>5, <2>1, <2>2 DEF EditStep
<1>6. CASE SettleNothingNew \/ GiveUpOn \/ WriteReading \/ Repend \/ FailReading
  <2>1. worker.id \in Books
    BY <1>6 DEF SettleNothingNew, GiveUpOn, WriteReading, Repend, FailReading,
                Typed, InHand
  <2> QED BY <1>0, <1>6, <2>1, StageInQueue
<1>7. CASE \/ Drain \/ NextPending \/ NothingPending \/ LoadPhotographs
           \/ CountReading \/ ReadPhotograph \/ ReadOverlay \/ Recheck
           \/ RecheckPhotographs \/ Derive
  BY <1>7, StageUntouched
     DEF Drain, NextPending, NothingPending, LoadPhotographs, CountReading,
         ReadPhotograph, ReadSlot, ReadOverlay, Recheck, RecheckPhotographs,
         Derive, db
<1>8. CASE StatementFails \/ Restart \/ UNCHANGED vars
  BY <1>8, StageUntouched DEF StatementFails, Restart, db, vars
<1> QED BY <1>1, <1>2, <1>3, <1>4, <1>5, <1>6, <1>7, <1>8 DEF Next, WorkerStep

\* Whatever the worker, an edit and the shutter do to a book's row, and in what
\* order: a book is scanned once, leaves the queue once, and never returns.
THEOREM QueueFollowsBookLife == Spec => FollowsBookLife
<1>1. Init => Life!Init
  <2> SUFFICES ASSUME Init, NEW b \in Books PROVE Stage(b) \in {"absent", "queued"}
      BY DEF Life!Init
  <2>1. state[b] \in {"scanned", "absent"}
    BY DEF Init
  <2> QED BY <2>1 DEF Stage, Queued
<1>2. Typed /\ [Next]_vars => Typed'
  BY StepTyped
<1>3. Typed /\ [Next]_vars => [Life!Next]_StageNow
  BY StageStep
<1> QED BY InitTyped, <1>1, <1>2, <1>3, PTL
        DEF Spec, FollowsBookLife, Life!Spec, StageNow

-----------------------------------------------------------------------------
(***************************************************************************)
(* What CaptureQueue guarantees of the reading itself: which photographs   *)
(* the reader has been through once a capture is settled, and whose word   *)
(* the row then carries.                                                   *)
(*                                                                         *)
(* A step is either one of the people's (the shutter, a claim, an edit, a  *)
(* book leaving the queue), which may fall between any two statements of   *)
(* the worker's, or one of the worker's, or a fault.  What the first sort  *)
(* can do to one book is said once (PeopleStep), and what each statement   *)
(* of the worker's does to the book it holds (the lemmas named after it).  *)
(***************************************************************************)

-----------------------------------------------------------------------------
(* What may happen to one book behind the worker's back *)

Gone == {"shelved", "discarded"}
IsbnKept(b) == "isbn" \in row[b].stated => row[b].isbn = "stated"
Named(b) == row[b].stated \cap {"title", "isbn"} # {}

SameRow(b) == /\ row'[b].analysed = row[b].analysed /\ row'[b].note = row[b].note
              /\ row'[b].stated = row[b].stated /\ row'[b].isbn = row[b].isbn
Still(b) == state'[b] = state[b] /\ shot'[b] = shot[b] /\ SameRow(b)

\* Photographs are only added, and only ever taken back from what was read.
Widened(b) == /\ Photographed(shot[b]) \subseteq Photographed(shot'[b])
              /\ row'[b].analysed \subseteq row[b].analysed

SentBack(b) ==
  /\ state'[b] = "scanned" /\ Widened(b)
  /\ row'[b].stated = row[b].stated /\ row'[b].isbn = row[b].isbn
  /\ \/ state[b] \in Queued \cup {"absent"} /\ Unread(b)' # {}
     \/ state[b] \in Queued /\ row'[b].analysed = {} /\ shot'[b] = shot[b]

TakenOut(b) == /\ state'[b] \in Gone /\ Widened(b)
               /\ row'[b].stated = row[b].stated

Corrected(b) ==
  /\ shot'[b] = shot[b] /\ row'[b].analysed = row[b].analysed /\ row'[b].note = row[b].note
  /\ state'[b] = state[b] \/ (Settled(b) /\ state'[b] = "identified")
  /\ Settled(b) /\ Named(b)' => state'[b] = "identified"
  /\ IsbnKept(b)' /\ (LateEdit(b) => b \in raced')

SameTask ==
  /\ worker'.pc = worker.pc /\ worker'.id = worker.id /\ worker'.photos = worker.photos
  /\ worker'.todo = worker.todo /\ worker'.analysed = worker.analysed
  /\ worker'.stated = worker.stated /\ worker'.read = worker.read
  /\ worker'.note = worker.note

PeopleAct ==
  \/ \E b \in Books :
       \/ \E s \in Slots : NewCapture(b, s) \/ Attach(b, s)
       \/ ReadAgain(b) \/ Save(b) \/ Discard(b) \/ LeaseExpires(b)
       \/ \E who \in People : Claim(b, who)
       \/ \E r \in Requests, who \in People, patch \in Patches, letGo \in LettingGo :
            EditRead(r, b, who, patch, letGo)
  \/ \E r \in Requests : EditStep(r)

\* What a step of theirs does to one book, and that it leaves the pass alone.
PeopleDid ==
  /\ SameTask /\ offered' = offered /\ raced \subseteq raced'
  /\ spent'.crashes = spent.crashes /\ spent'.faults = spent.faults
  /\ \A b \in Books : Still(b) \/ SentBack(b) \/ TakenOut(b) \/ Corrected(b)

\* Nothing of a capture that is not there yet has been read.
Unborn == \A b \in Books : state[b] = "absent" => row[b].analysed = {}

LEMMA ShutterDid ==
  ASSUME Typed, Unborn, NEW b \in Books, NEW s \in Slots, NewCapture(b, s) \/ Attach(b, s)
  PROVE  PeopleDid
<1> DEFINE new == [shot[b] EXCEPT ![s] = IF NewCapture(b, s) THEN 1 ELSE shot[b][s] + 1]
<1>0. /\ state \in [Books -> States] /\ row \in [Books -> Row] /\ shot \in [Books -> [Slots -> Nat]]
      /\ shot[b] \in [Slots -> Nat] /\ row[b] \in Row
  BY DEF Typed, TypeOK
<1>1. SameTask /\ offered' = offered /\ raced' = raced /\ spent' = spent
  BY DEF NewCapture, Attach, history, SameTask
<1>2. /\ shot' = [shot EXCEPT ![b] = new] /\ new \in [Slots -> Nat] /\ new[s] > 0
      /\ \A z \in Slots : z # s => new[z] = shot[b][z]
  BY <1>0 DEF NewCapture, Attach
<1> HIDE DEF new
<1>3. shot'[b] = new /\ \A c \in Books \ {b} : shot'[c] = shot[c] /\ state'[c] = state[c] /\ row'[c] = row[c]
  BY <1>0, <1>2 DEF NewCapture, Attach
<1>4. s \in Photographed(shot'[b]) /\ Photographed(shot[b]) \subseteq Photographed(shot'[b])
  BY <1>2, <1>3 DEF Photographed
<1>5. /\ row'[b].analysed = row[b].analysed \ {s}
      /\ row'[b].stated = row[b].stated /\ row'[b].isbn = row[b].isbn
  <2>1. CASE NewCapture(b, s)
    <3>1. row' = row /\ row[b].analysed = {}
      BY <2>1 DEF NewCapture, Unborn
    <3> QED BY <3>1
  <2>2. CASE Attach(b, s)
    <3> DEFINE r == [row[b] EXCEPT !.analysed = row[b].analysed \ {s}]
    <3>1. row' = [row EXCEPT ![b] = r]
      BY <2>2 DEF Attach
    <3>2. r.analysed = row[b].analysed \ {s} /\ r.stated = row[b].stated /\ r.isbn = row[b].isbn
      BY <1>0 DEF Row
    <3> HIDE DEF r
    <3> QED BY <1>0, <3>1, <3>2
  <2> QED BY <2>1, <2>2
<1>6. Unread(b)' # {}
  BY <1>4, <1>5 DEF Unread
<1>7. \/ state'[b] = "scanned" /\ state[b] \in Queued \cup {"absent"}
      \/ state'[b] \in Gone
  BY <1>0 DEF NewCapture, Attach, Gone, States
<1>8. SentBack(b) \/ TakenOut(b)
  BY <1>4, <1>5, <1>6, <1>7 DEF SentBack, TakenOut, Widened
<1>9. \A c \in Books \ {b} : Still(c)
  BY <1>3 DEF Still, SameRow
<1> QED BY <1>1, <1>8, <1>9 DEF PeopleDid

LEMMA ReadAgainDid ==
  ASSUME Typed, NEW b \in Books, ReadAgain(b)
  PROVE  PeopleDid
<1> DEFINE r == [row[b] EXCEPT !.analysed = {}, !.note = "", !.attempts = 0]
<1>0. /\ state \in [Books -> States] /\ row \in [Books -> Row] /\ row[b] \in Row
      /\ worker \in Worker /\ spent \in Budget
  BY DEF Typed, TypeOK
<1>1. SameTask
  BY <1>0 DEF ReadAgain, SameTask, Worker
<1>2. spent'.crashes = spent.crashes /\ spent'.faults = spent.faults
  BY <1>0 DEF ReadAgain, Budget
<1>3. row' = [row EXCEPT ![b] = r] /\ shot' = shot /\ offered' = offered /\ raced' = raced
  BY DEF ReadAgain
<1>4. r.analysed = {} /\ r.stated = row[b].stated /\ r.isbn = row[b].isbn
  BY <1>0 DEF Row
<1> HIDE DEF r
<1>5. row'[b] = r /\ \A c \in Books \ {b} : row'[c] = row[c]
  BY <1>0, <1>3
<1>6. /\ state'[b] = "scanned" /\ state[b] \in Queued
      /\ \A c \in Books \ {b} : state'[c] = state[c]
  BY <1>0 DEF ReadAgain
<1>7. SentBack(b)
  BY <1>3, <1>4, <1>5, <1>6 DEF SentBack, Widened
<1>8. \A c \in Books \ {b} : Still(c)
  BY <1>3, <1>5, <1>6 DEF Still, SameRow
<1> QED BY <1>1, <1>2, <1>3, <1>7, <1>8 DEF PeopleDid

LEMMA LeavingDid ==
  ASSUME Typed, NEW b \in Books, Save(b) \/ Discard(b)
  PROVE  PeopleDid
<1>0. /\ state \in [Books -> States] /\ row \in [Books -> Row] /\ row[b] \in Row
  BY DEF Typed, TypeOK
<1>1. SameTask /\ offered' = offered /\ raced' = raced /\ spent' = spent /\ shot' = shot
  BY DEF Save, Discard, memory, history, SameTask
<1>2. state'[b] \in Gone /\ \A c \in Books \ {b} : state'[c] = state[c]
  BY <1>0 DEF Save, Discard, Gone
<1>3. /\ row'[b].analysed = row[b].analysed /\ row'[b].stated = row[b].stated
      /\ \A c \in Books \ {b} : row'[c] = row[c]
  <2>1. CASE Save(b)
    <3>1. PICK isbn \in {"", "saved"} : row' = [row EXCEPT ![b] = [row[b] EXCEPT !.isbn = isbn]]
      BY <2>1 DEF Save
    <3> DEFINE r == [row[b] EXCEPT !.isbn = isbn]
    <3>2. r.analysed = row[b].analysed /\ r.stated = row[b].stated
      BY <1>0 DEF Row
    <3>3. row' = [row EXCEPT ![b] = r]
      BY <3>1
    <3> HIDE DEF r
    <3> QED BY <1>0, <3>2, <3>3
  <2>2. CASE Discard(b)
    BY <2>2 DEF Discard
  <2> QED BY <2>1, <2>2
<1>4. TakenOut(b) /\ \A c \in Books \ {b} : Still(c)
  BY <1>1, <1>2, <1>3 DEF TakenOut, Widened, Still, SameRow
<1> QED BY <1>1, <1>4 DEF PeopleDid

LEMMA EditWriteDid ==
  ASSUME Typed, NEW r \in Requests, EditWrite(r)
  PROVE  PeopleDid
<1> DEFINE e == edits[r]
<1> PICK b \in Books : b = e.book
  BY DEF EditWrite, Typed, InHand
<1> DEFINE i == IF "isbn" \in e.merged THEN "stated" ELSE row[b].isbn
           new == [row[b] EXCEPT !.stated = e.merged, !.editor = e.who, !.isbn = i]
<1>0. b \in Books /\ state \in [Books -> States] /\ row \in [Books -> Row] /\ row[b] \in Row
  BY DEF EditWrite, Typed, TypeOK, InHand
<1>1. /\ SameTask /\ offered' = offered /\ raced \subseteq raced' /\ spent' = spent /\ shot' = shot
      /\ LateEdit(b) => b \in raced'
  BY DEF EditWrite, memory, SameTask
<1>2. row' = [row EXCEPT ![b] = new]
  BY DEF EditWrite
<1>3. /\ new.analysed = row[b].analysed /\ new.note = row[b].note
      /\ new.stated = e.merged /\ new.isbn = i
  BY <1>0 DEF Row
<1>4. i = IF "isbn" \in e.merged THEN "stated" ELSE row[b].isbn
  OBVIOUS
<1>5. state' = [state EXCEPT ![b] = IF @ \in {"identified", "unidentified"} /\ Resolved(FALSE, e.merged)
                                   THEN Outcome(TRUE) ELSE @]
  BY DEF EditWrite
<1> HIDE DEF e, i, new
<1>6. row'[b] = new /\ \A c \in Books \ {b} : row'[c] = row[c]
  BY <1>0, <1>2
<1>7. IsbnKept(b)'
  BY <1>3, <1>4, <1>6 DEF IsbnKept
<1>8. /\ state'[b] = state[b] \/ (Settled(b) /\ state'[b] = "identified")
      /\ Settled(b) /\ Named(b)' => state'[b] = "identified"
      /\ \A c \in Books \ {b} : state'[c] = state[c]
  BY <1>0, <1>3, <1>5, <1>6 DEF Settled, Queued, Named, Resolved, Outcome
<1>9. Corrected(b) /\ \A c \in Books \ {b} : Still(c)
  BY <1>1, <1>3, <1>6, <1>7, <1>8 DEF Corrected, Still, SameRow
<1> QED BY <1>1, <1>9 DEF PeopleDid

LEMMA PeopleStep ==
  ASSUME Typed, Unborn, PeopleAct
  PROVE  PeopleDid
<1>1. ASSUME NEW b \in Books, NEW s \in Slots, NewCapture(b, s) \/ Attach(b, s)
      PROVE  PeopleDid
  BY <1>1, ShutterDid
<1>2. ASSUME NEW b \in Books, ReadAgain(b) \/ Save(b) \/ Discard(b)
      PROVE  PeopleDid
  BY <1>2, ReadAgainDid, LeavingDid
<1>3. ASSUME UNCHANGED <<state, shot, row, memory, history, spent>>
      PROVE  PeopleDid
  BY <1>3 DEF PeopleDid, SameTask, Still, SameRow, memory, history
<1>4. ASSUME NEW b \in Books, LeaseExpires(b) \/ \E who \in People : Claim(b, who)
      PROVE  PeopleDid
  BY <1>3, <1>4 DEF LeaseExpires, Claim
<1>5. ASSUME NEW b \in Books, NEW r \in Requests, NEW who \in People,
             NEW patch \in Patches, NEW letGo \in LettingGo,
             EditRead(r, b, who, patch, letGo)
      PROVE  PeopleDid
  BY <1>3, <1>5 DEF EditRead, db
<1>6. ASSUME NEW r \in Requests, EditStep(r)
      PROVE  PeopleDid
  BY <1>3, <1>6, EditWriteDid DEF EditStep, EditClaim, EditLookup, EditRelease, db
<1> QED BY <1>1, <1>2, <1>4, <1>5, <1>6 DEF PeopleAct
-----------------------------------------------------------------------------
(* What each statement of the worker's does *)

Before == {"photos", "settle", "count", "giveup", "read", "stated", "write"}
Reading == {"count", "giveup", "read", "stated", "write"}
Nothing == {"idle", "query", "nothing"}

LEMMA LookingIs ==
  ASSUME NEW pc
  PROVE  /\ Looking(pc).pc = pc /\ Looking(pc).id = NoBook /\ Looking(pc).todo = {}
         /\ Looking(pc).analysed = {} /\ Looking(pc).note = "" /\ NoBook \notin Books
BY BooksAssumption DEF Looking, NoBook

LEMMA ProcessedIs ==
  /\ Processed.pc = "derive" /\ Processed.id = worker.id /\ Processed.todo = {}
  /\ Processed.analysed = {} /\ Processed.note = ""
BY DEF Processed, Looking

\* Statements that leave every row as it was but for the count of readings.
LEMMA LooksOnly ==
  ASSUME Typed,
         \/ Drain \/ NextPending \/ NothingPending \/ LoadPhotographs \/ CountReading
         \/ ReadPhotograph \/ ReadOverlay \/ Recheck \/ RecheckPhotographs \/ Derive
         \/ StatementFails \/ Restart
  PROVE  \A c \in Books : Still(c)
<1>1. state' = state /\ shot' = shot
  BY DEF Drain, NextPending, NothingPending, LoadPhotographs, CountReading, ReadPhotograph,
     ReadSlot, ReadOverlay, Recheck, RecheckPhotographs, Derive, StatementFails, Restart,
     Elsewhere, db
<1>2. CASE row' = row
  BY <1>1, <1>2 DEF Still, SameRow
<1>3. CASE CountReading
  <2> DEFINE b == worker.id
             new == [row[b] EXCEPT !.attempts = row[b].attempts + 1]
  <2>1. row' = row \/ row' = [row EXCEPT ![b] = new]
    BY <1>3 DEF CountReading
  <2>2. row \in [Books -> Row] /\ b \in Books
    BY <1>3 DEF Typed, TypeOK, InHand, CountReading
  <2>3. /\ new.analysed = row[b].analysed /\ new.note = row[b].note
        /\ new.stated = row[b].stated /\ new.isbn = row[b].isbn
    BY <2>2 DEF Row
  <2> HIDE DEF b, new
  <2>4. \A c \in Books : row'[c] = IF row' # row /\ c = b THEN new ELSE row[c]
    BY <2>1, <2>2
  <2> QED BY <1>1, <2>3, <2>4 DEF Still, SameRow
<1> QED
  BY <1>2, <1>3 DEF Drain, NextPending, NothingPending, LoadPhotographs, ReadPhotograph,
     ReadSlot, ReadOverlay, Recheck, RecheckPhotographs, Derive, StatementFails, Restart,
     Elsewhere, db

\* The next capture is picked with what its row says, or there is none.
LEMMA NextPendingDid ==
  ASSUME Typed, NextPending
  PROVE  /\ offered' = offered /\ raced' = raced /\ spent' = spent
         /\ worker'.todo = {} /\ worker'.note = ""
         /\ \/ worker'.pc = "nothing" /\ worker'.id = NoBook /\ worker'.analysed = {}
            \/ \E b \in Books :
                 /\ worker'.pc = "photos" /\ worker'.id = b /\ state[b] = "scanned"
                 /\ worker'.analysed = row[b].analysed /\ worker'.stated = row[b].stated
<1>1. offered' = offered /\ raced' = raced /\ spent' = spent
  BY DEF NextPending, history
<1>2. CASE worker' = Looking("nothing")
  BY <1>1, <1>2, LookingIs
<1>3. CASE worker' # Looking("nothing")
  <2>1. PICK b \in Books :
          /\ state[b] = "scanned"
          /\ worker' = [Looking("photos") EXCEPT
               !.id = b, !.analysed = row[b].analysed, !.isbn = row[b].isbn,
               !.draft = row[b].draft, !.stated = row[b].stated]
    BY <1>3 DEF NextPending
  <2>2. /\ worker'.pc = "photos" /\ worker'.id = b /\ worker'.todo = {} /\ worker'.note = ""
        /\ worker'.analysed = row[b].analysed /\ worker'.stated = row[b].stated
    BY <2>1 DEF Looking
  <2> QED BY <1>1, <2>1, <2>2
<1> QED BY <1>2, <1>3

LEMMA LoadPhotographsDid ==
  ASSUME Typed, LoadPhotographs, NEW b \in Books, b = worker.id
  PROVE  /\ offered' = offered /\ raced' = raced /\ spent' = spent
         /\ worker.pc = "photos" /\ worker'.id = b
         /\ worker'.photos = shot[b] /\ worker'.todo = Photographed(shot[b]) \ worker.analysed
         /\ worker'.pc = (IF worker'.todo = {} THEN "settle" ELSE "count")
         /\ worker'.analysed = worker.analysed /\ worker'.stated = worker.stated
         /\ worker'.note = worker.note
<1>1. worker \in Worker
  BY DEF Typed, TypeOK
<1> QED BY <1>1 DEF LoadPhotographs, history, Worker

LEMMA SettleNothingNewDid ==
  ASSUME Typed, SettleNothingNew, NEW b \in Books, b = worker.id
  PROVE  /\ offered' = offered /\ raced' = raced /\ spent' = spent /\ shot' = shot /\ row' = row
         /\ worker.pc = "settle" /\ worker' = Processed
         /\ \A c \in Books \ {b} : Still(c)
         /\ state'[b] = IF state[b] = "scanned"
                        THEN Outcome(row[b].isbn # "" \/ "title" \in worker.stated) ELSE state[b]
<1>1. state \in [Books -> States]
  BY DEF Typed, TypeOK
<1>2. \A c \in Books \ {b} : state'[c] = state[c]
  BY <1>1 DEF SettleNothingNew
<1>3. row' = row /\ shot' = shot
  BY DEF SettleNothingNew, Elsewhere
<1> QED BY <1>1, <1>2, <1>3 DEF SettleNothingNew, Elsewhere, history, Still, SameRow

LEMMA CountReadingDid ==
  ASSUME Typed, CountReading, NEW b \in Books, b = worker.id
  PROVE  /\ offered' = offered /\ raced' = raced /\ spent' = spent /\ worker.pc = "count"
         /\ \/ state[b] \notin Queued /\ worker' = Processed
            \/ /\ worker'.pc \in {"giveup", "read"} /\ worker'.id = b
               /\ worker'.photos = worker.photos /\ worker'.todo = worker.todo
               /\ worker'.analysed = worker.analysed /\ worker'.note = worker.note
<1>1. worker \in Worker
  BY DEF Typed, TypeOK
<1>2. CASE state[b] \notin Queued
  BY <1>2 DEF CountReading, Elsewhere, history
<1>3. CASE state[b] \in Queued
  <2>1. PICK next \in {"giveup", "read"}, counted \in BOOLEAN :
          worker' = [worker EXCEPT !.pc = next, !.counted = counted]
    BY <1>3 DEF CountReading, TooMany
  <2> QED BY <1>1, <2>1 DEF CountReading, Elsewhere, history, Worker
<1> QED BY <1>2, <1>3

\* What a settled row is written to: the new columns, and which others it keeps.
LEMMA RowWritten ==
  ASSUME Typed, NEW b \in Books, NEW new, row' = [row EXCEPT ![b] = new], shot' = shot,
         \A c \in Books \ {b} : state'[c] = state[c]
  PROVE  row'[b] = new /\ \A c \in Books \ {b} : Still(c)
BY DEF Typed, TypeOK, Still, SameRow

LEMMA GiveUpOnDid ==
  ASSUME Typed, GiveUpOn, NEW b \in Books, b = worker.id
  PROVE  /\ raced' = raced /\ spent' = spent /\ shot' = shot
         /\ worker.pc = "giveup" /\ worker' = Processed
         /\ \A c \in Books \ {b} : Still(c)
         /\ \/ state[b] \notin Queued /\ Still(b) /\ offered' = offered
            \/ /\ state[b] \in Queued /\ state'[b] = "unidentified" /\ row'[b].note = "error"
               /\ row'[b].analysed = worker.analysed \cup worker.todo
               /\ row'[b].stated = row[b].stated /\ row'[b].isbn = row[b].isbn
               /\ \A c \in Books \ {b} : offered'[c] = offered[c]
               /\ \A s \in Slots : offered'[b][s] =
                    IF s \in worker.todo THEN worker.photos[s] ELSE offered[b][s]
<1>1. /\ raced' = raced /\ spent' = spent /\ shot' = shot
      /\ worker.pc = "giveup" /\ worker' = Processed
  BY DEF GiveUpOn, Elsewhere
<1>2. CASE state[b] \notin Queued
  BY <1>1, <1>2 DEF GiveUpOn, Still, SameRow
<1>3. CASE state[b] \in Queued
  <2> DEFINE new == [row[b] EXCEPT !.analysed = worker.analysed \cup worker.todo,
                                   !.note = "error", !.attempts = 0]
  <2>1. row[b] \in Row /\ state \in [Books -> States] /\ offered \in [Books -> [Slots -> Nat]]
    BY DEF Typed, TypeOK
  <2>2. row' = [row EXCEPT ![b] = new]
    BY <1>3 DEF GiveUpOn
  <2>3. /\ new.note = "error" /\ new.analysed = worker.analysed \cup worker.todo
        /\ new.stated = row[b].stated /\ new.isbn = row[b].isbn
    BY <2>1 DEF Row
  <2>4. state'[b] = "unidentified" /\ \A c \in Books \ {b} : state'[c] = state[c]
    BY <1>3, <2>1 DEF GiveUpOn, Outcome
  <2>5. /\ \A c \in Books \ {b} : offered'[c] = offered[c]
        /\ offered'[b] = [s \in Slots |-> IF s \in worker.todo THEN worker.photos[s] ELSE offered[b][s]]
    BY <1>3, <2>1 DEF GiveUpOn
  <2> HIDE DEF new
  <2>6. row'[b] = new /\ \A c \in Books \ {b} : Still(c)
    BY <1>1, <2>2, <2>4, RowWritten
  <2> QED BY <1>1, <1>3, <2>3, <2>4, <2>5, <2>6
<1> QED BY <1>2, <1>3

LEMMA ReadPhotographDid ==
  ASSUME Typed, ReadPhotograph, NEW b \in Books, b = worker.id
  PROVE  /\ raced' = raced /\ spent' = spent /\ worker.pc = "read" /\ worker'.id = b
         /\ worker'.photos = worker.photos /\ worker'.stated = worker.stated
         /\ worker'.pc = "fail" => worker'.note # ""
         /\ worker'.pc # "fail" => worker'.pc \in {"stated", "read"} /\ worker'.note = worker.note
         /\ \E s \in worker.todo :
              /\ worker'.todo = worker.todo \ {s}
              /\ \/ worker'.analysed = worker.analysed /\ offered' = offered
                 \/ /\ worker'.analysed = worker.analysed \cup {s}
                    /\ offered' = [offered EXCEPT ![b] = [@ EXCEPT ![s] = worker.photos[s]]]
<1>1. worker \in Worker
  BY DEF Typed, TypeOK
<1>2. PICK s \in Slots, verdict \in Verdicts : ReadSlot(s, verdict)
  BY DEF ReadPhotograph
<1>3. worker.pc = "read" /\ s \in worker.todo /\ raced' = raced /\ spent' = spent
  BY <1>2 DEF ReadSlot, FirstIn, Elsewhere
<1>4. PICK isbn, draft :
        worker' = [worker EXCEPT
          !.todo = worker.todo \ {s}, !.analysed = worker.analysed \cup MarkedRead(s, verdict),
          !.isbn = isbn, !.draft = draft,
          !.note = IF verdict \in Failures THEN verdict ELSE worker.note,
          !.pc = IF verdict \in Failures THEN "fail"
                 ELSE IF worker.todo \ {s} = {} THEN "stated" ELSE worker.pc]
  BY <1>2 DEF ReadSlot
<1>5. /\ worker'.id = b /\ worker'.photos = worker.photos /\ worker'.stated = worker.stated
      /\ worker'.todo = worker.todo \ {s}
      /\ worker'.analysed = worker.analysed \cup MarkedRead(s, verdict)
      /\ worker'.note = (IF verdict \in Failures THEN verdict ELSE worker.note)
      /\ worker'.pc = (IF verdict \in Failures THEN "fail"
                       ELSE IF worker.todo \ {s} = {} THEN "stated" ELSE worker.pc)
  BY <1>1, <1>4 DEF Worker
<1>6. offered' = IF verdict = "timeout" THEN offered
                 ELSE [offered EXCEPT ![b] = [@ EXCEPT ![s] = worker.photos[s]]]
  BY <1>2 DEF ReadSlot
<1>7. /\ worker'.pc = "fail" => worker'.note # ""
      /\ worker'.pc # "fail" => worker'.pc \in {"stated", "read"} /\ worker'.note = worker.note
  BY <1>3, <1>5 DEF Failures
<1>8. \/ worker'.analysed = worker.analysed /\ offered' = offered
      \/ /\ worker'.analysed = worker.analysed \cup {s}
         /\ offered' = [offered EXCEPT ![b] = [@ EXCEPT ![s] = worker.photos[s]]]
  BY <1>5, <1>6 DEF MarkedRead
<1> QED BY <1>3, <1>5, <1>7, <1>8

LEMMA ReadOverlayDid ==
  ASSUME Typed, ReadOverlay, NEW b \in Books, b = worker.id
  PROVE  /\ offered' = offered /\ raced' = raced \ {b} /\ spent' = spent
         /\ worker.pc = "stated" /\ worker'.pc = "write" /\ worker'.id = b
         /\ worker'.photos = worker.photos /\ worker'.todo = worker.todo
         /\ worker'.analysed = worker.analysed /\ worker'.stated = row[b].stated
<1>1. worker \in Worker
  BY DEF Typed, TypeOK
<1> QED BY <1>1 DEF ReadOverlay, Elsewhere, Worker

LEMMA WriteReadingDid ==
  ASSUME Typed, WriteReading, NEW b \in Books, b = worker.id
  PROVE  /\ offered' = offered /\ raced' = raced /\ spent' = spent /\ shot' = shot
         /\ worker.pc = "write" /\ worker'.pc = "recheck" /\ worker'.id = b
         /\ worker'.todo = {} /\ worker'.analysed = worker.analysed
         /\ \A c \in Books \ {b} : Still(c)
         /\ \/ state[b] \notin Queued /\ Still(b)
            \/ /\ state[b] \in Queued
               /\ state'[b] = Outcome(Resolved(worker.draft, worker.stated))
               /\ row'[b].isbn = (IF "isbn" \in worker.stated THEN "stated" ELSE worker.isbn)
               /\ row'[b].analysed = worker.analysed /\ row'[b].note = ""
               /\ row'[b].stated = row[b].stated
<1>1. /\ offered' = offered /\ raced' = raced /\ spent' = spent /\ shot' = shot /\ worker.pc = "write"
      /\ worker' = [Looking("recheck") EXCEPT !.id = b, !.analysed = worker.analysed]
  BY DEF WriteReading, Elsewhere
<1>2. worker'.pc = "recheck" /\ worker'.id = b /\ worker'.todo = {} /\ worker'.analysed = worker.analysed
  BY <1>1 DEF Looking
<1>3. CASE state[b] \notin Queued
  BY <1>1, <1>2, <1>3 DEF WriteReading, Still, SameRow
<1>4. CASE state[b] \in Queued
  <2> DEFINE i == IF "isbn" \in worker.stated THEN "stated" ELSE worker.isbn
             new == [row[b] EXCEPT !.isbn = i, !.analysed = worker.analysed,
                       !.draft = worker.draft, !.note = "", !.attempts = 0]
  <2>1. row[b] \in Row /\ state \in [Books -> States]
    BY DEF Typed, TypeOK
  <2>2. row' = [row EXCEPT ![b] = new]
    BY <1>4 DEF WriteReading
  <2>3. new.isbn = i /\ new.analysed = worker.analysed /\ new.note = "" /\ new.stated = row[b].stated
    BY <2>1 DEF Row
  <2>4. /\ state'[b] = Outcome(Resolved(worker.draft, worker.stated))
        /\ \A c \in Books \ {b} : state'[c] = state[c]
    BY <1>4, <2>1 DEF WriteReading
  <2> HIDE DEF new
  <2>5. row'[b] = new /\ \A c \in Books \ {b} : Still(c)
    BY <1>1, <2>2, <2>4, RowWritten
  <2> QED BY <1>1, <1>2, <1>4, <2>3, <2>4, <2>5
<1> QED BY <1>3, <1>4

LEMMA RecheckDid ==
  ASSUME Typed, Recheck, NEW b \in Books, b = worker.id
  PROVE  /\ offered' = offered /\ raced' = raced /\ spent' = spent /\ worker.pc = "recheck"
         /\ \/ state[b] \notin Queued /\ worker' = Processed
            \/ /\ state[b] \in Queued /\ worker'.pc = "recheckPhotos" /\ worker'.id = b
               /\ worker'.read = row[b].analysed /\ worker'.todo = worker.todo
               /\ worker'.photos = worker.photos /\ worker'.analysed = worker.analysed
<1>1. worker \in Worker
  BY DEF Typed, TypeOK
<1> QED BY <1>1 DEF Recheck, Elsewhere, history, Worker

LEMMA RecheckPhotographsDid ==
  ASSUME Typed, RecheckPhotographs, NEW b \in Books, b = worker.id
  PROVE  /\ offered' = offered /\ raced' = raced /\ spent' = spent
         /\ worker.pc = "recheckPhotos"
         /\ \/ Photographed(shot[b]) \subseteq worker.read /\ worker' = Processed
            \/ /\ ~(Photographed(shot[b]) \subseteq worker.read)
               /\ worker'.pc = "repend" /\ worker'.id = b
               /\ worker'.todo = worker.todo /\ worker'.photos = worker.photos
               /\ worker'.analysed = worker.analysed
<1>1. worker \in Worker
  BY DEF Typed, TypeOK
<1> QED BY <1>1 DEF RecheckPhotographs, Elsewhere, history, Worker

LEMMA RependDid ==
  ASSUME Typed, Repend, NEW b \in Books, b = worker.id
  PROVE  /\ offered' = offered /\ raced' = raced /\ spent' = spent /\ shot' = shot /\ row' = row
         /\ worker.pc = "repend" /\ worker' = Processed
         /\ \A c \in Books \ {b} : Still(c)
         /\ state'[b] = IF state[b] \in Queued THEN "scanned" ELSE state[b]
<1>1. state \in [Books -> States]
  BY DEF Typed, TypeOK
<1>2. \A c \in Books \ {b} : state'[c] = state[c]
  BY <1>1 DEF Repend
<1>3. row' = row /\ shot' = shot
  BY DEF Repend, Elsewhere
<1> QED BY <1>1, <1>2, <1>3 DEF Repend, Elsewhere, history, Still, SameRow

LEMMA FailReadingDid ==
  ASSUME Typed, FailReading, NEW b \in Books, b = worker.id
  PROVE  /\ offered' = offered /\ raced' = raced /\ spent' = spent /\ shot' = shot
         /\ worker.pc = "fail" /\ worker' = Processed
         /\ \A c \in Books \ {b} : Still(c)
         /\ \/ state[b] \notin Queued /\ Still(b)
            \/ /\ state[b] \in Queued /\ state'[b] = "unidentified"
               /\ row'[b].note = worker.note
               /\ row'[b].analysed = worker.analysed
               /\ row'[b].stated = row[b].stated /\ row'[b].isbn = row[b].isbn
<1>1. /\ offered' = offered /\ raced' = raced /\ spent' = spent /\ shot' = shot
      /\ worker.pc = "fail" /\ worker' = Processed
  BY DEF FailReading, Elsewhere
<1>2. CASE state[b] \notin Queued
  BY <1>1, <1>2 DEF FailReading, Still, SameRow
<1>3. CASE state[b] \in Queued
  <2> DEFINE new == [row[b] EXCEPT !.analysed = worker.analysed, !.note = worker.note,
                                   !.attempts = 0]
  <2>1. row[b] \in Row /\ state \in [Books -> States]
    BY DEF Typed, TypeOK
  <2>2. row' = [row EXCEPT ![b] = new]
    BY <1>3 DEF FailReading
  <2>3. /\ new.note = worker.note /\ new.analysed = worker.analysed
        /\ new.stated = row[b].stated /\ new.isbn = row[b].isbn
    BY <2>1 DEF Row
  <2>4. state'[b] = "unidentified" /\ \A c \in Books \ {b} : state'[c] = state[c]
    BY <1>3, <2>1 DEF FailReading, Outcome
  <2> HIDE DEF new
  <2>5. row'[b] = new /\ \A c \in Books \ {b} : Still(c)
    BY <1>1, <2>2, <2>4, RowWritten
  <2> QED BY <1>1, <1>3, <2>3, <2>4, <2>5
<1> QED BY <1>2, <1>3

\* A fault sends the pass into the catch with a note, or home.
LEMMA FaultDid ==
  ASSUME Typed, StatementFails \/ Restart
  PROVE  /\ offered' = offered /\ raced' = raced
         /\ \/ /\ worker' = Looking("idle")
               /\ \/ /\ StatementFails /\ worker.pc \in {"query", "photos", "fail"}
                     /\ spent'.crashes = spent.crashes /\ spent'.faults = spent.faults + 1
                  \/ spent'.crashes = spent.crashes + 1 /\ spent'.faults = spent.faults
            \/ /\ worker.pc \in {"settle", "count", "giveup", "stated", "write",
                                 "recheck", "recheckPhotos", "repend"}
               /\ worker'.pc = "fail" /\ worker'.note = "error" /\ worker'.id = worker.id
               /\ worker'.photos = worker.photos /\ worker'.todo = worker.todo
               /\ worker'.analysed = worker.analysed
               /\ spent'.crashes = spent.crashes /\ spent'.faults = spent.faults + 1
<1>1. worker \in Worker /\ spent \in Budget /\ spent.faults \in Nat /\ spent.crashes \in Nat
  BY DEF Typed, TypeOK, Budget
<1>2. offered' = offered /\ raced' = raced
  BY DEF StatementFails, Restart
<1>3. CASE StatementFails
  <2>1. spent'.crashes = spent.crashes /\ spent'.faults = spent.faults + 1
    BY <1>1, <1>3 DEF StatementFails, Budget
  <2>2. CASE worker' = [worker EXCEPT !.pc = "fail", !.note = "error"]
             /\ worker.pc \in {"settle", "count", "giveup", "stated", "write",
                               "recheck", "recheckPhotos", "repend"}
    BY <1>1, <1>2, <2>1, <2>2 DEF Worker
  <2> QED BY <1>2, <1>3, <2>1, <2>2 DEF StatementFails
<1>4. CASE Restart
  <2>1. spent'.crashes = spent.crashes + 1 /\ spent'.faults = spent.faults
    BY <1>1, <1>4 DEF Restart, Budget
  <2> QED BY <1>2, <1>4, <2>1 DEF Restart
<1> QED BY <1>3, <1>4
-----------------------------------------------------------------------------
(* Where the capture in the worker's hand is, statement by statement *)

\* Facts about the book the worker holds; `b` is that book.
InPass(b) ==
  /\ worker.pc \in Before => ~Settled(b)
  /\ worker.pc = "photos" => row[b].analysed \subseteq worker.analysed
  /\ worker.pc \in Reading \cup {"repend"} => Unread(b) # {}
  /\ worker.pc = "recheckPhotos" => row[b].analysed \subseteq worker.read
  /\ worker.pc = "fail" => worker.note # ""

PassInv == Unborn /\ (worker.id \in Books => InPass(worker.id))

LEMMA IdleAtFirst ==
  ASSUME Init
  PROVE  worker.id \notin Books /\ worker.todo = {}
<1>1. worker = Looking("idle")
  BY DEF Init
<1> QED BY <1>1, LookingIs

\* A row read elsewhere starts with its photographs offered; the others are blank.
LEMMA ReadAtFirst ==
  ASSUME Init
  PROVE  \E old \in [Books -> SUBSET Slots] :
           /\ \A b \in Books : /\ old[b] \subseteq Photographed(shot[b])
                               /\ row[b].analysed = old[b] /\ row[b].stated = {}
           /\ \A b \in Books \ Seeded : shot[b] = NoShots
           /\ offered = [b \in Books |-> [s \in Slots |-> IF s \in old[b] THEN 1 ELSE 0]]
<1>1. PICK old \in [Books -> SUBSET Slots] : \E isbn \in [Books -> {"", "read"}] :
        /\ \A b \in Books : old[b] \subseteq Photographed(shot[b])
        /\ \A b \in Books \ Seeded : shot[b] = NoShots
        /\ row = [b \in Books |-> [NewRow EXCEPT !.analysed = old[b], !.isbn = isbn[b]]]
        /\ offered = [b \in Books |-> [s \in Slots |-> IF s \in old[b] THEN 1 ELSE 0]]
  BY DEF Init
<1>2. \A b \in Books : row[b].analysed = old[b]
  BY <1>1 DEF NewRow
<1>3. \A b \in Books : row[b].stated = {}
  <2>1. NewRow.stated = {} /\ NewRow \in Row
    BY DEF NewRow, Row, Isbns, Notes
  <2>2. \A a, i : [NewRow EXCEPT !.analysed = a, !.isbn = i].stated = NewRow.stated
    BY <2>1 DEF Row
  <2>3. PICK isbn : row = [b \in Books |-> [NewRow EXCEPT !.analysed = old[b], !.isbn = isbn[b]]]
    BY <1>1
  <2> QED BY <2>1, <2>2, <2>3
<1> QED BY <1>1, <1>2, <1>3

LEMMA InitPassInv == Init => PassInv
<1> SUFFICES ASSUME Init PROVE PassInv
  OBVIOUS
<1>1. Unborn
  <2> SUFFICES ASSUME NEW b \in Books, state[b] = "absent" PROVE row[b].analysed = {}
    BY DEF Unborn
  <2>1. b \notin Seeded
    BY DEF Init
  <2>2. shot[b] = NoShots /\ row[b].analysed \subseteq Photographed(shot[b])
    BY <2>1, ReadAtFirst
  <2>3. Photographed(shot[b]) = {}
    <3>1. \A z \in Slots : ~(NoShots[z] > 0)
      BY DEF NoShots
    <3> QED BY <2>2, <3>1 DEF Photographed
  <2> QED BY <2>2, <2>3
<1>2. worker.id \notin Books
  BY IdleAtFirst
<1> QED BY <1>1, <1>2 DEF PassInv

\* Whatever the people do to a book, what is unread of it only grows.
LEMMA UnreadGrows ==
  ASSUME NEW b \in Books, Still(b) \/ SentBack(b) \/ TakenOut(b) \/ Corrected(b)
  PROVE  /\ Unread(b) \subseteq Unread(b)'
         /\ Photographed(shot[b]) \subseteq Photographed(shot'[b])
         /\ row'[b].analysed \subseteq row[b].analysed
BY DEF Still, SameRow, SentBack, TakenOut, Corrected, Widened, Unread

\* A book is settled by the worker and by nobody else.
LEMMA OnlyTheWorkerSettles ==
  ASSUME NEW b \in Books, Still(b) \/ SentBack(b) \/ TakenOut(b) \/ Corrected(b), Settled(b)'
  PROVE  /\ Settled(b) /\ row'[b].analysed = row[b].analysed /\ row'[b].note = row[b].note
         /\ shot'[b] = shot[b]
BY DEF Settled, Queued, Still, SameRow, SentBack, TakenOut, Corrected, Gone

LEMMA PeopleKeepPassInv ==
  ASSUME PassInv, PeopleDid
  PROVE  PassInv'
<1>1. Unborn'
  <2> SUFFICES ASSUME NEW b \in Books, state'[b] = "absent" PROVE row'[b].analysed = {}
    BY DEF Unborn
  <2>1. row'[b].analysed \subseteq row[b].analysed /\ state[b] = "absent"
    BY UnreadGrows DEF PeopleDid, Still, SentBack, TakenOut, Corrected, Gone
  <2> QED BY <2>1 DEF PassInv, Unborn
<1>2. ASSUME NEW b \in Books, worker'.id = b
      PROVE  InPass(b)'
  <2>1. InPass(b) /\ SameTask
    BY <1>2 DEF PassInv, PeopleDid, SameTask
  <2>2. Unread(b) \subseteq Unread(b)' /\ row'[b].analysed \subseteq row[b].analysed
    BY UnreadGrows DEF PeopleDid
  <2>3. Settled(b)' => Settled(b)
    BY OnlyTheWorkerSettles DEF PeopleDid
  <2> QED BY <2>1, <2>2, <2>3 DEF InPass, SameTask
<1> QED BY <1>1, <1>2 DEF PassInv

\* No statement of the worker's makes or unmakes a capture.
LEMMA WorkerKeepsUnborn ==
  ASSUME Unborn, NEW b \in Books, \A c \in Books \ {b} : Still(c),
         Still(b) \/ state'[b] # "absent"
  PROVE  Unborn'
BY DEF Unborn, Still, SameRow

\* Which book the worker holds when it has one in hand.
LEMMA InHandIs ==
  ASSUME Typed, worker.pc \notin Nothing
  PROVE  worker.id \in Books
BY DEF Typed, InHand, Nothing

LEMMA DoneIsInPass ==
  ASSUME NEW CONSTANT b, worker' = Processed \/ \E pc \in Nothing : worker' = Looking(pc)
  PROVE  InPass(b)'
<1>1. CASE worker' = Processed
  BY <1>1, ProcessedIs DEF InPass, Before, Reading
<1>2. CASE \E pc \in Nothing : worker' = Looking(pc)
  BY <1>2, LookingIs DEF InPass, Before, Reading, Nothing
<1> QED BY <1>1, <1>2

LEMMA LooksKeepPassInv ==
  ASSUME Typed, PassInv,
         \/ Drain \/ NextPending \/ NothingPending \/ LoadPhotographs \/ CountReading
         \/ ReadPhotograph \/ ReadOverlay \/ Recheck \/ RecheckPhotographs \/ Derive
         \/ StatementFails \/ Restart
  PROVE  PassInv'
<1>0. \A c \in Books : Still(c)
  BY LooksOnly
<1>1. Unborn'
  BY <1>0 DEF PassInv, Unborn, Still, SameRow
<1>2. \A c \in Books : Unread(c)' = Unread(c) /\ (Settled(c)' <=> Settled(c))
                       /\ row'[c].analysed = row[c].analysed
  BY <1>0 DEF Still, SameRow, Unread, Settled
<1> SUFFICES ASSUME NEW b \in Books, worker'.id = b PROVE InPass(b)'
  BY <1>1 DEF PassInv
<1>3. CASE Drain \/ NothingPending \/ Derive
  <2>1. CASE worker' = worker
    BY <1>2, <2>1 DEF PassInv, InPass
  <2>2. CASE worker' # worker
    <3>1. \E pc \in Nothing : worker' = Looking(pc)
      BY <1>3, <2>2 DEF Drain, NothingPending, Derive, Nothing
    <3> QED BY <3>1, DoneIsInPass
  <2> QED BY <2>1, <2>2
<1>4. CASE NextPending
  <2>1. worker'.pc = "photos" /\ state[b] = "scanned" /\ worker'.analysed = row[b].analysed
    BY <1>4, NextPendingDid, LookingIs
  <2> QED BY <1>2, <2>1 DEF InPass, Before, Reading, Settled
<1>5. CASE LoadPhotographs
  <2>1. worker.id = b
    BY <1>5, InHandIs, LoadPhotographsDid DEF LoadPhotographs, Nothing
  <2>2. InPass(b) /\ worker.pc = "photos"
    BY <1>5, <2>1 DEF PassInv, LoadPhotographs
  <2>3. /\ worker'.pc = "settle" \/ worker'.pc = "count"
        /\ worker'.pc = "count" => Photographed(shot[b]) \ worker.analysed # {}
    BY <1>5, <2>1, LoadPhotographsDid
  <2>4. worker'.pc = "count" => Unread(b) # {}
    BY <2>2, <2>3 DEF InPass, Unread
  <2> QED BY <1>2, <2>2, <2>3, <2>4 DEF InPass, Before, Reading
<1>6. CASE CountReading
  <2>1. PICK c \in Books : c = worker.id
    BY <1>6, InHandIs DEF CountReading, Nothing
  <2>2. worker.pc = "count" /\ (worker' = Processed \/ (worker'.pc \in {"giveup", "read"} /\ worker.id = b))
    <3>1. CASE worker' = Processed
      BY <1>6, <2>1, <3>1, CountReadingDid
    <3>2. CASE worker' # Processed
      <4>1. worker.pc = "count" /\ worker'.pc \in {"giveup", "read"} /\ worker'.id = c
        BY <1>6, <2>1, <3>2, CountReadingDid
      <4> QED BY <2>1, <4>1
    <3> QED BY <3>1, <3>2
  <2> QED BY <1>2, <2>2, DoneIsInPass DEF PassInv, InPass, Before, Reading
<1>7. CASE ReadPhotograph
  <2>1. worker.id \in Books
    BY <1>7, InHandIs DEF ReadPhotograph, ReadSlot, Nothing
  <2>2. /\ worker.pc = "read" /\ worker.id = b
        /\ \/ worker'.pc = "fail" /\ worker'.note # ""
           \/ worker'.pc \in {"stated", "read"}
    BY <1>7, <2>1, ReadPhotographDid
  <2> QED BY <1>2, <2>2 DEF PassInv, InPass, Before, Reading
<1>8. CASE ReadOverlay
  <2>1. worker.id \in Books
    BY <1>8, InHandIs DEF ReadOverlay, Nothing
  <2>2. worker.pc = "stated" /\ worker.id = b /\ worker'.pc = "write"
    BY <1>8, <2>1, ReadOverlayDid
  <2> QED BY <1>2, <2>2 DEF PassInv, InPass, Before, Reading
<1>9. CASE Recheck
  <2>1. worker.id \in Books
    BY <1>9, InHandIs DEF Recheck, Nothing
  <2>2. worker' = Processed \/ (worker'.pc = "recheckPhotos" /\ worker'.read = row[b].analysed)
    BY <1>9, <2>1, RecheckDid
  <2> QED BY <1>2, <2>2, DoneIsInPass DEF InPass, Before, Reading
<1>10. CASE RecheckPhotographs
  <2>1. worker.id \in Books
    BY <1>10, InHandIs DEF RecheckPhotographs, Nothing
  <2>2. CASE worker' = Processed
    BY <2>2, DoneIsInPass
  <2>3. CASE worker' # Processed
    <3>1. /\ worker.pc = "recheckPhotos" /\ worker.id = b /\ worker'.pc = "repend"
          /\ ~(Photographed(shot[b]) \subseteq worker.read)
      BY <1>10, <2>1, <2>3, RecheckPhotographsDid
    <3>2. Unread(b) # {}
      BY <3>1 DEF PassInv, InPass, Unread
    <3> QED BY <1>2, <3>1, <3>2 DEF InPass, Before, Reading
  <2> QED BY <2>2, <2>3
<1>11. CASE StatementFails \/ Restart
  <2>1. worker' = Looking("idle") \/ (worker'.pc = "fail" /\ worker'.note = "error")
    BY <1>11, FaultDid
  <2> QED BY <2>1, DoneIsInPass DEF InPass, Before, Reading, Nothing
<1> QED BY <1>3, <1>4, <1>5, <1>6, <1>7, <1>8, <1>9, <1>10, <1>11

LEMMA WritesKeepPassInv ==
  ASSUME Typed, PassInv,
         SettleNothingNew \/ GiveUpOn \/ WriteReading \/ Repend \/ FailReading
  PROVE  PassInv'
<1>1. PICK b \in Books : b = worker.id
  BY InHandIs DEF SettleNothingNew, GiveUpOn, WriteReading, Repend, FailReading, Nothing
<1>2. /\ \A c \in Books \ {b} : Still(c)
      /\ \/ Still(b) \/ state'[b] # "absent"
      /\ worker' = Processed \/ worker'.pc = "recheck"
  <2>1. CASE SettleNothingNew
    BY <1>1, <2>1, SettleNothingNewDid DEF Outcome, Still, SameRow
  <2>2. CASE GiveUpOn
    BY <1>1, <2>2, GiveUpOnDid
  <2>3. CASE WriteReading
    BY <1>1, <2>3, WriteReadingDid DEF Outcome
  <2>4. CASE Repend
    BY <1>1, <2>4, RependDid DEF Still, SameRow
  <2>5. CASE FailReading
    BY <1>1, <2>5, FailReadingDid
  <2> QED BY <2>1, <2>2, <2>3, <2>4, <2>5
<1>3. Unborn'
  BY <1>2, WorkerKeepsUnborn DEF PassInv
<1>4. \A c \in Books : InPass(c)'
  BY <1>2, DoneIsInPass DEF InPass, Before, Reading
<1> QED BY <1>3, <1>4 DEF PassInv

\* One step, seen as the people's, the worker's or nobody's.
LEMMA WhoseStep ==
  ASSUME [Next]_vars
  PROVE  \/ PeopleAct
         \/ Drain \/ NextPending \/ NothingPending \/ LoadPhotographs \/ CountReading
         \/ ReadPhotograph \/ ReadOverlay \/ Recheck \/ RecheckPhotographs \/ Derive
         \/ StatementFails \/ Restart
         \/ SettleNothingNew \/ GiveUpOn \/ WriteReading \/ Repend \/ FailReading
         \/ UNCHANGED vars
BY DEF Next, PeopleAct, WorkerStep

LEMMA NextKeepsPassInv == Typed /\ PassInv /\ [Next]_vars => PassInv'
<1> SUFFICES ASSUME Typed, PassInv, [Next]_vars PROVE PassInv'
  OBVIOUS
<1>1. CASE PeopleAct
  BY <1>1, PeopleStep, PeopleKeepPassInv DEF PassInv
<1>2. CASE UNCHANGED vars
  BY <1>2 DEF vars, PassInv, Unborn, InPass, Settled, Unread
<1> QED BY <1>1, <1>2, WhoseStep, LooksKeepPassInv, WritesKeepPassInv

-----------------------------------------------------------------------------
(* What is called read has been before the reader *)

OfferInv ==
  /\ ReadMeansOffered
  /\ worker.id \in Books => \A s \in worker.analysed : offered[worker.id][s] > 0
  /\ \A s \in worker.todo : worker.photos[s] > 0

LEMMA InitOfferInv == Init => OfferInv
<1> SUFFICES ASSUME Init PROVE OfferInv
  OBVIOUS
<1>1. worker.id \notin Books /\ worker.todo = {}
  BY IdleAtFirst
<1>2. PICK old \in [Books -> SUBSET Slots] :
        /\ \A b \in Books : row[b].analysed = old[b]
        /\ offered = [b \in Books |-> [s \in Slots |-> IF s \in old[b] THEN 1 ELSE 0]]
  BY ReadAtFirst
<1>3. ReadMeansOffered
  <2> SUFFICES ASSUME NEW b \in Books, NEW s \in row[b].analysed PROVE offered[b][s] > 0
    BY DEF ReadMeansOffered
  <2>1. s \in old[b] /\ s \in Slots /\ offered[b] = [z \in Slots |-> IF z \in old[b] THEN 1 ELSE 0]
    BY <1>2
  <2> QED BY <2>1
<1> QED BY <1>1, <1>3 DEF OfferInv

\* Nobody is read any further, and nothing is taken out of what was offered.
LEMMA OfferedStays ==
  ASSUME OfferInv,
         \A b \in Books : row'[b].analysed \subseteq row[b].analysed,
         \A b \in Books, s \in Slots : offered[b][s] > 0 => offered'[b][s] > 0,
         \A b \in Books : row[b].analysed \subseteq Slots
  PROVE  ReadMeansOffered'
BY DEF OfferInv, ReadMeansOffered

\* The worker has let the capture go, and the lists that went with it.
LEMMA NothingInHand ==
  ASSUME worker' = Processed \/ \E pc : worker' = Looking(pc)
  PROVE  worker'.analysed = {} /\ worker'.todo = {}
BY ProcessedIs, LookingIs

LEMMA NextKeepsOfferInv == Typed /\ PassInv /\ OfferInv /\ [Next]_vars => OfferInv'
<1> SUFFICES ASSUME Typed, PassInv, OfferInv, [Next]_vars PROVE OfferInv'
  OBVIOUS
<1>0. /\ worker.analysed \subseteq Slots /\ worker.todo \subseteq Slots
      /\ \A b \in Books : row[b].analysed \subseteq Slots
      /\ offered \in [Books -> [Slots -> Nat]]
  BY DEF Typed, TypeOK, Worker, Row
<1>1. CASE PeopleAct
  <2>1. PeopleDid
    BY <1>1, PeopleStep DEF PassInv
  <2>2. ReadMeansOffered'
    BY <1>0, <2>1, UnreadGrows, OfferedStays DEF PeopleDid
  <2> QED BY <2>1, <2>2 DEF OfferInv, PeopleDid, SameTask
<1>2. CASE UNCHANGED vars
  BY <1>2 DEF vars, OfferInv, ReadMeansOffered
<1>3. ASSUME \/ Drain \/ NextPending \/ NothingPending \/ LoadPhotographs \/ CountReading
             \/ ReadPhotograph \/ ReadOverlay \/ Recheck \/ RecheckPhotographs \/ Derive
             \/ StatementFails \/ Restart,
             offered' = offered
      PROVE  ReadMeansOffered'
  BY <1>0, <1>3, LooksOnly, OfferedStays DEF Still, SameRow
<1>4. CASE Drain \/ NothingPending \/ Derive
  <2>1. offered' = offered
    BY <1>4 DEF Drain, NothingPending, Derive, Elsewhere, history
  <2>2. worker' = worker \/ \E pc : worker' = Looking(pc)
    BY <1>4 DEF Drain, NothingPending, Derive
  <2> QED BY <1>3, <1>4, <2>1, <2>2, NothingInHand DEF OfferInv
<1>5. CASE NextPending
  <2>1. ReadMeansOffered' /\ offered' = offered /\ worker'.todo = {}
    BY <1>3, <1>5, NextPendingDid
  <2>2. worker'.analysed = {} \/ \E b \in Books : worker'.id = b /\ worker'.analysed = row[b].analysed
    BY <1>5, NextPendingDid
  <2> QED BY <2>1, <2>2 DEF OfferInv, ReadMeansOffered
<1>6. CASE LoadPhotographs
  <2>1. PICK b \in Books : b = worker.id
    BY <1>6, InHandIs DEF LoadPhotographs, Nothing
  <2>2. /\ offered' = offered /\ worker'.id = b /\ worker'.analysed = worker.analysed
        /\ worker'.photos = shot[b] /\ worker'.todo \subseteq Photographed(shot[b])
    BY <1>6, <2>1, LoadPhotographsDid
  <2> QED BY <1>3, <1>6, <2>1, <2>2 DEF OfferInv, Photographed
<1>7. CASE CountReading \/ ReadOverlay \/ Recheck \/ RecheckPhotographs
  <2>1. PICK b \in Books : b = worker.id
    BY <1>7, InHandIs DEF CountReading, ReadOverlay, Recheck, RecheckPhotographs, Nothing
  <2>2. /\ offered' = offered
        /\ \/ worker' = Processed
           \/ /\ worker'.id = b /\ worker'.analysed = worker.analysed
              /\ worker'.todo = worker.todo /\ worker'.photos = worker.photos
    BY <1>7, <2>1, CountReadingDid, ReadOverlayDid, RecheckDid, RecheckPhotographsDid
  <2> QED BY <1>3, <1>7, <2>1, <2>2, NothingInHand DEF OfferInv
<1>8. CASE ReadPhotograph
  <2>1. PICK b \in Books : b = worker.id
    BY <1>8, InHandIs DEF ReadPhotograph, ReadSlot, Nothing
  <2>2. PICK s \in worker.todo :
          /\ worker'.id = b /\ worker'.photos = worker.photos /\ worker'.todo = worker.todo \ {s}
          /\ \/ worker'.analysed = worker.analysed /\ offered' = offered
             \/ /\ worker'.analysed = worker.analysed \cup {s}
                /\ offered' = [offered EXCEPT ![b] = [@ EXCEPT ![s] = worker.photos[s]]]
    BY <1>8, <2>1, ReadPhotographDid
  <2>3. worker.photos[s] > 0
    BY DEF OfferInv
  <2>4. /\ \A c \in Books, z \in Slots : offered[c][z] > 0 => offered'[c][z] > 0
        /\ \A z \in worker'.analysed : z \in worker.analysed \/ offered'[b][z] > 0
    BY <1>0, <2>2, <2>3
  <2>5. ReadMeansOffered'
    BY <1>0, <1>8, <2>4, LooksOnly, OfferedStays DEF Still, SameRow
  <2> QED BY <1>0, <2>1, <2>2, <2>4, <2>5 DEF OfferInv
<1>9. CASE StatementFails \/ Restart
  <2>1. /\ offered' = offered
        /\ \/ worker' = Looking("idle")
           \/ /\ worker'.id = worker.id /\ worker'.analysed = worker.analysed
              /\ worker'.todo = worker.todo /\ worker'.photos = worker.photos
    BY <1>9, FaultDid
  <2> QED BY <1>3, <1>9, <2>1, NothingInHand DEF OfferInv
<1>10. CASE SettleNothingNew \/ Repend
  <2>1. PICK b \in Books : b = worker.id
    BY <1>10, InHandIs DEF SettleNothingNew, Repend, Nothing
  <2>2. row' = row /\ offered' = offered /\ worker' = Processed
    BY <1>10, <2>1, SettleNothingNewDid, RependDid
  <2> QED BY <2>2, NothingInHand DEF OfferInv, ReadMeansOffered
<1>11. CASE GiveUpOn
  <2>1. PICK b \in Books : b = worker.id
    BY <1>11, InHandIs DEF GiveUpOn, Nothing
  <2>2. worker' = Processed /\ \A c \in Books \ {b} : Still(c)
    BY <1>11, <2>1, GiveUpOnDid
  <2>3. ReadMeansOffered'
    <3>1. CASE Still(b) /\ offered' = offered
      BY <1>0, <2>2, <3>1, OfferedStays DEF Still, SameRow
    <3>2. CASE ~(Still(b) /\ offered' = offered)
      <4>1. /\ row'[b].analysed = worker.analysed \cup worker.todo
            /\ \A c \in Books \ {b} : offered'[c] = offered[c]
            /\ \A s \in Slots : offered'[b][s] =
                 IF s \in worker.todo THEN worker.photos[s] ELSE offered[b][s]
        BY <1>11, <2>1, <3>2, GiveUpOnDid
      <4>2. \A s \in row'[b].analysed : offered'[b][s] > 0
        BY <1>0, <2>1, <4>1 DEF OfferInv
      <4>3. \A c \in Books \ {b} : \A s \in row'[c].analysed : offered'[c][s] > 0
        BY <2>2, <4>1 DEF OfferInv, ReadMeansOffered, Still, SameRow
      <4> QED BY <4>2, <4>3 DEF ReadMeansOffered
    <3> QED BY <3>1, <3>2
  <2> QED BY <2>2, <2>3, NothingInHand DEF OfferInv
<1>12. CASE WriteReading \/ FailReading
  <2>1. PICK b \in Books : b = worker.id
    BY <1>12, InHandIs DEF WriteReading, FailReading, Nothing
  <2>2. /\ offered' = offered /\ \A c \in Books \ {b} : Still(c)
        /\ Still(b) \/ row'[b].analysed = worker.analysed
        /\ worker' = Processed
           \/ (worker'.id = b /\ worker'.analysed = worker.analysed /\ worker'.todo = {})
    BY <1>12, <2>1, WriteReadingDid, FailReadingDid
  <2>3. ReadMeansOffered'
    <3>1. \A s \in row'[b].analysed : offered[b][s] > 0
      BY <2>1, <2>2 DEF OfferInv, ReadMeansOffered, Still, SameRow
    <3>2. \A c \in Books \ {b} : \A s \in row'[c].analysed : offered[c][s] > 0
      BY <2>2 DEF OfferInv, ReadMeansOffered, Still, SameRow
    <3> QED BY <2>2, <3>1, <3>2 DEF ReadMeansOffered
  <2> QED BY <2>1, <2>2, <2>3, NothingInHand DEF OfferInv
<1> QED BY <1>1, <1>2, <1>4, <1>5, <1>6, <1>7, <1>8, <1>9, <1>10, <1>11, <1>12, WhoseStep

LEMMA PassAlways == Spec => [](Typed /\ PassInv)
BY InitTyped, StepTyped, InitPassInv, NextKeepsPassInv, PTL DEF Spec

\* `analysed_slots`: whatever the shutter, faults and restarts do to a pass, a slot
\* is only called read once the reader has been through a photograph of it.
THEOREM ReadHasBeenOffered == Spec => []ReadMeansOffered
<1>1. OfferInv => ReadMeansOffered
  BY DEF OfferInv
<1> QED BY <1>1, PassAlways, InitOfferInv, NextKeepsOfferInv, PTL DEF Spec
-----------------------------------------------------------------------------
(* A settled capture has been read *)

\* A capture that waits has something to be read.  It is so of a queue that starts
\* empty, and of every capture the shutter or "read it again" puts into it: a row
\* that came through a migration as pending with nothing unread is the exception.
PendingIsUnread == \A b \in Books : state[b] = "scanned" => Unread(b) # {}
QueuedIsPhotographed == \A b \in Books : state[b] \in Queued => Photographed(shot[b]) # {}

\* The reading of b has begun and has not ended: its outcome may still be undone.
Busy(b) == worker.id = b /\ worker.pc \notin Nothing \cup {"derive"}
Clean(b) == row[b].note = ""

\* What the pass knows of the book in its hand, on its way to and from the write.
InReading(b) ==
  /\ worker.pc = "photos" => ~(Photographed(shot[b]) \subseteq worker.analysed)
  /\ worker.pc # "settle"
  /\ worker.pc = "recheckPhotos" /\ Settled(b) => worker.read \subseteq row[b].analysed
  /\ worker.pc = "fail" /\ Settled(b) => spent.faults >= 1

Harmless == spent.crashes = 0 /\ spent.faults < 2
LeftRead(b) == Settled(b) /\ Clean(b) /\ ~Busy(b) => Unread(b) = {}

ReadInv ==
  /\ PendingIsUnread /\ QueuedIsPhotographed
  /\ worker.id \in Books => InReading(worker.id)
  /\ Harmless => \A b \in Books : LeftRead(b)

LEMMA InitReadInv == PendingIsUnread /\ Init => ReadInv
<1> SUFFICES ASSUME PendingIsUnread, Init PROVE ReadInv
  OBVIOUS
<1>1. \A b \in Books : state[b] \in {"scanned", "absent"}
  BY DEF Init
<1>2. QueuedIsPhotographed
  BY <1>1 DEF QueuedIsPhotographed, PendingIsUnread, Queued, Unread
<1>3. \A b \in Books : LeftRead(b)
  BY <1>1 DEF LeftRead, Settled, Queued
<1> QED BY <1>2, <1>3, IdleAtFirst DEF ReadInv

LEMMA PeopleKeepReadInv ==
  ASSUME ReadInv, PeopleDid
  PROVE  ReadInv'
<1>1. ASSUME NEW b \in Books
      PROVE  /\ state'[b] = "scanned" => Unread(b)' # {}
             /\ state'[b] \in Queued => Photographed(shot'[b]) # {}
  <2>0. /\ state[b] = "scanned" => Unread(b) # {}
        /\ state[b] \in Queued => Photographed(shot[b]) # {}
    BY DEF ReadInv, PendingIsUnread, QueuedIsPhotographed
  <2>1. CASE Still(b)
    BY <2>0, <2>1 DEF Still, SameRow, Unread
  <2>2. CASE SentBack(b)
    BY <2>0, <2>2 DEF SentBack, Unread
  <2>3. CASE TakenOut(b)
    BY <2>3 DEF TakenOut, Gone, Queued
  <2>4. CASE Corrected(b)
    BY <2>0, <2>4 DEF Corrected, Settled, Queued, Unread
  <2> QED BY <2>1, <2>2, <2>3, <2>4 DEF PeopleDid
<1>2. ASSUME NEW b \in Books, Settled(b)'
      PROVE  /\ Settled(b) /\ row'[b].analysed = row[b].analysed /\ (Clean(b)' <=> Clean(b))
             /\ Unread(b)' = Unread(b)
  BY <1>2, OnlyTheWorkerSettles DEF PeopleDid, Clean, Unread
<1>3. ASSUME NEW b \in Books, worker'.id = b
      PROVE  InReading(b)'
  <2>1. InReading(b) /\ SameTask /\ spent'.faults = spent.faults
    BY <1>3 DEF ReadInv, PeopleDid, SameTask
  <2>2. Photographed(shot[b]) \subseteq Photographed(shot'[b])
    BY UnreadGrows DEF PeopleDid
  <2> QED BY <1>2, <2>1, <2>2 DEF InReading, SameTask
<1>4. Harmless' => \A b \in Books : LeftRead(b)'
  BY <1>2 DEF ReadInv, Harmless, LeftRead, Busy, PeopleDid, SameTask
<1> QED BY <1>1, <1>3, <1>4 DEF ReadInv, PendingIsUnread, QueuedIsPhotographed

\* A step that leaves the rows alone keeps what is said of them, and has only the
\* book in hand to answer for.
LEMMA LookingKeepsRows ==
  ASSUME ReadInv, \A c \in Books : Still(c)
  PROVE  /\ PendingIsUnread' /\ QueuedIsPhotographed'
         /\ \A c \in Books : /\ Settled(c)' <=> Settled(c)
                             /\ Clean(c)' <=> Clean(c)
                             /\ Unread(c)' = Unread(c)
<1>1. \A c \in Books : /\ Settled(c)' <=> Settled(c)
                       /\ Clean(c)' <=> Clean(c)
                       /\ Unread(c)' = Unread(c)
                       /\ state'[c] = state[c] /\ shot'[c] = shot[c]
  BY DEF Still, SameRow, Settled, Clean, Unread
<1> QED BY <1>1 DEF ReadInv, PendingIsUnread, QueuedIsPhotographed

\* Nothing has moved: what is said of the book in hand still is.
LEMMA SameInHand ==
  ASSUME ReadInv, worker' = worker, spent' = spent, \A c \in Books : Still(c)
  PROVE  /\ \A c \in Books : worker'.id = c => InReading(c)'
         /\ \A c \in Books : Busy(c)' <=> Busy(c)
<1>1. ASSUME NEW c \in Books, worker'.id = c PROVE InReading(c)'
  <2>1. InReading(c) /\ (Settled(c)' <=> Settled(c)) /\ shot'[c] = shot[c]
        /\ row'[c].analysed = row[c].analysed
    BY <1>1 DEF ReadInv, Still, SameRow, Settled
  <2> QED BY <2>1 DEF InReading
<1> QED BY <1>1 DEF Busy

\* The reading of b has ended, and nothing else has changed hands.
LEMMA LetGoUnqueued ==
  ASSUME worker' = Processed
  PROVE  /\ \A c \in Books : worker'.id = c => InReading(c)'
         /\ \A c \in Books : Busy(c) => worker.id = c
BY ProcessedIs DEF InReading, Busy

LEMMA LooksKeepReadInv ==
  ASSUME Typed, PassInv, ReadInv,
         \/ Drain \/ NextPending \/ NothingPending \/ LoadPhotographs \/ CountReading
         \/ ReadPhotograph \/ ReadOverlay \/ Recheck \/ RecheckPhotographs \/ Derive
         \/ StatementFails \/ Restart
  PROVE  ReadInv'
<1>0. \A c \in Books : Still(c)
  BY LooksOnly
<1>1. /\ PendingIsUnread' /\ QueuedIsPhotographed'
      /\ \A c \in Books : /\ Settled(c)' <=> Settled(c)
                          /\ Clean(c)' <=> Clean(c)
                          /\ Unread(c)' = Unread(c)
  BY <1>0, LookingKeepsRows
<1>2. ASSUME \A c \in Books : worker'.id = c => InReading(c)',
             Harmless' => Harmless,
             Harmless' => \A c \in Books : Busy(c) /\ ~Busy(c)' /\ Settled(c) /\ Clean(c)
                                           => Unread(c) = {}
      PROVE  ReadInv'
  <2>1. Harmless' => \A c \in Books : LeftRead(c)'
    BY <1>1, <1>2 DEF ReadInv, LeftRead
  <2> QED BY <1>1, <1>2, <2>1 DEF ReadInv
<1>3. CASE Drain \/ NothingPending \/ Derive
  <2>0. spent' = spent
    BY <1>3 DEF Drain, NothingPending, Derive, Elsewhere
  <2>1. Harmless' <=> Harmless
    BY <2>0 DEF Harmless
  <2>2. CASE worker' = worker
    BY <1>0, <1>2, <2>0, <2>1, <2>2, SameInHand
  <2>3. CASE worker' # worker
    <3>1. \E pc \in Nothing : worker' = Looking(pc)
      BY <1>3, <2>3 DEF Drain, NothingPending, Derive, Nothing
    <3>2. worker.pc \in Nothing \cup {"derive"}
      BY <1>3, <2>3 DEF Drain, NothingPending, Derive, Nothing
    <3>3. worker'.id \notin Books
      BY <3>1, LookingIs
    <3>4. \A c \in Books : worker'.id # c /\ ~Busy(c)
      BY <3>2, <3>3 DEF Busy
    <3> QED BY <1>2, <2>1, <3>4
  <2> QED BY <2>2, <2>3
<1>4. CASE NextPending
  <2>1. (Harmless' <=> Harmless) /\ worker.pc \in Nothing
    BY <1>4, NextPendingDid DEF Harmless, NextPending, Nothing
  <2>2. ASSUME NEW b \in Books, worker'.id = b PROVE InReading(b)'
    <3>1. /\ worker'.pc = "photos" /\ state[b] = "scanned" /\ worker'.analysed = row[b].analysed
          /\ shot'[b] = shot[b]
      BY <1>0, <1>4, <2>2, NextPendingDid, LookingIs DEF Still
    <3>2. Unread(b) # {}
      BY <3>1 DEF ReadInv, PendingIsUnread
    <3> QED BY <3>1, <3>2 DEF InReading, Unread
  <2> QED BY <1>2, <2>1, <2>2 DEF Busy
<1>5. CASE LoadPhotographs
  <2>1. PICK b \in Books : b = worker.id
    BY <1>5, InHandIs DEF LoadPhotographs, Nothing
  <2>2. worker.pc = "photos" /\ InReading(b)
    BY <1>5, <2>1 DEF LoadPhotographs, ReadInv
  <2>3. worker'.id = b /\ worker'.pc = "count" /\ (Harmless' <=> Harmless)
    BY <1>5, <2>1, <2>2, LoadPhotographsDid DEF InReading, Harmless
  <2> QED BY <1>2, <2>1, <2>3 DEF InReading, Busy, Nothing
<1>6. CASE CountReading \/ Recheck
  <2>1. PICK b \in Books : b = worker.id
    BY <1>6, InHandIs DEF CountReading, Recheck, Nothing
  <2>2. /\ Harmless' <=> Harmless
        /\ \/ state[b] \notin Queued /\ worker' = Processed
           \/ worker'.id = b /\ worker'.pc \in {"giveup", "read"}
           \/ worker'.id = b /\ worker'.pc = "recheckPhotos" /\ worker'.read = row[b].analysed
    BY <1>6, <2>1, CountReadingDid, RecheckDid DEF Harmless
  <2>3. CASE worker' = Processed
    <3>1. ~Settled(b)
      BY <2>2, <2>3, ProcessedIs DEF Settled
    <3> QED BY <1>2, <2>1, <2>2, <2>3, <3>1, LetGoUnqueued
  <2>4. CASE worker' # Processed
    <3>1. row'[b].analysed = row[b].analysed
      BY <1>0 DEF Still, SameRow
    <3> QED BY <1>2, <2>1, <2>2, <2>4, <3>1 DEF InReading, Busy, Nothing
  <2> QED BY <2>3, <2>4
<1>7. CASE ReadPhotograph \/ ReadOverlay
  <2>1. PICK b \in Books : b = worker.id
    BY <1>7, InHandIs DEF ReadPhotograph, ReadSlot, ReadOverlay, Nothing
  <2>2. /\ Harmless' <=> Harmless
        /\ worker'.id = b /\ worker'.pc \in {"fail", "stated", "read", "write"}
        /\ worker.pc \in Before
    BY <1>7, <2>1, ReadPhotographDid, ReadOverlayDid DEF Harmless, Before
  <2>3. ~Settled(b)
    BY <2>1, <2>2 DEF PassInv, InPass
  <2> QED BY <1>1, <1>2, <2>1, <2>2, <2>3 DEF InReading, Busy, Nothing
<1>8. CASE RecheckPhotographs
  <2>1. PICK b \in Books : b = worker.id
    BY <1>8, InHandIs DEF RecheckPhotographs, Nothing
  <2>2. /\ Harmless' <=> Harmless
        /\ worker.pc = "recheckPhotos"
        /\ \/ Photographed(shot[b]) \subseteq worker.read /\ worker' = Processed
           \/ worker'.id = b /\ worker'.pc = "repend"
    BY <1>8, <2>1, RecheckPhotographsDid DEF Harmless
  <2>3. worker' = Processed /\ Settled(b) => Unread(b) = {}
    <3> SUFFICES ASSUME worker' = Processed, Settled(b) PROVE Unread(b) = {}
      OBVIOUS
    <3>1. worker'.pc # "repend"
      BY ProcessedIs
    <3>2. InReading(b) /\ Photographed(shot[b]) \subseteq worker.read
      BY <2>1, <2>2, <3>1 DEF ReadInv
    <3> QED BY <2>2, <3>2 DEF InReading, Unread
  <2>4. CASE worker' = Processed
    BY <1>2, <2>1, <2>2, <2>3, <2>4, LetGoUnqueued
  <2>5. CASE worker' # Processed
    BY <1>2, <2>1, <2>2, <2>5 DEF InReading, Busy, Nothing
  <2> QED BY <2>4, <2>5
<1>9. CASE StatementFails \/ Restart
  <2>0. spent.crashes \in Nat /\ spent.faults \in Nat
    BY DEF Typed, TypeOK, Budget
  <2>1. CASE worker' = Looking("idle")
    <3>1. worker'.id \notin Books
      BY <2>1, LookingIs
    <3>2. Harmless' => Harmless /\ (worker.pc \in {"query", "photos"} \/ (worker.pc = "fail" /\ spent.faults = 0))
      <4>1. worker'.pc # "fail"
        BY <2>1, LookingIs
      <4>2. \/ /\ worker.pc \in {"query", "photos", "fail"}
               /\ spent'.crashes = spent.crashes /\ spent'.faults = spent.faults + 1
            \/ spent'.crashes = spent.crashes + 1
        BY <1>9, <4>1, FaultDid
      <4>3. ASSUME Harmless' PROVE spent.crashes = 0 /\ spent.faults = 0 /\ worker.pc \in {"query", "photos", "fail"}
        BY <2>0, <4>2, <4>3 DEF Harmless
      <4> QED BY <4>3 DEF Harmless
    <3>3. ASSUME Harmless', NEW c \in Books, Busy(c), Settled(c) PROVE FALSE
      <4>1. worker.id = c /\ InPass(c) /\ InReading(c)
        BY <3>3 DEF Busy, PassInv, ReadInv
      <4>2. CASE worker.pc = "query"
        BY <3>3, <4>2 DEF Busy, Nothing
      <4>3. CASE worker.pc = "photos"
        BY <3>3, <4>1, <4>3 DEF InPass, Before
      <4>4. CASE worker.pc = "fail" /\ spent.faults = 0
        BY <3>3, <4>1, <4>4 DEF InReading
      <4> QED BY <3>2, <3>3, <4>2, <4>3, <4>4
    <3> QED BY <1>2, <3>1, <3>2, <3>3
  <2>2. CASE worker' # Looking("idle")
    <3>1. /\ worker'.pc = "fail" /\ worker'.id = worker.id /\ worker.pc \notin Nothing \cup {"derive"}
          /\ spent'.faults = spent.faults + 1 /\ spent'.crashes = spent.crashes
      BY <1>9, <2>2, FaultDid DEF Nothing
    <3>2. (Harmless' => Harmless) /\ spent'.faults >= 1
      BY <2>0, <3>1 DEF Harmless
    <3> QED BY <1>2, <3>1, <3>2 DEF InReading, Busy, Nothing
  <2> QED BY <2>1, <2>2
<1> QED BY <1>3, <1>4, <1>5, <1>6, <1>7, <1>8, <1>9

LEMMA WritesKeepReadInv ==
  ASSUME Typed, PassInv, ReadInv,
         SettleNothingNew \/ GiveUpOn \/ WriteReading \/ Repend \/ FailReading
  PROVE  ReadInv'
<1>1. PICK b \in Books : b = worker.id
  BY InHandIs DEF SettleNothingNew, GiveUpOn, WriteReading, Repend, FailReading, Nothing
<1>2. ~SettleNothingNew
  BY <1>1 DEF ReadInv, InReading, SettleNothingNew
<1>3. /\ \A c \in Books \ {b} : Still(c)
      /\ spent' = spent /\ shot' = shot
      /\ worker' = Processed \/ (worker'.pc = "recheck" /\ worker'.id = b)
  BY <1>1, <1>2, GiveUpOnDid, WriteReadingDid, RependDid, FailReadingDid
<1>4. /\ state'[b] = "scanned" => Unread(b)' # {}
      /\ state'[b] \in Queued => state[b] \in Queued
      /\ worker' = Processed /\ Settled(b)' => ~Clean(b)'
  <2>1. CASE GiveUpOn
    <3>1. \/ state'[b] \notin Queued
          \/ state[b] \in Queued /\ state'[b] = "unidentified" /\ ~Clean(b)'
      BY <1>1, <2>1, GiveUpOnDid DEF Still, Clean
    <3> QED BY <3>1 DEF Settled, Queued
  <2>2. CASE WriteReading
    <3>1. worker' # Processed
      BY <1>1, <2>2, WriteReadingDid, ProcessedIs
    <3>2. \/ state'[b] \notin Queued
          \/ state[b] \in Queued /\ state'[b] # "scanned"
      BY <1>1, <2>2, WriteReadingDid DEF Still, Outcome
    <3> QED BY <3>1, <3>2 DEF Queued
  <2>3. CASE Repend
    <3>1. Unread(b) # {} /\ row' = row
      BY <1>1, <2>3, RependDid DEF PassInv, InPass
    <3>2. state'[b] = IF state[b] \in Queued THEN "scanned" ELSE state[b]
      BY <1>1, <2>3, RependDid
    <3> QED BY <1>3, <3>1, <3>2 DEF Unread, Settled, Queued
  <2>4. CASE FailReading
    <3>1. worker.note # ""
      BY <1>1, <2>4, FailReadingDid DEF PassInv, InPass
    <3>2. \/ state'[b] \notin Queued
          \/ state[b] \in Queued /\ state'[b] = "unidentified" /\ ~Clean(b)'
      BY <1>1, <2>4, <3>1, FailReadingDid DEF Still, Clean
    <3> QED BY <3>2 DEF Settled, Queued
  <2> QED BY <1>2, <2>1, <2>2, <2>3, <2>4
<1>5. \A c \in Books \ {b} : /\ Settled(c)' <=> Settled(c)
                             /\ Clean(c)' <=> Clean(c)
                             /\ Unread(c)' = Unread(c) /\ state'[c] = state[c]
  BY <1>3 DEF Still, SameRow, Settled, Clean, Unread
<1>6. PendingIsUnread' /\ QueuedIsPhotographed'
  BY <1>3, <1>4, <1>5 DEF ReadInv, PendingIsUnread, QueuedIsPhotographed
<1>7. ASSUME NEW c \in Books, worker'.id = c PROVE InReading(c)'
  BY <1>3, ProcessedIs DEF InReading
<1>8. ASSUME Harmless', NEW c \in Books PROVE LeftRead(c)'
  <2>1. Harmless
    BY <1>3, <1>8 DEF Harmless
  <2>2. CASE c = b
    <3>1. CASE worker' = Processed
      BY <1>4, <2>2, <3>1 DEF LeftRead
    <3>2. CASE worker' # Processed
      BY <1>3, <2>2, <3>2 DEF LeftRead, Busy, Nothing
    <3> QED BY <3>1, <3>2
  <2>3. CASE c # b
    <3>1. ~Busy(c)
      BY <1>1, <2>3 DEF Busy
    <3> QED BY <1>5, <1>8, <2>1, <2>3, <3>1 DEF ReadInv, LeftRead
  <2> QED BY <2>2, <2>3
<1> QED BY <1>6, <1>7, <1>8 DEF ReadInv

LEMMA NextKeepsReadInv == Typed /\ PassInv /\ ReadInv /\ [Next]_vars => ReadInv'
<1> SUFFICES ASSUME Typed, PassInv, ReadInv, [Next]_vars PROVE ReadInv'
  OBVIOUS
<1>1. CASE PeopleAct
  BY <1>1, PeopleStep, PeopleKeepReadInv DEF PassInv
<1>2. CASE UNCHANGED vars
  BY <1>2 DEF vars, ReadInv, PendingIsUnread, QueuedIsPhotographed, InReading, Harmless,
     LeftRead, Busy, Clean, Settled, Unread
<1> QED BY <1>1, <1>2, WhoseStep, LooksKeepReadInv, WritesKeepReadInv

\* `process` and the recheck after its write: however the shutter, a retake, "read
\* it again" or an edit fell across the pass, and even if one statement failed, a
\* capture left settled without a note has had every photograph of it read.
THEOREM SettledCaptureIsRead == PendingIsUnread /\ Spec => []SettledMeansRead
<1>1. ReadInv => SettledMeansRead
  BY DEF ReadInv, SettledMeansRead, Harmless, LeftRead, Busy, Clean
<1> QED BY <1>1, PassAlways, InitReadInv, NextKeepsReadInv, PTL DEF Spec
-----------------------------------------------------------------------------
(* A person beats the worker *)

StatedKept(b) ==
  Settled(b) /\ Clean(b) /\ b \notin raced => IsbnKept(b) /\ (Named(b) => state[b] = "identified")

\* A row that does not show the ISBN somebody stated was written by a reading an
\* edit overtook, and has a photograph that will bring the worker back to it.
Overtaken(b) ==
  /\ state[b] = "scanned" /\ b \notin raced /\ ~IsbnKept(b) => Unread(b) # {}
  /\ state[b] \in Queued /\ ~IsbnKept(b) => Photographed(shot[b]) # {}

\* What the pass has of the overlay of the book in its hand.
InStating(b) ==
  /\ state[b] # "absent"
  /\ worker.pc \in {"photos", "settle", "write"} /\ b \notin raced => worker.stated = row[b].stated
  /\ worker.pc = "photos" /\ b \notin raced /\ state[b] \in Queued /\ ~IsbnKept(b)
       => ~(Photographed(shot[b]) \subseteq worker.analysed)
  /\ worker.pc = "settle" /\ b \notin raced /\ state[b] \in Queued => IsbnKept(b)

StatedInv ==
  /\ \A b \in Books : StatedKept(b) /\ Overtaken(b)
  /\ worker.id \in Books => InStating(worker.id)

LEMMA InitStatedInv == Init => StatedInv
<1> SUFFICES ASSUME Init PROVE StatedInv
  OBVIOUS
<1>1. \A b \in Books : state[b] \in {"scanned", "absent"}
  BY DEF Init
<1>2. \A b \in Books : row[b].stated = {}
  BY ReadAtFirst
<1>3. \A b \in Books : IsbnKept(b)
  BY <1>2 DEF IsbnKept
<1> QED BY <1>1, <1>3, IdleAtFirst DEF StatedInv, StatedKept, Overtaken, Settled, Queued

LEMMA SameOverlay ==
  ASSUME NEW b \in Books, row'[b].stated = row[b].stated, row'[b].isbn = row[b].isbn
  PROVE  (IsbnKept(b)' <=> IsbnKept(b)) /\ (Named(b)' <=> Named(b))
BY DEF IsbnKept, Named

LEMMA PeopleKeepStatedInv ==
  ASSUME StatedInv, PeopleDid
  PROVE  StatedInv'
<1>1. ASSUME NEW b \in Books
      PROVE  /\ StatedKept(b)' /\ Overtaken(b)'
             /\ worker'.id = b => InStating(b)'
  <2>0. /\ StatedKept(b) /\ Overtaken(b) /\ raced \subseteq raced' /\ SameTask
        /\ worker'.id = b => InStating(b) /\ worker.id = b
    BY DEF StatedInv, PeopleDid, SameTask
  <2>1. CASE Still(b)
    <3>1. /\ state'[b] = state[b] /\ shot'[b] = shot[b] /\ row'[b].stated = row[b].stated
          /\ (IsbnKept(b)' <=> IsbnKept(b)) /\ (Named(b)' <=> Named(b))
          /\ (Clean(b)' <=> Clean(b)) /\ Unread(b)' = Unread(b)
      BY <2>1, SameOverlay DEF Still, SameRow, Clean, Unread
    <3> QED BY <2>0, <3>1 DEF StatedKept, Overtaken, InStating, SameTask, Settled
  <2>2. CASE SentBack(b)
    <3>1. /\ IsbnKept(b)' <=> IsbnKept(b)
          /\ row'[b].stated = row[b].stated /\ state'[b] = "scanned"
          /\ Photographed(shot[b]) \subseteq Photographed(shot'[b])
      BY <2>2, SameOverlay DEF SentBack, Widened
    <3>2. StatedKept(b)'
      BY <3>1 DEF StatedKept, Settled
    <3>3. Overtaken(b)'
      BY <2>0, <2>2, <3>1 DEF Overtaken, SentBack, Unread
    <3>4. worker'.id = b => state[b] \in Queued
      BY <2>0, <2>2 DEF SentBack, InStating
    <3> QED BY <2>0, <3>1, <3>2, <3>3, <3>4 DEF InStating, SameTask
  <2>3. CASE TakenOut(b)
    <3>1. state'[b] \notin Queued \cup {"absent"} /\ row'[b].stated = row[b].stated
      BY <2>3 DEF TakenOut, Gone, Queued
    <3> QED BY <2>0, <3>1 DEF StatedKept, Overtaken, InStating, SameTask, Settled, Queued
  <2>4. CASE Corrected(b)
    <3>1. /\ IsbnKept(b)' /\ (LateEdit(b) => b \in raced')
          /\ state[b] # "absent" => state'[b] # "absent"
      BY <2>4 DEF Corrected
    <3>2. Settled(b)' => (Named(b)' => state'[b] = "identified")
      BY <2>4 DEF Corrected, Settled, Queued
    <3> QED BY <2>0, <3>1, <3>2 DEF StatedKept, Overtaken, InStating, SameTask, LateEdit
  <2> QED BY <2>1, <2>2, <2>3, <2>4 DEF PeopleDid
<1> QED BY <1>1 DEF StatedInv

LEMMA LooksKeepStatedInv ==
  ASSUME Typed, PassInv, StatedInv,
         \/ Drain \/ NextPending \/ NothingPending \/ LoadPhotographs \/ CountReading
         \/ ReadPhotograph \/ ReadOverlay \/ Recheck \/ RecheckPhotographs \/ Derive
         \/ StatementFails \/ Restart
  PROVE  StatedInv'
<1>0. \A c \in Books : Still(c)
  BY LooksOnly
<1>1. \A c \in Books : /\ state'[c] = state[c] /\ shot'[c] = shot[c] /\ row'[c].stated = row[c].stated
                       /\ IsbnKept(c)' <=> IsbnKept(c)
                       /\ Named(c)' <=> Named(c)
                       /\ Clean(c)' <=> Clean(c)
                       /\ Unread(c)' = Unread(c)
  BY <1>0, SameOverlay DEF Still, SameRow, Clean, Unread
<1>2. ASSUME raced' = raced, \A c \in Books : worker'.id = c => InStating(c)'
      PROVE  StatedInv'
  BY <1>1, <1>2 DEF StatedInv, StatedKept, Overtaken, Settled
\* The book is no longer in hand, or where the overlay it was read with is not used.
<1>3. ASSUME raced' = raced,
             \/ worker'.id \notin Books
             \/ /\ worker'.id = worker.id
                /\ worker' = worker \/ worker'.pc \notin {"photos", "settle", "write"}
      PROVE  StatedInv'
  <2>1. ASSUME NEW c \in Books, worker'.id = c PROVE InStating(c)'
    <3>1. worker.id = c /\ InStating(c)
      BY <1>3, <2>1 DEF StatedInv
    <3>2. CASE worker' = worker
      BY <1>1, <1>3, <3>1, <3>2 DEF InStating
    <3>3. CASE worker'.pc \notin {"photos", "settle", "write"}
      BY <1>1, <3>1, <3>3 DEF InStating
    <3> QED BY <1>3, <2>1, <3>2, <3>3
  <2> QED BY <1>2, <1>3, <2>1
<1>4. CASE Drain \/ NothingPending \/ Derive
  <2>1. raced' = raced
    BY <1>4 DEF Drain, NothingPending, Derive, Elsewhere, history
  <2>2. CASE worker' = worker
    BY <1>3, <2>1, <2>2
  <2>3. CASE worker' # worker
    <3>1. \E pc \in Nothing : worker' = Looking(pc)
      BY <1>4, <2>3 DEF Drain, NothingPending, Derive, Nothing
    <3>2. worker'.id \notin Books
      BY <3>1, LookingIs
    <3> QED BY <1>3, <2>1, <3>2
  <2> QED BY <2>2, <2>3
<1>5. CASE NextPending
  <2>1. raced' = raced
    BY <1>5, NextPendingDid
  <2>2. ASSUME NEW c \in Books, worker'.id = c PROVE InStating(c)'
    <3>1. /\ worker'.pc = "photos" /\ state[c] = "scanned"
          /\ worker'.analysed = row[c].analysed /\ worker'.stated = row[c].stated
      BY <1>5, <2>2, NextPendingDid, LookingIs
    <3>2. Overtaken(c)
      BY DEF StatedInv
    <3> QED BY <1>1, <2>1, <3>1, <3>2 DEF InStating, Overtaken, Unread
  <2> QED BY <1>2, <2>1, <2>2
<1>6. CASE LoadPhotographs
  <2>1. PICK b \in Books : b = worker.id
    BY <1>6, InHandIs DEF LoadPhotographs, Nothing
  <2>2. InStating(b) /\ worker.pc = "photos"
    BY <1>6, <2>1 DEF StatedInv, LoadPhotographs
  <2>3. /\ raced' = raced /\ worker'.id = b /\ worker'.stated = worker.stated
        /\ worker'.pc \in {"settle", "count"}
        /\ worker'.pc = "settle" => Photographed(shot[b]) \subseteq worker.analysed
    BY <1>6, <2>1, LoadPhotographsDid
  <2>4. InStating(b)'
    BY <1>1, <2>2, <2>3 DEF InStating
  <2> QED BY <1>2, <2>3, <2>4
<1>7. CASE CountReading \/ Recheck \/ RecheckPhotographs \/ ReadPhotograph
  <2>1. PICK b \in Books : b = worker.id
    BY <1>7, InHandIs DEF CountReading, Recheck, RecheckPhotographs, ReadPhotograph, ReadSlot, Nothing
  <2>2. /\ raced' = raced /\ worker'.id = b
        /\ worker'.pc \notin {"photos", "settle", "write"}
    <3>1. CASE CountReading
      BY <2>1, <3>1, CountReadingDid, ProcessedIs
    <3>2. CASE Recheck
      BY <2>1, <3>2, RecheckDid, ProcessedIs
    <3>3. CASE RecheckPhotographs
      BY <2>1, <3>3, RecheckPhotographsDid, ProcessedIs
    <3>4. CASE ReadPhotograph
      BY <2>1, <3>4, ReadPhotographDid
    <3> QED BY <1>7, <3>1, <3>2, <3>3, <3>4
  <2> QED BY <1>3, <2>1, <2>2
<1>8. CASE ReadOverlay
  <2>1. PICK b \in Books : b = worker.id
    BY <1>8, InHandIs DEF ReadOverlay, Nothing
  <2>2. /\ raced' = raced \ {b} /\ worker.pc = "stated" /\ worker'.pc = "write"
        /\ worker'.id = b /\ worker'.stated = row[b].stated
    BY <1>8, <2>1, ReadOverlayDid
  <2>3. InStating(b) /\ ~Settled(b) /\ Unread(b) # {}
    BY <2>1, <2>2 DEF StatedInv, PassInv, InPass, Before, Reading
  <2>4. InStating(b)'
    BY <1>1, <2>2, <2>3 DEF InStating
  <2>5. ASSUME NEW c \in Books PROVE StatedKept(c)' /\ Overtaken(c)'
    <3>1. StatedKept(c) /\ Overtaken(c)
      BY DEF StatedInv
    <3> QED BY <1>1, <2>2, <2>3, <3>1 DEF StatedKept, Overtaken, Settled
  <2> QED BY <2>2, <2>4, <2>5 DEF StatedInv
<1>9. CASE StatementFails \/ Restart
  <2>1. /\ raced' = raced
        /\ worker' = Looking("idle") \/ (worker'.id = worker.id /\ worker'.pc = "fail")
    BY <1>9, FaultDid
  <2>2. worker' = Looking("idle") => worker'.id \notin Books
    BY LookingIs
  <2>3. worker'.pc = "fail" => worker'.pc \notin {"photos", "settle", "write"}
    OBVIOUS
  <2> QED BY <1>3, <2>1, <2>2, <2>3
<1> QED BY <1>4, <1>5, <1>6, <1>7, <1>8, <1>9

LEMMA WritesKeepStatedInv ==
  ASSUME Typed, PassInv, StatedInv,
         SettleNothingNew \/ GiveUpOn \/ WriteReading \/ Repend \/ FailReading
  PROVE  StatedInv'
<1>1. PICK b \in Books : b = worker.id
  BY InHandIs DEF SettleNothingNew, GiveUpOn, WriteReading, Repend, FailReading, Nothing
<1>2. StatedKept(b) /\ Overtaken(b) /\ InStating(b)
  BY <1>1 DEF StatedInv
<1>3. /\ \A c \in Books \ {b} : Still(c)
      /\ raced' = raced /\ shot' = shot
      /\ worker'.id = b /\ worker'.pc \in {"derive", "recheck"}
  <2>1. CASE SettleNothingNew
    BY <1>1, <2>1, SettleNothingNewDid, ProcessedIs
  <2>2. CASE GiveUpOn
    BY <1>1, <2>2, GiveUpOnDid, ProcessedIs
  <2>3. CASE WriteReading
    BY <1>1, <2>3, WriteReadingDid
  <2>4. CASE Repend
    BY <1>1, <2>4, RependDid, ProcessedIs
  <2>5. CASE FailReading
    BY <1>1, <2>5, FailReadingDid, ProcessedIs
  <2> QED BY <2>1, <2>2, <2>3, <2>4, <2>5
<1>4. ASSUME Still(b)
      PROVE  StatedKept(b)' /\ Overtaken(b)' /\ state'[b] # "absent"
  <2>1. /\ state'[b] = state[b] /\ (Clean(b)' <=> Clean(b)) /\ Unread(b)' = Unread(b)
        /\ (IsbnKept(b)' <=> IsbnKept(b)) /\ (Named(b)' <=> Named(b))
    BY <1>4, SameOverlay DEF Still, SameRow, Clean, Unread
  <2> QED BY <1>2, <1>3, <2>1 DEF StatedKept, Overtaken, InStating, Settled
<1>5. StatedKept(b)' /\ Overtaken(b)' /\ state'[b] # "absent"
  <2>1. CASE SettleNothingNew
    <3>1. CASE state[b] # "scanned"
      <4>1. Still(b)
        BY <1>1, <2>1, <3>1, SettleNothingNewDid DEF Still, SameRow
      <4> QED BY <1>4, <4>1
    <3>2. CASE state[b] = "scanned"
      <4>1. /\ row' = row /\ state'[b] = Outcome(row[b].isbn # "" \/ "title" \in worker.stated)
            /\ worker.pc = "settle"
        BY <1>1, <2>1, <3>2, SettleNothingNewDid
      <4>2. b \notin raced => IsbnKept(b) /\ worker.stated = row[b].stated
        BY <1>2, <3>2, <4>1 DEF InStating, Queued
      <4>3. b \notin raced /\ Named(b) => state'[b] = "identified"
        <5> SUFFICES ASSUME b \notin raced, Named(b) PROVE state'[b] = "identified"
          OBVIOUS
        <5>1. row[b].isbn = "stated" \/ "title" \in worker.stated
          BY <4>2 DEF Named, IsbnKept
        <5>2. row[b].isbn # "" \/ "title" \in worker.stated
          BY <5>1, Zenon
        <5> QED BY <4>1, <5>2 DEF Outcome
      <4>4. (IsbnKept(b)' <=> IsbnKept(b)) /\ (Named(b)' <=> Named(b))
        BY <4>1 DEF IsbnKept, Named
      <4>5. state'[b] \in {"identified", "unidentified"}
        BY <4>1 DEF Outcome
      <4>6. Overtaken(b)'
        BY <1>2, <1>3, <3>2, <4>4, <4>5 DEF Overtaken, Queued
      <4> QED BY <1>3, <4>2, <4>3, <4>4, <4>5, <4>6 DEF StatedKept
    <3> QED BY <3>1, <3>2
  <2>2. CASE GiveUpOn \/ FailReading
    <3>1. CASE Still(b)
      BY <1>4, <3>1
    <3>2. CASE ~Still(b)
      <4>1. /\ state[b] \in Queued /\ state'[b] = "unidentified" /\ ~Clean(b)'
            /\ row'[b].stated = row[b].stated /\ row'[b].isbn = row[b].isbn
        <5>1. FailReading => worker.note # ""
          BY <1>1 DEF FailReading, PassInv, InPass
        <5>2. CASE GiveUpOn
          BY <1>1, <3>2, <5>2, GiveUpOnDid DEF Clean
        <5>3. CASE FailReading
          BY <1>1, <3>2, <5>1, <5>3, FailReadingDid DEF Clean
        <5> QED BY <2>2, <5>2, <5>3
      <4>2. IsbnKept(b)' <=> IsbnKept(b)
        BY <4>1, SameOverlay
      <4> QED BY <1>2, <1>3, <4>1, <4>2 DEF StatedKept, Overtaken
    <3> QED BY <3>1, <3>2
  <2>3. CASE WriteReading
    <3>1. CASE Still(b)
      BY <1>4, <3>1
    <3>2. CASE ~Still(b)
      <4>1. /\ state'[b] = Outcome(Resolved(worker.draft, worker.stated)) /\ worker.pc = "write"
            /\ "isbn" \in worker.stated => row'[b].isbn = "stated"
            /\ row'[b].stated = row[b].stated
        BY <1>1, <2>3, <3>2, WriteReadingDid
      <4>2. b \notin raced => worker.stated = row[b].stated
        BY <1>2, <4>1 DEF InStating
      <4>3. b \notin raced => IsbnKept(b)' /\ (Named(b)' => state'[b] = "identified")
        BY <4>1, <4>2 DEF IsbnKept, Named, Resolved, Outcome
      <4>4. Photographed(shot[b]) # {}
        BY <1>1, <4>1 DEF PassInv, InPass, Reading, Unread
      <4>5. state'[b] \in {"identified", "unidentified"}
        BY <4>1 DEF Outcome
      <4> QED BY <1>3, <4>3, <4>4, <4>5 DEF StatedKept, Overtaken
    <3> QED BY <3>1, <3>2
  <2>4. CASE Repend
    <3>1. /\ row' = row /\ Unread(b) # {}
          /\ state'[b] = IF state[b] \in Queued THEN "scanned" ELSE state[b]
      BY <1>1, <2>4, RependDid DEF PassInv, InPass
    <3>2. state'[b] = "scanned" \/ (state'[b] = state[b] /\ state[b] \notin Queued)
      BY <3>1
    <3>3. Unread(b)' # {} /\ Photographed(shot'[b]) # {}
      BY <1>3, <3>1 DEF Unread
    <3> QED BY <1>2, <3>2, <3>3 DEF StatedKept, Overtaken, InStating, Settled, Queued
  <2> QED BY <2>1, <2>2, <2>3, <2>4
<1>6. InStating(b)'
  BY <1>3, <1>5 DEF InStating
<1>7. ASSUME NEW c \in Books \ {b} PROVE StatedKept(c)' /\ Overtaken(c)'
  <2>1. StatedKept(c) /\ Overtaken(c)
    BY DEF StatedInv
  <2>2. /\ state'[c] = state[c] /\ shot'[c] = shot[c] /\ (Clean(c)' <=> Clean(c)) /\ Unread(c)' = Unread(c)
        /\ (IsbnKept(c)' <=> IsbnKept(c)) /\ (Named(c)' <=> Named(c))
    BY <1>3, SameOverlay DEF Still, SameRow, Clean, Unread
  <2> QED BY <1>3, <2>1, <2>2 DEF StatedKept, Overtaken, Settled
<1> QED BY <1>3, <1>5, <1>6, <1>7 DEF StatedInv

LEMMA NextKeepsStatedInv == Typed /\ PassInv /\ StatedInv /\ [Next]_vars => StatedInv'
<1> SUFFICES ASSUME Typed, PassInv, StatedInv, [Next]_vars PROVE StatedInv'
  OBVIOUS
<1>1. CASE PeopleAct
  BY <1>1, PeopleStep, PeopleKeepStatedInv DEF PassInv
<1>2. CASE UNCHANGED vars
  BY <1>2 DEF vars, StatedInv, StatedKept, Overtaken, InStating, Clean, Settled, Unread,
     IsbnKept, Named
<1> QED BY <1>1, <1>2, WhoseStep, LooksKeepStatedInv, WritesKeepStatedInv

\* The overlay, `resolvedIsbn` and `overlaidOutcome`: whichever of an edit and a
\* reading came first, and whatever faults and restarts fell between, the ISBN and
\* the outcome of a settled capture are those of the person, if one stated them.
THEOREM PersonBeatsWorker == Spec => []StatedWins
<1>1. StatedInv => StatedWins
  BY DEF StatedInv, StatedKept, StatedWins, Clean, IsbnKept, Named
<1> QED BY <1>1, PassAlways, InitStatedInv, NextKeepsStatedInv, PTL DEF Spec
-----------------------------------------------------------------------------
(* Two people do not fill in the same book *)

Owning == {"lookup", "write"}

\* Another than `who` has the book, and their lease has not run out.
Another(b, who) == claim[b].fresh /\ claim[b].who \notin {"", who}

\* An edit of b under way: once it has the claim nobody else gets it before its
\* write, and until then what it read of the overlay is what it will write over,
\* or its own, or it will be turned away.
Editor(r, b) ==
  /\ state[b] # "absent"
  /\ edits[r].pc \in Owning => \/ state[b] \in Gone
                               \/ claim[b] = [who |-> edits[r].who, fresh |-> TRUE]
  /\ \/ row[b].stated \subseteq edits[r].merged
     \/ row[b].editor = edits[r].who
     \/ edits[r].pc = "claim" /\ (state[b] \in Gone \/ Another(b, edits[r].who))

EditInv ==
  /\ \A r \in Requests : ~edits[r].letGo
  /\ \A r \in Requests : edits[r].pc \in {"claim"} \cup Owning => Editor(r, edits[r].book)
  /\ \A r, q \in Requests :
       edits[r].pc \in Owning /\ edits[q].pc \in Owning /\ edits[r].book = edits[q].book
         => edits[r].who = edits[q].who

LEMMA InitEditInv == Init => EditInv
<1> SUFFICES ASSUME Init PROVE EditInv
  OBVIOUS
<1>1. \A r \in Requests : edits[r].pc = "unsent" /\ edits[r].letGo = FALSE
  BY DEF Init, NoEdit
<1> QED BY <1>1 DEF EditInv, Owning

\* A book that is there stays there, and one that has left the queue has left it.
LEMMA MovesOn ==
  ASSUME Typed, PassInv, [Next]_vars, NEW b \in Books
  PROVE  /\ state[b] # "absent" => state'[b] # "absent"
         /\ state[b] \in Gone => state'[b] \in Gone
<1>1. ASSUME Still(b) \/ SentBack(b) \/ TakenOut(b) \/ Corrected(b)
      PROVE  /\ state[b] # "absent" => state'[b] # "absent"
             /\ state[b] \in Gone => state'[b] \in Gone
  BY <1>1 DEF Still, SentBack, TakenOut, Corrected, Settled, Gone, Queued
<1>2. CASE PeopleAct
  BY <1>1, <1>2, PeopleStep DEF PassInv, PeopleDid
<1>3. CASE UNCHANGED vars
  BY <1>3 DEF vars
<1>4. CASE SettleNothingNew \/ GiveUpOn \/ WriteReading \/ Repend \/ FailReading
  <2>1. PICK c \in Books : c = worker.id
    BY <1>4, InHandIs DEF SettleNothingNew, GiveUpOn, WriteReading, Repend, FailReading, Nothing
  <2>2. \/ Still(b)
        \/ state[b] \in Queued /\ state'[b] \in Queued
    BY <1>4, <2>1, SettleNothingNewDid, GiveUpOnDid, WriteReadingDid, RependDid, FailReadingDid
       DEF Outcome, Queued, Still, SameRow
  <2> QED BY <1>1, <2>2 DEF Gone, Queued
<1> QED BY <1>1, <1>2, <1>3, <1>4, WhoseStep, LooksOnly

\* Only an edit writes what is stated, and whose word it is.
LEMMA StatedStays ==
  ASSUME Typed, [Next]_vars, NEW c \in Books
  PROVE  \/ row'[c].stated = row[c].stated /\ row'[c].editor = row[c].editor
         \/ \E r \in Requests : EditWrite(r) /\ edits[r].book = c
<1>0. row \in [Books -> Row]
  BY DEF Typed, TypeOK
<1>1. ASSUME NEW b \in Books, NEW new, row' = [row EXCEPT ![b] = new],
             new.stated = row[b].stated, new.editor = row[b].editor
      PROVE  row'[c].stated = row[c].stated /\ row'[c].editor = row[c].editor
  BY <1>0, <1>1
<1>2. CASE row' = row
  BY <1>2
<1>3. ASSUME NEW b \in Books, NEW s \in Slots, Attach(b, s)
      PROVE  row'[c].stated = row[c].stated /\ row'[c].editor = row[c].editor
  <2> DEFINE new == [row[b] EXCEPT !.analysed = row[b].analysed \ {s}]
  <2>1. row' = [row EXCEPT ![b] = new] /\ new.stated = row[b].stated /\ new.editor = row[b].editor
    BY <1>0, <1>3 DEF Attach, Row
  <2> HIDE DEF new
  <2> QED BY <1>1, <2>1
<1>4. ASSUME NEW b \in Books, ReadAgain(b)
      PROVE  row'[c].stated = row[c].stated /\ row'[c].editor = row[c].editor
  <2> DEFINE new == [row[b] EXCEPT !.analysed = {}, !.note = "", !.attempts = 0]
  <2>1. row' = [row EXCEPT ![b] = new]
    BY <1>4 DEF ReadAgain
  <2>2. new.stated = row[b].stated /\ new.editor = row[b].editor
    BY <1>0 DEF Row
  <2> HIDE DEF new
  <2> QED BY <1>1, <2>1, <2>2
<1>5. ASSUME NEW b \in Books, Save(b)
      PROVE  row'[c].stated = row[c].stated /\ row'[c].editor = row[c].editor
  <2>1. PICK isbn \in {"", "saved"} : row' = [row EXCEPT ![b] = [row[b] EXCEPT !.isbn = isbn]]
    BY <1>5 DEF Save
  <2> DEFINE new == [row[b] EXCEPT !.isbn = isbn]
  <2>2. row' = [row EXCEPT ![b] = new]
    BY <2>1
  <2>3. new.stated = row[b].stated /\ new.editor = row[b].editor
    BY <1>0 DEF Row
  <2> HIDE DEF new
  <2> QED BY <1>1, <2>2, <2>3
<1>6. CASE CountReading \/ GiveUpOn \/ WriteReading \/ FailReading
  <2>1. PICK b \in Books : b = worker.id
    BY <1>6, InHandIs DEF CountReading, GiveUpOn, WriteReading, FailReading, Nothing
  <2>2. CASE CountReading /\ row' # row
    <3> DEFINE new == [row[b] EXCEPT !.attempts = row[b].attempts + 1]
    <3>1. row' = [row EXCEPT ![b] = new]
      BY <2>1, <2>2 DEF CountReading
    <3>2. new.stated = row[b].stated /\ new.editor = row[b].editor
      BY <1>0 DEF Row
    <3> HIDE DEF new
    <3> QED BY <1>1, <3>1, <3>2
  <2>3. CASE (GiveUpOn \/ FailReading) /\ row' # row
    <3>1. PICK a, n : row' = [row EXCEPT ![b] =
                                [row[b] EXCEPT !.analysed = a, !.note = n, !.attempts = 0]]
      BY <2>1, <2>3 DEF GiveUpOn, FailReading
    <3> DEFINE new == [row[b] EXCEPT !.analysed = a, !.note = n, !.attempts = 0]
    <3>2. row' = [row EXCEPT ![b] = new]
      BY <3>1
    <3>3. new.stated = row[b].stated /\ new.editor = row[b].editor
      BY <1>0 DEF Row
    <3> HIDE DEF new
    <3> QED BY <1>1, <3>2, <3>3
  <2>4. CASE WriteReading /\ row' # row
    <3>1. PICK i : row' = [row EXCEPT ![b] =
                     [row[b] EXCEPT !.isbn = i, !.analysed = worker.analysed,
                        !.draft = worker.draft, !.note = "", !.attempts = 0]]
      BY <2>1, <2>4 DEF WriteReading
    <3> DEFINE new == [row[b] EXCEPT !.isbn = i, !.analysed = worker.analysed,
                         !.draft = worker.draft, !.note = "", !.attempts = 0]
    <3>2. row' = [row EXCEPT ![b] = new]
      BY <3>1
    <3>3. new.stated = row[b].stated /\ new.editor = row[b].editor
      BY <1>0 DEF Row
    <3> HIDE DEF new
    <3> QED BY <1>1, <3>2, <3>3
  <2> QED BY <1>2, <1>6, <2>2, <2>3, <2>4
<1>7. ASSUME NEW r \in Requests, EditWrite(r), edits[r].book # c
      PROVE  row'[c] = row[c]
  BY <1>0, <1>7 DEF EditWrite
<1>8. CASE PeopleAct
  <2>1. CASE \E b \in Books, s \in Slots : NewCapture(b, s)
    BY <1>2, <2>1 DEF NewCapture
  <2>2. CASE \E b \in Books : Discard(b) \/ LeaseExpires(b) \/ \E who \in People : Claim(b, who)
    BY <1>2, <2>2 DEF Discard, LeaseExpires, Claim
  <2>3. CASE \E b \in Books, r \in Requests, who \in People, patch \in Patches, letGo \in LettingGo :
               EditRead(r, b, who, patch, letGo)
    BY <1>2, <2>3 DEF EditRead, db
  <2>4. ASSUME NEW r \in Requests, EditStep(r)
        PROVE  row' = row \/ EditWrite(r)
    BY <2>4 DEF EditStep, EditClaim, EditLookup, EditRelease, db
  <2> QED BY <1>2, <1>3, <1>4, <1>5, <1>7, <1>8, <2>1, <2>2, <2>3, <2>4 DEF PeopleAct
<1>9. CASE ~PeopleAct
  <2>1. \/ row' = row
        \/ CountReading \/ GiveUpOn \/ WriteReading \/ FailReading
    BY <1>9, WhoseStep DEF Drain, NextPending, NothingPending, LoadPhotographs, ReadPhotograph,
       ReadSlot, ReadOverlay, Recheck, RecheckPhotographs, Derive, StatementFails, Restart,
       SettleNothingNew, Repend, Elsewhere, db, vars
  <2> QED BY <1>2, <1>6, <2>1
<1> QED BY <1>8, <1>9
LEMMA ClaimableIs ==
  ASSUME Typed, NEW b \in Books, NEW who
  PROVE  Claimable(b, who) <=> state[b] \in Queued /\ ~Another(b, who)
BY DEF Claimable, Another

LEMMA ClaimedIs ==
  ASSUME Typed, NEW b \in Books, NEW who, claim' = Claimed(b, who)
  PROVE  /\ claim'[b] = [who |-> who, fresh |-> TRUE]
         /\ \A c \in Books \ {b} : claim'[c] = claim[c]
BY DEF Typed, TypeOK, Claimed

\* An edit whose book nobody claims or writes meanwhile is where it was.
LEMMA EditorStays ==
  ASSUME Typed, PassInv, [Next]_vars, NEW r \in Requests, NEW b \in Books, Editor(r, b),
         edits'[r] = edits[r],
         claim'[b] = claim[b] \/ state'[b] \in Gone,
         row'[b].stated = row[b].stated, row'[b].editor = row[b].editor
  PROVE  Editor(r, b)'
<1>1. /\ state[b] # "absent" => state'[b] # "absent"
      /\ state[b] \in Gone => state'[b] \in Gone
  BY MovesOn
<1>2. Another(b, edits[r].who) => Another(b, edits[r].who)' \/ state'[b] \in Gone
  BY DEF Another
<1> QED BY <1>1, <1>2 DEF Editor

\* Nor does a claim disturb it: what is claimable is claimed by the one who has it.
LEMMA EditorClaimed ==
  ASSUME Typed, PassInv, [Next]_vars, NEW r \in Requests, NEW b \in Books, Editor(r, b),
         edits'[r] = edits[r],
         NEW c \in Books, NEW who \in People, Claimable(c, who), claim' = Claimed(c, who),
         row' = row
  PROVE  Editor(r, b)'
<1>1. CASE b # c
  BY <1>1, ClaimedIs, EditorStays
<1>2. CASE b = c
  <2>1. state[b] \in Queued /\ ~Another(b, who)
    BY <1>2, ClaimableIs
  <2>2. claim'[b] = [who |-> who, fresh |-> TRUE]
    BY <1>2, ClaimedIs
  <2>3. state[b] \notin Gone
    BY <2>1 DEF Gone, Queued
  <2>4. /\ state[b] # "absent" => state'[b] # "absent"
    BY MovesOn
  <2>5. edits[r].pc \in {"claim"} \cup Owning => edits[r].who \in People
    BY DEF Typed, InHand, Owning
  <2>6. edits[r].pc \in Owning => who = edits[r].who
    <3> SUFFICES ASSUME edits[r].pc \in Owning PROVE who = edits[r].who
      OBVIOUS
    <3>1. claim[b].who = edits[r].who /\ claim[b].fresh
      BY <2>3 DEF Editor
    <3>2. edits[r].who # ""
      BY <2>5, PeopleAssumption
    <3> QED BY <2>1, <3>1, <3>2 DEF Another
  <2>7. ASSUME edits[r].pc = "claim", Another(b, edits[r].who)
        PROVE  Another(b, edits[r].who)'
    <3>1. who = claim[b].who
      BY <2>1, <2>7 DEF Another
    <3>2. claim'[b].who = who /\ claim'[b].fresh
      BY <2>2
    <3> QED BY <2>7, <3>1, <3>2 DEF Another
  <2>8. CASE edits[r].pc \in Owning
    BY <2>2, <2>3, <2>4, <2>6, <2>8 DEF Editor, Owning
  <2>9. CASE edits[r].pc \notin Owning
    BY <2>3, <2>4, <2>7, <2>9 DEF Editor
  <2> QED BY <2>8, <2>9
<1> QED BY <1>1, <1>2

\* Answers and releases end an edit: with nobody letting go, in one step.
LEMMA AnsweredEnds ==
  ASSUME Typed, NEW r \in Requests, ~edits[r].letGo, edits' = Answered(r)
  PROVE  /\ edits'[r].pc = "done" /\ edits'[r].letGo = FALSE
         /\ \A q \in Requests \ {r} : edits'[q] = edits[q]
<1>1. /\ edits'[r] = NoEdit("done")
      /\ \A q \in Requests \ {r} : edits'[q] = edits[q]
  BY DEF Typed, TypeOK, Answered
<1>2. NoEdit("done").pc = "done" /\ NoEdit("done").letGo = FALSE
  BY DEF NoEdit
<1> QED BY <1>1, <1>2
\* What has to be shown of a step, book by book.
LEMMA EditInvFrom ==
  ASSUME Typed',
         \A r \in Requests : ~edits'[r].letGo,
         \A r \in Requests, b \in Books :
           edits'[r].pc \in {"claim"} \cup Owning /\ edits'[r].book = b => Editor(r, b)',
         \A r, q \in Requests :
           edits'[r].pc \in Owning /\ edits'[q].pc \in Owning /\ edits'[r].book = edits'[q].book
             => edits'[r].who = edits'[q].who
  PROVE  EditInv'
<1>1. ASSUME NEW r \in Requests, edits'[r].pc \in {"claim"} \cup Owning
      PROVE  Editor(r, edits[r].book)'
  <2>1. PICK b \in Books : edits'[r].book = b
    BY <1>1 DEF Typed, InHand, Owning
  <2> QED BY <1>1, <2>1 DEF Editor
<1> QED BY <1>1 DEF EditInv

LEMMA QuietKeepsEditInv ==
  ASSUME Typed, Typed', PassInv, EditInv, [Next]_vars, edits' = edits,
         \A b \in Books : claim'[b] = claim[b] \/ state'[b] \in Gone
  PROVE  EditInv'
<1>1. \A r \in Requests : ~EditWrite(r)
  <2> SUFFICES ASSUME NEW r \in Requests, EditWrite(r) PROVE FALSE
    OBVIOUS
  <2>1. edits'[r].pc = "done" /\ edits[r].pc = "write"
    BY AnsweredEnds DEF EditWrite, EditInv
  <2> QED BY <2>1
<1>2. ASSUME NEW r \in Requests, NEW b \in Books, edits'[r].pc \in {"claim"} \cup Owning,
             edits'[r].book = b
      PROVE  Editor(r, b)'
  <2>1. Editor(r, b)
    BY <1>2 DEF EditInv
  <2> QED BY <1>1, <2>1, StatedStays, EditorStays
<1> QED BY <1>2, EditInvFrom DEF EditInv

LEMMA ClaimsKeepEditInv ==
  ASSUME Typed, Typed', PassInv, EditInv, [Next]_vars, NEW c \in Books,
         LeaseExpires(c) \/ \E who \in People : Claim(c, who)
  PROVE  EditInv'
<1>0. edits' = edits /\ row' = row
  BY DEF LeaseExpires, Claim
<1>1. ASSUME NEW r \in Requests, NEW b \in Books, edits'[r].pc \in {"claim"} \cup Owning,
             edits'[r].book = b
      PROVE  Editor(r, b)'
  <2>1. Editor(r, b)
    BY <1>0, <1>1 DEF EditInv
  <2>2. CASE LeaseExpires(c)
    <3>1. b # c
      BY <1>0, <1>1, <2>2 DEF LeaseExpires, Editing, Owning
    <3>2. claim'[b] = claim[b]
      BY <2>2, <3>1 DEF LeaseExpires, Typed, TypeOK
    <3> QED BY <1>0, <2>1, <3>2, EditorStays
  <2>3. ASSUME NEW who \in People, Claim(c, who)
        PROVE  Editor(r, b)'
    BY <1>0, <2>1, <2>3, EditorClaimed DEF Claim
  <2> QED BY <2>2, <2>3
<1> QED BY <1>0, <1>1, EditInvFrom DEF EditInv

LEMMA EditReadKeepsEditInv ==
  ASSUME LettingGo \subseteq {FALSE}, Typed, Typed', PassInv, EditInv, [Next]_vars,
         NEW c \in Books, NEW q \in Requests, NEW who \in People, NEW patch \in Patches,
         NEW letGo \in LettingGo, EditRead(q, c, who, patch, letGo)
  PROVE  EditInv'
<1> DEFINE e == [pc |-> IF state[c] \in Queued THEN "claim" ELSE "release", book |-> c,
                 who |-> who, patch |-> patch, merged |-> row[c].stated \cup patch,
                 letGo |-> letGo]
<1>1. /\ state' = state /\ row' = row /\ claim' = claim /\ state[c] # "absent"
      /\ edits' = [edits EXCEPT ![q] = e]
  BY DEF EditRead, db
<1>2. /\ e.pc \in {"claim", "release"} /\ e.book = c /\ e.letGo = FALSE
      /\ row[c].stated \subseteq e.merged
  OBVIOUS
<1> HIDE DEF e
<1>3. edits'[q] = e /\ \A r \in Requests \ {q} : edits'[r] = edits[r]
  BY <1>1 DEF Typed, TypeOK
<1>4. ASSUME NEW r \in Requests, NEW b \in Books, edits'[r].pc \in {"claim"} \cup Owning,
             edits'[r].book = b
      PROVE  Editor(r, b)'
  <2>1. CASE r = q
    BY <1>1, <1>2, <1>3, <1>4, <2>1 DEF Editor, Owning
  <2>2. CASE r # q
    <3>1. edits'[r] = edits[r] /\ Editor(r, b)
      BY <1>3, <1>4, <2>2 DEF EditInv
    <3> QED BY <1>1, <3>1, EditorStays
  <2> QED BY <2>1, <2>2
<1>5. e.pc \notin Owning
  BY <1>2 DEF Owning
<1>6. \A r \in Requests : edits'[r].pc \in Owning => edits'[r] = edits[r]
  BY <1>3, <1>5
<1>7. \A r \in Requests : ~edits'[r].letGo
  BY <1>2, <1>3 DEF EditInv
<1> QED BY <1>4, <1>6, <1>7, EditInvFrom DEF EditInv

LEMMA EditClaimKeepsEditInv ==
  ASSUME Typed, Typed', PassInv, EditInv, [Next]_vars, NEW q \in Requests, EditClaim(q)
  PROVE  EditInv'
<1>1. PICK c \in Books : c = edits[q].book
  BY DEF EditClaim, Typed, InHand
<1>2. PICK who \in People : who = edits[q].who
  BY DEF EditClaim, Typed, InHand
<1>3. state' = state /\ row' = row /\ edits[q].pc = "claim" /\ edits[q] \in Edit /\ edits \in [Requests -> Edit]
  BY DEF EditClaim, Typed, TypeOK
<1>4. Editor(q, c)
  BY <1>1, <1>3 DEF EditInv
<1>5. CASE ~Claimable(c, who)
  <2>1. claim' = claim /\ edits' = Answered(q)
    BY <1>1, <1>2, <1>5 DEF EditClaim
  <2>2. /\ edits'[q].pc = "done" /\ edits'[q].letGo = FALSE
        /\ \A r \in Requests \ {q} : edits'[r] = edits[r]
    BY <2>1, AnsweredEnds DEF EditInv
  <2>3. ASSUME NEW r \in Requests, NEW b \in Books, edits'[r].pc \in {"claim"} \cup Owning,
               edits'[r].book = b
        PROVE  Editor(r, b)'
    <3>1. edits'[r] = edits[r] /\ Editor(r, b)
      BY <2>2, <2>3 DEF EditInv, Owning
    <3> QED BY <1>3, <2>1, <3>1, EditorStays
  <2>4. \A r \in Requests : edits'[r].pc \in Owning => edits'[r] = edits[r]
    BY <2>2 DEF Owning
  <2> QED BY <2>2, <2>3, <2>4, EditInvFrom DEF EditInv
<1>6. CASE Claimable(c, who)
  <2>1. claim' = Claimed(c, who)
    BY <1>1, <1>2, <1>6 DEF EditClaim
  <2>2. PICK next \in Owning : edits' = [edits EXCEPT ![q] = [edits[q] EXCEPT !.pc = next]]
    BY <1>1, <1>2, <1>6 DEF EditClaim, Owning
  <2>3. /\ edits'[q].pc = next /\ edits'[q].book = c /\ edits'[q].who = who
        /\ edits'[q].merged = edits[q].merged /\ edits'[q].letGo = edits[q].letGo
        /\ \A r \in Requests \ {q} : edits'[r] = edits[r]
    BY <1>1, <1>2, <1>3, <2>2 DEF Edit
  <2>4. state[c] \in Queued /\ ~Another(c, who) /\ state[c] \notin Gone
    BY <1>6, ClaimableIs DEF Gone, Queued
  <2>5. claim'[c] = [who |-> who, fresh |-> TRUE]
    BY <2>1, ClaimedIs
  <2>6. Editor(q, c)'
    BY <1>2, <1>3, <1>4, <2>3, <2>4, <2>5 DEF Editor
  <2>7. ASSUME NEW r \in Requests, NEW b \in Books, edits'[r].pc \in {"claim"} \cup Owning,
               edits'[r].book = b
        PROVE  Editor(r, b)'
    <3>1. CASE r = q
      BY <2>3, <2>6, <2>7, <3>1
    <3>2. CASE r # q
      <4>1. edits'[r] = edits[r] /\ Editor(r, b)
        BY <2>3, <2>7, <3>2 DEF EditInv
      <4> QED BY <1>3, <1>6, <2>1, <4>1, EditorClaimed
    <3> QED BY <3>1, <3>2
  \* Who owns an edit of c owns its claim, and that is now `who`.
  <2>8. ASSUME NEW r \in Requests, edits'[r].pc \in Owning, edits'[r].book = c
        PROVE  edits'[r].who = who
    <3>1. Editor(r, c)'
      BY <2>7, <2>8
    <3>2. claim'[c].who = edits'[r].who
      BY <1>3, <2>4, <2>8, <3>1 DEF Editor
    <3> QED BY <2>5, <3>2
  <2>9. ASSUME NEW r \in Requests, NEW p \in Requests, edits'[r].pc \in Owning, edits'[p].pc \in Owning,
               edits'[r].book = edits'[p].book
        PROVE  edits'[r].who = edits'[p].who
    <3>1. CASE edits'[r].book = c
      BY <2>8, <2>9, <3>1
    <3>2. CASE edits'[r].book # c
      <4>1. edits'[r] = edits[r] /\ edits'[p] = edits[p]
        BY <2>3, <2>9, <3>2
      <4> QED BY <2>9, <4>1 DEF EditInv
    <3> QED BY <3>1, <3>2
  <2>10. \A r \in Requests : ~edits'[r].letGo
    BY <2>3 DEF EditInv
  <2> QED BY <2>7, <2>9, <2>10, EditInvFrom
<1> QED BY <1>5, <1>6

LEMMA EditLookupKeepsEditInv ==
  ASSUME Typed, Typed', PassInv, EditInv, [Next]_vars, NEW q \in Requests, EditLookup(q)
  PROVE  EditInv'
<1>1. state' = state /\ row' = row /\ claim' = claim /\ edits \in [Requests -> Edit] /\ edits[q].pc = "lookup"
  BY DEF EditLookup, db, Typed, TypeOK
<1>2. PICK found : edits' = [edits EXCEPT ![q] =
                 [edits[q] EXCEPT !.pc = "write", !.merged = edits[q].merged \cup found]]
  BY DEF EditLookup
<1>3. /\ edits'[q].pc = "write" /\ edits'[q].book = edits[q].book /\ edits'[q].who = edits[q].who
      /\ edits[q].merged \subseteq edits'[q].merged /\ edits'[q].letGo = edits[q].letGo
      /\ \A r \in Requests \ {q} : edits'[r] = edits[r]
  BY <1>1, <1>2 DEF Edit
<1>4. ASSUME NEW r \in Requests, NEW b \in Books, edits'[r].pc \in {"claim"} \cup Owning,
             edits'[r].book = b
      PROVE  Editor(r, b)'
  <2>1. CASE r = q
    <3>1. Editor(q, b)
      BY <1>1, <1>3, <1>4, <2>1 DEF EditInv, Owning
    <3> QED BY <1>1, <1>3, <2>1, <3>1 DEF Editor, Another, Owning
  <2>2. CASE r # q
    <3>1. edits'[r] = edits[r] /\ Editor(r, b)
      BY <1>3, <1>4, <2>2 DEF EditInv
    <3> QED BY <1>1, <3>1, EditorStays
  <2> QED BY <2>1, <2>2
<1>5. \A r \in Requests : /\ edits'[r].pc \in Owning => edits[r].pc \in Owning
                          /\ edits'[r].book = edits[r].book /\ edits'[r].who = edits[r].who
                          /\ edits'[r].letGo = edits[r].letGo
  BY <1>1, <1>3 DEF Owning
<1> QED BY <1>4, <1>5, EditInvFrom DEF EditInv

LEMMA EditWriteKeepsEditInv ==
  ASSUME Typed, Typed', PassInv, EditInv, [Next]_vars, NEW q \in Requests, EditWrite(q)
  PROVE  EditInv'
<1>1. PICK c \in Books : c = edits[q].book
  BY DEF EditWrite, Typed, InHand
<1>2. PICK who \in People : who = edits[q].who
  BY DEF EditWrite, Typed, InHand
<1>3. claim' = claim /\ edits[q].pc = "write" /\ row \in [Books -> Row] /\ edits' = Answered(q)
  BY DEF EditWrite, Typed, TypeOK
<1>4. /\ row'[c].editor = who
      /\ \A b \in Books \ {c} : row'[b] = row[b]
  <2> DEFINE i == IF "isbn" \in edits[q].merged THEN "stated" ELSE row[c].isbn
             new == [row[c] EXCEPT !.stated = edits[q].merged, !.editor = who, !.isbn = i]
  <2>1. row' = [row EXCEPT ![c] = new]
    BY <1>1, <1>2 DEF EditWrite
  <2>2. new.editor = who
    BY <1>3 DEF Row
  <2> HIDE DEF new
  <2> QED BY <1>3, <2>1, <2>2
<1>5. /\ edits'[q].pc = "done" /\ edits'[q].letGo = FALSE
      /\ \A r \in Requests \ {q} : edits'[r] = edits[r]
  BY <1>3, AnsweredEnds DEF EditInv
<1>6. Editor(q, c)
  BY <1>1, <1>3 DEF EditInv, Owning
<1>7. ASSUME NEW r \in Requests, NEW b \in Books, edits'[r].pc \in {"claim"} \cup Owning,
             edits'[r].book = b
      PROVE  Editor(r, b)'
  <2>1. edits'[r] = edits[r] /\ Editor(r, b)
    BY <1>5, <1>7 DEF EditInv, Owning
  <2>2. CASE b # c
    BY <1>3, <1>4, <2>1, <2>2, EditorStays
  <2>3. CASE b = c
    <3>1. /\ state[b] # "absent" => state'[b] # "absent"
          /\ state[b] \in Gone => state'[b] \in Gone
      BY MovesOn
    <3>2. CASE edits[r].pc \in Owning
      <4>1. edits[r].who = who
        BY <1>1, <1>2, <1>3, <1>7, <2>1, <2>3, <3>2 DEF EditInv, Owning
      <4> QED BY <1>3, <1>4, <2>1, <2>3, <3>1, <4>1 DEF Editor
    <3>3. CASE edits[r].pc \notin Owning
      <4>1. edits[r].pc = "claim"
        BY <1>7, <2>1, <3>3
      <4>2. state[b] \in Gone \/ claim[b] = [who |-> who, fresh |-> TRUE]
        BY <1>2, <1>3, <1>6, <2>3 DEF Editor, Owning
      <4>3. who # ""
        BY PeopleAssumption
      <4>4. state[b] \in Gone \/ edits[r].who = who \/ Another(b, edits[r].who)
        <5>1. state[b] \in Gone \/ (claim[b].who = who /\ claim[b].fresh)
          BY <4>2
        <5> QED BY <4>3, <5>1 DEF Another
      <4>5. Another(b, edits[r].who) => Another(b, edits[r].who)'
        BY <1>3, <2>1 DEF Another
      <4> QED BY <1>4, <2>1, <2>3, <3>1, <3>3, <4>1, <4>4, <4>5 DEF Editor
    <3> QED BY <3>2, <3>3
  <2> QED BY <2>2, <2>3
<1>8. \A r \in Requests : edits'[r].pc \in Owning => edits'[r] = edits[r]
  BY <1>5 DEF Owning
<1>9. \A r \in Requests : ~edits'[r].letGo
  BY <1>5 DEF EditInv
<1> QED BY <1>7, <1>8, <1>9, EditInvFrom DEF EditInv

LEMMA EndingsKeepEditInv ==
  ASSUME Typed, Typed', PassInv, EditInv, [Next]_vars,
         Restart \/ \E q \in Requests : EditRelease(q)
  PROVE  EditInv'
<1>1. row' = row /\ state' = state /\ edits \in [Requests -> Edit] /\ claim \in [Books -> Lease]
  BY DEF Restart, EditRelease, db, Typed, TypeOK
<1>2. claim' = claim
  <2>1. CASE Restart
    BY <2>1 DEF Restart, db
  <2>2. ASSUME NEW q \in Requests, EditRelease(q) PROVE claim' = claim
    BY <1>1, <2>2 DEF EditRelease, EditInv
  <2> QED BY <2>1, <2>2
<1>3. NoEdit("done").pc = "done" /\ NoEdit("done").letGo = FALSE
  BY DEF NoEdit
<1>4. \A r \in Requests : edits'[r] = edits[r] \/ edits'[r] = NoEdit("done")
  BY <1>1 DEF Restart, EditRelease
<1>5. \A r \in Requests : edits'[r].pc \in {"claim"} \cup Owning => edits'[r] = edits[r]
  BY <1>3, <1>4 DEF Owning
<1>6. ASSUME NEW r \in Requests, NEW b \in Books, edits'[r].pc \in {"claim"} \cup Owning,
             edits'[r].book = b
      PROVE  Editor(r, b)'
  <2>1. edits'[r] = edits[r] /\ Editor(r, b)
    BY <1>5, <1>6 DEF EditInv
  <2> QED BY <1>1, <1>2, <2>1, EditorStays
<1>7. \A r \in Requests : ~edits'[r].letGo
  BY <1>3, <1>4 DEF EditInv
<1> QED BY <1>5, <1>6, <1>7, EditInvFrom DEF EditInv

LEMMA NextKeepsEditInv ==
  ASSUME LettingGo \subseteq {FALSE}, Typed, PassInv, EditInv, [Next]_vars
  PROVE  EditInv'
<1>0. Typed'
  BY StepTyped
<1>1. CASE PeopleAct
  <2>1. ASSUME NEW b \in Books, NEW s \in Slots, NewCapture(b, s) \/ Attach(b, s)
        PROVE  EditInv'
    BY <1>0, <2>1, QuietKeepsEditInv DEF NewCapture, Attach
  <2>2. ASSUME NEW b \in Books, ReadAgain(b) \/ Save(b)
        PROVE  EditInv'
    BY <1>0, <2>2, QuietKeepsEditInv DEF ReadAgain, Save
  <2>3. ASSUME NEW b \in Books, Discard(b)
        PROVE  EditInv'
    <3>1. edits' = edits /\ state'[b] \in Gone /\ \A c \in Books \ {b} : claim'[c] = claim[c]
      BY <2>3 DEF Discard, Gone, Typed, TypeOK
    <3> QED BY <1>0, <3>1, QuietKeepsEditInv
  <2>4. ASSUME NEW b \in Books, LeaseExpires(b) \/ \E who \in People : Claim(b, who)
        PROVE  EditInv'
    BY <1>0, <2>4, ClaimsKeepEditInv
  <2>5. ASSUME NEW b \in Books, NEW r \in Requests, NEW who \in People,
               NEW patch \in Patches, NEW letGo \in LettingGo,
               EditRead(r, b, who, patch, letGo)
        PROVE  EditInv'
    BY <1>0, <2>5, EditReadKeepsEditInv
  <2>6. ASSUME NEW r \in Requests, EditStep(r)
        PROVE  EditInv'
    BY <1>0, <2>6, EditClaimKeepsEditInv, EditLookupKeepsEditInv, EditWriteKeepsEditInv,
       EndingsKeepEditInv DEF EditStep
  <2> QED BY <1>1, <2>1, <2>2, <2>3, <2>4, <2>5, <2>6 DEF PeopleAct
<1>2. CASE ~PeopleAct
  <2>1. Restart \/ (edits' = edits /\ claim' = claim)
    BY <1>2, WhoseStep DEF Drain, NextPending, NothingPending, LoadPhotographs, CountReading,
       ReadPhotograph, ReadSlot, ReadOverlay, Recheck, RecheckPhotographs, Derive, StatementFails,
       SettleNothingNew, GiveUpOn, WriteReading, Repend, FailReading, Elsewhere, db, vars
  <2> QED BY <1>0, <2>1, EndingsKeepEditInv, QuietKeepsEditInv
<1> QED BY <1>1, <1>2

LEMMA NoForeignEditStep ==
  ASSUME Typed, EditInv, [Next]_vars, NEW b \in Books
  PROVE  row[b].stated \subseteq row'[b].stated \/ row'[b].editor = row[b].editor
<1>1. CASE row'[b].stated = row[b].stated /\ row'[b].editor = row[b].editor
  BY <1>1
<1>2. ASSUME NEW r \in Requests, EditWrite(r), edits[r].book = b
      PROVE  row[b].stated \subseteq row'[b].stated \/ row'[b].editor = row[b].editor
  <2> DEFINE i == IF "isbn" \in edits[r].merged THEN "stated" ELSE row[b].isbn
             new == [row[b] EXCEPT !.stated = edits[r].merged, !.editor = edits[r].who, !.isbn = i]
  <2>0. row \in [Books -> Row]
    BY DEF Typed, TypeOK
  <2>1. row' = [row EXCEPT ![b] = new] /\ edits[r].pc = "write"
    BY <1>2 DEF EditWrite
  <2>2. new.editor = edits[r].who /\ new.stated = edits[r].merged
    BY <2>0 DEF Row
  <2> HIDE DEF new
  <2>3. row'[b].editor = edits[r].who /\ row'[b].stated = edits[r].merged
    BY <2>0, <2>1, <2>2
  <2>4. Editor(r, b)
    BY <1>2, <2>1 DEF EditInv, Owning
  <2> QED BY <2>1, <2>3, <2>4 DEF Editor
<1> QED BY <1>1, <1>2, StatedStays

\* claim and edit: as long as nobody lets go of a book in the middle of an edit of
\* their own, nobody's edit wipes a field another has stated, however the claims,
\* leases, lookups, restarts and departures of the book fall between its statements.
THEOREM NobodysWordIsLost == LettingGo \subseteq {FALSE} => (Spec => NoForeignEditLost)
<1> SUFFICES ASSUME LettingGo \subseteq {FALSE} PROVE Spec => NoForeignEditLost
  OBVIOUS
<1>1. Typed /\ EditInv /\ [Next]_vars
        => [\A b \in Books : row[b].stated \subseteq row'[b].stated
                             \/ row'[b].editor = row[b].editor]_vars
  BY NoForeignEditStep
<1>2. Typed /\ PassInv /\ EditInv /\ [Next]_vars => EditInv'
  BY NextKeepsEditInv
<1> QED BY <1>1, <1>2, PassAlways, InitEditInv, PTL DEF Spec, NoForeignEditLost
=============================================================================
