---------------------------- MODULE CaptureQueue ----------------------------
(***************************************************************************)
(* The capture queue (server/queue.ts): a photograph brings a book into    *)
(* existence, one worker in the server's process reads its photographs,    *)
(* people claim it, correct it and let it go, and it leaves by being saved *)
(* or discarded.                                                           *)
(*                                                                         *)
(* Every database statement is a step of its own, because each `await` in  *)
(* the code lets the event loop run any other handler.  The columns of one *)
(* book are spread over `state`, `shot`, `row` and `claim`; `worker` is    *)
(* the local state of the one drain pass, `edits` that of the PATCH        *)
(* requests in flight.                                                     *)
(*                                                                         *)
(* Abstracted: an ISBN is where it came from, a draft is whether a lookup  *)
(* found the book, an edit overlay is the set of fields it holds, a note   *)
(* is the prefix failureOf (shared/captureFailure.ts) sorts it by, and a   *)
(* photograph is its number among the photographs of its slot.             *)
(***************************************************************************)
EXTENDS Naturals, FiniteSets

CONSTANTS Books,                \* ids of rows in `books`
          Seeded,               \* the captures already waiting at the start
          Slots,                \* the sides photographed here
          People,               \* who may claim and edit
          Patches,              \* the sets of fields one edit may state
          Requests,             \* PATCH requests, each sent at most once
          ReadingsThatMayDie,   \* READINGS_THAT_MAY_DIE
          \* Bounds of the model, not of the code.
          MaxShots,             \* photographs of one slot
          MaxReadAgains, MaxCrashes, MaxFaults,
          LettingGo             \* may an edit carry `release`? a set of BOOLEANs

Fields == {"title", "isbn", "notes"}

ASSUME BooksAssumption == Books \subseteq Nat \ {0} /\ Seeded \subseteq Books
ASSUME SlotsAssumption == Slots \subseteq {"back", "front", "edge"}
ASSUME PatchesAssumption == Patches \subseteq SUBSET Fields
ASSUME PeopleAssumption == "" \notin People /\ LettingGo \subseteq BOOLEAN
ASSUME LimitAssumption == ReadingsThatMayDie \in Nat \ {0}

VARIABLES state,        \* books.state, or "absent" before the insert
          shot,         \* number of the newest photograph of each slot
          row,          \* the other columns the queue writes
          claim,        \* claimed_by, and whether claimed_at is in the lease
          worker,       \* the drain pass and the `process` call inside it
          drainAgain,   \* CaptureQueue.drainAgain
          asks,         \* calls of drain() on their way
          edits,        \* CaptureQueue.edit calls
          (* History, read by no action. *)
          offered,      \* newest photograph of a slot the reader disposed of
          lost,         \* readings in a row that died, see CrashLoopBounded
          raced,        \* see LateEdit
          spent         \* what the bounds have used up

db == <<state, shot, row, claim>>
memory == <<worker, drainAgain, asks>>
history == <<offered, lost, raced>>
vars == <<state, shot, row, claim, worker, drainAgain, asks, edits,
          offered, lost, raced, spent>>

-----------------------------------------------------------------------------
(* States and rows *)

Queued == {"scanned", "unidentified", "identified"}
States == Queued \cup {"absent", "shelved", "discarded"}
Settled(b) == state[b] \in Queued \ {"scanned"}

\* ready or failed, as STATE_OF_QUEUE_STATUS writes them; and when a book is ready.
Outcome(resolved) == IF resolved THEN "identified" ELSE "unidentified"
Resolved(found, stated) == found \/ stated \cap {"title", "isbn"} # {}

Isbns == {"", "read", "stated", "saved"}
Notes == {"", "timeout", "error"}

Row == [analysed : SUBSET Slots, isbn : Isbns, draft : BOOLEAN,
        stated : SUBSET Fields, editor : People \cup {""},
        attempts : Nat, note : Notes]
NewRow == [analysed |-> {}, isbn |-> "", draft |-> FALSE, stated |-> {},
           editor |-> "", attempts |-> 0, note |-> ""]
Lease == [who : People \cup {""}, fresh : BOOLEAN]
Unclaimed == [who |-> "", fresh |-> FALSE]

Photographed(s) == {slot \in Slots : s[slot] > 0}
Unread(b) == Photographed(shot[b]) \ row[b].analysed

\* SLOT_ORDER: the back first, because that is where the identifier lives.
Rank == [back |-> 1, front |-> 2, edge |-> 3]
FirstIn(todo, s) == s \in todo /\ \A t \in todo : Rank[s] <= Rank[t]

(* Local state of the worker.  `pc` names the statement it does next. *)
ReadingPcs == {"read", "stated", "write", "fail"}
WorkerPcs == ReadingPcs \cup {"idle", "query", "nothing", "photos", "settle",
              "count", "giveup", "recheck", "recheckPhotos", "repend", "derive"}
NoBook == 0
NoShots == [s \in Slots |-> 0]
Worker == [pc : WorkerPcs, id : Books \cup {NoBook}, counted : BOOLEAN,
           photos : [Slots -> Nat], todo : SUBSET Slots,
           analysed : SUBSET Slots, isbn : Isbns, draft : BOOLEAN,
           stated : SUBSET Fields, read : SUBSET Slots, note : Notes]
Looking(pc) ==
  [pc |-> pc, id |-> NoBook, counted |-> FALSE, photos |-> NoShots, todo |-> {},
   analysed |-> {}, isbn |-> "", draft |-> FALSE, stated |-> {}, read |-> {},
   note |-> ""]

(* Local state of one CaptureQueue.edit call and the route around it. *)
EditPcs == {"unsent", "claim", "lookup", "write", "release", "done"}
Edit == [pc : EditPcs, book : Books \cup {NoBook}, who : People \cup {""},
         patch : SUBSET Fields, merged : SUBSET Fields, letGo : BOOLEAN]
NoEdit(pc) == [pc |-> pc, book |-> NoBook, who |-> "", patch |-> {},
               merged |-> {}, letGo |-> FALSE]
Editing(b) == \E r \in Requests : /\ edits[r].book = b
                                  /\ edits[r].pc \in {"claim", "lookup", "write"}

Budget == [again : Nat, crashes : Nat, faults : Nat]

TypeOK ==
  /\ state \in [Books -> States]
  /\ shot \in [Books -> [Slots -> Nat]]
  /\ row \in [Books -> Row]
  /\ claim \in [Books -> Lease]
  /\ worker \in Worker
  /\ drainAgain \in BOOLEAN
  /\ asks \in Nat
  /\ edits \in [Requests -> Edit]
  /\ offered \in [Books -> [Slots -> Nat]]
  /\ lost \in [Books -> Nat]
  /\ raced \in SUBSET Books
  /\ spent \in Budget

(* A capture that waited through a migration, or was seeded by another     *)
(* process, may carry photographs already analysed and an ISBN read then.  *)

Init ==
  /\ state = [b \in Books |-> IF b \in Seeded THEN "scanned" ELSE "absent"]
  /\ shot \in [Books -> [Slots -> {0, 1}]]
  /\ \E old \in [Books -> SUBSET Slots], isbn \in [Books -> {"", "read"}] :
       /\ \A b \in Books : old[b] \subseteq Photographed(shot[b])
       /\ \A b \in Books \ Seeded : shot[b] = NoShots /\ isbn[b] = ""
       /\ row = [b \in Books |-> [NewRow EXCEPT !.analysed = old[b],
                                                !.isbn = isbn[b]]]
       /\ offered = [b \in Books |->
                       [s \in Slots |-> IF s \in old[b] THEN 1 ELSE 0]]
  /\ claim = [b \in Books |-> Unclaimed]
  /\ worker = Looking("idle")
  /\ drainAgain = FALSE
  /\ asks = 1                                       \* resumeOnStartup
  /\ edits = [r \in Requests |-> NoEdit("unsent")]
  /\ lost = [b \in Books |-> 0]
  /\ raced = {}
  /\ spent = [again |-> 0, crashes |-> 0, faults |-> 0]

-----------------------------------------------------------------------------
(* The shutter: POST /api/captures.  The drain it asks for is called after *)
(* the commit, so until then it is one more call on its way.               *)

NewCapture(b, s) ==
  /\ state[b] = "absent"
  /\ state' = [state EXCEPT ![b] = "scanned"]
  /\ shot' = [shot EXCEPT ![b] = [@ EXCEPT ![s] = 1]]
  /\ asks' = asks + 1
  /\ UNCHANGED <<row, claim, worker, drainAgain, edits, history, spent>>

\* A second photograph, or a retake: a book that left the queue keeps its state.
Attach(b, s) ==
  /\ state[b] # "absent"
  /\ shot[b][s] < MaxShots
  /\ shot' = [shot EXCEPT ![b] = [@ EXCEPT ![s] = shot[b][s] + 1]]
  /\ state' = [state EXCEPT ![b] = IF @ \in Queued THEN "scanned" ELSE @]
  /\ row' = [row EXCEPT ![b] = [@ EXCEPT !.analysed = row[b].analysed \ {s}]]
  /\ asks' = asks + 1
  /\ UNCHANGED <<claim, worker, drainAgain, edits, history, spent>>

ReadAgain(b) ==
  /\ state[b] \in Queued
  /\ spent.again < MaxReadAgains
  /\ spent' = [spent EXCEPT !.again = @ + 1]
  /\ state' = [state EXCEPT ![b] = "scanned"]
  /\ row' = [row EXCEPT ![b] = [@ EXCEPT !.analysed = {}, !.note = "", !.attempts = 0]]
  /\ asks' = asks + 1
  \* A reading begun before the person asked is not held against the capture.
  /\ lost' = [lost EXCEPT ![b] = 0]
  /\ worker' = IF worker.id = b THEN [worker EXCEPT !.counted = FALSE] ELSE worker
  /\ UNCHANGED <<shot, claim, drainAgain, edits, offered, raced>>

(* Leaving the queue. *)

\* CatalogueBookHandler under the book's lock: one conditional write.
Save(b) ==
  /\ state[b] \in Queued
  /\ state' = [state EXCEPT ![b] = "shelved"]
  /\ \E isbn \in {"", "saved"} : row' = [row EXCEPT ![b] = [@ EXCEPT !.isbn = isbn]]
  /\ UNCHANGED <<shot, claim, memory, edits, history, spent>>

Discard(b) ==
  /\ state[b] \in Queued
  /\ state' = [state EXCEPT ![b] = "discarded"]
  /\ claim' = [claim EXCEPT ![b] = Unclaimed]
  /\ UNCHANGED <<shot, row, memory, edits, history, spent>>

-----------------------------------------------------------------------------
(* Claims and edits *)

MutClaimable(b, who) == state[b] \in Queued
Claimable(b, who) == /\ state[b] \in Queued
                     /\ claim[b].who \in {"", who} \/ ~claim[b].fresh
Claimed(b, who) == [claim EXCEPT ![b] = [who |-> who, fresh |-> TRUE]]

Claim(b, who) ==
  /\ Claimable(b, who)
  /\ claim' = Claimed(b, who)
  /\ UNCHANGED <<state, shot, row, memory, edits, history, spent>>

\* CLAIM_LEASE_MS is five minutes and an edit takes seconds: a lease renewed by
\* an edit does not run out during it, and one that runs out before the claim
\* of another might as well have done so before that edit began.
LeaseExpires(b) ==
  /\ claim[b].fresh
  /\ ~Editing(b)
  /\ claim' = [claim EXCEPT ![b] = [@ EXCEPT !.fresh = FALSE]]
  /\ UNCHANGED <<state, shot, row, memory, edits, history, spent>>

\* After `edit`, accepted or not, the route releases if the page is leaving.
Answered(r) == [edits EXCEPT ![r] = IF @.letGo THEN [@ EXCEPT !.pc = "release"]
                                              ELSE NoEdit("done")]

\* `before`: what is already stated is merged under the patch.
EditRead(r, b, who, patch, letGo) ==
  /\ edits[r].pc = "unsent"
  /\ state[b] # "absent"
  /\ edits' = [edits EXCEPT ![r] =
       [pc |-> IF state[b] \in Queued THEN "claim" ELSE "release", book |-> b,
        who |-> who, patch |-> patch, merged |-> row[b].stated \cup patch,
        letGo |-> letGo]]
  /\ UNCHANGED <<db, memory, history, spent>>

\* An ISBN the row did not have is looked up before anything is written.
EditClaim(r) ==
  LET e == edits[r] IN
  /\ e.pc = "claim"
  /\ IF Claimable(e.book, e.who)
     THEN /\ claim' = Claimed(e.book, e.who)
          /\ \E next \in IF "isbn" \in e.patch THEN {"lookup", "write"} ELSE {"write"} :
               edits' = [edits EXCEPT ![r] = [@ EXCEPT !.pc = next]]
     ELSE claim' = claim /\ edits' = Answered(r)
  /\ UNCHANGED <<state, shot, row, memory, history, spent>>

EditLookup(r) ==
  /\ edits[r].pc = "lookup"
  /\ \E found \in {{}, {"title"}} :
       edits' = [edits EXCEPT ![r] =
                    [@ EXCEPT !.pc = "write", !.merged = edits[r].merged \cup found]]
  /\ UNCHANGED <<db, memory, history, spent>>

\* The worker holds the book and has read the overlay it decides from, either
\* when it picked a capture with nothing new or late, before its write.
LateEdit(b) == worker.id = b /\ worker.pc \in {"photos", "settle", "write"}

\* The UPDATE names the row by id and by nothing else.
EditWrite(r) ==
  LET e == edits[r] IN
  /\ e.pc = "write"
  /\ row' = [row EXCEPT ![e.book] =
       [@ EXCEPT !.stated = e.merged, !.editor = e.who,
                 !.isbn = IF "isbn" \in e.merged THEN "stated" ELSE row[e.book].isbn]]
  /\ state' = [state EXCEPT ![e.book] =
       IF @ \in {"identified", "unidentified"} /\ Resolved(FALSE, e.merged)
       THEN Outcome(TRUE) ELSE @]
  /\ edits' = Answered(r)
  /\ raced' = IF LateEdit(e.book) THEN raced \cup {e.book} ELSE raced
  /\ UNCHANGED <<shot, claim, memory, offered, lost, spent>>

EditRelease(r) ==
  LET e == edits[r] IN
  /\ e.pc = "release"
  /\ claim' = [claim EXCEPT ![e.book] =
                 IF e.letGo /\ @.who = e.who THEN Unclaimed ELSE @]
  /\ edits' = [edits EXCEPT ![r] = NoEdit("done")]
  /\ UNCHANGED <<state, shot, row, memory, history, spent>>

EditStep(r) == EditClaim(r) \/ EditLookup(r) \/ EditWrite(r) \/ EditRelease(r)

-----------------------------------------------------------------------------
(* The worker *)

\* `process` has returned, and its locals with it.
Processed == [Looking("derive") EXCEPT !.id = worker.id]
Elsewhere == UNCHANGED <<shot, claim, edits, spent>>

MutDrain ==
  /\ asks > 0
  /\ asks' = asks - 1
  /\ worker' = IF worker.pc = "idle" THEN Looking("query") ELSE worker
  /\ UNCHANGED <<db, drainAgain, edits, history, spent>>

\* drain(): one pass at a time, and a refused call is remembered.
Drain ==
  /\ asks > 0
  /\ asks' = asks - 1
  /\ IF worker.pc = "idle"
     THEN worker' = Looking("query") /\ drainAgain' = drainAgain
     ELSE worker' = worker /\ drainAgain' = TRUE
  /\ UNCHANGED <<db, edits, history, spent>>

NextPending ==
  LET pending == {b \in Books : state[b] = "scanned"} IN
  /\ worker.pc = "query"
  /\ \/ pending = {} /\ worker' = Looking("nothing")
     \/ \E b \in pending :
          /\ \A c \in pending : b <= c
          /\ worker' = [Looking("photos") EXCEPT
               !.id = b, !.analysed = row[b].analysed, !.isbn = row[b].isbn,
               !.draft = row[b].draft, !.stated = row[b].stated]
  /\ UNCHANGED <<db, drainAgain, asks, edits, history, spent>>

MutNothingPending ==
  /\ worker.pc = "nothing"
  /\ drainAgain' = FALSE
  /\ worker' = Looking("idle")
  /\ UNCHANGED <<db, asks, edits, history, spent>>

NothingPending ==
  /\ worker.pc = "nothing"
  /\ drainAgain' = FALSE
  /\ worker' = Looking(IF drainAgain THEN "query" ELSE "idle")
  /\ UNCHANGED <<db, asks, edits, history, spent>>

\* withPhotographsOf is a second query; what is unread is decided after it.
LoadPhotographs ==
  LET todo == Photographed(shot[worker.id]) \ worker.analysed IN
  /\ worker.pc = "photos"
  /\ worker' = [worker EXCEPT !.photos = shot[worker.id], !.todo = todo,
                              !.pc = IF todo = {} THEN "settle" ELSE "count"]
  /\ UNCHANGED <<db, drainAgain, asks, edits, history, spent>>

SettleNothingNew ==
  LET b == worker.id IN
  /\ worker.pc = "settle"
  /\ IF state[b] = "scanned"
     THEN state' = [state EXCEPT ![b] =
                      Outcome(row[b].isbn # "" \/ "title" \in worker.stated)]
     ELSE state' = state
  /\ worker' = Processed
  /\ Elsewhere /\ UNCHANGED <<row, drainAgain, asks, history>>

MutTooMany(attempts) == attempts > ReadingsThatMayDie + 1
TooMany(attempts) == attempts > ReadingsThatMayDie

CountReading ==
  LET b == worker.id
      tooMany == TooMany(row[b].attempts + 1)
  IN
  /\ worker.pc = "count"
  /\ IF state[b] \notin Queued
     THEN row' = row /\ worker' = Processed
     ELSE /\ row' = [row EXCEPT ![b] = [@ EXCEPT !.attempts = row[b].attempts + 1]]
          /\ worker' = [worker EXCEPT !.pc = IF tooMany THEN "giveup" ELSE "read",
                                      !.counted = ~tooMany]
  /\ Elsewhere /\ UNCHANGED <<state, drainAgain, asks, history>>

GiveUpOn ==
  LET b == worker.id IN
  /\ worker.pc = "giveup"
  /\ IF state[b] \in Queued
     THEN /\ state' = [state EXCEPT ![b] = Outcome(FALSE)]
          /\ row' = [row EXCEPT ![b] =
               [@ EXCEPT !.analysed = worker.analysed \cup worker.todo,
                         !.note = "error", !.attempts = 0]]
          /\ lost' = [lost EXCEPT ![b] = 0]
          /\ offered' = [offered EXCEPT ![b] = [s \in Slots |->
                           IF s \in worker.todo THEN worker.photos[s] ELSE @[s]]]
     ELSE UNCHANGED <<state, row, lost, offered>>
  /\ worker' = Processed
  /\ Elsewhere /\ UNCHANGED <<drainAgain, asks, raced>>

\* What one photograph may come to: no ISBN in it (or its file is gone), a
\* barcode no catalogue has, a book a catalogue knows, or no verdict at all.
Verdicts == {"nothing", "barcode", "found", "timeout", "error"}
Failures == {"timeout", "error"}

\* The slot is marked read before the reader has it, and unmarked on a timeout.
MutMarkedRead(s, verdict) == {s}
MarkedRead(s, verdict) == IF verdict = "timeout" THEN {} ELSE {s}

\* Once a lookup has found the book, later verdicts no longer change it.
ReadSlot(s, verdict) ==
  LET unread == worker.todo \ {s}
      named == ~worker.draft /\ verdict \in {"barcode", "found"}
  IN
  /\ worker.pc = "read"
  /\ FirstIn(worker.todo, s)
  /\ worker' = [worker EXCEPT
       !.todo = unread,
       !.analysed = @ \cup MarkedRead(s, verdict),
       !.isbn = IF named THEN "read" ELSE @,
       !.draft = @ \/ verdict = "found",
       !.note = IF verdict \in Failures THEN verdict ELSE @,
       !.pc = IF verdict \in Failures THEN "fail"
              ELSE IF unread = {} THEN "stated" ELSE @]
  /\ offered' = IF verdict = "timeout" THEN offered
                ELSE [offered EXCEPT ![worker.id] =
                        [@ EXCEPT ![s] = worker.photos[s]]]
  /\ Elsewhere /\ UNCHANGED <<state, row, drainAgain, asks, lost, raced>>

MutReadOverlay ==
  /\ worker.pc = "stated"
  /\ worker' = [worker EXCEPT !.pc = "write"]
  /\ raced' = raced \ {worker.id}
  /\ Elsewhere /\ UNCHANGED <<state, row, drainAgain, asks, offered, lost>>

\* "Read fresh rather than from `capture`": the last read before the write.
ReadOverlay ==
  /\ worker.pc = "stated"
  /\ worker' = [worker EXCEPT !.stated = row[worker.id].stated, !.pc = "write"]
  /\ raced' = raced \ {worker.id}
  /\ Elsewhere /\ UNCHANGED <<state, row, drainAgain, asks, offered, lost>>

WriteReading ==
  LET b == worker.id
      stated == worker.stated
  IN
  /\ worker.pc = "write"
  /\ IF state[b] \in Queued
     THEN /\ state' = [state EXCEPT ![b] = Outcome(Resolved(worker.draft, stated))]
          /\ row' = [row EXCEPT ![b] = [@ EXCEPT
               !.isbn = IF "isbn" \in stated THEN "stated" ELSE worker.isbn,
               !.analysed = worker.analysed, !.draft = worker.draft,
               !.note = "", !.attempts = 0]]
          /\ lost' = [lost EXCEPT ![b] = 0]
     ELSE UNCHANGED <<state, row, lost>>
  /\ worker' = [Looking("recheck") EXCEPT !.id = b, !.analysed = worker.analysed]
  /\ Elsewhere /\ UNCHANGED <<drainAgain, asks, offered, raced>>

MutRecheck ==
  /\ worker.pc = "recheck"
  /\ worker' = Processed
  /\ Elsewhere /\ UNCHANGED <<state, row, drainAgain, asks, history>>

\* A photograph taken during the pass set the row to pending, and the write
\* above overwrote that.  The row and its photographs are two queries again.
Recheck ==
  LET b == worker.id IN
  /\ worker.pc = "recheck"
  /\ worker' = IF state[b] \in Queued
               THEN [worker EXCEPT !.read = row[b].analysed,
                                   !.pc = "recheckPhotos"]
               ELSE Processed
  /\ Elsewhere /\ UNCHANGED <<state, row, drainAgain, asks, history>>

RecheckPhotographs ==
  /\ worker.pc = "recheckPhotos"
  /\ worker' = IF Photographed(shot[worker.id]) \subseteq worker.read
               THEN Processed ELSE [worker EXCEPT !.pc = "repend"]
  /\ Elsewhere /\ UNCHANGED <<state, row, drainAgain, asks, history>>

MutRepend ==
  /\ worker.pc = "repend"
  /\ state' = [state EXCEPT ![worker.id] = "scanned"]
  /\ worker' = Processed
  /\ Elsewhere /\ UNCHANGED <<row, drainAgain, asks, history>>

Repend ==
  /\ worker.pc = "repend"
  /\ state' = [state EXCEPT ![worker.id] = IF @ \in Queued THEN "scanned" ELSE @]
  /\ worker' = Processed
  /\ Elsewhere /\ UNCHANGED <<row, drainAgain, asks, history>>

\* The catch: the overlay is not consulted and the photographs not rechecked.
FailReading ==
  LET b == worker.id IN
  /\ worker.pc = "fail"
  /\ IF state[b] \in Queued
     THEN /\ state' = [state EXCEPT ![b] = Outcome(FALSE)]
          /\ row' = [row EXCEPT ![b] = [@ EXCEPT !.analysed = worker.analysed,
                                                 !.note = worker.note, !.attempts = 0]]
          /\ lost' = [lost EXCEPT ![b] = 0]
     ELSE UNCHANGED <<state, row, lost>>
  /\ worker' = Processed
  /\ Elsewhere /\ UNCHANGED <<drainAgain, asks, offered, raced>>

\* Crops and hashes are derived and disposable: no column above is written.
Derive ==
  /\ worker.pc = "derive"
  /\ worker' = Looking("query")
  /\ Elsewhere /\ UNCHANGED <<state, row, drainAgain, asks, history>>

ReadPhotograph == \E s \in Slots, verdict \in Verdicts : ReadSlot(s, verdict)

WorkerStep ==
  \/ NextPending \/ NothingPending \/ LoadPhotographs \/ SettleNothingNew
  \/ CountReading \/ GiveUpOn \/ ReadPhotograph \/ ReadOverlay
  \/ WriteReading \/ Recheck \/ RecheckPhotographs \/ Repend
  \/ FailReading \/ Derive

-----------------------------------------------------------------------------
(* Faults *)

\* A reading that was counted, and that nothing will now settle.
ReadingDied == lost' = IF worker.counted /\ worker.pc \in ReadingPcs
                       THEN [lost EXCEPT ![worker.id] = @ + 1] ELSE lost

\* A statement of the worker's fails.  Inside `process` the catch answers it;
\* outside it, or in the catch itself, it ends the drain and the asks it held.
StatementFails ==
  /\ spent.faults < MaxFaults
  /\ spent' = [spent EXCEPT !.faults = @ + 1]
  /\ \/ /\ worker.pc \in {"settle", "count", "giveup", "stated", "write",
                          "recheck", "recheckPhotos", "repend"}
        /\ worker' = [worker EXCEPT !.pc = "fail", !.note = "error"]
        /\ UNCHANGED <<drainAgain, lost>>
     \/ /\ worker.pc \in {"query", "photos", "fail"}
        /\ worker' = Looking("idle")
        /\ drainAgain' = FALSE
        /\ ReadingDied
  /\ UNCHANGED <<db, asks, edits, offered, raced>>

\* The process dies and comes back: its memory goes, resumeOnStartup asks once.
Restart ==
  /\ spent.crashes < MaxCrashes
  /\ spent' = [spent EXCEPT !.crashes = @ + 1]
  /\ ReadingDied
  /\ worker' = Looking("idle")
  /\ drainAgain' = FALSE
  /\ asks' = 1
  /\ edits' = [r \in Requests |-> IF edits[r].pc = "unsent" THEN edits[r]
                                                           ELSE NoEdit("done")]
  /\ UNCHANGED <<db, offered, raced>>

-----------------------------------------------------------------------------
Next ==
  \/ \E b \in Books :
       \/ \E s \in Slots : NewCapture(b, s) \/ Attach(b, s)
       \/ ReadAgain(b) \/ Save(b) \/ Discard(b) \/ LeaseExpires(b)
       \/ \E who \in People : Claim(b, who)
       \/ \E r \in Requests, who \in People, patch \in Patches, letGo \in LettingGo :
            EditRead(r, b, who, patch, letGo)
  \/ \E r \in Requests : EditStep(r)
  \/ Drain \/ WorkerStep
  \/ StatementFails \/ Restart

Spec == Init /\ [][Next]_vars

\* Calls already made are run by the event loop, and every reading is bounded
\* by withDeadline (server/deadline.ts), so the pass always moves on.
FairSpec == Spec /\ WF_vars(Drain) /\ WF_vars(WorkerStep)

-----------------------------------------------------------------------------
(* Properties *)

\* A settled capture has no photograph the reader has not been through, however
\* the shutter, a retake or "read it again" fell across the pass (process, the
\* recheck after its write).  A crash between the two is a run of its own, and so
\* is a failing recheck whose failure cannot be written down either.
SettledMeansRead ==
  spent.crashes = 0 /\ spent.faults < 2 =>
    \A b \in Books : Settled(b) /\ worker.id # b /\ row[b].note = ""
                     => Unread(b) = {}

\* A slot is only called read once the reader has been through one of its
\* photographs, a timeout having been taken back (process, the catch).
ReadMeansOffered ==
  \A b \in Books : \A s \in row[b].analysed : offered[b][s] > 0

\* A capture that takes the process down is read at most READINGS_THAT_MAY_DIE
\* times before it is failed instead, and counts from the last "read it again".
CrashLoopBounded == \A b \in Books : lost[b] <= ReadingsThatMayDie

\* No wake-up is lost: while a capture is pending somebody is looking at the
\* queue or about to, unless a statement of the worker's failed (drain).
WorkerWillLook ==
  spent.faults = 0 /\ (\E b \in Books : state[b] = "scanned")
    => worker.pc # "idle" \/ asks > 0

\* A person beats the worker, field by field: once a reading has ended, an ISBN
\* somebody stated is the row's, and a book somebody has named is identified,
\* whatever the photographs said, however long the reading had been going and
\* whichever of edit and reading came first, unless the edit landed after the
\* worker's late read.
StatedWins ==
  \A b \in Books : Settled(b) /\ row[b].note = "" /\ b \notin raced =>
    /\ "isbn" \in row[b].stated => row[b].isbn = "stated"
    /\ row[b].stated \cap {"title", "isbn"} # {} => state[b] = "identified"

\* Two people do not fill in the same book: what one stated is not wiped by an
\* edit of another (claim, edit).
NoForeignEditLost ==
  [][\A b \in Books : row[b].stated \subseteq row'[b].stated
                      \/ row'[b].editor = row[b].editor]_vars

Stage(b) == CASE state[b] = "absent" -> "absent"
              [] state[b] \in Queued -> "queued"
              [] state[b] = "shelved" -> "catalogued"
              [] OTHER -> "discarded"
Life == INSTANCE BookLife WITH stage <- [b \in Books |-> Stage(b)]

\* No write of the worker, of an edit or of the shutter puts a book that left
\* the queue back into it, and only a save and a discard take one out.
FollowsBookLife == Life!Spec

\* Every pending capture is eventually settled, or leaves the queue.
PendingIsSettled ==
  \A b \in Books : state[b] = "scanned" ~> state[b] # "scanned"

(* What the code's comments promise, checked on their own. *)

\* "Re-taking a slot means it needs reading again" (attach): the newest
\* photograph of every slot of a settled capture has been before the reader.
RetakeIsRead ==
  \A b \in Books : Settled(b) /\ worker.id # b /\ row[b].note = ""
                   => \A s \in Slots : offered[b][s] = shot[b][s]

=============================================================================
