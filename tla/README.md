# Book Scan: TLA+ models and proofs

Book Scan photographs books, reads their covers and barcodes, catalogues them
and says which shelf each belongs on. This directory holds TLA+ modules of the
parts of it where order, failure and concurrency decide whether it is right,
configurations that check them with TLC, and proofs that TLAPS checks. Paths
below are relative to `src/web/` unless they begin with `src/`.

## The system

One Node process (`server/index.ts`) serves the pages and the API and keeps
everything in one Postgres database and a directory of photographs. JavaScript
runs one handler at a time, but every `await` lets another one in, so a handler
is atomic only between two of its statements. Only what is inside one SQL
statement, or under a lock taken in a transaction, is atomic for anybody else.

| Part | State it keeps | Operations | What is hard | What makes it correct |
|---|---|---|---|---|
| Capture queue (`server/queue.ts`) | `books.state`, `analysed`, overlay, claim, attempts; the drain guard and the sweep's timer in memory | shutter, retake, read again, claim, edit, release, discard, `drain`/`process`, sweep, boot resume | one worker against every handler, lookups of seconds inside an edit, crashes, timeouts | every photograph is read, no wake-up is lost, a person beats the worker, a book leaves once |
| Cataloguing (`application/books/commands/`, `infrastructure/books/`) | the catalogue columns of `books`, tags, credits | save from the queue, save new, revise | a question asked and a book added later, names met by two saves at once | an asked number gets no second book, the range follows the tags, a book files as its name does |
| Locks and transactions (`application/locks.ts`, `server/db.pg.ts`) | advisory locks, savepoints, the set `held` | `tx`, nested `tx`, `serialiseOn` | order, re-entrance, rollback of a savepoint | mutual exclusion, no deadlock |
| Placement ledger (`infrastructure/placement/`, `server/placement-ledger.ts`) | append-only `book_placement`, `books.current_area_id` | `record`, `leave`, `restore`, rule changes, rebuild | two writers fold without each other's row | the column is the fold of the ledger |
| Rules, plan, carry, relocate (`domain/placement/`, `server/carry.ts`, `server/place-rule.ts`, `server/relocate-run.ts`) | rules, what each book is owed | write a rule, carry, take back, relocate | which books a change moves, a receipt against a rearranged room | every owed move is asked once, a plan is what happens |
| Shelves and furniture (`server/furniture.ts`, `server/shelves.ts`, `infrastructure/shelving/`) | pieces, areas, boundaries, the receipt of a move | overflow, cross, retract, add, move, renumber, remove | areas and boundaries are two forms of one thing, three walks answer one question | the walks agree, an operation moves the books it said |
| Store and circulation (`server/store.ts`) | `checked_out`, `shelved` | check out, check in, delete | concurrent check-outs | ledger rows alternate and match the state |
| Tags and authorship (`application/tagging/`, `application/authorship/`) | words, tags and their sources; names, authors, credits | apply, remove, restate, define, forget; introduce, file, merge | catalogues, guesses and people on one book; names that move while they are credited | what a person said stands, no credited name is lost |
| Photographs and crops (`server/photographs.ts`, `server/capturecrop.ts`) | rows, files, hashes | save, hash, crop, free files | free a file somebody has just used | no file of a living book is removed, no other stays |
| Reading (`server/identify.ts`) | the chain of readings | `identify` | an abandoned reading still runs | the chain always advances |
| Lookups (`server/lookup.ts`, `server/source-pace.ts`, `server/source-watch.ts`) | when each source is free | `reserveSlot`, alarms | shared pace, budget edge | never closer than the interval |
| Sign-in and OAuth (`infrastructure/auth/`, `server/mcp/`) | pages, grants, codes, tokens | consent, spend, rotate, revoke | a replay, statement by statement | each is honoured once, a replay ends the grant |
| Backup (`server/backup*.ts`) | dump files | dump, restore, watch | mostly I/O | |
| Browser helpers (`src/lib/`) | upload chain, undo timers | add, retry, hold, release | an answer lost on the way | one capture per book, an undone discard never commits |

The parts meet in four places. The shutter, the edits, the worker, a save and a
discard share the row of a book. A save, a carry, a rearrangement and a checkout
share the ledger and take the advisory locks. Saves, lookups and people share the
tags and the names. The reader is used by the worker only, and asks the lookups,
which share the pace of a source with everybody else.

## Modules

| Module | Models |
|---|---|
| `BookLife` | what all writers of `books.state` promise: a book enters the queue once and leaves it once |
| `CaptureQueue`, `MCCaptureQueue`, `CaptureQueueProofs` | the capture queue, statement by statement; it implements `BookLife` |
| `Sweeps` | who looks at the queue, and when: drain, timed sweep, screen and start |
| `AdvisoryLocks` | transactions, savepoints and advisory locks: `PgDb` and the lock order |
| `UnitsOfWork`, `MCUnitsOfWork` | the handlers over `AdvisoryLocks`: who asks for which names, nested how |
| `UnitsOfWorkProofs` | proofs about `AdvisoryLocks` and `UnitsOfWork` |
| `Standing` | what the rows of one book say: the fold in TypeScript, the fold in SQL, what writers conclude |
| `PlacementLedger`, `MCPlacementLedger` | the ledger and the column folded from it, written by transactions statement by statement |
| `PlacementLedgerProofs` | proofs about the two folds of `Standing` and about `PlacementLedger` |
| `Furniture` | the tables of a room, and the algorithms that read runs and boundaries from them and write them back |
| `Shelves`, `MCShelves` | everything people do to the shelves, over `Furniture` and `Standing` |
| `ShelvesProofs`, `CarryListProofs` | proofs about `Furniture` and `Shelves`: the schema and the walks; the carry list |
| `Photographs`, `MCPhotographs`, `PhotographsProofs` | files, the books that name them, and the sweep of those nobody names |
| `Tagging`, `MCTagging` | tags with their sources, the genre and the range, words defined and forgotten |
| `Cataloguing` | numbers already catalogued; names met, credited, corrected and merged |
| `Grants` | consent, codes and refresh tokens |
| `SourcePace` | the slots of one catalogue |
| `ReadingChain` | one reading at a time, with a deadline |
| `Uploads` | photographs of the books in hand on their way to the queue |
| `DiscardWindow` | the undo window of a discard |
| `MCParts` | eight of these that share no state, one of them per behaviour |
| `CatalogueProofs` | proofs about `Tagging` and `Cataloguing` |
| `PartsProofs` | proofs about `Grants`, `Uploads`, `DiscardWindow`, `Sweeps`, `SourcePace` and `ReadingChain` |

`CaptureQueue` stands over `BookLife`, which it implements. `UnitsOfWork` extends
`AdvisoryLocks` and adds to its actions who makes which call. `PlacementLedger`
and `Shelves` both stand over `Standing`: the first shows what the ledger says
when its writers interleave, the second what the operations make of the room.
`Shelves` has each operation as one step because `UnitsOfWork` shows they exclude
each other under the lock of the furniture. The queue has the save, the discard
and the deletion of a book as one step each for the same reason.

### CaptureQueue

State. `state` is `books.state`; `shot` numbers the newest photograph of each
slot; `row` holds the columns the queue writes (`analysed`, the ISBN, whether a
draft was found, the overlay people state, the count of readings, the failure
note); `claim` is `claimed_by` and whether the lease still runs. `worker` is the
local state of the single drain pass and of the `process` call inside it, its
`pc` naming the database statement it does next. `drainAgain` is the field of
that name, `asks` counts calls of `drain()` on their way. `edits` holds the
PATCH requests in flight. Four history variables (`offered`, `lost`, `raced`,
`spent`) are read by no action but for the bounds.

Actions. `NewCapture` and `Attach` are the shutter, each one transaction.
`ReadAgain`, `Save` (the conditional write of `writeRow`) and `Discard` are one
statement or one locked transaction each. `EditRead`, `EditClaim`, `EditLookup`,
`EditWrite` and `EditRelease` are the statements of one PATCH. `Drain` is a call
of `drain()`; `NextPending` to `Derive` are the statements of the pass in the
order of the code, `ReadSlot` being one call of `identify` with any of the
verdicts it can return. `StatementFails` makes one statement of the worker throw
and takes the path the code takes: inside `process` the catch, elsewhere the end
of the pass. `Restart` is the death of the process followed by
`resumeOnStartup`: the database stays, memory goes.

Abstracted. A verdict is one of five outcomes. An ISBN is where it came from
(read off the photograph, stated, written by the save). A title is present or
not; edits state values that are not empty. A photograph is its number in its
slot; one whose file exists and cannot be opened is not modelled. Notes are the
prefixes `failureOf` tells apart. `Derive` writes no column here: what it makes
is in `Photographs`, and the sweep that calls `drain` is in `Sweeps`.

`Init` lets a seeded capture carry slots already analysed and an ISBN read
before: another process or a migration may have put it there. The pass then
finds nothing new and takes the branch `SettleNothingNew`. The worker itself
never leaves such a pending row, and `SettledMeansRead`, which is about what the
worker leaves, is checked with `Seeded = {}`.

### BookLife

Three actions on one variable. `QueueFollowsBookLife` shows that the queue
implements it.

### Sweeps

State. `pending` is the captures the database would answer; `worker` is where the
loop of `drain` is and what its query saw; `timer` is the sweep's one timeout;
`pass` is where each call of `sweepPass` is, between its two counts; `boot` is
`resumeOnStartup`, which hashes queued covers before it drains. `seen` (history)
is the captures that waited when somebody asked for a look.

Actions. `Shutter` is a photograph with its call of `drain`, `Wake` and
`ListQueue` the two routes that ask for the sweep, `WriteElsewhere` a capture that
comes or goes without asking anybody. `Drain` turns a second call away and notes
it. A query reads at one moment (`Look`, `Count`) and is answered at a later one,
so a capture may fall between. A drain that throws forgets the calls it turned
away, which is where `seen` is cleared; the process may stop anywhere.

### AdvisoryLocks

State. For every connection: `pc`, where its current call of `tx` is; `depth`,
how many levels are open (`TxContext.depth`); `took`, the outermost level that
took each lock, which is what Postgres remembers; `held`, what `PgDb` believes
(`TxContext.held`); `wanted` and `calling`, the names of a call being made.
`asked` is a history variable: the outermost level whose work serialises on each
name.

Actions. `Begin`, `Nest` and `SerialiseOn` are the three ways to ask for names:
the outermost `tx`, a `tx` inside a `tx`, and the empty savepoint of
`WorkScope.serialiseOn`. `Refuse` is the throw of `outOfOrder`. `Take` is one
`pg_advisory_xact_lock`: it waits until no other transaction has the lock, and
is re-entrant. `Locked` is the `SAVEPOINT` after the last lock. `Commit`,
`Release`, `Rollback` and `RollbackTo` end a level, and hand the locks of the
level down or give them up as Postgres does. `StatementFails` is any statement,
a wait for a lock among them.

Constants. A name is its place in the lock order. `Calls` is the set of sets of
names one call may give, so that the same module serves for calls of any shape
and for those of the handlers. `Catches` says whether work may go on after a
nested `tx` has thrown: `UnitOfWork` lets a handler do that
(`application/ports.ts`, the comment on `run`), none does.

Left out: the pool and its ten connections, collisions of the 64 bit keys, names
in no namespace, a cancelled wait.

### UnitsOfWork

State, besides that of `AdvisoryLocks`. `left` is the calls a handler has still
to make; `standing` is the ranges whose run one plank stands in; `known` is the
ranges a handler takes that to be; `plank` is how far a handler is with taking
the plank off; `changes` says whether it is one that rearranges the room.

Actions. A handler is one of `Units`, a sequence of calls: `Saves`,
`Revisions`, `Deletions`, `Refilings`, `Rearrangements`, `Removals`, one set per
handler or group of handlers that ask for the same names. `Start` and `Ask` make
the next call; what they name may depend on the room as they read it, before
they have the locks. `NoMore` is a handler that stops asking: there was no
genre, no change of place, no such row. `DropArea` is the second look of
`dropArea` at the ranges, under its locks. `Finish` commits, and only then does
the room change for the others.

Left out: what the handlers read and write, but for that one plank; planks other
than that one; more than one book, as a handler names at most one.

### Standing

The rows of one book, `[id, book, kind, area]`, and two folds of them:
`AfterRow`, folded in the order of the ids, is `standingOf`
(`domain/placement/ledger.ts`), and `FoldedArea` is the fold the projection makes
in SQL. What the writers conclude, among them which row a change of the rules
asks for and whether a book is on its way, is stated over the first.

### PlacementLedger

State. `rows` and `nextId` are `book_placement` and its sequence; `book` is each
book's state and `current_area_id` as committed, `draft` the version its locker
has written and `lockedBy` who that is; `table` is the lock of the whole ledger a
rebuild takes. `wanted` stands for rules and furniture: the area they give each
book. Of every request, `tx` is how far it is, `mine` the rows it has inserted,
`seen` what the statement it is in sees; `alone` (history) is whether it has been
the only one so far, and `read` (history) the books and rows a change of the rules
went by.

Actions. A request is any that writes the ledger: a place said by hand,
check-out, check-in, a save, a change of the rules, leaving books where they are
and putting that back, unplacing every book, erasing every placement, the rebuild
at start. Each goes statement by statement at READ COMMITTED: `Insert`, `Fold`
(the projection sees what was committed when it began), `Write` (which waits for
whoever has written the book, and then writes what it saw before it waited),
`Mark` (the conditional write of the state). Any statement may fail.

Left out: receipts of moves that an unplacing or an erasure clears as well, the
text of reasons, the report of drift.

### Furniture and Shelves

A room is what the tables hold: pieces, areas with position, anchor and whether
they sort for themselves, the place each rule names, the ids the ledger names.
`Furniture` has the algorithms that read it (the order of the planks, the run of
a range, its boundaries, the plank of a key) and write it (a list of boundaries
turned back into areas, numbers of a face closed up, a plank taken off with what
its neighbour takes over), all as functions and folds.

`Shelves` keeps the `room`, what the ledger says of each book (`standing`), the
receipt of each book's last move, and books put down whose receipt is yet to be
cleared (`answered`). `survey` and `walk` are derived from the room once a step;
`did` is history. What a write changed is recorded in two ways, as in the code: of
every run by the pages of the furniture (`Rearranged`, for
`recordWhatTheRoomMoved`), and of the one run at hand where a boundary is moved
(`RunRearranged`, `MovedIn`, for `recordWhatMoved`).

| Action | Code |
|---|---|
| `Overflow`, `CarryOn` | a plank said to be full, and its book carried on to the next |
| `MoveAcross`, `Retract` | a book carried across a boundary, and that taken back |
| `PutDown`, `ClearMove` | "it is there now", and the receipt cleared in a transaction of its own |
| `AddPiece`, `Renumber`, `DropPiece` | furniture |
| `AddArea`, `DropArea`, `EditArea` | planks: where they land, where they start (somebody said, or worked out), how they sort; a face is numbered afresh when an edit gives a position, and not otherwise |
| `RuleChange` | a rule that serves no range written on a place, or taken away |
| `RelocateRun` | a run planned and moved to a place |

Each is one step: a transaction under the furniture's lock, and `UnitsOfWork` is
about those. `ClearMove` is a step of its own since it is a transaction of its
own (`server/index.ts:2826`).

Left out: resets, names and labels, what the strategies sort by, the strips drawn
for a screen, which of several rules claims a book by its tags.

### Photographs

State. A photograph is the file of its number, and its crop another file.
`rows` are the photographs of each book, `disk` the files. `removal` is where each
discard or deletion is: it reads the files of the book, commits, then asks of each
file whether a living book still names it and deletes it if not. `saving` is the
save of a scan that has read the scan's photographs; `derive` is the capture being
hashed and cropped. `late` and `missed` (history) are files saved, and files
recorded, after somebody had listed what there was.

Actions. `AttachOnto`, `AttachNew` and `AttachFails` are the shutter, which
writes the file first; `SaveQueued` and `SaveCopy` are the two ends of a save;
`ReadFiles` to `RemoveFile` are a removal; `Hash`, `WriteCrop`, `RecordCrop` and
`CheckDiscarded` are the derive, with its own sweep when the scan was discarded
meanwhile; `Restart` stops it all.

Left out: the images, three slots at once, declined crops and refused hashes,
catalogue covers and embeddings, two derives at once (there is one worker), two
files saved under one name in one millisecond.

### Tagging

State. `vocabulary` and `tags` are the tables; a slug is its namespace and its
word. A catalogue has one heading for each ISBN, named by it, and one genre.
`task` is how far each request is, `overtaken` (history) the books restated by a
lookup of a number they had before.

Actions. Requests apply or remove a tag, save with a genre and perhaps another
number, look up a number and restate what was found, define a word, remove one.
Each is define, write, commit; what a request has written is seen by others when
it commits. `Remove` is the one statement that deletes a word nothing carries:
it waits for whoever holds the word's key and, as Postgres does with a row that
was locked and not changed, goes on without asking again.

Left out: labels, confidence, the classifier, when a row was added.

### Cataloguing

State. `catalogued` is the books with number, credited name and what they file
under; `names` is `author_alias`, `authors` is `author`; `work` is how far each
request is, with the names it has written (`rows`) or deleted (`lost`), authors
inserted and deleted, and not committed.

Actions. `Save` begins under the lock of the number, `ReviseBook` under the lock
of the book and no number's; `Ask` is `cataloguedWith`. `Known`, `InsertAuthor`
and `InsertAlias` are `introduce`, the insert in its two halves, the second of
which waits for another insert of the same name; `Override` and `WriteBook` are
the rest of a save. `FileAlias` is a person's correction. `Merge`, `MoveNames` and
`DropAuthor` are a merge: the last takes with it names that came to the author
meanwhile, and is refused if a book credits one. Any statement may fail. `late`
(history) is on a request whose name is corrected, or goes, after it has met it.

Left out: several credits of one book, `PUT /api/books/:id/authors`, the refiling
tool, a save confirming a scan (`CaptureQueue`), genres and ranges (`Tagging`).

### Grants

State. Of each consent page where it is; `opened` the grants; of each grant which
credentials are `spent` or `expired`, how many pairs were `issued`, whether it is
`revoked`; `request` is how far each exchange is. Credential 0 is the code, n the
nth refresh token. No request holds a transaction, so `Honour` (the conditional
update), `Replay` (what is done when it changed no row) and `Issue` are three
steps, and a request may end after any (`Ends`).

Left out: clients and their sweep, sign-in and its sessions, approval racing a
sign-out, the flag that turns it all off.

### SourcePace and ReadingChain

`SourcePace` has a clock, `nextFreeAt` and the lookups: `ReserveSlot` takes a slot
or goes without, `Awake` is the timer, up to `Lag` late, that asks if there is
budget left; `PaceRestart` is a new process, which has forgotten.

`ReadingChain` has a clock, the tail of the chain and the calls. A call starts
when the one before it is settled, read or abandoned; `TimeOut` abandons it, and
it goes on unheard.

### Uploads and DiscardWindow

`Uploads`: of each book in hand, the capture known and the request awaited
(`chain`); the requests as the server has them (`post`); the captures there have
been. `Add` and `AskAgain` send, an answer may be lost (`GiveUp` ends the
retries), `Lookup`, `Attach` and `Create` are the server's part, and a capture
may be deleted in between.

`DiscardWindow`: swipes by number, the one held for each scan, the browser's
timeouts. `Hold`, `Fire`, `Release`, `Abandon`, `Flush` are the functions of
`discardWindow.ts` as `QueuePane.tsx` calls them.

### MCParts

`Grants`, `Uploads`, `DiscardWindow`, `Tagging`, `SourcePace`, `ReadingChain`,
`Sweeps` and `Cataloguing` share no state. One run checks them all: `part` is
chosen at the start, that module runs, the others stand still in an initial
state. So a behaviour of the run is a behaviour of one of the modules, and the
states are the sum of theirs and not the product. Requests, lookups, calls and
captures are the same three interchangeable values; there is no liveness property
in the run, so symmetry is sound.

## Runs

| Run | Question | Instance |
|---|---|---|
| `CaptureReading` | shutter, retake, read again, save, discard against the worker, one failing statement | one book, two slots, two photographs a slot |
| `CaptureOverlay` | corrections by two people against each other and against a reading | one book, two people, two edits, one slot |
| `CaptureLiveness` | does every pending capture get settled, and do crash loops end | two books, one slot, three crashes, fairness |
| `Units` | any two handlers at once: do they get their locks, and what do these protect | two handlers, five names, three levels |
| `Placement` | what do ledger, column and state say together when requests interleave | one book, two areas, two requests, five rows |
| `Shelves` | do the walks agree, do operations move the books they said | six rooms, three books of one run and one of another, two to four steps |
| `Photographs` | is no named file deleted, and none left | two books, two photographs, two removals, the worker |
| `Parts` | eight parts that share no state, see below | three requests each; two of `Cataloguing` |
| `BugRetake`, `BugProjection`, `BugStaleHash`, `BugForget` | one promise of a comment each, violated | the smallest instance that shows it |

TLC's own deadlock check is off in most runs: the models stop when requests and
bounds are used up, and a server with nothing to do is idle. It is on for the
locks, where a circle of waiting transactions is the invariant `NoDeadlock`.

What the passing runs show, and under which conditions:

- `SettledMeansRead`: no photograph of a settled capture goes unread, wherever
  the shutter falls across the pass. It is conditioned on no crash and at most
  one failing statement: the recheck is a statement after the write, and if the
  process stops in between, or it and then the catch both fail, nothing is left
  to notice.
- `ReadMeansOffered`: a slot called read was read, or given up on.
- `WorkerWillLook`: while something is pending a pass is looking or a call of
  `drain` is on its way. It needs that no statement of the worker fails.
- `FollowsBookLife`: no write of the worker, of an edit or of the shutter brings
  a book back.
- `StatedWins`: after a reading that ended well, what a person stated stands and
  the book is identified, unless the edit landed between the read of the overlay
  that the worker calls late and the write that decides from it: there are awaits
  between the two, and the property names that gap (`raced`).
- `NoForeignEditLost`: nobody wipes what another stated, as long as nobody lets
  go of a book in the middle of an edit of their own (`LettingGo = {FALSE}`).
- `CrashLoopBounded`: at most `READINGS_THAT_MAY_DIE` readings in a row die.
- `PendingIsSettled`: under fairness every pending capture is settled or leaves.
- `SweepWillLook`: a capture that was there when somebody asked for a look has the
  worker, the timer or a pass of the sweep before it. Not after a drain that
  threw, and a pass on its way out, which no longer re-arms, does not count.
- `Serialised`: two pieces of work that serialise on one name are never open at
  once.
- `NoDeadlock`, `HeldIsHeld`: no circle of handlers waits on itself, and `held`
  names what is owned, for the handlers as they nest.
- `RefusedOnSharedPlank`: in the calls the handlers make of each other no name
  comes too early, but for a removal of a plank both runs stand on.
- `DropHoldsItsRuns`: a removal that commits has held the locks of every run the
  plank stands in, though it named them from a read made before it had any.
- `FoldsAgree`: the two folds say the same of every ledger the requests write.
- `SoleWriterHeals`: a request alone from beginning to commit leaves the column of
  its books as the fold of all their rows, whatever was there before. Alone,
  since two at once do not (`BugProjection`).
- `CirculationAlternates`, `OutIsOut`: check-outs and check-ins of a book
  alternate in the ledger, and a book the ledger has out is out.
- `NextAnswerIsAsked`: leaving books where they are says no to one answer and the
  next is still asked for (`domain/placement/ledger.ts:18`). A change of the rules
  reads the ledger, a person leaves books where they are or takes them out, the
  change commits what it made of what it read. By then every book it read owes what
  the rules want, or has declined it, or is left alone. A leave whose row comes
  behind the rows of the change says no to what the change asks for, though the
  person was shown the answer before it; that counts as declined, as
  `ledger.ts:134` has it ("the answer that was on the table"). Excepted are books with
  other rows since, as a save or a putting back leaves them, books a leave has
  slipped a row under that was read, and books that had declined this very answer:
  the fold remembers one refusal, and the later one takes its place.
- `TypeOK` of `Shelves`: foreign keys hold and no two planks of a piece have one
  number, whatever order they are taken off, brought back and renumbered in.
- `WalksAgree`: the layout, the area a key falls in and the answer of the rules
  are written in three files; in a straight room they name one plank.
- `CarryListFollows`: a book that was where the rules had it is on its way to
  where they have it now, after a boundary, a piece, a plank or a rule is changed.
  Excused: a book on its way out of an area that goes (`LeavingAnyway`); the books
  of other runs where a boundary of one run is moved, which the code does not look
  at (`OthersStay` says that nothing happens to them, and when it may);
  a rule written where the room does not end straight.
- `BooksFollowPlanks`: the same of planks that take their books along: taken out,
  taken away with their piece, or moved with their run. Where each plank that goes
  joins its run (no run begins at it and ends with it, and it has no ordering of its
  own) in a straight room, and, for a run moved, the room is straight afterwards.
- `MovesAsOffered`: a crossing moves one book to the plank offered; saying a plank
  is full moves its last book there and none before it; a run moved is where the
  plan put each book. Where the room is straight, and boundaries stand at books, or,
  for a run, every plank belongs to one.
- `OthersStay`: what is done to one run leaves the areas, order and anchors of
  the others, numbers aside. Where the room is straight, planks that go join their
  run, one of them stays on the piece where a crossing takes several out, and a
  retraction finds its boundaries in its own run still (`PutsBackItsOwn`).
- `TakenBack`: taking a move of several crossings back, with nothing moved since,
  restores the layout.
- `NamedIsKept`: no file a living book names is deleted, but for one a save named
  after its scan had been thrown away (`late`). About photographs, not crops.
- `NothingLeft`: with nothing in flight no other file is left, but those recorded
  after they had been listed, failed shutters, stops, and a crop another replaced
  (`missed`).
- `SpentOnce`, `OneChain`, `PresentedTwiceEnds`: a credential is honoured once; a
  grant has one that can be spent; one presented twice ends the grant.
- `OneBookOneCapture`: the photographs of a book land on one capture unless an
  answer was lost or the capture deleted, and two books never share one.
- `SwipedOnce`: a discard is sent once, or was taken back, or has a timer armed.
- `PersonsTagStays`: only a person takes back what a person said, but for the
  removal of a word that had to wait (`BugForget`).
- `HeadingsAreItsOwn`: a book carries no heading of a number that is not its own,
  but for books a slow lookup overtook.
- `RangeFollowsTags`: a save leaves the range its tags lead to.
- `PaceKept`: two requests are an interval apart, less what a timer may be late,
  within the life of one process.
- `InTurn`: one reading at a time, abandoned ones apart, and each is answered
  within its own time and that of those ahead of it.
- `AnswersOrAdds`: a save told to answer a book that is there adds none beside it,
  unless a revision, which takes no lock on the number, gave the number away.
- `CorrectionsStand`: a name a book credits stays, of an author that is there,
  and files as it did until somebody says otherwise; a book files as its name
  does when it is saved, unless that is corrected, or goes, just then (`late`). A
  name that goes can come back as another save meets it, filing as it did before
  anybody corrected it: it takes five requests, so the run of two does not get
  there; the proof does.

Every property has a mutant in `PROJECT.json`: a plausible bug in the code,
defined next to the definition it changes, under which TLC finds the property
violated.

Bounds. Two slots are enough for a photograph to arrive for a slot already read,
being read and not yet read; two photographs a slot for one retake. Two books
are needed where the order between captures matters (liveness); the rest of the
queue touches one book at a time. `READINGS_THAT_MAY_DIE` is 2 in the code and
in the runs; three crashes are one more than it takes. One fault reaches every
catch. Two edits, by one person or by two, are what it takes for one to wipe the
other. Three levels (`MaxDepth`) are the deepest chain of the handlers: a move
across a boundary, in it `RemoveSeparatorHandler`, in it `dropArea`. Two
transactions are enough for two handlers to cross; that more cannot either is
proved. Five rows are a seeded history and a row of each of two requests over
two areas. The rooms of `Shelves` are runs apart, two runs sharing a piece, a
piece with two planks reached from the piece before, one with a stray plank, one
where a plank that orders itself cuts a run short of the plank behind, and one with a
gap in the numbers between two runs on a piece; three steps are a crossing carried on and taken back, or one change of the room,
which counts for two, with a move on one side of it. `Stray` begins with a plank
no run reaches, as a renumbering leaves it, and the room of two runs on one
piece has a step more than the others (`Spent`), so that a change of the room
comes between a crossing and its retraction, or two changes meet; `Cut` has a
step less, as what it is for takes one change. With the longer histories
`RunLands` and `OthersStay` turned out to need a condition (`NoStrays`,
`PutsBackItsOwn`), and fail without it; `Cut` shows why `BooksFollowPlanks` must
leave out a plank that orders itself, and `Gapped` that a crossing may take out all
planks a run has on a piece (`OneStays`). With a step more `Gapped` has 44 000 states
and shows nothing new. Two photographs and two removals are
what it takes for a file to be named twice and removed from both sides. Two
refresh pairs, three requests: a replay against the exchange and the issue it
races. Interval 3, budgets 3, 5 and 8 with a lag of 1 put a slot before, at and
past a deadline. Two requests on three names show both merges into a chain, the
race of an insert, and a correction under a save; three requests were tried on
their own (850 000 states) and show nothing new. Bounds are guards of the models
and named in their CONSTANTS.

Fairness. `FairSpec` of `CaptureQueue` has weak fairness of `Drain` and of
`WorkerStep`. The event loop runs a call that was made, each statement of the pass
answers or throws, and every reading is bounded by `withDeadline`
(`server/deadline.ts`). Nothing is assumed of people, edits or crashes.
`SourcePace` and `ReadingChain` bound their timers by the clock instead: it does
not pass a timer that is due (but for `Lag`).

The lease. `CLAIM_LEASE_MS` is five minutes and each edit renews it; an edit
lasts seconds. So `LeaseExpires` does not happen during an edit.

## What the code does other than it says

Four runs end in a counterexample, each against a comment of the code quoted in
`PROJECT.json`:

1. `BugRetake`: a slot retaken while its first photograph is being read ends up
   marked read, and the new photograph is never read.
2. `BugProjection`: two transactions that record a placement of one book each
   fold a ledger without the other's row, and the column may keep the earlier.
3. `BugStaleHash`: a front retaken while its first photograph is being hashed
   carries the hash of the first.
4. `BugForget`: a word removed while a book is being put under it takes the tag
   off again.

More were met while modelling, without a run of their own:

- Queue. A reading that fails leaves a book somebody titled failed
  (`queue.ts:1163` against 532). An edit admitted while queued writes its overlay
  after the save, by id alone (545). A page that lets go of a capture releases the
  claim under an earlier edit of its own (`index.ts:1244`). A stop between the
  write of a reading and the recheck loses a photograph (1126). The count of
  `sweepPass` is outside its `try` (889), and nobody catches its promise. A
  hash sweep that throws at the start skips the drain and the wake (1223).
- Locks. `held` keeps the names of a savepoint that was rolled back, of which
  nothing comes as no handler catches inside a transaction. With both
  runs on one plank, removing a boundary or crossing it is refused a lock by its
  own nested call (`furniture.ts:1488`).
- Rules. A save takes no lock of the furniture: a book saved while a rule changes is
  placed by the old rules until the next change (`place-rule.ts:526`). Putting books
  back asks for what had been declined when it read, over what the rules may have
  said since (`carry.ts:117`).
- Plans. `relocate.ts:24` says "the plan and the apply are the same answer". After a
  piece of a run has been renumbered past its next one a plank is left that no run
  reaches. The plan of a move in front of it keeps it (`relocate.ts:277`) and sends books
  there; the apply rewrites the boundaries of the run and takes that plank off
  its piece (`areas.ts:1201`), so they land elsewhere.
- Retractions. A receipt names boundaries by id, and `change`
  (`separator-repository.ts:135`) moves each in whatever run it is in by then, while only
  the run of the receipt is compared and recorded (`shelves.ts:1114`, 1139). A plank
  moved along its face into another run in between takes books of that run along,
  and no row says so, though `what-moved.ts:4` promises a row for each.
- Shelves. A plank with an ordering of its own ends the run before it. Taken away,
  alone or with its piece, it lets that run flow over the planks behind. `dropArea`
  (`furniture.ts:1435`) then sends along what stood on the plank, `dropFixture` (988)
  nothing, and neither the books of that run which now belong further on.
  A half-stripped piece when a run moves onto pieces it stands on
  (`areas.ts:1104`, 1217). A book on its way out of an area that goes is sent to
  the neighbour whatever the rules say (`furniture.ts:1357` against 1422). Taking
  a plank off a piece another run begins on gives its books to that run; a crossing
  that takes out both planks a run has there does too, though each alone would have
  joined the other, and the lock of that run's range is not among those it takes
  (`shelves.ts:951`, `furniture.ts:1436`). A carry
  never saved leaves a boundary at no book. Put-down and clearing the receipt are
  two transactions. Positions of the planks of a face can have gaps, though
  `src/docs/domain-model.md:97` says they are contiguous. Adding a plank writes it at
  the number of planks first (`furniture.ts:1180`), and fails on the unique index
  where a gap has left that number taken. Check-out asks only whether the book is out
  (`store.ts:345`), so a queued or discarded one can be checked out.
- Sources. A wait equal to the budget is refused (`source-pace.ts:57`) though the
  comment says it still goes.
- Photographs. A file recorded between the listing and the commit of a removal
  stays for ever, as does the crop of a deleted book; a book saved from a scan
  thrown away meanwhile names deleted files.
- Browser. A first photograph whose answer was lost makes a second capture.
- Tags and names. Two saves meeting one new name at once leave an author with no
  name, which `author-repository.ts:96` says a race cannot: the insert of the
  author sees no uncommitted alias, and the alias then does nothing on conflict.
  Two merges at once, of A into B and of B into C, delete the names that came to B
  unless a book credits one. A revision takes no lock on its number. A word
  removed between its definition and its use makes a save fail. A scan without
  ISBN saved twice is two books.

## Proofs

Eight modules hold theorems. They are about any sets of books, people, requests
and names, and any bounds, and use the named assumptions of the modules only.
Among those are that the books of the ledger and the captures asked about are
finitely many, that requests and names are different things, and that the rooms a
history of the shelves begins in are finite and keep the schema.

`CaptureQueueProofs`:

- `TypeCorrect`: `TypeOK` alone is not inductive: the worker indexes the tables by
  the book in its hand, so it is strengthened by "outside idle, query and nothing,
  the worker holds a book", and an edit past its first read names a book.
- `CrashLoopIsBounded`: `CrashInv` ties the history to the column: the readings
  that died are counted by `attempts`, one more while the current reading is
  counted, and the counted one has not passed the limit.
- `NoWakeUpIsLost`: `AwakeInv`: with no fault so far, a pending book implies an
  ask on the way, a pass that has yet to query, or a pass that found nothing with
  `drainAgain` set.
- `QueueFollowsBookLife`: initial states map to initial states, and every step to
  a `Scan`, a `Catalogue`, a `Discard` or a stutter; one lemma per kind of write
  (`StageStays`, `StageMoves`, `StageInQueue`).
- The next four are about what happens between two statements of the pass. A step
  is one of the people's, one of the worker's, or a fault; `PeopleDid` says once
  what all of the first sort can do to one book (leave it, send it back to be
  read, take it out, correct it), and a lemma for each statement of the worker
  says what that does to the book in hand. `PassInv` is common to them: what the
  worker knows of that book at each statement, such as that it is not settled
  before the write, and that something of it is unread while it is being read.
- `ReadHasBeenOffered`, from `OfferInv`: what the worker lists as analysed has
  been offered, and what it has still to offer is photographed.
- `SettledCaptureIsRead`, from `ReadInv`: whatever waits has something unread; a
  capture settled without a note, that the worker is not about to recheck, has
  nothing unread. The hypothesis `PendingIsUnread` is about the first state: the
  model admits rows a migration left pending with nothing to read.
- `PersonBeatsWorker`, from `StatedInv`: the overlay the worker holds is that of
  the row until it has decided, unless an edit came between (`raced`), and a row
  that does not show what was stated has a photograph that brings the worker back.
- `NobodysWordIsLost`, from `EditInv`, with `LettingGo` at most `{FALSE}`: between
  claim and write the claim is the editor's, and until then what the edit read
  still covers the overlay, or the overlay is its own, or it will be turned away.

`UnitsOfWorkProofs`, of `AdvisoryLocks`:

- `TypeCorrect` and `MutualExclusion` follow from `LockInv`, which holds whether
  or not work outlives a nested failure: an advisory lock has one owner
  (`Exclusive`); no lock is taken and no name asked for at a level that is not
  open, and what a level serialises on was taken at that level or further out
  (`Guarded`), so a level cannot lose a lock and stay open itself.
- `TransactionsNeverDeadlock` and `HeldIsExact` follow from `OrderInv`, and
  assume `Catches = FALSE`. Then `held` is exactly what is owned, so the refusal
  of `outOfOrder` means what it says: a name still wanted is owned already or
  comes after every name owned. Of all names somebody in a circle waits for take
  the last; its owner waits too, for a later one, which is a contradiction. That
  a finite set of names has a last one is the lemma `LargestName`. The case
  `Catches = TRUE` is proved and not run.

`UnitsOfWorkProofs`, of `UnitsOfWork`:

- `UnitsUseTransactions`: a refinement. Every step of a handler is a step of its
  transaction in `AdvisoryLocks`, or none, so `UnitsTypeCorrect`,
  `UnitsNeverDeadlock` and `UnitsHoldWhatTheyThink` follow from the theorems
  above; `Catches = FALSE` is here an assumption of the module, as no handler
  catches.
- `RemovalHoldsItsRuns`: the strengthening is `RoomInv`: whoever changes the room
  has the furniture, or will once the call it is making has its locks; whoever is
  about to take the plank off has, in the same sense, the furniture and the runs
  it takes the plank to stand in; whoever has taken it off owns the furniture and
  the runs it does stand in. A change of the room by another would need the
  furniture, which has one owner.
- `RefusalsAreOfSharedPlanks`: `PlanInv` says of every handler what it has still to
  ask for beside what it holds or is being given. But for the removals that
  ascends; a removal holds the locks of one run, and what it asks for next it
  already has, unless the plank stands in the other run too.

`PlacementLedgerProofs`:

- `OneDefinitionTwice`. `StandingOf` is a recursive function over the rows in the
  order of their ids. The induction is by least counterexample: a set of naturals
  that is not empty has a least member (`LeastNat`, from the library's
  well-foundedness of `<`), so if some number of rows broke the claim there would
  be a first one, and the rows before it do not. `StandingByRow` is the step;
  `FoldsOfOneLedger` says that the area the fold ends with is the one SQL picks.
- `LedgerIsTyped`: `TypeInv` adds that no two rows have one id, with the rows not
  yet committed among them, and that a request has at each statement what the
  statement needs; `TableInv`, that nobody has rows of their own while another
  holds the table.
- `OutAndBackByTurns`, `RowsAndStateAgree`: `LendingInv` reads the state of a book
  off its committed turns. A request that goes out or comes back has the row of
  the book locked from the compare-and-set to the commit, so nobody else has a
  turn of that book open, and its own has the largest id.
- `AloneItHeals`: `AloneInv` says of a request with no other beside it which of its
  books are written rightly, which one it is about to fold and which the `UPDATE` it
  is in will write.
- `LeavingLosesNoAnswer`: `AskInv` says of a change of the rules that its own row is
  among those to come or inserted wherever one is needed, behind every row it read.
  `AskedBehind` then folds what lies behind: refusals, a checkout and that row, by
  least counterexample in the ids. What is carried is a little more than what is
  promised, that nothing is asked for over the refusal (`Asked`), or the next refusal
  would take its place.

`ShelvesProofs`: `SchemaIsKept`, that `TypeOK` of `Shelves` holds whatever is done
to a room. The constraints of the database would turn a unit of work that broke it
into an error; the theorem says that none of them ends in such a room. And
`WalksAlwaysAgree`. Both over any rooms, books, keys and number of steps, as is
what `CarryListProofs` proves.

- `IInv` adds what the operations read. Ids and positions are numbers. The runs in
  `survey` are lists over the areas of the room. What the ledger says of a book
  names only areas in `named`, those some row has ever named: `RetireOrRemove`
  takes only others away, so this, and not that the areas are there, is what
  every removal keeps. What a receipt puts back is a list of anchored things, and
  anchors are numbers. `survey` and `walk` are of the room as it stands. A form of
  it that TLC can evaluate held in the run `Shelves` before the proof.
- Finite sets are folded by `FoldSet` (library), of which the prover knows only its
  recursive definition: `SetFold` gets from it, by induction on the size of the
  set, what a fold keeps, and `SortedEnumerates` that `Sorted` lists each
  member once. `FoldStays` is the same for `FoldLeft`. A lemma with an operator for a
  parameter cannot be used, so what a walk keeps is stated for each walk:
  `HungSound`, `GoneSound`, `RetiredSound`, `DroppedAll`, `RecreatedSound`.
- One lemma says of each smaller change that a sound room stays sound
  (`RetireAreaSound`, `HangSound`, `ResequencedSound`, ...). Renumbering is the delicate
  one: a plank added or moved may share a number until the face is numbered again
  (`ButForPlaces`), and what makes the numbers differ afterwards is that the list
  they are counted from leaves out no plank of the face (`ListsAFace`). One lemma
  for each action puts these together, and `NextStands` the actions.
- `WalksAlwaysAgree` needs no more of the past than `IInv`: it is about one room. The
  order of the planks leaves out none and has each once, so the run that the
  boundaries are read of and the one the rules walk begin at one plank and end at one.
  In a straight room the boundaries are the planks of the run but the first, in
  the order of their anchors; a key has reached as many of them in each of the
  three walks, and the place counted out from those boundaries, a piece on or a plank
  on at each, is the place of the plank the other two stop at.

`CarryListProofs`, from the same invariant `IInv`:

- `CarryListIsComplete`: a row of the ledger is compared before and after.
  `AssignedFollows` is one comparison: a book whose answer has changed is owed the
  new one, unless it may not move or has declined it. A crossing that takes planks
  out writes rows in its fold as well; the fold keeps (`LeavingFrom`) that a book stands
  as it did unless its plank, or the one it was on its way to, has gone, and each of
  the rows only changes where the book is going. After a change of the rules the
  books are compared by the rules' walk, and `WalksAgree` of the room it leaves says
  that the run has them there; so this theorem rests on `WalksAlwaysAgree`.
  The model was corrected on the way: as first written it recorded every run where
  the code records one.
- `BooksGoWithTheirPlanks`: a run is looked at by the places of its planks, from
  the one it opens at to the next at which another begins (`RunOf`), and not by
  the walk, which a change of the room starts afresh. In a straight room a key
  falls on the last plank of its run it has reached, and on no other (`RunIsOf`,
  `KeyFalls`). A plank that goes leaves what falls on it to a plank beside it:
  to the one before, which then is the last reached, or, where the run began with
  it, to the one after, which takes its anchor over (`KeysClose`); a book of any
  other plank falls where it fell (`FewerPlanks`), in the runs that go on behind as well
  (`SharedRun`). The books of the plank are sent to that neighbour, so the carry list
  names the place where the run has them now. For a piece this is done plank by
  plank; a run that is moved is answered book by book. The proof corrected the property: as it
  had been stated it also spoke of planks that order themselves and of
  rooms that are not straight, where it is false; the room `Cut` was added to show it.

`CatalogueProofs`:

- `TagTypeCorrect`, `SaveLeavesItsRange`, `HeadingsStayItsOwn`,
  `WordsOfPersonsStay`: `TagInv` says of every open unit of work what it means to
  leave of its book: the range it counted, the headings of one number, and of a
  person's rows all but those a person takes off. It has the lock of its book,
  alone, and a removal of a word touches no genre of a book in the hands of a save.
- `OneBookForANumber`, `CorrectedNamesStand`: `CatInv` says what each request has
  written and not committed, beside the tables (`SaverAlone`, `MergerAlone`) and
  beside every other request (`Beside`): no name is written by two, no row is of
  an author somebody deletes, an author goes only with all of his names, and at
  its commit a save files the book under what its name does. The invariant was
  checked by TLC on general requests first. The second property had to be
  corrected for it: as it had been stated, a name that goes while a save is
  between meeting it and committing, and is met again by a third, breaks it.

`PhotographsProofs`: `NamedPhotographsAreKept`, `NoOtherFileStays`. `PhotoInv` says
what each request in flight still knows: a save, that the scan it read has its
photograph while the scan is there; a removal about to delete a file, that no
living book names it; and every file has a claim: a book, a removal still to come
to it, or the derive making it. `FilesOf` is a recursive function over the list
of a book, reasoned about as the fold above is.

`PartsProofs`:

- `GrantsTypeCorrect`, `HonouredOnce`, `GrantIsOneChain`, `ReplayEndsTheGrant`: in
  `GrantsInv` an honoured request has spent its credential, a pair is being
  issued for the newest credential only, and a request that tried in vain found
  it spent.
- `BooksKeepTheirCaptures`: what a chain knows and what its requests name is a
  capture of that book (`Named`), two books name different ones (`Apart`), and
  with no answer lost a book has had one (`Straight`).
- `SwipeIsSentOnce`: the timeouts armed are the swipes held, one for a scan.
- `SweepTypeCorrect`, `QueueIsNotLeftStanding`: `SweepWillLook` with `SweepTypeOK`
  and two facts: a pass that waits for a drain found a capture, and a call turned
  away was noted down.
- `PaceIsKept`: `PaceInv` gives each lookup that has taken a slot an interval of
  its own before the next free one. Any budgets, interval and lag.
- `AnsweredInTurn`: `ChainInv` stands the calls nobody has answered in one line,
  each behind the call it waits for, and counts what each has left: the first its
  own deadline, each one behind it a whole one. A place in the line is no
  variable of the model; the invariant says that places exist, and each step
  finds the next ones.

Only model-checked: `PendingIsSettled`, since liveness is out of the prover's
reach, and of `Shelves` what writing the boundaries of a run makes of it
(`MovesAsOffered`, `OthersStay`, `TakenBack`): that the walk over the room
written gives those boundaries back, where the theorems compare the walks of one
room, the rows of one book, or a run with what is left of it. The type invariants
of `Photographs`, `SourcePace`, `ReadingChain` and `Cataloguing` are conjuncts of
their inductive invariants and are not stated again as theorems.

## Plan

Done: the queue and its sweeps, locks and handlers, the ledger, furniture and
shelves, photographs, tags, names and numbers, grants, pace, chain, uploads,
discard window.

To come: a proof that what is done to one run leaves the others (`OthersStay`): it
needs that writing the boundaries a run has gives the run back. Then several credits of one book
and `PUT /api/books/:id/authors`; one save through queue, tags, names and ledger
together; circulation against `BookLife`; resets.

## Not modelled

- Sign-in sessions, the registration and sweep of clients, approval racing a
  sign-out.
- Which of several rules claims a book by its tags; relabelling; the classifier
  and its confidence; the refiling tool; `server/resets.ts`.
- Covers from catalogues, embeddings and matching; declined crops and refused
  hashes; the watch over sources; a book picked up from the queue.
- Barcode and OCR engines, image processing, parsing of catalogue replies,
  rendering, telemetry, backup, migrations, deployment: they compute, or keep no
  state another part reads.

Most of the repository's lines are of the last kind: screens, the schema, parsing
and text. The modules stand for the parts between them where the order of steps
decides, so the map covers a small share of all lines and most of those.
