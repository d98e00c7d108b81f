---------------------------- MODULE Photographs ----------------------------
(***************************************************************************)
(* The photographs of one slot: on to the disk, to a book, and off the disk *)
(* again.  The shutter, save, discard and delete routes (server/index.ts),  *)
(* the rows they write (server/queue.ts, server/photographs.ts) and the     *)
(* hash and the crop that are made of them (server/capturecrop.ts,          *)
(* server/crop.ts).                                                         *)
(*                                                                          *)
(* A photograph is the file of its number, and the crop of file f is        *)
(* CropName(f).  A transaction that holds the book's lock is one step; what *)
(* a route reads or deletes outside its transaction is a step of its own.   *)
(***************************************************************************)
EXTENDS Naturals, Sequences, SequencesExt, FiniteSetsExt

CONSTANTS Removals,     \* requests that discard a scan or delete a book
          Worker,       \* the sweep at the end of a derive
          MaxBooks,
          MaxShots      \* photographs taken

ASSUME PhotographsAssumption ==
  /\ MaxBooks \in Nat /\ MaxShots \in Nat
  /\ Worker \notin Removals

VARIABLES book,         \* the state of each row of books
          rows,         \* its photographs, oldest first (capture)
          disk,
          taken,        \* how many photographs reached the server
          removal,      \* filesOf, the transaction, the orphans being swept
          saving,       \* POST /api/books between its read and its transaction
          derive,       \* the capture being hashed and cropped
          late, missed  \* files saved, and files recorded, too late (history)

photoVars == <<book, rows, disk, taken, removal, saving, derive, late, missed>>

Sweepers == Removals \cup {Worker}
Books == 1 .. MaxBooks
Shots == 1 .. MaxShots
CropName(f) == MaxShots + f
Living == {b \in Books : book[b] \in {"queued", "shelved"}}
There == {b \in Books : book[b] \notin {"none", "deleted"}}
Row(f) == [file |-> f, hash |-> 0, crop |-> 0]
Names(b, f) == \E i \in DOMAIN rows[b] : f \in {rows[b][i].file, rows[b][i].crop}
\* Newest first, each before its crop
FilesOf(b) ==
  LET upTo[n \in 0 .. Len(rows[b])] ==
        IF n = 0 THEN <<>>
        ELSE (IF rows[b][n].crop = 0 THEN <<rows[b][n].file>>
              ELSE <<rows[b][n].file, rows[b][n].crop>>) \o upTo[n - 1]
  IN upTo[Len(rows[b])]
Rest == [stage |-> "idle"]

MutImageInUse(f) == \E b \in Books : book[b] = "queued" /\ Names(b, f)
ImageInUse(f) == \E b \in Living : Names(b, f)

-----------------------------------------------------------------------------
PhotoInit ==
  /\ book = [b \in Books |-> "none"]
  /\ rows = [b \in Books |-> <<>>]
  /\ disk = {}
  /\ taken = 0
  /\ removal = [r \in Sweepers |-> Rest]
  /\ saving = Rest
  /\ derive = Rest
  /\ late = {}
  /\ missed = {}

Unused == {b \in Books : book[b] = "none"}
Room(f) == f <= MaxShots /\ taken' = f

\* POST /api/captures: saveImage and attach, onto the capture it names, whatever
\* has become of it, or a new one.  Nobody can see the file before attach ends,
\* so the two are one step; it fails when the capture goes between the lookup and
\* the transaction, or the process stops.
AttachOnto(b) ==
  LET f == taken + 1 IN
  /\ b \in There
  /\ Room(f)
  /\ disk' = disk \cup {f}
  /\ rows' = [rows EXCEPT ![b] = Append(@, Row(f))]
  /\ missed' = IF b \in Living THEN missed ELSE missed \cup {f}
  /\ UNCHANGED <<book, removal, saving, derive, late>>
AttachNew ==
  LET f == taken + 1 IN
  /\ Unused # {}
  /\ Room(f)
  /\ disk' = disk \cup {f}
  /\ book' = [book EXCEPT ![Min(Unused)] = "queued"]
  /\ rows' = [rows EXCEPT ![Min(Unused)] = <<Row(f)>>]
  /\ UNCHANGED <<removal, saving, derive, late, missed>>
AttachFails ==
  LET f == taken + 1 IN
  /\ Room(f)
  /\ disk' = disk \cup {f}
  /\ missed' = missed \cup {f}
  /\ UNCHANGED <<book, rows, removal, saving, derive, late>>

-----------------------------------------------------------------------------
(* Saving *)

\* POST /api/books reads the scan, and its transaction confirms it if it is
\* still queued and adds a book otherwise.
ReadScan(b) ==
  /\ saving = Rest
  /\ b \in There
  /\ saving' = [stage |-> "saving", scan |-> b, file |-> Last(rows[b]).file]
  /\ UNCHANGED <<book, rows, disk, taken, removal, derive, late, missed>>
SaveQueued ==
  /\ saving # Rest
  /\ book[saving.scan] = "queued"
  /\ book' = [book EXCEPT ![saving.scan] = "shelved"]
  /\ saving' = Rest
  /\ UNCHANGED <<rows, disk, taken, removal, derive, late, missed>>
SaveCopy ==
  /\ saving # Rest
  /\ book[saving.scan] # "queued"
  /\ Unused # {}
  /\ LET b == Min(Unused) IN
       /\ book' = [book EXCEPT ![b] = "shelved"]
       /\ rows' = [rows EXCEPT ![b] = <<Row(saving.file)>>]
  /\ late' = IF saving.scan \in Living THEN late ELSE late \cup {saving.file}
  /\ saving' = Rest
  /\ UNCHANGED <<disk, taken, removal, derive, missed>>

-----------------------------------------------------------------------------
(* Discarding and deleting *)

\* A request is made once; a second one is the retry of the first.
Over(r) == IF r \in Removals THEN [stage |-> "over"] ELSE Rest
Sweeping(r, names) == IF names = <<>> THEN Over(r) ELSE [stage |-> "sweeping", left |-> names]

\* DELETE /api/captures/:id and DELETE /api/books/:id, up to filesOf
ReadFiles(r, b, way) ==
  /\ removal[r] = Rest
  /\ b \in There
  /\ removal' = [removal EXCEPT ![r] =
       [stage |-> "read", book |-> b, way |-> way, names |-> FilesOf(b)]]
  /\ UNCHANGED <<book, rows, disk, taken, saving, derive, late, missed>>
\* queue.discard, and a retry of it
Discard(r) ==
  LET b == removal[r].book IN
  /\ removal[r].stage = "read"
  /\ removal[r].way = "discard"
  /\ \/ /\ book[b] \in {"queued", "discarded"}
        /\ book' = [book EXCEPT ![b] = "discarded"]
        /\ missed' = missed \cup (ToSet(FilesOf(b)) \ ToSet(removal[r].names))
        /\ removal' = [removal EXCEPT ![r] = Sweeping(r, removal[r].names)]
     \/ /\ book[b] \notin {"queued", "discarded"}
        /\ removal' = [removal EXCEPT ![r] = Over(r)]
        /\ UNCHANGED <<book, missed>>
  /\ UNCHANGED <<rows, disk, taken, saving, derive, late>>
\* deleteBook; the photographs' rows go with the book.
DeleteBook(r) ==
  LET b == removal[r].book IN
  /\ removal[r].stage = "read"
  /\ removal[r].way = "delete"
  /\ \/ /\ b \in There
        /\ book' = [book EXCEPT ![b] = "deleted"]
        /\ rows' = [rows EXCEPT ![b] = <<>>]
        /\ missed' = missed \cup (ToSet(FilesOf(b)) \ ToSet(removal[r].names))
        /\ removal' = [removal EXCEPT ![r] = Sweeping(r, removal[r].names)]
     \/ /\ b \notin There
        /\ removal' = [removal EXCEPT ![r] = Over(r)]
        /\ UNCHANGED <<book, rows, missed>>
  /\ UNCHANGED <<disk, taken, saving, derive, late>>
\* deleteOrphanedImages, a name at a time: asked about, then removed.
LookForUse(r) ==
  /\ removal[r].stage = "sweeping"
  /\ removal' = [removal EXCEPT ![r] =
       IF ImageInUse(Head(@.left)) THEN Sweeping(r, Tail(@.left)) ELSE [@ EXCEPT !.stage = "removing"]]
  /\ UNCHANGED <<book, rows, disk, taken, saving, derive, late, missed>>
RemoveFile(r) ==
  /\ removal[r].stage = "removing"
  /\ disk' = disk \ {Head(removal[r].left)}
  /\ removal' = [removal EXCEPT ![r] = Sweeping(r, Tail(@.left))]
  /\ UNCHANGED <<book, rows, taken, saving, derive, late, missed>>

-----------------------------------------------------------------------------
(* Hashing and cropping *)

\* The worker takes a queued capture, the background a book just saved; either
\* works from the newest photograph as it reads it.
StartDerive(b) ==
  /\ derive = Rest /\ removal[Worker] = Rest
  /\ b \in Living
  /\ LET newest == Last(rows[b]) IN
       /\ newest.hash = 0 \/ newest.crop = 0
       /\ newest.file \in disk
       /\ derive' = [stage |-> IF newest.hash = 0 THEN "hashing" ELSE "cropping",
                     book |-> b, file |-> newest.file, cropped |-> newest.crop # 0,
                     worker |-> book[b] = "queued"]
  /\ UNCHANGED <<book, rows, disk, taken, removal, saving, late, missed>>

\* recordHashes, recordCrop: onto the newest photograph there is by now.
OnNewest(b, field, value) ==
  IF rows[b] = <<>> THEN rows ELSE [rows EXCEPT ![b][Len(rows[b])][field] = value]

\* hashFront; a frame always has detail here.
Hash ==
  /\ derive.stage = "hashing"
  /\ rows' = OnNewest(derive.book, "hash", derive.file)
  /\ derive' = IF derive.cropped THEN Rest ELSE [derive EXCEPT !.stage = "cropping"]
  /\ UNCHANGED <<book, disk, taken, removal, saving, late, missed>>
\* cropPhotos writes the crop, unless the photograph is gone, and records it.
WriteCrop ==
  /\ derive.stage = "cropping"
  /\ IF derive.file \in disk
       THEN /\ disk' = disk \cup {CropName(derive.file)}
            /\ derive' = [derive EXCEPT !.stage = "recording"]
       ELSE /\ derive' = Rest
            /\ UNCHANGED disk
  /\ UNCHANGED <<book, rows, taken, removal, saving, late, missed>>
RecordCrop ==
  LET b == derive.book
      crop == CropName(derive.file)
  IN
  /\ derive.stage = "recording"
  /\ rows' = OnNewest(b, "crop", crop)
  /\ missed' = missed \cup IF b \in There THEN {Last(rows[b]).crop} \ {0, crop} ELSE {crop}
  /\ derive' = IF derive.worker THEN [derive EXCEPT !.stage = "checking"] ELSE Rest
  /\ UNCHANGED <<book, disk, taken, removal, saving, late>>

MutCheckDiscarded ==
  /\ derive.stage = "checking"
  /\ derive' = Rest
  /\ UNCHANGED <<book, rows, disk, taken, removal, saving, late, missed>>
\* The end of the worker's derive: the crop of a capture discarded meanwhile is
\* swept like the files of the discard.
CheckDiscarded ==
  /\ derive.stage = "checking"
  /\ derive' = Rest
  /\ removal' = IF book[derive.book] = "discarded"
       THEN [removal EXCEPT ![Worker] = Sweeping(Worker, <<CropName(derive.file)>>)]
       ELSE removal
  /\ UNCHANGED <<book, rows, disk, taken, saving, late, missed>>

-----------------------------------------------------------------------------
\* The process stops with everything it had in flight.
Unfinished ==
  (UNION {ToSet(removal[r].left) :
            r \in {q \in Sweepers : removal[q].stage \in {"sweeping", "removing"}}})
  \cup IF derive = Rest THEN {} ELSE {CropName(derive.file)}
Restart ==
  /\ removal' = [r \in Sweepers |-> IF removal[r] = Rest THEN Rest ELSE Over(r)]
  /\ derive' = Rest
  /\ saving' = Rest
  /\ missed' = missed \cup Unfinished
  /\ UNCHANGED <<book, rows, disk, taken, late>>

PhotoNext ==
  \/ \E b \in Books : AttachOnto(b) \/ ReadScan(b)
  \/ AttachNew \/ AttachFails
  \/ SaveQueued \/ SaveCopy
  \/ \E r \in Removals, b \in Books, way \in {"discard", "delete"} : ReadFiles(r, b, way)
  \/ \E r \in Removals : Discard(r) \/ DeleteBook(r)
  \/ \E r \in Sweepers : LookForUse(r) \/ RemoveFile(r)
  \/ \E b \in Books : StartDerive(b)
  \/ Hash \/ WriteCrop \/ RecordCrop \/ CheckDiscarded
  \/ Restart

PhotoSpec == PhotoInit /\ [][PhotoNext]_photoVars

-----------------------------------------------------------------------------
(* Properties *)

\* No photograph a living book names is deleted: not by discarding the scan it
\* was taken with, not by deleting another copy that names it, and not by a sweep
\* overtaken by a save, unless that save came after its scan had been thrown away.
NamedIsKept ==
  \A b \in Living : \A row \in ToSet(rows[b]) : row.file \in disk \cup late

\* When nothing is in flight, every file on the disk is named by a living book,
\* other than the files recorded for a book after its removal had listed them
\* (or while nothing was left to record them on) and those a stop left behind.
NothingLeft ==
  (derive = Rest /\ \A r \in Sweepers : removal[r].stage \in {"idle", "over"}) =>
     \A f \in disk \ missed : ImageInUse(f)

\* What is recorded as the hash of a photograph is the hash of that photograph
\* ("Only ever the hash of the current front photograph").
HashIsItsOwn ==
  \A b \in Living : \A row \in ToSet(rows[b]) : row.hash \in {0, row.file}
=============================================================================
