----------------------------- MODULE Cataloguing -----------------------------
(****************************************************************************)
(* Saving and revising books that share a number or an author: whether a     *)
(* number is catalogued, the names a save meets and what they file under,    *)
(* corrections of that, and two authors who turn out to be one               *)
(* (application/books/commands, application/authorship,                      *)
(* infrastructure/authorship/author-repository.ts).                          *)
(*                                                                           *)
(* A book credits one name here, the first listed.  A request is a           *)
(* transaction at READ COMMITTED, statement by statement: `rows` and `lost`  *)
(* are the names it has written and not committed, which others wait for.    *)
(* A book without a genre takes no range lock, so none orders two filings.   *)
(****************************************************************************)
CONSTANTS Works,        \* requests, each made once
          Codes,        \* resolved ISBNs
          Printed,      \* names as printed
          Old           \* the book there is to begin with

\* Authors made here have an id of their own.
ASSUME CataloguingAssumption == Works \cap Printed = {}

VARIABLES catalogued,   \* the books, each named by the request that added it
          names,        \* author_alias: author and filing of each name there is
          authors,      \* author, each named by the request or the name it came with
          work          \* how far each request is

catalogueVars == <<catalogued, names, authors, work>>

NoOverride == "none"
Filings == {"derived", "corrected"}
Undone == [stage |-> "idle"]
Finished == [stage |-> "over"]
Underway == {r \in Works : work[r].stage \notin {"idle", "over"}}
Saving == {r \in Underway : work[r].how \in {"copy", "answer"}}
Revising == {r \in Underway : work[r].how = "revise"}

\* new, gone: authors inserted and deleted.  of: the book revised.  filed: what the
\* book is written under.  late: has the name been corrected by another, or gone,
\* since it was met (history)?
Begun(how, of, isbn, name, said, stage) ==
  [how |-> how, of |-> of, isbn |-> isbn, name |-> name, said |-> said, stage |-> stage,
   filed |-> NoOverride, late |-> FALSE,
   rows |-> <<>>, lost |-> {}, new |-> {}, gone |-> {}]
Goes(r, stage) == work' = [work EXCEPT ![r].stage = stage]

NamesOf(r) ==
  [n \in (DOMAIN names \cup DOMAIN work[r].rows) \ work[r].lost |->
     IF n \in DOMAIN work[r].rows THEN work[r].rows[n] ELSE names[n]]
\* A row another request has written is waited for.
NameFree(r, n) ==
  \A q \in Underway \ {r} : n \notin DOMAIN work[q].rows \cup work[q].lost
Writes(r, n, row) ==
  [m \in DOMAIN work[r].rows \cup {n} |-> IF m = n THEN row ELSE work[r].rows[m]]

-----------------------------------------------------------------------------
CatalogueInit ==
  /\ \E known \in SUBSET Printed, first \in Printed, isbn \in Codes :
       /\ first \in known
       /\ names = [n \in known |-> [author |-> n, filing |-> "derived"]]
       /\ authors = known
       /\ catalogued = [b \in {Old} |-> [isbn |-> isbn, credit |-> first,
                                         filed |-> "derived", revised |-> FALSE]]
  /\ work = [r \in Works |-> Undone]

-----------------------------------------------------------------------------
(* Saving and revising *)

MutSave(r, how, isbn, name, said) ==
  /\ work[r] = Undone
  /\ work' = [work EXCEPT ![r] =
       Begun(how, Old, isbn, name, said, IF how = "answer" THEN "ask" ELSE "meet")]
  /\ UNCHANGED <<catalogued, names, authors>>
\* CatalogueBookHandler, once it has the number's lock
Save(r, how, isbn, name, said) ==
  /\ work[r] = Undone
  /\ \A q \in Saving : work[q].isbn # isbn
  /\ work' = [work EXCEPT ![r] =
       Begun(how, Old, isbn, name, said, IF how = "answer" THEN "ask" ELSE "meet")]
  /\ UNCHANGED <<catalogued, names, authors>>

\* cataloguedWith; a book that is found is the answer.
Ask(r) ==
  /\ work[r].stage = "ask"
  /\ IF \E b \in DOMAIN catalogued : catalogued[b].isbn = work[r].isbn
     THEN work' = [work EXCEPT ![r] = Finished] ELSE Goes(r, "meet")
  /\ UNCHANGED <<catalogued, names, authors>>

\* ReviseBookHandler, with the book's lock and no number's
ReviseBook(r, b, isbn, name, said) ==
  /\ work[r] = Undone
  /\ \A q \in Revising : work[q].of # b
  /\ work' = [work EXCEPT ![r] = Begun("revise", b, isbn, name, said, "meet")]
  /\ UNCHANGED <<catalogued, names, authors>>

\* introduce: aliasFor, before the insert and after it.  An override that is not
\* what the name files under is about to be written.
Known(r) ==
  /\ work[r].stage \in {"meet", "met"}
  /\ work[r].name \in DOMAIN NamesOf(r)
  /\ Goes(r, IF work[r].said \in {NoOverride, NamesOf(r)[work[r].name].filing}
             THEN "write" ELSE "file")
  /\ UNCHANGED <<catalogued, names, authors>>
\* `not exists` sees no row another request has not committed.
InsertAuthor(r) ==
  /\ work[r].stage = "meet"
  /\ work[r].name \notin DOMAIN NamesOf(r)
  /\ work' = [work EXCEPT ![r].new = {r}, ![r].stage = "insert"]
  /\ UNCHANGED <<catalogued, names, authors>>
MutInsertAlias(r) ==
  LET filing == IF work[r].said = NoOverride THEN "derived" ELSE work[r].said IN
  /\ work[r].stage = "insert"
  /\ NameFree(r, work[r].name)
  /\ work' = [work EXCEPT ![r].stage = "met", ![r].rows =
       Writes(r, work[r].name,
              [author |-> IF work[r].name \in DOMAIN names THEN names[work[r].name].author ELSE r,
               filing |-> filing])]
  /\ UNCHANGED <<catalogued, names, authors>>
\* on conflict do nothing: the author stays behind, and has no name.
InsertAlias(r) ==
  LET filing == IF work[r].said = NoOverride THEN "derived" ELSE work[r].said IN
  /\ work[r].stage = "insert"
  /\ NameFree(r, work[r].name)
  /\ work' = [work EXCEPT ![r].stage = "met", ![r].rows =
       IF work[r].name \in DOMAIN names THEN @
       ELSE Writes(r, work[r].name, [author |-> r, filing |-> filing])]
  /\ UNCHANGED <<catalogued, names, authors>>

\* file, of a name that is still there
Override(r) ==
  /\ work[r].stage = "file"
  /\ NameFree(r, work[r].name)
  /\ work[r].name \in DOMAIN NamesOf(r)
  /\ work' = [work EXCEPT ![r].stage = "write", ![r].rows =
       Writes(r, work[r].name, [NamesOf(r)[work[r].name] EXCEPT !.filing = work[r].said])]
  /\ UNCHANGED <<catalogued, names, authors>>

\* fileBook reads the name once more; the credit refers to it, and waits for a
\* request that has deleted it.
WriteBook(r) ==
  /\ work[r].stage = "write"
  /\ \A q \in Underway : work[r].name \notin work[q].lost
  /\ work[r].name \in DOMAIN NamesOf(r)
  /\ work' = [work EXCEPT ![r].stage = "commit",
       ![r].filed = IF work[r].said = NoOverride THEN NamesOf(r)[work[r].name].filing
                    ELSE work[r].said]
  /\ UNCHANGED <<catalogued, names, authors>>

-----------------------------------------------------------------------------
(* Curating names *)

\* Others who are past meeting a name that is corrected, or goes, under them
Overtaken(r, changed) ==
  [q \in Works |->
     IF /\ q \in (Saving \cup Revising) \ {r}
        /\ work[q].name \in changed /\ work[q].stage \in {"file", "write", "commit"}
     THEN [work[q] EXCEPT !.late = TRUE] ELSE work[q]]

\* FileAliasHandler: no book is filed again.
FileAlias(r, n, filing) ==
  /\ work[r] = Undone
  /\ n \in DOMAIN names /\ NameFree(r, n)
  /\ names' = [names EXCEPT ![n].filing = filing]
  /\ work' = [Overtaken(r, {n}) EXCEPT ![r] = Finished]
  /\ UNCHANGED <<catalogued, authors>>

\* MergeAuthorsHandler: both are found, each under some name, before the transaction.
Merge(r, into, from) ==
  /\ work[r] = Undone
  /\ into # from
  /\ {into, from} \subseteq {names[n].author : n \in DOMAIN names}
  /\ work' = [work EXCEPT ![r] = [how |-> "merge", into |-> into, from |-> from,
       stage |-> "move", rows |-> <<>>, lost |-> {}, new |-> {}, gone |-> {}]]
  /\ UNCHANGED <<catalogued, names, authors>>

\* absorb: every name of the one, to an author that has to be there.
MoveNames(r) ==
  LET moved == {n \in DOMAIN names : names[n].author = work[r].from} IN
  /\ work[r].stage = "move"
  /\ \A n \in moved : NameFree(r, n)
  /\ \A q \in Underway : work[r].into \notin work[q].gone
  /\ moved # {} => work[r].into \in authors
  /\ work' = [work EXCEPT ![r].stage = "drop",
       ![r].rows = [n \in moved |-> [names[n] EXCEPT !.author = work[r].into]]]
  /\ UNCHANGED <<catalogued, names, authors>>

\* The names that came to the author meanwhile go with it, which is refused for one
\* that a book credits.
Strays(r) == {n \in DOMAIN NamesOf(r) : NamesOf(r)[n].author = work[r].from}
Credited(n) == \E b \in DOMAIN catalogued : catalogued[b].credit = n
Crediting(n) ==
  \E q \in Saving \cup Revising : work[q].stage = "commit" /\ work[q].name = n
NotReferred(r) ==
  \A q \in Underway \ {r} :
    /\ work[r].from \notin work[q].gone
    /\ \A n \in DOMAIN work[q].rows : work[q].rows[n].author # work[r].from
DropAuthor(r) ==
  /\ work[r].stage = "drop" /\ NotReferred(r)
  /\ \A n \in Strays(r) : NameFree(r, n) /\ ~Crediting(n) /\ ~Credited(n)
  /\ work' = [work EXCEPT ![r].stage = "commit", ![r].gone = {work[r].from},
                          ![r].lost = Strays(r)]
  /\ UNCHANGED <<catalogued, names, authors>>

-----------------------------------------------------------------------------
(* The end *)

Written(r) == [isbn |-> work[r].isbn, credit |-> work[r].name, filed |-> work[r].filed,
               revised |-> r \in Revising]
Changed(r) ==
  work[r].lost \cup
    (IF work[r].how # "merge" /\ work[r].said # NoOverride THEN {work[r].name} ELSE {})
CommitWork(r) ==
  /\ r \in Underway /\ work[r].stage = "commit"
  /\ names' = NamesOf(r)
  /\ authors' = (authors \cup work[r].new) \ work[r].gone
  /\ catalogued' =
       CASE r \in Saving -> [b \in DOMAIN catalogued \cup {r} |->
                               IF b = r THEN Written(r) ELSE catalogued[b]]
         [] r \in Revising -> [catalogued EXCEPT ![work[r].of] = Written(r)]
         [] OTHER -> catalogued
  /\ work' = [Overtaken(r, Changed(r)) EXCEPT ![r] = Finished]

\* Any statement, a reference to what has gone among them.
StatementFails(r) ==
  /\ r \in Underway
  /\ work' = [work EXCEPT ![r] = Finished]
  /\ UNCHANGED <<catalogued, names, authors>>

Asking(r) ==
  \E isbn \in Codes, n \in Printed, said \in {NoOverride, "corrected"} :
    \/ \E how \in {"copy", "answer"} : Save(r, how, isbn, n, said)
    \/ \E b \in DOMAIN catalogued : ReviseBook(r, b, isbn, n, said)

CatalogueNext ==
  \E r \in Works :
    \/ Asking(r)
    \/ Ask(r) \/ Known(r) \/ InsertAuthor(r) \/ InsertAlias(r) \/ Override(r) \/ WriteBook(r)
    \/ \E n \in Printed, filing \in Filings : FileAlias(r, n, filing)
    \/ \E into, from \in authors : Merge(r, into, from)
    \/ MoveNames(r) \/ DropAuthor(r)
    \/ CommitWork(r) \/ StatementFails(r)

CatalogueSpec == CatalogueInit /\ [][CatalogueNext]_catalogueVars

-----------------------------------------------------------------------------
(* Properties *)

\* "two saves of one ISBN at once take turns, so the second asks after the first
\* has committed and finds its book": a save told to answer a book that is there
\* adds none beside it, whoever saves copies meanwhile; only a revision, which
\* does not hold the number, may have given it to another book.
AnswersOrAdds == [][
  \A r \in Saving : CommitWork(r) /\ work[r].how = "answer" =>
    \A b \in DOMAIN catalogued : catalogued[b].isbn = work[r].isbn => catalogued[b].revised]_catalogueVars

\* "re-saving a book must not undo a correction to how its author files": whatever
\* saves and merges do at once, a name that a book credits stays, of an author that
\* is there, and files as it did until a person says otherwise; and a book files
\* under what its name does when it is saved, unless that is corrected, or goes, just
\* then.
CorrectsAName(n) ==
  \E r \in Works :
    \/ \E filing \in Filings : FileAlias(r, n, filing)
    \/ r \in Saving \cup Revising /\ CommitWork(r) /\ work[r].name = n /\ work[r].said # NoOverride
CorrectionsStand == [][
  /\ \A n \in DOMAIN names : Credited(n) =>
       /\ n \in DOMAIN names' /\ names'[n].author \in authors'
       /\ names'[n].filing = names[n].filing \/ CorrectsAName(n)
  /\ \A r \in Saving \cup Revising : CommitWork(r) =>
       work[r].late \/ work[r].filed = names'[work[r].name].filing]_catalogueVars
=============================================================================
