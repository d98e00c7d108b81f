------------------------------ MODULE Tagging ------------------------------
(***************************************************************************)
(* What books carry, and the words they carry it in: a person's tags, the  *)
(* restating of a source, the genre a save states and the range it leads   *)
(* to, and words taken out of the vocabulary (application/tagging,         *)
(* domain/books/book.ts, infrastructure/tagging/tag-repository.ts).        *)
(*                                                                         *)
(* A slug is the namespace it is under and the word itself.  A catalogue's *)
(* record of an ISBN has one heading, named by that ISBN, and one genre.   *)
(* Every task comes once.  Its statements are those of a transaction at *)
(* READ COMMITTED: others see what it wrote when it commits, and a word a  *)
(* row refers to is locked against removal from the write of the row.      *)
(* Confidence, labels and when a row was added are left out.               *)
(***************************************************************************)
EXTENDS FiniteSets

CONSTANTS Books,        \* books of the catalogue
          Tasks,     \* requests people make, each once
          Isbns,        \* numbers a book may have
          GenreIn,      \* the genre a catalogue has each number under
          Mine          \* words of people's own

Genres == {"fiction", "nonfiction"}
NoIsbn == ""

ASSUME TaggingAssumption ==
  /\ GenreIn \in [Isbns -> Genres]
  /\ NoIsbn \notin Isbns

VARIABLES vocabulary,   \* slugs with a row in `tag`
          tags,         \* rows of `book_tag` of each book
          isbn, range,  \* of each book's row; "" is none
          task,      \* where each task is
          overtaken     \* books restated by a lookup of a number they had before

tagVars == <<vocabulary, tags, isbn, range, task, overtaken>>

Sources == {"person", "catalogue", "guess"}
Namespaces == {"genre", "subject", "mine"}
Slugs == ({"genre"} \X Genres) \cup ({"subject"} \X Isbns) \cup ({"mine"} \X Mine)
Row(slug, source) == [slug |-> slug, source |-> source]
Under(rows, namespaces) == {row \in rows : row.slug[1] \in namespaces}
SlugsOf(rows) == {row.slug : row \in rows}

\* rangeOfGenre: what a person said comes first, and fiction before non-fiction.
Said(rows) ==
  CASE <<"genre", "fiction">> \in SlugsOf(rows) -> "fiction"
    [] <<"genre", "nonfiction">> \in SlugsOf(rows) -> "nonfiction"
    [] OTHER -> ""
RangeOfGenre(rows) ==
  LET persons == {row \in rows : row.source = "person"} IN
  IF Said(persons) # "" THEN Said(persons) ELSE Said(rows)

MutRestated(rows, source, slugs, within) ==
  {row \in Under(rows, within) : row.slug \notin slugs}
\* restatedBy: what a source takes back of its own when it states these slugs.
Restated(rows, source, slugs, within) ==
  {row \in Under(rows, within) : row.source = source /\ row.slug \notin slugs}

MutStale(rows) == Under(rows, {"genre"})
\* reidentify: every source's tag about the work.
Stale(rows) == Under(rows, {"genre", "subject"})

\* Every way a book may come to a first task: nothing, a guess, or a lookup
\* with a word of somebody's own.
FirstRows(b) ==
  {{}, {Row(<<"genre", "fiction">>, "guess")}} \cup
  {{Row(<<"genre", GenreIn[i]>>, "catalogue"), Row(<<"subject", i>>, "catalogue"),
    Row(<<"mine", w>>, "person")} : i \in {isbn[b]} \ {NoIsbn}, w \in Mine}

NotBegun == [stage |-> "idle"]
Ended == [stage |-> "done"]

\* The rules of the two runs ask for the genre words, which are always there; a
\* word of somebody's own may be there with no book under it.
TagInit ==
  /\ isbn \in [Books -> Isbns \cup {NoIsbn}]
  /\ tags \in [Books -> UNION {FirstRows(b) : b \in Books}]
  /\ \A b \in Books : tags[b] \in FirstRows(b)
  /\ range = [b \in Books |-> RangeOfGenre(tags[b])]
  /\ \E unused \in SUBSET ({"mine"} \X Mine) :
       vocabulary = ({"genre"} \X Genres) \cup unused \cup UNION {SlugsOf(tags[b]) : b \in Books}
  /\ task = [r \in Tasks |-> NotBegun]
  /\ overtaken = {}

-----------------------------------------------------------------------------
(* A unit of work on one book *)

Open == {r \in Tasks : task[r].stage \in {"define", "write", "written"}}
MutLocked(b) == \E r \in Open : task[r].book = b /\ task[r].how # "restate"
\* Each of them serialises on the book (bookLock), and reads it under the lock.
Locked(b) == \E r \in Open : task[r].book = b

\* What it will write: rows off, rows on, and the number and range of the row.
Begin(r, how, b, off, on, number, place) ==
  /\ ~Locked(b)
  /\ task' = [task EXCEPT ![r] =
       [stage |-> "define", how |-> how, book |-> b, off |-> off, on |-> on,
        isbn |-> number, range |-> place, made |-> {}]]
  /\ UNCHANGED <<vocabulary, tags, isbn, range, overtaken>>

\* ApplyTagHandler
ApplyTag(r, b, slug) ==
  /\ task[r] = NotBegun
  /\ Begin(r, "tag", b, {}, {Row(slug, "person")}, isbn[b], range[b])

\* RemoveTagHandler: whoever put it there.
RemoveTag(r, b, slug) ==
  /\ task[r] = NotBegun
  /\ Begin(r, "tag", b, {Row(slug, source) : source \in Sources}, {}, isbn[b], range[b])

\* The route reads the number before a lookup that takes seconds; one that finds
\* nothing writes nothing.
LookUp(r, b) ==
  /\ task[r] = NotBegun /\ isbn[b] # NoIsbn
  /\ task' = [task EXCEPT ![r] = [stage |-> "lookup", book |-> b, isbn |-> isbn[b]]]
  /\ UNCHANGED <<vocabulary, tags, isbn, range, overtaken>>

NotFound(r) ==
  /\ task[r].stage = "lookup"
  /\ task' = [task EXCEPT ![r] = Ended]
  /\ UNCHANGED <<vocabulary, tags, isbn, range, overtaken>>

\* RestateTagsHandler, with what the catalogue claims of that number: all of the
\* vocabulary is restated, and a row that is there is left alone.
RestateTags(r) ==
  LET b == task[r].book
      number == task[r].isbn
      claims == {<<"genre", GenreIn[number]>>, <<"subject", number>>}
  IN
  /\ task[r].stage = "lookup"
  /\ Begin(r, "restate", b, Restated(tags[b], "catalogue", claims, Namespaces),
           {Row(slug, "catalogue") : slug \in claims} \ tags[b], number, range[b])

\* ReviseBookHandler: the number, what it makes stale, and the genre stated, by
\* a person (who withdraws the guess) or by the classifier, or none.
Revise(r, b, number, genre, source) ==
  LET stale == IF isbn[b] \in {NoIsbn, number} THEN {} ELSE Stale(tags[b])
      kept == tags[b] \ stale
      stated == IF genre = "" THEN {} ELSE {Row(<<"genre", genre>>, source)}
      taken == IF genre = "" THEN {}
               ELSE Restated(kept, source, SlugsOf(stated), {"genre"}) \cup
                    (IF source = "person" THEN Restated(kept, "guess", {}, {"genre"}) ELSE {})
      carried == (kept \ taken) \cup stated
  IN
  /\ task[r] = NotBegun
  /\ Begin(r, "save", b, stale \cup taken, stated \ kept, number, RangeOfGenre(carried))

\* TagRepository.define: what another open transaction is making is waited for.
Define(r) ==
  LET needed == SlugsOf(task[r].on) IN
  /\ task[r].stage = "define"
  /\ \A q \in Open \ {r} : task[q].made \cap needed = {}
  /\ task' = [task EXCEPT ![r].stage = "write", ![r].made = needed \ vocabulary]
  /\ UNCHANGED <<vocabulary, tags, isbn, range, overtaken>>

\* TagRepository.retract and apply; a word that is gone by now is an error.
Write(r) ==
  /\ task[r].stage = "write"
  /\ SlugsOf(task[r].on) \subseteq vocabulary \cup task[r].made
  /\ task' = [task EXCEPT ![r].stage = "written"]
  /\ UNCHANGED <<vocabulary, tags, isbn, range, overtaken>>

Commit(r) ==
  /\ task[r].stage = "written"
  /\ LET q == task[r] b == q.book IN
       /\ vocabulary' = vocabulary \cup q.made
       /\ tags' = [tags EXCEPT ![b] = (@ \ q.off) \cup q.on]
       /\ IF q.how = "save"
          THEN isbn' = [isbn EXCEPT ![b] = q.isbn] /\ range' = [range EXCEPT ![b] = q.range]
          ELSE UNCHANGED <<isbn, range>>
       /\ overtaken' = IF q.how = "restate" /\ q.isbn # isbn[b] THEN overtaken \cup {b} ELSE overtaken
  /\ task' = [task EXCEPT ![r] = Ended]

\* An error, a deadlock over two words among them: all of it is rolled back.
Fail(r) ==
  /\ r \in Open
  /\ task' = [task EXCEPT ![r] = Ended]
  /\ UNCHANGED <<vocabulary, tags, isbn, range, overtaken>>

-----------------------------------------------------------------------------
(* The vocabulary *)

\* DefineTagHandler
DefineTag(r, slug) ==
  /\ task[r] = NotBegun
  /\ \A q \in Open : slug \notin task[q].made
  /\ vocabulary' = vocabulary \cup {slug}
  /\ task' = [task EXCEPT ![r] = Ended]
  /\ UNCHANGED <<tags, isbn, range, overtaken>>

Carried == UNION {SlugsOf(tags[b]) : b \in Books}
\* The key of a word is locked by a row that refers to it and is not committed.
KeyHeld(slug) == \E q \in Open : task[q].stage = "written" /\ slug \in SlugsOf(task[q].on)

\* ForgetTagHandler: refused if a rule asks for the word, or if a book carries it
\* as far as the delete can see when it starts.
ForgetTag(r, slug) ==
  /\ task[r] = NotBegun
  /\ slug[1] # "genre"
  /\ \/ /\ slug \in vocabulary \ Carried /\ KeyHeld(slug)
        /\ task' = [task EXCEPT ![r] = [stage |-> "removing", slug |-> slug]]
        /\ UNCHANGED vocabulary
     \/ /\ slug \in vocabulary \ Carried /\ ~KeyHeld(slug)
        /\ task' = [task EXCEPT ![r] = Ended]
        /\ vocabulary' = vocabulary \ {slug}
     \/ /\ slug \notin vocabulary \ Carried
        /\ task' = [task EXCEPT ![r] = Ended]
        /\ UNCHANGED vocabulary
  /\ UNCHANGED <<tags, isbn, range, overtaken>>

\* TagRepository.remove, once the transaction it waited for has ended: a row that
\* was locked and not changed is deleted without asking again whether anything
\* carries it, and book_tag cascades.
Remove(r) ==
  /\ task[r].stage = "removing"
  /\ LET slug == task[r].slug IN
       /\ ~KeyHeld(slug)
       /\ vocabulary' = vocabulary \ {slug}
       /\ tags' = [b \in Books |-> {row \in tags[b] : row.slug # slug}]
  /\ task' = [task EXCEPT ![r] = Ended]
  /\ UNCHANGED <<isbn, range, overtaken>>

-----------------------------------------------------------------------------
OnABook(r) ==
  \E b \in Books :
    \/ \E slug \in Slugs : ApplyTag(r, b, slug) \/ RemoveTag(r, b, slug)
    \/ LookUp(r, b)
    \/ \E number \in Isbns \cup {NoIsbn}, genre \in Genres \cup {""}, source \in {"person", "guess"} :
         Revise(r, b, number, genre, source)

TagNext ==
  \E r \in Tasks :
    \/ OnABook(r)
    \/ NotFound(r) \/ RestateTags(r)
    \/ Define(r) \/ Write(r) \/ Commit(r) \/ Fail(r)
    \/ \E slug \in Slugs : DefineTag(r, slug) \/ ForgetTag(r, slug)
    \/ Remove(r)

TagSpec == TagInit /\ [][TagNext]_tagVars

-----------------------------------------------------------------------------
(* Properties *)

Rows == [slug : Slugs, source : Sources]
Numbers == Isbns \cup {NoIsbn}
Units == [stage : {"define", "write", "written"}, how : {"tag", "restate", "save"},
          book : Books, off : SUBSET Rows, on : SUBSET Rows, isbn : Numbers,
          range : Genres \cup {""}, made : SUBSET Slugs]
TaskStates == [stage : {"idle", "done"}] \cup Units \cup
              [stage : {"lookup"}, book : Books, isbn : Isbns] \cup
              [stage : {"removing"}, slug : {slug \in Slugs : slug[1] # "genre"}]

\* What each variable holds; a task is not begun or over, a lookup, a unit of work
\* or a removal that waits, and no removal is of a word the rules ask for.
TagTypeOK ==
  /\ vocabulary \subseteq Slugs
  /\ tags \in [Books -> SUBSET Rows]
  /\ isbn \in [Books -> Numbers] /\ range \in [Books -> Genres \cup {""}]
  /\ task \in [Tasks -> TaskStates]
  /\ overtaken \subseteq Books

\* What a person said of a book is taken back by a person: the tag taken off, a
\* save that states another genre, or one that says the row is a different book.
\* No lookup and no guess does it, in whatever order their statements fall
\* ("automation never retracts a person's"), nor does removing the word, but for
\* a removal that had to wait for the transaction the tag came with.
PersonsTagStays == [][
  \A b \in Books : \A row \in tags[b] \ tags'[b] :
    row.source = "person" =>
      \/ \E r \in Tasks : Remove(r)
      \/ \E r \in Tasks : Commit(r) /\ task[r].book = b /\ task[r].how = "tag"
      \/ \E other \in Under(tags'[b], {"genre"}) : row.slug[1] = "genre" /\ other.source = "person"
      \/ isbn'[b] # isbn[b] /\ row.slug[1] # "mine"]_tagVars

\* When a save has been made, the range of the row is what the tags then say,
\* whatever lookups and people did to them while it ran.
RangeFollowsTags == [][
  \A r \in Tasks : Commit(r) /\ task[r].how = "save" =>
    range'[task[r].book] = RangeOfGenre(tags'[task[r].book])]_tagVars

\* A book carries no heading a catalogue has for a number that is not its own,
\* unless a lookup of a number it had before was overtaken by the edit.
HeadingsAreItsOwn ==
  \A b \in Books \ overtaken : \A row \in Under(tags[b], {"subject"}) :
    row.source = "catalogue" => row.slug[2] = isbn[b]

\* 'The "nothing carries it" check must be part of the same statement as the
\* delete', since otherwise it 'could take a person's tag off every book they put it
\* on': removing a word takes no tag off a book.
NeverTakenOff == [][\A r \in Tasks : Remove(r) => tags' = tags]_tagVars
=============================================================================
