-------------------------- MODULE CatalogueProofs ---------------------------
(***************************************************************************)
(* Proofs about what books carry and whom they credit: Tagging and         *)
(* Cataloguing, each for any value of its own constants.                   *)
(***************************************************************************)
EXTENDS Tagging, Cataloguing, Integers, Sequences, TLAPS

-----------------------------------------------------------------------------
(***************************************************************************)
(* Tagging, for any number of books, numbers, words and tasks.  TagInv     *)
(* says what a unit of work that is open will leave of its book, which     *)
(* nobody else can change but by removing a word: the range it counted,    *)
(* the headings of one number, and what a person said, unless a person     *)
(* takes it back.                                                          *)
(***************************************************************************)

\* The rows of the book once a unit of work has been committed, and its number.
After(r) == (tags[task[r].book] \ task[r].off) \cup task[r].on
NumberAfter(r) == IF task[r].how = "save" THEN task[r].isbn ELSE isbn[task[r].book]
Overtakes(r) == task[r].how = "restate" /\ task[r].isbn # isbn[task[r].book]

OneAtATime == \A r, q \in Open : task[r].book = task[q].book => r = q

RangeAgrees == \A r \in Open : task[r].how = "save" => task[r].range = RangeOfGenre(After(r))

HeadingsOf(rows, number) ==
  \A row \in Under(rows, {"subject"}) : row.source = "catalogue" => row.slug[2] = number
HeadingsAgree ==
  \A r \in Open : task[r].book \in overtaken \/ Overtakes(r) \/ HeadingsOf(After(r), NumberAfter(r))

\* A unit of work takes a person's row off only where a person has said so: to take the
\* tag off, to state another genre, which stays, or to give the book another number.
PersonSays(how, off, after, number, now) ==
  \A row \in off : row.source = "person" =>
    \/ how = "tag"
    \/ row.slug[1] = "genre" /\ \E other \in Under(after, {"genre"}) : other.source = "person"
    \/ how = "save" /\ number # now /\ row.slug[1] # "mine"
PersonsSay ==
  \A r \in Open : PersonSays(task[r].how, task[r].off, After(r), task[r].isbn, isbn[task[r].book])

TagInv ==
  /\ TagTypeOK /\ OneAtATime /\ RangeAgrees /\ PersonsSay
  /\ HeadingsAgree /\ HeadingsAreItsOwn

-----------------------------------------------------------------------------
(* The rows *)

\* A row of a book, written out.
LEMMA RowTyped ==
  ASSUME NEW slug \in Slugs, NEW source \in Sources
  PROVE  Row(slug, source) \in Rows /\ Row(slug, source).slug = slug
                                    /\ Row(slug, source).source = source
BY DEF Row, Rows

LEMMA GenreSlugs ==
  /\ \A g \in Genres : <<"genre", g>> \in Slugs /\ <<"genre", g>>[1] = "genre"
  /\ \A i \in Isbns : <<"subject", i>> \in Slugs /\ <<"subject", i>>[1] = "subject"
                                                 /\ <<"subject", i>>[2] = i
BY DEF Slugs

\* rangeOfGenre asks nothing but the genre rows.
LEMMA RangeByGenre ==
  ASSUME NEW A, NEW B, Under(A, {"genre"}) = Under(B, {"genre"})
  PROVE  RangeOfGenre(A) = RangeOfGenre(B)
<1> DEFINE Persons(rows) == {row \in rows : row.source = "person"}
<1>1. \A g : <<"genre", g>> \in SlugsOf(A) <=> <<"genre", g>> \in SlugsOf(B)
  <2> TAKE g
  <2>1. \A rows : <<"genre", g>> \in SlugsOf(rows) <=> <<"genre", g>> \in SlugsOf(Under(rows, {"genre"}))
    <3>1. <<"genre", g>>[1] = "genre"
      OBVIOUS
    <3> QED
      BY <3>1 DEF SlugsOf, Under
  <2> QED
    BY <2>1
<1>2. \A g : <<"genre", g>> \in SlugsOf(Persons(A)) <=> <<"genre", g>> \in SlugsOf(Persons(B))
  <2> TAKE g
  <2>1. \A rows : <<"genre", g>> \in SlugsOf(Persons(rows)) <=>
                  <<"genre", g>> \in SlugsOf(Persons(Under(rows, {"genre"})))
    <3>1. <<"genre", g>>[1] = "genre"
      OBVIOUS
    <3> QED
      BY <3>1 DEF SlugsOf, Under
  <2> QED
    BY <2>1
<1>3. Said(A) = Said(B)
  <2>1. <<"genre", "fiction">> \in SlugsOf(A) <=> <<"genre", "fiction">> \in SlugsOf(B)
    BY <1>1
  <2>2. <<"genre", "nonfiction">> \in SlugsOf(A) <=> <<"genre", "nonfiction">> \in SlugsOf(B)
    BY <1>1
  <2> HIDE DEF Persons
  <2> QED
    BY <2>1, <2>2, Zenon DEF Said
<1>4. Said(Persons(A)) = Said(Persons(B))
  <2>1. <<"genre", "fiction">> \in SlugsOf(Persons(A)) <=> <<"genre", "fiction">> \in SlugsOf(Persons(B))
    BY <1>2
  <2>2. <<"genre", "nonfiction">> \in SlugsOf(Persons(A)) <=> <<"genre", "nonfiction">> \in SlugsOf(Persons(B))
    BY <1>2
  <2> HIDE DEF Persons
  <2> QED
    BY <2>1, <2>2, Zenon DEF Said
<1> QED
  BY <1>3, <1>4 DEF RangeOfGenre

LEMMA RangeTyped ==
  ASSUME NEW A
  PROVE  RangeOfGenre(A) \in Genres \cup {""}
BY DEF RangeOfGenre, Said, Genres

-----------------------------------------------------------------------------
(* The steps *)

LEMMA OpenIsUnit ==
  ASSUME TagTypeOK, NEW r \in Open
  PROVE  r \in Tasks /\ task[r] \in Units
BY DEF TaskStates, TagTypeOK, Open, Units

LEMMA NotBegunIsNotOpen ==
  ASSUME NEW r \in Tasks, task[r] = NotBegun
  PROVE  r \notin Open
<1>1. NotBegun.stage = "idle"
  BY DEF NotBegun
<1> QED
  BY <1>1 DEF Open

LEMMA TaskTyped ==
  ASSUME TagTypeOK, NEW r \in Tasks, NEW new \in TaskStates
  PROVE  [task EXCEPT ![r] = new] \in [Tasks -> TaskStates]
BY DEF TagTypeOK, TaskStates

\* A step of one task that leaves the books alone: no unit of work is begun, and
\* those that are open mean to do what they meant to.
LEMMA BooksStay ==
  ASSUME TagInv, UNCHANGED <<tags, isbn, range, overtaken>>,
         task' \in [Tasks -> TaskStates], vocabulary' \subseteq Slugs,
         \A q \in Open' : /\ q \in Open
                          /\ task'[q].book = task[q].book /\ task'[q].how = task[q].how
                          /\ task'[q].off = task[q].off /\ task'[q].on = task[q].on
                          /\ task'[q].isbn = task[q].isbn /\ task'[q].range = task[q].range
  PROVE  TagInv'
<1>1. TagTypeOK'
  BY DEF TagInv, TagTypeOK, TaskStates
<1>2. OneAtATime'
  BY DEF TagInv, OneAtATime
<1>3. RangeAgrees'
  BY DEF TagInv, RangeAgrees, After
<1>4. HeadingsAgree'
  BY DEF TagInv, HeadingsAgree, HeadingsOf, After, NumberAfter, Overtakes
<1>5. HeadingsAreItsOwn'
  BY DEF TagInv, HeadingsAreItsOwn
<1>6. PersonsSay'
  <2> SUFFICES ASSUME NEW q \in Open'
               PROVE  PersonSays(task[q].how, task[q].off, After(q), task[q].isbn,
                                 isbn[task[q].book])'
    BY DEF PersonsSay
  <2>1. /\ q \in Open /\ task'[q].how = task[q].how /\ task'[q].off = task[q].off
        /\ task'[q].isbn = task[q].isbn /\ task'[q].book = task[q].book
        /\ After(q)' = After(q) /\ isbn' = isbn
    BY DEF After
  <2> QED
    BY <2>1 DEF TagInv, PersonsSay, PersonSays
<1> QED
  BY <1>1, <1>2, <1>3, <1>4, <1>5, <1>6 DEF TagInv

\* A unit of work begun on a book nobody else has in hand, and what it means to do.
LEMMA Begins ==
  ASSUME TagInv, NEW r \in Tasks, r \notin Open, NEW how \in {"tag", "restate", "save"},
         NEW b \in Books, NEW off \in SUBSET Rows, NEW on \in SUBSET Rows,
         NEW number \in Numbers, NEW place \in Genres \cup {""},
         Begin(r, how, b, off, on, number, place),
         how = "save" => place = RangeOfGenre((tags[b] \ off) \cup on),
         \/ b \in overtaken
         \/ how = "restate" /\ number # isbn[b]
         \/ HeadingsOf((tags[b] \ off) \cup on, IF how = "save" THEN number ELSE isbn[b]),
         PersonSays(how, off, (tags[b] \ off) \cup on, number, isbn[b])
  PROVE  TagInv'
<1> DEFINE new == [stage |-> "define", how |-> how, book |-> b, off |-> off, on |-> on,
                   isbn |-> number, range |-> place, made |-> {}]
<1>1. new \in Units
  BY DEF Units
<1>2. task' = [task EXCEPT ![r] = new] /\ UNCHANGED <<vocabulary, tags, isbn, range, overtaken>>
  BY DEF Begin
<1>3. task' \in [Tasks -> TaskStates]
  BY <1>1, <1>2, TaskTyped DEF TagInv, TaskStates
<1>4. task'[r] = new /\ \A q \in Tasks \ {r} : task'[q] = task[q]
  BY <1>2 DEF TagInv, TagTypeOK
<1>5. Open' = Open \cup {r}
  <2>1. task'[r].stage = "define"
    <3>1. new.stage = "define"
      OBVIOUS
    <3> QED
      BY <1>4, <3>1
  <2> HIDE DEF new
  <2> QED
    BY <1>4, <2>1 DEF Open
<1>6. \A q \in Open : q # r /\ task[q].book # b /\ q \in Tasks
  BY DEF Begin, Locked, Open
<1>7. new.book = b /\ new.how = how /\ new.off = off /\ new.on = on
      /\ new.isbn = number /\ new.range = place
  OBVIOUS
<1> HIDE DEF new
<1>8. TagTypeOK'
  BY <1>2, <1>3 DEF TagInv, TagTypeOK, TaskStates
<1>9. OneAtATime'
  <2>1. \A q \in Open : task'[q].book = task[q].book /\ task'[q].book # b
    BY <1>4, <1>6
  <2>2. task'[r].book = b
    BY <1>4, <1>7
  <2>3. SUFFICES ASSUME NEW p \in Open', NEW q \in Open', task'[p].book = task'[q].book
                 PROVE  p = q
    BY DEF OneAtATime
  <2>4. CASE p = r \/ q = r
    BY <1>5, <2>1, <2>2, <2>3, <2>4
  <2>5. CASE p \in Open /\ q \in Open
    BY <2>1, <2>3, <2>5 DEF TagInv, OneAtATime
  <2> QED
    BY <1>5, <2>4, <2>5
<1>10. RangeAgrees'
  BY <1>2, <1>4, <1>5, <1>6, <1>7 DEF TagInv, RangeAgrees, After
<1>11. HeadingsAgree'
  <2>1. ASSUME NEW q \in Open
        PROVE  task[q].book \in overtaken \/ Overtakes(q)' \/ HeadingsOf(After(q)', NumberAfter(q)')
    <3>1. task'[q] = task[q]
      BY <1>4, <1>6
    <3>2. tags' = tags /\ isbn' = isbn
      BY <1>2
    <3>3. Overtakes(q)' = Overtakes(q) /\ After(q)' = After(q) /\ NumberAfter(q)' = NumberAfter(q)
      BY <3>1, <3>2 DEF After, NumberAfter, Overtakes
    <3> QED
      BY <3>3 DEF TagInv, HeadingsAgree
  <2>2. b \in overtaken \/ Overtakes(r)' \/ HeadingsOf(After(r)', NumberAfter(r)')
    BY <1>2, <1>4, <1>7 DEF After, NumberAfter, Overtakes
  <2>3. task'[r].book = b /\ \A q \in Open : task'[q].book = task[q].book
    BY <1>4, <1>6, <1>7
  <2>4. overtaken' = overtaken
    BY <1>2
  <2>5. SUFFICES ASSUME NEW q \in Open'
                 PROVE  task'[q].book \in overtaken' \/ Overtakes(q)'
                        \/ HeadingsOf(After(q)', NumberAfter(q)')
    BY DEF HeadingsAgree, HeadingsOf
  <2>6. CASE q = r
    BY <2>2, <2>3, <2>4, <2>6
  <2>7. CASE q \in Open
    BY <2>1, <2>3, <2>4, <2>7
  <2> QED
    BY <1>5, <2>6, <2>7
<1>12. HeadingsAreItsOwn'
  BY <1>2 DEF TagInv, HeadingsAreItsOwn
<1>13. PersonsSay'
  <2>1. PersonSays(how, off, (tags[b] \ off) \cup on, number, isbn[b])'
    BY <1>2 DEF PersonSays
  <2>2. SUFFICES ASSUME NEW q \in Open'
                 PROVE  PersonSays(task[q].how, task[q].off, After(q), task[q].isbn,
                                   isbn[task[q].book])'
    BY DEF PersonsSay
  <2>3. CASE q = r
    <3>1. After(q)' = (tags[b] \ off) \cup on
      BY <1>2, <1>4, <1>7, <2>3 DEF After
    <3> QED
      BY <1>2, <1>4, <1>7, <2>3, <3>1 DEF PersonSays
  <2>4. CASE q \in Open /\ q # r
    <3>1. task'[q] = task[q] /\ After(q)' = After(q)
      BY <1>2, <1>4, <1>6, <2>4 DEF After
    <3> QED
      BY <1>2, <2>4, <3>1 DEF TagInv, PersonsSay, PersonSays
  <2> QED
    BY <1>5, <2>3, <2>4
<1> QED
  BY <1>8, <1>9, <1>10, <1>11, <1>12, <1>13 DEF TagInv

\* A commit writes what the unit of work meant to leave.
LEMMA Commits ==
  ASSUME TagInv, NEW r \in Tasks, Commit(r)
  PROVE  /\ TagInv'
         /\ task[r].how = "save" => range'[task[r].book] = RangeOfGenre(tags'[task[r].book])
         /\ tags'[task[r].book] = After(r) /\ isbn'[task[r].book] = NumberAfter(r)
         /\ \A c \in Books \ {task[r].book} : tags'[c] = tags[c]
<1> DEFINE b == task[r].book
<1>1. r \in Open /\ task[r] \in Units /\ b \in Books
  BY OpenIsUnit DEF Commit, Open, TagInv, Units
<1>2. tags' = [tags EXCEPT ![b] = After(r)]
  BY DEF Commit, After
<1>3. isbn' = [isbn EXCEPT ![b] = NumberAfter(r)]
  BY <1>1 DEF Commit, NumberAfter, TagInv, TagTypeOK
<1>4. task' = [task EXCEPT ![r] = Ended]
  BY DEF Commit
<1>5. overtaken \subseteq overtaken' /\ overtaken' \subseteq Books
      /\ (Overtakes(r) => b \in overtaken')
  BY <1>1 DEF Commit, Overtakes, TagInv, TagTypeOK
<1>6. task' \in [Tasks -> TaskStates]
  BY <1>4, TaskTyped DEF TagInv, TaskStates, Ended
<1>7. Open' = Open \ {r} /\ \A q \in Open \ {r} : task'[q] = task[q]
  BY <1>4 DEF Open, Ended, TagInv, TagTypeOK
<1>8. \A q \in Open \ {r} : task[q].book # b /\ task[q].book \in Books
  BY <1>1, OpenIsUnit DEF TagInv, OneAtATime, Units
<1>9. After(r) \in SUBSET Rows /\ NumberAfter(r) \in Numbers
  BY <1>1 DEF After, NumberAfter, TagInv, TagTypeOK, Units
<1>10. tags'[b] = After(r) /\ isbn'[b] = NumberAfter(r)
       /\ \A c \in Books \ {b} : tags'[c] = tags[c] /\ isbn'[c] = isbn[c]
  BY <1>1, <1>2, <1>3 DEF TagInv, TagTypeOK
<1>11. task[r].how = "save" => range' = [range EXCEPT ![b] = task[r].range]
  BY DEF Commit
<1>12. range' \in [Books -> Genres \cup {""}]
  BY <1>1 DEF Commit, TagInv, TagTypeOK, Units
<1>13. vocabulary' \subseteq Slugs
  BY <1>1 DEF Commit, TagInv, TagTypeOK, Units
<1>14. TagTypeOK'
  BY <1>1, <1>2, <1>3, <1>5, <1>6, <1>9, <1>12, <1>13 DEF TagInv, TagTypeOK, TaskStates
<1>15. task[r].how = "save" => range'[b] = RangeOfGenre(tags'[b])
  BY <1>1, <1>10, <1>11 DEF TagInv, TagTypeOK, RangeAgrees
<1> HIDE DEF b
<1>16. OneAtATime'
  BY <1>7 DEF TagInv, OneAtATime
<1>17. RangeAgrees'
  BY <1>7, <1>8, <1>10 DEF TagInv, RangeAgrees, After
<1>18. HeadingsAgree'
  <2>1. ASSUME NEW q \in Open \ {r}
        PROVE  /\ task'[q].book = task[q].book /\ Overtakes(q)' = Overtakes(q)
               /\ After(q)' = After(q) /\ NumberAfter(q)' = NumberAfter(q)
    BY <1>7, <1>8, <1>10 DEF After, NumberAfter, Overtakes
  <2> QED
    BY <1>5, <1>7, <2>1 DEF TagInv, HeadingsAgree
<1>19. HeadingsAreItsOwn'
  <2>1. ASSUME b \notin overtaken' PROVE HeadingsOf(After(r), NumberAfter(r))
    BY <1>1, <1>5, <2>1 DEF TagInv, HeadingsAgree, b
  <2> QED
    BY <1>1, <1>5, <1>10, <2>1 DEF TagInv, HeadingsAreItsOwn, HeadingsOf
<1>20. PersonsSay'
  <2> SUFFICES ASSUME NEW q \in Open \ {r}
               PROVE  PersonSays(task[q].how, task[q].off, After(q), task[q].isbn,
                                 isbn[task[q].book])'
    BY <1>7 DEF PersonsSay
  <2>1. /\ task'[q] = task[q] /\ After(q)' = After(q)
        /\ isbn'[task[q].book] = isbn[task[q].book]
    BY <1>7, <1>8, <1>10 DEF After
  <2> QED
    BY <2>1 DEF TagInv, PersonsSay, PersonSays
<1> QED
  BY <1>10, <1>14, <1>15, <1>16, <1>17, <1>18, <1>19, <1>20 DEF TagInv, b

LEMMA Removes ==
  ASSUME TagInv, NEW r \in Tasks, Remove(r)
  PROVE  TagInv'
<1> DEFINE slug == task[r].slug
<1>1. slug \in Slugs /\ slug[1] # "genre"
  BY DEF TaskStates, TagInv, TagTypeOK, Remove, Units
<1>2. tags' = [c \in Books |-> {row \in tags[c] : row.slug # slug}]
      /\ UNCHANGED <<isbn, range, overtaken>> /\ vocabulary' = vocabulary \ {slug}
      /\ task' = [task EXCEPT ![r] = Ended]
  BY DEF Remove
<1> HIDE DEF slug
<1>3. task' \in [Tasks -> TaskStates]
  BY <1>2, TaskTyped DEF TagInv, TaskStates, Ended
<1>4. Open' = Open /\ \A q \in Open : task'[q] = task[q]
  <2>1. r \notin Open
    BY DEF Open, Remove
  <2>2. task'[r].stage = "done" /\ \A q \in Tasks \ {r} : task'[q] = task[q]
    BY <1>2 DEF Ended, TagInv, TagTypeOK
  <2> QED
    BY <2>1, <2>2 DEF Open
<1>5. \A c \in Books : tags'[c] \subseteq tags[c]
  BY <1>2
<1>6. TagTypeOK'
  BY <1>2, <1>3 DEF TagInv, TagTypeOK, TaskStates
<1>7. OneAtATime'
  BY <1>4 DEF TagInv, OneAtATime
<1>8. ASSUME NEW q \in Open PROVE /\ task[q].book \in Books
                                 /\ After(q)' \subseteq After(q)
                                 /\ Under(After(q)', {"genre"}) = Under(After(q), {"genre"})
  <2>1. task[q].book \in Books
    BY OpenIsUnit DEF TagInv, Units
  <2>2. After(q)' = (tags'[task[q].book] \ task[q].off) \cup task[q].on
    BY <1>4 DEF After
  <2> QED
    BY <1>1, <1>2, <2>1, <2>2 DEF After, Under
<1>9. RangeAgrees'
  <2>1. ASSUME NEW q \in Open PROVE RangeOfGenre(After(q)') = RangeOfGenre(After(q))
    BY <1>8, RangeByGenre
  <2> QED
    BY <1>4, <2>1 DEF TagInv, RangeAgrees
<1>10. HeadingsAgree'
  BY <1>2, <1>4, <1>8 DEF TagInv, HeadingsAgree, HeadingsOf, NumberAfter, Overtakes, Under
<1>11. HeadingsAreItsOwn'
  BY <1>2, <1>5 DEF TagInv, HeadingsAreItsOwn, Under
<1>12. PersonsSay'
  <2> SUFFICES ASSUME NEW q \in Open
               PROVE  PersonSays(task[q].how, task[q].off, After(q), task[q].isbn,
                                 isbn[task[q].book])'
    BY <1>4 DEF PersonsSay
  <2>1. /\ task'[q] = task[q] /\ isbn' = isbn
        /\ Under(After(q)', {"genre"}) = Under(After(q), {"genre"})
    BY <1>2, <1>4, <1>8
  <2> QED
    BY <2>1 DEF TagInv, PersonsSay, PersonSays
<1> QED
  BY <1>6, <1>7, <1>9, <1>10, <1>11, <1>12 DEF TagInv

LEMMA StartsRight == TagInit => TagInv
<1> SUFFICES ASSUME TagInit PROVE TagInv
  OBVIOUS
<1>1. \A b \in Books : isbn[b] \in Numbers
  BY DEF TagInit, Numbers
<1>2. ASSUME NEW b \in Books
      PROVE  /\ tags[b] \in SUBSET Rows
             /\ HeadingsOf(tags[b], isbn[b])
  <2>1. CASE tags[b] = {}
    BY <2>1 DEF HeadingsOf, Under
  <2>2. CASE tags[b] = {Row(<<"genre", "fiction">>, "guess")}
    <3>1. <<"genre", "fiction">> \in Slugs /\ "guess" \in Sources
      BY GenreSlugs DEF Genres, Sources
    <3> QED
      BY <2>2, <3>1, RowTyped DEF HeadingsOf, Under
  <2>3. ASSUME NEW i \in {isbn[b]} \ {NoIsbn}, NEW w \in Mine,
               tags[b] = {Row(<<"genre", GenreIn[i]>>, "catalogue"),
                          Row(<<"subject", i>>, "catalogue"), Row(<<"mine", w>>, "person")}
        PROVE  tags[b] \in SUBSET Rows /\ HeadingsOf(tags[b], isbn[b])
    <3>1. i \in Isbns /\ i = isbn[b] /\ GenreIn[i] \in Genres
      BY <1>1, TaggingAssumption DEF Numbers
    <3>2. /\ <<"genre", GenreIn[i]>> \in Slugs /\ <<"genre", GenreIn[i]>>[1] = "genre"
          /\ <<"subject", i>> \in Slugs /\ <<"subject", i>>[2] = i
          /\ <<"mine", w>> \in Slugs /\ <<"mine", w>>[1] = "mine"
      BY <3>1 DEF Slugs
    <3>3. "catalogue" \in Sources /\ "person" \in Sources
      BY DEF Sources
    <3> QED
      BY <2>3, <3>1, <3>2, <3>3, RowTyped DEF HeadingsOf, Under
  <2>4. tags[b] \in FirstRows(b)
    BY DEF TagInit
  <2>5. \/ tags[b] = {} \/ tags[b] = {Row(<<"genre", "fiction">>, "guess")}
        \/ \E i \in {isbn[b]} \ {NoIsbn}, w \in Mine :
             tags[b] = {Row(<<"genre", GenreIn[i]>>, "catalogue"),
                        Row(<<"subject", i>>, "catalogue"), Row(<<"mine", w>>, "person")}
    <3> DEFINE LookedUp(i, w) == {Row(<<"genre", GenreIn[i]>>, "catalogue"),
                                  Row(<<"subject", i>>, "catalogue"), Row(<<"mine", w>>, "person")}
               guess == {Row(<<"genre", "fiction">>, "guess")}
    <3>1. FirstRows(b) = {{}, guess} \cup {LookedUp(i, w) : i \in {isbn[b]} \ {NoIsbn}, w \in Mine}
      BY DEF FirstRows
    <3> HIDE DEF LookedUp, guess
    <3>2. tags[b] = {} \/ tags[b] = guess
          \/ \E i \in {isbn[b]} \ {NoIsbn}, w \in Mine : tags[b] = LookedUp(i, w)
      BY <2>4, <3>1
    <3> QED
      BY <3>2 DEF LookedUp, guess
  <2> QED
    BY <2>1, <2>2, <2>3, <2>5
<1>3. tags \in [Books -> SUBSET Rows]
  BY <1>2 DEF TagInit
<1>4. range \in [Books -> Genres \cup {""}]
  BY RangeTyped DEF TagInit
<1>5. vocabulary \subseteq Slugs
  <2>1. \A b \in Books : SlugsOf(tags[b]) \subseteq Slugs
    BY <1>2 DEF SlugsOf, Rows
  <2> QED
    BY <2>1 DEF TagInit, Slugs
<1>6. Open = {}
  BY DEF TagInit, Open, NotBegun
<1>7. TagTypeOK
  BY <1>1, <1>3, <1>4, <1>5 DEF TaskStates, TagInit, TagTypeOK, NotBegun, Numbers
<1> QED
  BY <1>2, <1>6, <1>7 DEF TagInv, OneAtATime, RangeAgrees, PersonsSay, HeadingsAgree, HeadingsAreItsOwn, HeadingsOf

\* One task moves to another state, and was or is not a unit of work.
LEMMA MovesOn ==
  ASSUME TagInv, NEW r \in Tasks, NEW new \in TaskStates,
         new.stage \notin {"define", "write", "written"},
         task' = [task EXCEPT ![r] = new], vocabulary' \subseteq Slugs,
         UNCHANGED <<tags, isbn, range, overtaken>>
  PROVE  TagInv'
<1>1. task' \in [Tasks -> TaskStates]
  BY TaskTyped DEF TagInv
<1>2. task'[r] = new /\ \A q \in Tasks \ {r} : task'[q] = task[q]
  BY DEF TagInv, TagTypeOK
<1>3. \A q \in Open' : q \in Open /\ task'[q] = task[q]
  BY <1>2 DEF Open
<1> QED
  BY <1>1, <1>3, BooksStay

\* Applying and removing a tag of a person's.
LEMMA TagBegins ==
  ASSUME TagInv, NEW r \in Tasks, NEW b \in Books, NEW slug \in Slugs,
         ApplyTag(r, b, slug) \/ RemoveTag(r, b, slug)
  PROVE  TagInv'
<1>1. r \notin Open
  BY DEF ApplyTag, RemoveTag, Open, NotBegun
<1>2. tags[b] \in SUBSET Rows /\ isbn[b] \in Numbers /\ range[b] \in Genres \cup {""}
      /\ (b \in overtaken \/ HeadingsOf(tags[b], isbn[b]))
  BY DEF TagInv, TagTypeOK, HeadingsAreItsOwn, HeadingsOf
<1>3. CASE ApplyTag(r, b, slug)
  <2> DEFINE on == {Row(slug, "person")}
  <2>1. on \in SUBSET Rows /\ \A row \in on : row.source = "person"
    BY RowTyped DEF Sources
  <2>2. Begin(r, "tag", b, {}, on, isbn[b], range[b])
    BY <1>3 DEF ApplyTag
  <2> HIDE DEF on
  <2>3. b \in overtaken \/ HeadingsOf((tags[b] \ {}) \cup on, isbn[b])
    BY <1>2, <2>1 DEF HeadingsOf, Under
  <2>4. PersonSays("tag", {}, (tags[b] \ {}) \cup on, isbn[b], isbn[b])
    BY DEF PersonSays
  <2> QED
    BY <1>1, <1>2, <2>1, <2>2, <2>3, <2>4, Begins
<1>4. CASE RemoveTag(r, b, slug)
  <2> DEFINE off == {Row(slug, source) : source \in Sources}
  <2>1. off \in SUBSET Rows
    BY RowTyped
  <2>2. Begin(r, "tag", b, off, {}, isbn[b], range[b])
    BY <1>4 DEF RemoveTag
  <2> HIDE DEF off
  <2>3. b \in overtaken \/ HeadingsOf((tags[b] \ off) \cup {}, isbn[b])
    BY <1>2 DEF HeadingsOf, Under
  <2>4. PersonSays("tag", off, (tags[b] \ off) \cup {}, isbn[b], isbn[b])
    BY DEF PersonSays
  <2> QED
    BY <1>1, <1>2, <2>1, <2>2, <2>3, <2>4, Begins
<1> QED
  BY <1>3, <1>4

\* The headings a lookup brings are of the number it asked for.
LEMMA RestateBegins ==
  ASSUME TagInv, NEW r \in Tasks, RestateTags(r)
  PROVE  TagInv'
<1> DEFINE b == task[r].book
           number == task[r].isbn
           claims == {<<"genre", GenreIn[number]>>, <<"subject", number>>}
           off == Restated(tags[b], "catalogue", claims, Namespaces)
           on == {Row(slug, "catalogue") : slug \in claims} \ tags[b]
<1>1. task[r].stage = "lookup" /\ Begin(r, "restate", b, off, on, number, range[b])
  BY DEF RestateTags
<1>2. r \notin Open
  BY <1>1 DEF Open
<1>3. b \in Books /\ number \in Isbns /\ GenreIn[number] \in Genres
  BY <1>1, TaggingAssumption DEF TaskStates, TagInv, TagTypeOK, Units
<1> HIDE DEF b, number
<1>4. tags[b] \in SUBSET Rows /\ range[b] \in Genres \cup {""}
      /\ (b \in overtaken \/ HeadingsOf(tags[b], isbn[b]))
  BY <1>3 DEF TagInv, TagTypeOK, HeadingsAreItsOwn, HeadingsOf
<1>5. <<"genre", GenreIn[number]>> \in Slugs /\ <<"subject", number>> \in Slugs
  BY <1>3, GenreSlugs
<1>6. off \in SUBSET Rows /\ \A row \in off : row.source = "catalogue"
  BY <1>4 DEF Restated, Under
<1>7. on \in SUBSET Rows /\ HeadingsOf(on, number)
  <2>1. <<"genre", GenreIn[number]>>[1] = "genre" /\ <<"subject", number>>[2] = number
    OBVIOUS
  <2>2. "catalogue" \in Sources
    BY DEF Sources
  <2> QED
    BY <1>5, <2>1, <2>2, RowTyped DEF HeadingsOf, Under
<1> HIDE DEF off, on
<1>8. b \in overtaken \/ number # isbn[b] \/ HeadingsOf((tags[b] \ off) \cup on, isbn[b])
  BY <1>4, <1>7 DEF HeadingsOf, Under
<1>9. number \in Numbers
  BY <1>3 DEF Numbers
<1>10. PersonSays("restate", off, (tags[b] \ off) \cup on, number, isbn[b])
  BY <1>6 DEF PersonSays
<1> QED
  BY <1>1, <1>2, <1>3, <1>4, <1>6, <1>7, <1>8, <1>9, <1>10, Begins

\* A save counts its range over the rows it will leave, and takes the headings of
\* the number that goes off with it.
LEMMA ReviseBegins ==
  ASSUME TagInv, NEW r \in Tasks, NEW b \in Books, NEW number \in Numbers,
         NEW genre \in Genres \cup {""}, NEW source \in {"person", "guess"},
         Revise(r, b, number, genre, source)
  PROVE  TagInv'
<1> DEFINE stale == IF isbn[b] \in {NoIsbn, number} THEN {} ELSE Stale(tags[b])
           kept == tags[b] \ stale
           stated == IF genre = "" THEN {} ELSE {Row(<<"genre", genre>>, source)}
           taken == IF genre = "" THEN {}
                    ELSE Restated(kept, source, SlugsOf(stated), {"genre"}) \cup
                         (IF source = "person" THEN Restated(kept, "guess", {}, {"genre"}) ELSE {})
           carried == (kept \ taken) \cup stated
<1>1. r \notin Open /\ Begin(r, "save", b, stale \cup taken, stated \ kept, number, RangeOfGenre(carried))
  <2>1. task[r] = NotBegun
    BY DEF Revise
  <2>2. Begin(r, "save", b, stale \cup taken, stated \ kept, number, RangeOfGenre(carried))
    BY Zenon DEF Revise
  <2>3. r \notin Open
    BY <2>1, NotBegunIsNotOpen
  <2> QED
    BY <2>2, <2>3, Zenon
<1>2. tags[b] \in SUBSET Rows /\ isbn[b] \in Numbers
      /\ (b \in overtaken \/ HeadingsOf(tags[b], isbn[b]))
  BY DEF TagInv, TagTypeOK, HeadingsAreItsOwn, HeadingsOf
<1>3. stale \in SUBSET tags[b]
  BY DEF Stale, Under
<1>4. stated \in SUBSET Rows /\ \A row \in stated : row.slug[1] = "genre" /\ row.source = source
                                                 /\ row.slug \in SlugsOf(stated)
  <2>1. CASE genre = ""
    BY <2>1
  <2>2. CASE genre \in Genres /\ genre # ""
    <3>1. <<"genre", genre>> \in Slugs /\ <<"genre", genre>>[1] = "genre" /\ source \in Sources
      BY <2>2, GenreSlugs DEF Sources
    <3>2. stated = {Row(<<"genre", genre>>, source)}
      BY <2>2
    <3>3. \A row \in stated : row.slug \in SlugsOf(stated)
      BY DEF SlugsOf
    <3> HIDE DEF stated
    <3>4. LET row == Row(<<"genre", genre>>, source)
          IN  row \in Rows /\ row.slug = <<"genre", genre>> /\ row.source = source
      BY <3>1, RowTyped
    <3>5. \A row \in stated : row = Row(<<"genre", genre>>, source)
      BY <3>2
    <3> QED
      BY <3>1, <3>2, <3>3, <3>4, <3>5
  <2> QED
    BY <2>1, <2>2
<1>5. taken \cap stated = {} /\ taken \subseteq kept
  BY <1>4 DEF Restated, Under
<1>6. HeadingsOf(tags[b], isbn[b]) => HeadingsOf(carried, number)
  <2> HIDE DEF taken, stated
  <2>1. CASE isbn[b] = number
    BY <1>4, <2>1 DEF HeadingsOf, Under
  <2>2. CASE isbn[b] = NoIsbn
    <3>1. \A row \in Under(tags[b], {"subject"}) : row.slug[2] \in Isbns
      BY <1>2 DEF Under, Rows, Slugs, Genres
    <3> QED
      BY <1>4, <2>2, <3>1, TaggingAssumption DEF HeadingsOf, Under
  <2>3. CASE isbn[b] \notin {NoIsbn, number}
    BY <1>4, <2>3 DEF HeadingsOf, Under, Stale
  <2> QED
    BY <2>1, <2>2, <2>3
<1>10. \A row \in stale : isbn[b] # number /\ row.slug[1] # "mine"
  BY DEF Stale, Under
<1>11. \A row \in taken : row.source = "person" =>
         row.slug[1] = "genre" /\ \E other \in stated : other.source = "person"
  <2>1. CASE genre = ""
    BY <2>1
  <2>2. CASE genre # ""
    <3>1. \A row \in taken : row.slug[1] = "genre" /\ (row.source = "person" => source = "person")
      <4> HIDE DEF kept, stated
      <4> QED
        BY <2>2 DEF Restated, Under
    <3>2. Row(<<"genre", genre>>, source) \in stated
      BY <2>2
    <3> QED
      BY <1>4, <3>1, <3>2
  <2> QED
    BY <2>1, <2>2
<1>12. stated \subseteq carried
  OBVIOUS
<1> HIDE DEF stale, stated, taken
<1>7. (tags[b] \ (stale \cup taken)) \cup (stated \ kept) = carried
  BY <1>2, <1>3, <1>4, <1>5
<1>8. stale \cup taken \in SUBSET Rows /\ stated \ kept \in SUBSET Rows
  BY <1>2, <1>3, <1>4, <1>5
<1> HIDE DEF kept, carried
<1>9. RangeOfGenre(carried) \in Genres \cup {""}
  BY RangeTyped
<1>13. PersonSays("save", stale \cup taken, carried, number, isbn[b])
  BY <1>4, <1>10, <1>11, <1>12 DEF PersonSays, Under
<1> QED
  BY <1>1, <1>2, <1>6, <1>7, <1>8, <1>9, <1>13, Begins

LEMMA StepKeeps ==
  ASSUME TagInv, [TagNext]_tagVars
  PROVE  TagInv'
<1>1. ASSUME NEW r \in Tasks, OnABook(r) PROVE TagInv'
  <2>1. ASSUME NEW b \in Books, NEW slug \in Slugs, ApplyTag(r, b, slug) \/ RemoveTag(r, b, slug)
        PROVE  TagInv'
    BY <2>1, TagBegins
  <2>2. ASSUME NEW b \in Books, LookUp(r, b) PROVE TagInv'
    <3> DEFINE new == [stage |-> "lookup", book |-> b, isbn |-> isbn[b]]
    <3>1. isbn[b] \in Isbns
      BY <2>2 DEF LookUp, TagInv, TagTypeOK, Numbers
    <3>2. new \in TaskStates /\ new.stage = "lookup"
      BY <3>1 DEF TaskStates
    <3>3. task' = [task EXCEPT ![r] = new] /\ vocabulary' \subseteq Slugs
          /\ UNCHANGED <<tags, isbn, range, overtaken>>
      BY <2>2 DEF LookUp, TagInv, TagTypeOK
    <3> HIDE DEF new
    <3> QED
      BY <3>2, <3>3, MovesOn
  <2>3. ASSUME NEW b \in Books, NEW number \in Numbers, NEW genre \in Genres \cup {""},
               NEW source \in {"person", "guess"}, Revise(r, b, number, genre, source)
        PROVE  TagInv'
    BY <2>3, ReviseBegins
  <2> QED
    BY <1>1, <2>1, <2>2, <2>3 DEF OnABook, Numbers
<1>2. Ended \in TaskStates /\ Ended.stage = "done"
  BY DEF Ended, TaskStates
<1>3. ASSUME NEW r \in Tasks, NotFound(r) \/ Fail(r) PROVE TagInv'
  BY <1>2, <1>3, MovesOn DEF NotFound, Fail, TagInv, TagTypeOK
<1>4. ASSUME NEW r \in Tasks, Define(r) \/ Write(r) PROVE TagInv'
  <2>1. r \in Open /\ task[r] \in Units /\ UNCHANGED <<vocabulary, tags, isbn, range, overtaken>>
    BY <1>4, OpenIsUnit DEF Define, Write, Open, TagInv
  <2>2. task' \in [Tasks -> TaskStates]
    <3>1. \A row \in task[r].on : row.slug \in Slugs
      BY <2>1 DEF Units, Rows
    <3>2. SlugsOf(task[r].on) \subseteq Slugs
      BY <3>1 DEF SlugsOf
    <3>3. CASE Define(r)
      <4> DEFINE new == [task[r] EXCEPT !.stage = "write", !.made = SlugsOf(task[r].on) \ vocabulary]
      <4>1. task' = [task EXCEPT ![r] = new]
        BY <3>3 DEF Define, TagInv, TagTypeOK
      <4>2. new \in Units
        BY <2>1, <3>2 DEF Units
      <4> HIDE DEF new
      <4> QED
        BY <4>1, <4>2, TaskTyped DEF TagInv, TaskStates
    <3>4. CASE Write(r)
      <4> DEFINE new == [task[r] EXCEPT !.stage = "written"]
      <4>1. task' = [task EXCEPT ![r] = new]
        BY <3>4 DEF Write, TagInv, TagTypeOK
      <4>2. new \in Units
        BY <2>1 DEF Units
      <4> HIDE DEF new
      <4> QED
        BY <4>1, <4>2, TaskTyped DEF TagInv, TaskStates
    <3> QED
      BY <1>4, <3>3, <3>4
  <2>3. \A q \in Tasks \ {r} : task'[q] = task[q]
    BY <1>4 DEF Define, Write, TagInv, TagTypeOK
  <2>4. /\ task'[r].book = task[r].book /\ task'[r].how = task[r].how
        /\ task'[r].off = task[r].off /\ task'[r].on = task[r].on
        /\ task'[r].isbn = task[r].isbn /\ task'[r].range = task[r].range
    <3>1. CASE Define(r)
      BY <2>1, <3>1 DEF Define, Units, TagInv, TagTypeOK
    <3>2. CASE Write(r)
      BY <2>1, <3>2 DEF Write, Units, TagInv, TagTypeOK
    <3> QED
      BY <1>4, <3>1, <3>2
  <2>5. \A q \in Open' : q \in Open
    BY <2>1, <2>3 DEF Open
  <2>6. \A q \in Open' : q \in Tasks
    BY DEF Open
  <2>7. vocabulary' \subseteq Slugs
    BY <2>1 DEF TagInv, TagTypeOK
  <2> QED
    BY <2>1, <2>2, <2>3, <2>4, <2>5, <2>6, <2>7, BooksStay
<1>5. ASSUME NEW r \in Tasks, Commit(r) PROVE TagInv'
  BY <1>5, Commits
<1>6. ASSUME NEW r \in Tasks, NEW slug \in Slugs, DefineTag(r, slug) PROVE TagInv'
  BY <1>2, <1>6, MovesOn DEF DefineTag, TagInv, TagTypeOK
<1>7. ASSUME NEW r \in Tasks, NEW slug \in Slugs, ForgetTag(r, slug) PROVE TagInv'
  <2> DEFINE new == [stage |-> "removing", slug |-> slug]
  <2>1. new \in TaskStates /\ new.stage = "removing"
    BY <1>7 DEF ForgetTag, TaskStates
  <2>2. vocabulary' \subseteq Slugs /\ UNCHANGED <<tags, isbn, range, overtaken>>
    BY <1>7 DEF ForgetTag, TagInv, TagTypeOK
  <2>3. task' = [task EXCEPT ![r] = new] \/ task' = [task EXCEPT ![r] = Ended]
    BY <1>7 DEF ForgetTag
  <2> HIDE DEF new
  <2> QED
    BY <1>2, <2>1, <2>2, <2>3, MovesOn
<1>8. ASSUME NEW r \in Tasks, Remove(r) PROVE TagInv'
  BY <1>8, Removes
<1>9. ASSUME NEW r \in Tasks, RestateTags(r) PROVE TagInv'
  BY <1>9, RestateBegins
<1>10. CASE UNCHANGED tagVars
  <2>1. UNCHANGED <<tags, isbn, range, overtaken>> /\ task' = task /\ vocabulary' = vocabulary
    BY <1>10 DEF tagVars
  <2>2. Open' = Open /\ task' \in [Tasks -> TaskStates] /\ vocabulary' \subseteq Slugs
    BY <2>1 DEF Open, TagInv, TagTypeOK, TaskStates
  <2> QED
    BY <2>1, <2>2, BooksStay
<1> QED
  BY <1>1, <1>3, <1>4, <1>5, <1>6, <1>7, <1>8, <1>9, <1>10 DEF TagNext

-----------------------------------------------------------------------------
(* The theorems *)

LEMMA InvHolds == TagSpec => []TagInv
BY StartsRight, StepKeeps, PTL DEF TagSpec

\* Every row a book carries is of the words and sources there are, and every task
\* keeps its shape.
THEOREM TagTypeCorrect == TagSpec => []TagTypeOK
<1>1. TagInv => TagTypeOK
  BY DEF TagInv
<1> QED
  BY <1>1, InvHolds, PTL

\* When a save has been made, the range of the row is what the tags say then: the
\* lock on the book keeps every other writer of its tags out between the counting
\* and the commit, and a removal of a word takes no genre.
THEOREM SaveLeavesItsRange == TagSpec => RangeFollowsTags
<1>1. ASSUME TagInv
      PROVE  [\A r \in Tasks : Commit(r) /\ task[r].how = "save" =>
                range'[task[r].book] = RangeOfGenre(tags'[task[r].book])]_tagVars
  BY <1>1, Commits
<1> QED
  BY <1>1, InvHolds, PTL DEF RangeFollowsTags

\* A book carries no heading of a number that is not its own, unless a lookup of
\* an earlier number was restated on it.
THEOREM HeadingsStayItsOwn == TagSpec => []HeadingsAreItsOwn
<1>1. TagInv => HeadingsAreItsOwn
  BY DEF TagInv
<1> QED
  BY <1>1, InvHolds, PTL
LEMMA PersonsTags ==
  ASSUME TagInv, [TagNext]_tagVars, NEW b \in Books, NEW row \in tags[b] \ tags'[b],
         row.source = "person"
  PROVE  \/ \E r \in Tasks : Remove(r)
         \/ \E r \in Tasks : Commit(r) /\ task[r].book = b /\ task[r].how = "tag"
         \/ \E other \in Under(tags'[b], {"genre"}) :
              row.slug[1] = "genre" /\ other.source = "person"
         \/ isbn'[b] # isbn[b] /\ row.slug[1] # "mine"
<1>1. ASSUME NEW r \in Tasks, Commit(r)
      PROVE  \/ task[r].book = b /\ task[r].how = "tag"
             \/ \E other \in Under(tags'[b], {"genre"}) :
                  row.slug[1] = "genre" /\ other.source = "person"
             \/ isbn'[b] # isbn[b] /\ row.slug[1] # "mine"
  <2>1. /\ tags'[task[r].book] = After(r) /\ isbn'[task[r].book] = NumberAfter(r)
        /\ \A c \in Books \ {task[r].book} : tags'[c] = tags[c]
    BY <1>1, Commits
  <2>2. b = task[r].book
    BY <2>1
  <2>3. row \in task[r].off
    BY <2>1, <2>2 DEF After
  <2>4. r \in Open
    BY <1>1 DEF Commit, Open
  <2>5. PersonSays(task[r].how, task[r].off, tags'[b], task[r].isbn, isbn[b])
    BY <2>1, <2>2, <2>4 DEF TagInv, PersonsSay
  <2> QED
    BY <2>1, <2>2, <2>3, <2>5 DEF PersonSays, NumberAfter
<1>2. [TagNext]_tagVars =>
        \/ tags' = tags
        \/ \E r \in Tasks : Remove(r)
        \/ \E r \in Tasks : Commit(r)
  <2>1. ASSUME NEW r \in Tasks, OnABook(r) PROVE tags' = tags
    <3>1. ASSUME NEW c \in Books, NEW slug \in Slugs, ApplyTag(r, c, slug) \/ RemoveTag(r, c, slug)
          PROVE  tags' = tags
      BY <3>1 DEF ApplyTag, RemoveTag, Begin
    <3>2. ASSUME NEW c \in Books, LookUp(r, c) PROVE tags' = tags
      BY <3>2 DEF LookUp
    <3>3. ASSUME NEW c \in Books, NEW number, NEW genre, NEW source,
                 Revise(r, c, number, genre, source)
          PROVE  tags' = tags
      BY <3>3, Zenon DEF Revise, Begin
    <3> QED
      BY <2>1, <3>1, <3>2, <3>3, Zenon DEF OnABook
  <2>2. ASSUME NEW r \in Tasks, RestateTags(r) PROVE tags' = tags
    BY <2>2 DEF RestateTags, Begin
  <2>3. ASSUME NEW r \in Tasks, NotFound(r) \/ Define(r) \/ Write(r) \/ Fail(r)
        PROVE  tags' = tags
    BY <2>3 DEF NotFound, Define, Write, Fail
  <2>4. ASSUME NEW r \in Tasks, NEW slug \in Slugs, DefineTag(r, slug) \/ ForgetTag(r, slug)
        PROVE  tags' = tags
    BY <2>4 DEF DefineTag, ForgetTag
  <2> QED
    BY <2>1, <2>2, <2>3, <2>4 DEF TagNext, tagVars
<1> QED
  BY <1>1, <1>2

\* What a person said of a book is taken back by a person only, and removing a word
\* takes it off the book only where it had waited for the unit of work the tag came
\* with: a restatement takes its own source's rows, and a guess no person's.
THEOREM WordsOfPersonsStay == TagSpec => PersonsTagStays
<1>1. ASSUME TagInv, [TagNext]_tagVars
      PROVE  \A b \in Books : \A row \in tags[b] \ tags'[b] :
               row.source = "person" =>
                 \/ \E r \in Tasks : Remove(r)
                 \/ \E r \in Tasks : Commit(r) /\ task[r].book = b /\ task[r].how = "tag"
                 \/ \E other \in Under(tags'[b], {"genre"}) :
                      row.slug[1] = "genre" /\ other.source = "person"
                 \/ isbn'[b] # isbn[b] /\ row.slug[1] # "mine"
  BY <1>1, PersonsTags
<1> QED
  BY <1>1, InvHolds, PTL DEF PersonsTagStays, TagSpec

-----------------------------------------------------------------------------
(***************************************************************************)
(* Cataloguing, for any requests, numbers and names.  CatInv says what     *)
(* each request has written and not committed, beside the names that are   *)
(* there and beside every other request: no name is written by two, no     *)
(* row is of an author somebody deletes, an author goes only with all of   *)
(* his names, a save at its commit files the book under what its name      *)
(* does, and a save that answers has met no other book of its number.      *)
(***************************************************************************)

Ids == Works \cup Printed
NameRow == [author : Ids, filing : Filings]
NameRows == UNION {[S -> NameRow] : S \in SUBSET Printed}
BookRow ==
  [isbn : Codes, credit : Printed, filed : Filings \cup {NoOverride}, revised : BOOLEAN]

SaveStages == {"ask", "meet", "insert", "met", "file", "write", "commit"}
Savers(r) ==
  [how : {"copy", "answer", "revise"}, of : Works \cup {Old}, isbn : Codes, name : Printed,
   said : {NoOverride, "corrected"}, stage : SaveStages, filed : Filings \cup {NoOverride},
   late : BOOLEAN, rows : NameRows, lost : {{}}, new : SUBSET {r}, gone : {{}}]
Mergers ==
  [how : {"merge"}, into : Ids, from : Ids, stage : {"move", "drop", "commit"},
   rows : NameRows, lost : SUBSET Printed, new : {{}}, gone : SUBSET Ids]
AtWork(r) == Savers(r) \cup Mergers

CatTyped ==
  /\ catalogued \in UNION {[S -> BookRow] : S \in SUBSET (Works \cup {Old})}
  /\ names \in NameRows
  /\ authors \subseteq Ids
  /\ work = [r \in Works |-> work[r]]
  /\ \A r \in Works : work[r] \in {Undone, Finished} \cup AtWork(r)

\* Every name has its author, and whoever has made one has finished.
HaveAuthors ==
  /\ \A n \in DOMAIN names : names[n].author \in authors
  /\ \A r \in Works : r \in authors => work[r] = Finished

\* The names as a request sees them
Seen(w) ==
  [n \in (DOMAIN names \cup DOMAIN w.rows) \ w.lost |->
     IF n \in DOMAIN w.rows THEN w.rows[n] ELSE names[n]]
FilesAs(w, filing) == w.name \in DOMAIN Seen(w) /\ Seen(w)[w.name].filing = filing

\* A save or a revision writes at most its own name, and that only if it is new or
\* is corrected; what it files under is what the name does, or is corrected.
SaverAlone(r, w) ==
  /\ w.stage = "insert" => w.new = {r}
  /\ w.stage = "file" => w.said # NoOverride
  /\ DOMAIN w.rows \subseteq {w.name}
  /\ w.said = NoOverride => DOMAIN w.rows \cap DOMAIN names = {}
  /\ \A n \in DOMAIN w.rows : w.rows[n].author \in authors \cup w.new
  /\ w.stage = "commit" => w.name \in DOMAIN Seen(w) /\ (w.late \/ FilesAs(w, w.filed))
  /\ w.stage = "write" /\ w.said # NoOverride => w.late \/ FilesAs(w, w.said)
  /\ w.how = "answer" /\ w.stage # "ask" =>
       \A b \in DOMAIN catalogued : catalogued[b].isbn = w.isbn => catalogued[b].revised
  /\ w.how = "revise" => w.of \in DOMAIN catalogued

\* A merge moves names that are there, to an author that is there and not about to go,
\* and takes with the author it deletes all names of his.
MergerAlone(w) ==
  /\ w.into # w.from
  /\ \A a \in {w.into, w.from} \cap Works : work[a] = Finished
  /\ \A n \in DOMAIN w.rows :
       /\ n \in DOMAIN names /\ w.rows[n].filing = names[n].filing
       /\ w.rows[n].author = w.into /\ w.into \in authors
  /\ w.gone \subseteq {w.from}
  /\ w.stage # "commit" => w.gone = {} /\ w.lost = {}
  /\ \A n \in DOMAIN names : names[n].author \in w.gone => n \in w.lost \cup DOMAIN w.rows
  /\ \A n \in w.lost : ~Credited(n)

\* Two requests write no name both, and neither deletes what the other refers to.
Beside(w, v) ==
  /\ (DOMAIN w.rows \cup w.lost) \cap (DOMAIN v.rows \cup v.lost) = {}
  /\ \A n \in DOMAIN w.rows : w.rows[n].author \notin v.gone
  /\ w.how # "merge" /\ w.stage = "commit" => w.name \notin v.lost
  /\ w.how \in {"copy", "answer"} /\ v.how \in {"copy", "answer"} => w.isbn # v.isbn

CatAlone ==
  \A r \in Works :
    /\ work[r] \in Savers(r) => SaverAlone(r, work[r])
    /\ work[r] \in Mergers => MergerAlone(work[r])
CatBeside ==
  \A r, q \in Works :
    r # q /\ work[r] \in AtWork(r) /\ work[q] \in AtWork(q) => Beside(work[r], work[q])

CatInv == CatTyped /\ HaveAuthors /\ CatAlone /\ CatBeside

-----------------------------------------------------------------------------
(* Shapes *)

LEMMA NothingWritten == <<>> \in NameRows /\ DOMAIN <<>> = {}
<1>1. DOMAIN <<>> = {} /\ <<>> = [n \in {} |-> <<>>[n]]
  OBVIOUS
<1>2. <<>> \in [{} -> NameRow]
  BY <1>1
<1> QED BY <1>1, <1>2 DEF NameRows

LEMMA RowsAre ==
  ASSUME NEW f
  PROVE  f \in NameRows <=> /\ f = [n \in DOMAIN f |-> f[n]] /\ DOMAIN f \subseteq Printed
                            /\ \A n \in DOMAIN f : f[n] \in NameRow
<1>1. ASSUME f \in NameRows
      PROVE  /\ f = [n \in DOMAIN f |-> f[n]] /\ DOMAIN f \subseteq Printed
             /\ \A n \in DOMAIN f : f[n] \in NameRow
  <2>1. PICK S \in SUBSET Printed : f \in [S -> NameRow]
    BY <1>1 DEF NameRows
  <2> QED BY <2>1
<1>2. ASSUME /\ f = [n \in DOMAIN f |-> f[n]] /\ DOMAIN f \subseteq Printed
             /\ \A n \in DOMAIN f : f[n] \in NameRow
      PROVE  f \in NameRows
  <2>1. f \in [DOMAIN f -> NameRow]
    BY <1>2
  <2> QED BY <1>2, <2>1 DEF NameRows
<1> QED BY <1>1, <1>2

LEMMA RowIs ==
  ASSUME NEW row
  PROVE  /\ row \in NameRow => row.author \in Ids /\ row.filing \in Filings
         /\ \A a \in Ids, f \in Filings :
              /\ [author |-> a, filing |-> f] \in NameRow
              /\ row \in NameRow =>
                   /\ [row EXCEPT !.filing = f] \in NameRow
                   /\ [row EXCEPT !.filing = f].author = row.author
                   /\ [row EXCEPT !.filing = f].filing = f
                   /\ [row EXCEPT !.author = a] \in NameRow
                   /\ [row EXCEPT !.author = a].author = a
                   /\ [row EXCEPT !.author = a].filing = row.filing
BY DEF NameRow

LEMMA OverridesAre ==
  /\ NoOverride \notin Filings /\ "corrected" \in Filings /\ "derived" \in Filings
  /\ NoOverride # "corrected"
BY DEF NoOverride, Filings

LEMMA SaverIs ==
  ASSUME NEW r, NEW w \in Savers(r)
  PROVE  /\ w.how \in {"copy", "answer", "revise"} /\ w.of \in Works \cup {Old}
         /\ w.isbn \in Codes /\ w.name \in Printed /\ w.said \in {NoOverride, "corrected"}
         /\ w.stage \in SaveStages /\ w.filed \in Filings \cup {NoOverride}
         /\ w.late \in BOOLEAN /\ w.rows \in NameRows /\ w.lost = {}
         /\ w.new \subseteq {r} /\ w.gone = {} /\ w \notin Mergers
<1> HIDE DEF SaveStages, NameRows, Filings, NoOverride
<1> QED BY DEF Savers, Mergers

LEMMA MergerIs ==
  ASSUME NEW w \in Mergers
  PROVE  /\ w.how = "merge" /\ w.into \in Ids /\ w.from \in Ids
         /\ w.stage \in {"move", "drop", "commit"} /\ w.rows \in NameRows
         /\ w.lost \subseteq Printed /\ w.new = {} /\ w.gone \subseteq Ids
         /\ \A r : w \notin Savers(r)
<1> HIDE DEF SaveStages, NameRows, Filings, NoOverride, Ids
<1> QED BY DEF Savers, Mergers

\* What stays when a save goes on to another stage.
Onward(r, w, v, stage) ==
  /\ v \in Savers(r) /\ v.stage = stage
  /\ v.how = w.how /\ v.of = w.of /\ v.isbn = w.isbn /\ v.name = w.name /\ v.said = w.said

LEMMA SaverGoesOn ==
  ASSUME NEW r, NEW w \in Savers(r), NEW stage \in SaveStages,
         NEW v, v = [w EXCEPT !.stage = stage]
  PROVE  /\ Onward(r, w, v, stage) /\ v.filed = w.filed /\ v.late = w.late
         /\ v.rows = w.rows /\ v.new = w.new
<1> HIDE DEF SaveStages, NameRows, Filings, NoOverride
<1> QED BY DEF Savers, Onward

LEMMA SaverWrites ==
  ASSUME NEW r, NEW w \in Savers(r), NEW stage \in SaveStages, NEW rows \in NameRows,
         NEW v, v = [w EXCEPT !.stage = stage, !.rows = rows]
  PROVE  /\ Onward(r, w, v, stage) /\ v.filed = w.filed /\ v.late = w.late
         /\ v.rows = rows /\ v.new = w.new
<1> HIDE DEF SaveStages, NameRows, Filings, NoOverride
<1> QED BY DEF Savers, Onward

LEMMA SaverIsLate ==
  ASSUME NEW r, NEW w \in Savers(r), NEW v, v = [w EXCEPT !.late = TRUE]
  PROVE  /\ Onward(r, w, v, w.stage) /\ v.filed = w.filed /\ v.late = TRUE
         /\ v.rows = w.rows /\ v.new = w.new
<1> HIDE DEF SaveStages, NameRows, Filings, NoOverride
<1> QED BY DEF Savers, Onward

LEMMA MergerGoesOn ==
  ASSUME NEW w \in Mergers, NEW rows \in NameRows, NEW gone \in SUBSET Ids,
         NEW lost \in SUBSET Printed
  PROVE  /\ LET v == [w EXCEPT !.stage = "drop", !.rows = rows] IN
              /\ v \in Mergers /\ v.into = w.into /\ v.from = w.from /\ v.stage = "drop"
              /\ v.rows = rows /\ v.lost = w.lost /\ v.gone = w.gone
         /\ LET v == [w EXCEPT !.stage = "commit", !.gone = gone, !.lost = lost] IN
              /\ v \in Mergers /\ v.into = w.into /\ v.from = w.from /\ v.stage = "commit"
              /\ v.rows = w.rows /\ v.lost = lost /\ v.gone = gone
<1> HIDE DEF NameRows, Ids
<1> QED BY DEF Mergers
\* Who is at work, and at what.
LEMMA WhoIsAtWork ==
  ASSUME CatTyped, NEW r \in Works
  PROVE  /\ r \in Underway <=> work[r] \in AtWork(r)
         /\ r \in Underway <=> work[r].stage \notin {"idle", "over"}
         /\ r \in Saving \cup Revising <=> work[r] \in Savers(r)
         /\ r \in Saving <=> work[r] \in Savers(r) /\ work[r].how \in {"copy", "answer"}
         /\ r \in Revising <=> work[r] \in Savers(r) /\ work[r].how = "revise"
         /\ work[r] \in Savers(r) => work[r] # Undone /\ work[r] # Finished
         /\ work[r] \in Mergers => work[r] # Undone /\ work[r] # Finished
         /\ work[r] \notin AtWork(r) => work[r] \in {Undone, Finished}
<1>1. Undone.stage = "idle" /\ Finished.stage = "over"
  BY DEF Undone, Finished
<1>2. work[r] \in {Undone, Finished} \cup Savers(r) \cup Mergers
  BY DEF CatTyped, AtWork
<1>3. CASE work[r] \in Savers(r)
  <2>1. /\ work[r].how \in {"copy", "answer", "revise"} /\ work[r].stage \in SaveStages
        /\ work[r] \notin Mergers
    BY <1>3, SaverIs
  <2>2. work[r].stage \notin {"idle", "over"}
    BY <2>1 DEF SaveStages
  <2> QED BY <1>1, <1>3, <2>1, <2>2 DEF Underway, Saving, Revising, AtWork
<1>4. CASE work[r] \in Mergers
  <2>1. work[r].how = "merge" /\ work[r].stage \in {"move", "drop", "commit"}
        /\ work[r] \notin Savers(r)
    BY <1>4, MergerIs
  <2> QED BY <1>1, <1>4, <2>1 DEF Underway, Saving, Revising, AtWork
<1>5. CASE work[r] \in {Undone, Finished}
  <2>1. work[r].stage \in {"idle", "over"}
    BY <1>1, <1>5
  <2>2. work[r] \notin Savers(r)
    BY <2>1, SaverIs DEF SaveStages
  <2>3. work[r] \notin Mergers
    BY <2>1, MergerIs
  <2> QED BY <1>1, <1>5, <2>1, <2>2, <2>3 DEF Underway, Saving, Revising, AtWork
<1> QED BY <1>2, <1>3, <1>4, <1>5

LEMMA WorkTyped ==
  ASSUME CatTyped, NEW r \in Works, NEW v, work' = [work EXCEPT ![r] = v]
  PROVE  /\ work'[r] = v /\ \A q \in Works \ {r} : work'[q] = work[q]
         /\ work' = [q \in Works |-> work'[q]]
BY DEF CatTyped

\* One request takes a step that nobody sees yet.
LEMMA OneMoves ==
  ASSUME CatInv, NEW r \in Works, NEW v, work' = [work EXCEPT ![r] = v],
         UNCHANGED <<catalogued, names, authors>>,
         work[r] # Finished,
         v \in {Finished} \cup AtWork(r),
         v \in Savers(r) => SaverAlone(r, v),
         v \in Mergers => MergerAlone(v),
         v \in AtWork(r) => \A q \in Works \ {r} :
           work[q] \in AtWork(q) => Beside(v, work[q]) /\ Beside(work[q], v)
  PROVE  CatInv'
<1>1. /\ work'[r] = v /\ \A q \in Works \ {r} : work'[q] = work[q]
      /\ work' = [q \in Works |-> work'[q]]
  BY WorkTyped DEF CatInv
<1>2. CatTyped'
  BY <1>1 DEF CatInv, CatTyped
<1>3. \A q \in Works : work[q] = Finished => work'[q] = Finished
  BY <1>1
<1>4. HaveAuthors'
  BY <1>3 DEF CatInv, HaveAuthors
<1>5. ASSUME NEW q \in Works PROVE (work[q] \in Savers(q) => SaverAlone(q, work[q]))'
  <2>1. PICK w : w = work'[q]
    OBVIOUS
  <2>2. w \in Savers(q) => SaverAlone(q, w)
    BY <1>1, <2>1 DEF CatInv, CatAlone
  <2>3. SaverAlone(q, w) => SaverAlone(q, w)'
    BY DEF SaverAlone, FilesAs, Seen
  <2>4. Savers(q)' = Savers(q)
    BY DEF Savers
  <2> QED BY <2>1, <2>2, <2>3, <2>4
<1>6. ASSUME NEW q \in Works PROVE (work[q] \in Mergers => MergerAlone(work[q]))'
  <2>1. PICK w : w = work'[q]
    OBVIOUS
  <2>2. w \in Mergers => MergerAlone(w)
    BY <1>1, <2>1 DEF CatInv, CatAlone
  <2>3. \A n : Credited(n)' <=> Credited(n)
    BY DEF Credited
  <2>4. MergerAlone(w) => MergerAlone(w)'
    BY <2>3, <1>3 DEF MergerAlone
  <2>5. Mergers' = Mergers
    BY DEF Mergers
  <2> QED BY <2>1, <2>2, <2>4, <2>5
<1>7. CatBeside'
  <2>1. ASSUME NEW p \in Works, NEW q \in Works, p # q,
               work'[p] \in AtWork(p), work'[q] \in AtWork(q)
        PROVE  Beside(work'[p], work'[q])
    BY <1>1, <2>1 DEF CatInv, CatBeside
  <2> QED BY <2>1 DEF CatBeside, Beside, AtWork, Savers, Mergers
<1>8. CatAlone'
  BY <1>5, <1>6 DEF CatAlone
<1> QED BY <1>2, <1>4, <1>7, <1>8 DEF CatInv
-----------------------------------------------------------------------------
(* The steps of a save *)

LEMMA CatStarts == CatalogueInit => CatInv
<1> SUFFICES ASSUME CatalogueInit PROVE CatInv
  OBVIOUS
<1>1. PICK known \in SUBSET Printed, first \in Printed, code \in Codes :
        /\ names = [n \in known |-> [author |-> n, filing |-> "derived"]]
        /\ authors = known
        /\ catalogued = [b \in {Old} |-> [isbn |-> code, credit |-> first,
                                          filed |-> "derived", revised |-> FALSE]]
  BY DEF CatalogueInit
<1>2. work = [r \in Works |-> Undone]
  BY DEF CatalogueInit
<1>3. \A r \in Works : work[r] = Undone
  BY <1>2
<1>4. \A n \in known : [author |-> n, filing |-> "derived"] \in NameRow
  BY RowIs, OverridesAre DEF Ids
<1>5. names \in NameRows
  BY <1>1, <1>4, RowsAre
<1>6. [isbn |-> code, credit |-> first, filed |-> "derived", revised |-> FALSE] \in BookRow
  BY <1>1, OverridesAre DEF BookRow
<1>7. catalogued \in [{Old} -> BookRow]
  BY <1>1, <1>6
<1>8. CatTyped
  BY <1>1, <1>2, <1>3, <1>5, <1>7 DEF CatTyped, Ids
<1>9. HaveAuthors
  BY <1>1, CataloguingAssumption DEF HaveAuthors
<1>10. \A r \in Works : work[r] \notin AtWork(r) /\ work[r] \notin Savers(r) /\ work[r] \notin Mergers
  BY <1>3, <1>8, WhoIsAtWork DEF AtWork
<1> QED BY <1>8, <1>9, <1>10 DEF CatInv, CatAlone, CatBeside

LEMMA SaveStarts ==
  ASSUME CatInv, NEW r \in Works, work[r] = Undone,
         NEW how \in {"copy", "answer", "revise"}, NEW of \in DOMAIN catalogued \cup {Old},
         how = "revise" => of \in DOMAIN catalogued,
         NEW code \in Codes, NEW n \in Printed,
         NEW said \in {NoOverride, "corrected"},
         how # "revise" => \A q \in Saving : work[q].isbn # code,
         work' = [work EXCEPT ![r] =
           Begun(how, of, code, n, said, IF how = "answer" THEN "ask" ELSE "meet")],
         UNCHANGED <<catalogued, names, authors>>
  PROVE  CatInv'
<1> DEFINE stage == IF how = "answer" THEN "ask" ELSE "meet"
<1>1. PICK v : v = Begun(how, of, code, n, said, stage)
  OBVIOUS
<1>2. of \in Works \cup {Old}
  BY DEF CatInv, CatTyped
<1>3. stage \in {"ask", "meet"} /\ (how = "answer" => stage = "ask")
  OBVIOUS
<1>4. /\ v \in Savers(r) /\ v.how = how /\ v.of = of /\ v.isbn = code
      /\ v.name = n /\ v.said = said /\ v.stage = stage /\ DOMAIN v.rows = {} /\ v.lost = {}
  <2> HIDE DEF stage, NameRows, Filings, NoOverride
  <2> QED BY <1>1, <1>2, <1>3, NothingWritten DEF Savers, Begun, SaveStages
<1>5. v \notin Mergers /\ v.gone = {}
  BY <1>4, SaverIs
<1>6. SaverAlone(r, v)
  BY <1>3, <1>4 DEF SaverAlone
<1>7. ASSUME NEW q \in Works \ {r}, work[q] \in AtWork(q)
      PROVE  Beside(v, work[q]) /\ Beside(work[q], v)
  <2>1. ASSUME how # "revise", work[q].how \in {"copy", "answer"} PROVE work[q].isbn # code
    <3>1. work[q] \in Savers(q)
      BY <1>7, <2>1, MergerIs DEF AtWork
    <3> QED BY <2>1, <3>1, WhoIsAtWork DEF CatInv
  <2> QED BY <1>3, <1>4, <1>5, <2>1 DEF Beside
<1>8. Undone # Finished
  BY DEF Undone, Finished
<1>9. work' = [work EXCEPT ![r] = v]
  BY <1>1
<1> HIDE DEF stage
<1> QED BY <1>4, <1>5, <1>6, <1>7, <1>8, <1>9, OneMoves DEF AtWork

\* A save that writes nothing new, and comes to no stage that promises more.
LEMMA SaveMoves ==
  ASSUME CatInv, NEW r \in Works, work[r] \in Savers(r), NEW v, NEW stage \in SaveStages,
         Onward(r, work[r], v, stage), v.rows = work[r].rows,
         work[r].new \subseteq v.new,
         stage = "insert" => v.new = {r},
         stage = "file" => v.said # NoOverride,
         stage = "commit" => /\ v.name \in DOMAIN Seen(v) /\ (v.late \/ FilesAs(v, v.filed))
                             /\ \A q \in Underway : v.name \notin work[q].lost,
         stage = "write" /\ v.said # NoOverride => v.late \/ FilesAs(v, v.said),
         v.how = "answer" /\ stage # "ask" /\ work[r].stage = "ask" =>
           \A b \in DOMAIN catalogued : catalogued[b].isbn = v.isbn => catalogued[b].revised,
         work' = [work EXCEPT ![r] = v],
         UNCHANGED <<catalogued, names, authors>>
  PROVE  CatInv'
<1>1. /\ v \in Savers(r) /\ v \notin Mergers /\ v.lost = {} /\ v.gone = {}
      /\ work[r].lost = {} /\ work[r].gone = {} /\ v.stage = stage /\ work[r].how # "merge"
      /\ v.how = work[r].how /\ v.of = work[r].of /\ v.isbn = work[r].isbn
      /\ v.name = work[r].name /\ v.said = work[r].said
  BY SaverIs DEF Onward
<1>2. SaverAlone(r, work[r])
  BY DEF CatInv, CatAlone
<1>3. SaverAlone(r, v)
  BY <1>1, <1>2 DEF SaverAlone
<1>4. ASSUME NEW q \in Works \ {r}, work[q] \in AtWork(q)
      PROVE  Beside(v, work[q]) /\ Beside(work[q], v)
  <2>1. Beside(work[r], work[q]) /\ Beside(work[q], work[r])
    BY <1>4 DEF CatInv, CatBeside, AtWork
  <2>2. q \in Underway
    BY <1>4, WhoIsAtWork DEF CatInv
  <2> QED BY <1>1, <2>1, <2>2 DEF Beside
<1>5. work[r] # Finished
  BY WhoIsAtWork DEF CatInv
<1> QED BY <1>1, <1>3, <1>4, <1>5, OneMoves DEF AtWork
\* One request is over, by its own doing or by failing.
LEMMA FinishedStays ==
  ASSUME CatInv, NEW r \in Works, work[r] # Finished,
         work' = [work EXCEPT ![r] = Finished], UNCHANGED <<catalogued, names, authors>>
  PROVE  CatInv'
<1>1. Finished \notin AtWork(r)
  <2>1. Finished.stage = "over"
    BY DEF Finished
  <2> QED BY <2>1, SaverIs, MergerIs DEF AtWork, SaveStages
<1> QED BY <1>1, OneMoves DEF AtWork
LEMMA SeenBySavers ==
  ASSUME NEW w, w.lost = {}
  PROVE  /\ DOMAIN Seen(w) = DOMAIN names \cup DOMAIN w.rows
         /\ \A n \in DOMAIN w.rows : Seen(w)[n] = w.rows[n]
         /\ \A n \in DOMAIN names \ DOMAIN w.rows : Seen(w)[n] = names[n]
BY DEF Seen

LEMMA AskStays == ASSUME CatInv, NEW r \in Works, Ask(r) PROVE CatInv'
<1>1. work[r].stage = "ask" /\ UNCHANGED <<catalogued, names, authors>>
  BY DEF Ask
<1>2. work[r] \in Savers(r) /\ work[r] # Finished
  <2>1. r \in Underway /\ work[r] \notin Mergers
    BY <1>1, WhoIsAtWork, MergerIs DEF CatInv
  <2> QED BY <2>1, WhoIsAtWork DEF CatInv, AtWork
<1>3. CASE work' = [work EXCEPT ![r] = Finished]
  BY <1>1, <1>2, <1>3, FinishedStays
<1>4. CASE /\ ~(\E b \in DOMAIN catalogued : catalogued[b].isbn = work[r].isbn)
           /\ Goes(r, "meet")
  <2>1. PICK v : v = [work[r] EXCEPT !.stage = "meet"]
    OBVIOUS
  <2>2. /\ Onward(r, work[r], v, "meet") /\ v.rows = work[r].rows /\ v.new = work[r].new
        /\ v.isbn = work[r].isbn
    BY <1>2, <2>1, SaverGoesOn, SaverIs DEF SaveStages, Onward
  <2>3. work' = [work EXCEPT ![r] = v]
    BY <1>4, <2>1 DEF Goes, CatInv, CatTyped
  <2> QED BY <1>1, <1>2, <1>4, <2>2, <2>3, SaveMoves DEF SaveStages
<1> QED BY <1>3, <1>4 DEF Ask

LEMMA KnownStays == ASSUME CatInv, NEW r \in Works, Known(r) PROVE CatInv'
<1> DEFINE next == IF work[r].said \in {NoOverride, NamesOf(r)[work[r].name].filing}
                   THEN "write" ELSE "file"
<1>1. /\ work[r].stage \in {"meet", "met"} /\ UNCHANGED <<catalogued, names, authors>>
      /\ work[r].name \in DOMAIN NamesOf(r) /\ Goes(r, next)
  BY DEF Known
<1>2. work[r] \in Savers(r)
  <2>1. r \in Underway /\ work[r] \notin Mergers
    BY <1>1, WhoIsAtWork, MergerIs DEF CatInv
  <2> QED BY <2>1, WhoIsAtWork DEF CatInv, AtWork
<1>3. PICK v : v = [work[r] EXCEPT !.stage = next]
  OBVIOUS
<1>4. next \in {"write", "file"} /\ next \in SaveStages
  BY DEF SaveStages
<1>5. work' = [work EXCEPT ![r] = v]
  BY <1>1, <1>3 DEF Goes, CatInv, CatTyped
<1>6. NamesOf(r) = Seen(work[r])
  BY DEF NamesOf, Seen
<1>7. next = "file" => work[r].said # NoOverride
  OBVIOUS
<1>8. next = "write" /\ work[r].said # NoOverride => FilesAs(work[r], work[r].said)
  BY <1>1, <1>6 DEF FilesAs
<1> HIDE DEF next
<1>9. /\ Onward(r, work[r], v, next) /\ v.rows = work[r].rows /\ v.new = work[r].new
      /\ v.name = work[r].name /\ v.said = work[r].said
      /\ v.lost = work[r].lost
  BY <1>2, <1>3, <1>4, SaverGoesOn, SaverIs DEF Onward
<1>10. FilesAs(work[r], work[r].said) => FilesAs(v, v.said)
  BY <1>9 DEF FilesAs, Seen
<1>11. work[r].stage # "ask"
  BY <1>1
<1> QED BY <1>1, <1>2, <1>4, <1>5, <1>7, <1>8, <1>9, <1>10, <1>11, SaveMoves

LEMMA InsertAuthorStays == ASSUME CatInv, NEW r \in Works, InsertAuthor(r) PROVE CatInv'
<1>1. work[r].stage = "meet" /\ UNCHANGED <<catalogued, names, authors>>
  BY DEF InsertAuthor
<1>2. work[r] \in Savers(r)
  <2>1. r \in Underway /\ work[r] \notin Mergers
    BY <1>1, WhoIsAtWork, MergerIs DEF CatInv
  <2> QED BY <2>1, WhoIsAtWork DEF CatInv, AtWork
<1>3. PICK v : v = [work[r] EXCEPT !.new = {r}, !.stage = "insert"]
  OBVIOUS
<1>4. work' = [work EXCEPT ![r] = v]
  BY <1>3 DEF InsertAuthor, CatInv, CatTyped
<1>5. /\ Onward(r, work[r], v, "insert") /\ v.rows = work[r].rows /\ v.new = {r}
  <2>1. "insert" \in SaveStages
    BY DEF SaveStages
  <2> HIDE DEF SaveStages, NameRows, Filings, NoOverride
  <2> QED BY <1>2, <1>3, <2>1 DEF Savers, Onward
<1>6. work[r].new \subseteq {r}
  BY <1>2, SaverIs
<1> QED BY <1>1, <1>2, <1>4, <1>5, <1>6, SaveMoves DEF SaveStages

LEMMA WriteBookStays == ASSUME CatInv, NEW r \in Works, WriteBook(r) PROVE CatInv'
<1> DEFINE files == IF work[r].said = NoOverride THEN NamesOf(r)[work[r].name].filing
                    ELSE work[r].said
<1>1. /\ work[r].stage = "write" /\ UNCHANGED <<catalogued, names, authors>>
      /\ work[r].name \in DOMAIN NamesOf(r)
      /\ \A q \in Underway : work[r].name \notin work[q].lost
  BY DEF WriteBook
<1>2. work[r] \in Savers(r)
  <2>1. r \in Underway /\ work[r] \notin Mergers
    BY <1>1, WhoIsAtWork, MergerIs DEF CatInv
  <2> QED BY <2>1, WhoIsAtWork DEF CatInv, AtWork
<1>3. PICK v : v = [work[r] EXCEPT !.stage = "commit", !.filed = files]
  OBVIOUS
<1>4. work' = [work EXCEPT ![r] = v]
  BY <1>3 DEF WriteBook, CatInv, CatTyped
<1>5. NamesOf(r) = Seen(work[r])
  BY DEF NamesOf, Seen
<1>6. \A n \in DOMAIN Seen(work[r]) : Seen(work[r])[n] \in NameRow
  <2>1. /\ \A n \in DOMAIN names : names[n] \in NameRow
        /\ \A n \in DOMAIN work[r].rows : work[r].rows[n] \in NameRow
    BY <1>2, SaverIs, RowsAre DEF CatInv, CatTyped
  <2>2. work[r].lost = {}
    BY <1>2, SaverIs
  <2> QED BY <2>1, <2>2, SeenBySavers
<1>7. files \in Filings \cup {NoOverride}
  BY <1>1, <1>2, <1>5, <1>6, RowIs, SaverIs, OverridesAre
<1>8. work[r].late \/ FilesAs(work[r], files)
  BY <1>1, <1>2, <1>5 DEF FilesAs, CatInv, CatAlone, SaverAlone
<1> HIDE DEF files
<1>9. /\ Onward(r, work[r], v, "commit") /\ v.rows = work[r].rows /\ v.new = work[r].new
      /\ v.filed = files /\ v.late = work[r].late
      /\ v.name = work[r].name /\ v.said = work[r].said /\ v.lost = work[r].lost
  <2>1. "commit" \in SaveStages
    BY DEF SaveStages
  <2>2. /\ Onward(r, work[r], v, "commit") /\ v.rows = work[r].rows /\ v.new = work[r].new
        /\ v.filed = files /\ v.late = work[r].late
    <3> HIDE DEF SaveStages, NameRows, Filings, NoOverride
    <3> QED BY <1>2, <1>3, <1>7, <2>1 DEF Savers, Onward
  <2> QED BY <1>2, <2>2, SaverIs DEF Onward
<1>10. /\ v.name \in DOMAIN Seen(v)
       /\ v.late \/ FilesAs(v, v.filed)
  BY <1>1, <1>5, <1>8, <1>9 DEF FilesAs, Seen
<1> QED BY <1>1, <1>2, <1>4, <1>9, <1>10, SaveMoves DEF SaveStages
\* A save writes the name it is about.
LEMMA SaveWrites ==
  ASSUME CatInv, NEW r \in Works, work[r] \in Savers(r), work[r].stage # "ask",
         NEW row \in NameRow, NEW stage \in {"met", "write"}, NEW v,
         v = [work[r] EXCEPT !.stage = stage, !.rows = Writes(r, work[r].name, row)],
         NameFree(r, work[r].name),
         work[r].said = NoOverride => work[r].name \notin DOMAIN names,
         row.author \in authors \cup work[r].new,
         \A q \in Underway \ {r} : row.author \notin work[q].gone,
         stage = "write" => row.filing = work[r].said,
         work' = [work EXCEPT ![r] = v],
         UNCHANGED <<catalogued, names, authors>>
  PROVE  CatInv'
<1> DEFINE rows == Writes(r, work[r].name, row)
<1>1. SaverAlone(r, work[r])
  BY DEF CatInv, CatAlone
<1>2. /\ DOMAIN rows = {work[r].name} /\ rows[work[r].name] = row
      /\ rows = [n \in DOMAIN rows |-> rows[n]]
  BY <1>1 DEF SaverAlone, Writes
<1>3. rows \in NameRows
  BY <1>2, SaverIs, RowsAre
<1>4. v = [work[r] EXCEPT !.stage = stage, !.rows = rows]
  OBVIOUS
<1> HIDE DEF rows
<1>5. /\ Onward(r, work[r], v, stage) /\ v.late = work[r].late
      /\ v.rows = rows /\ v.new = work[r].new
  <2>1. stage \in SaveStages
    BY DEF SaveStages
  <2> HIDE DEF SaveStages, NameRows, Filings, NoOverride
  <2> QED BY <1>3, <1>4, <2>1 DEF Savers, Onward
<1>6. /\ v \in Savers(r) /\ v \notin Mergers /\ v.lost = {} /\ v.gone = {} /\ v.stage = stage
      /\ v.how = work[r].how /\ v.isbn = work[r].isbn /\ v.name = work[r].name
      /\ v.said = work[r].said /\ v.of = work[r].of
      /\ work[r].lost = {} /\ work[r].gone = {} /\ work[r].how # "merge"
  BY <1>5, SaverIs DEF Onward
<1>7. stage = "write" => FilesAs(v, v.said)
  <2>1. v.name \in DOMAIN Seen(v) /\ Seen(v)[v.name] = row
    BY <1>2, <1>5, <1>6 DEF Seen
  <2> QED BY <1>6, <2>1 DEF FilesAs
<1>8. SaverAlone(r, v)
  BY <1>1, <1>2, <1>5, <1>6, <1>7 DEF SaverAlone
<1>9. ASSUME NEW q \in Works \ {r}, work[q] \in AtWork(q)
      PROVE  Beside(v, work[q]) /\ Beside(work[q], v)
  <2>1. Beside(work[r], work[q]) /\ Beside(work[q], work[r])
    BY <1>9 DEF CatInv, CatBeside, AtWork
  <2>2. q \in Underway
    BY <1>9, WhoIsAtWork DEF CatInv
  <2>3. work[r].name \notin DOMAIN work[q].rows \cup work[q].lost
    BY <2>2 DEF NameFree
  <2>4. row.author \notin work[q].gone
    BY <2>2
  <2> QED BY <1>2, <1>5, <1>6, <2>1, <2>3, <2>4 DEF Beside
<1>10. work[r] # Finished
  BY WhoIsAtWork DEF CatInv
<1> QED BY <1>6, <1>8, <1>9, <1>10, OneMoves DEF AtWork

LEMMA SaverUpdates ==
  ASSUME CatTyped, NEW r \in Works, work[r] \in Savers(r), NEW stage, NEW rows,
         work' = [work EXCEPT ![r].stage = stage, ![r].rows = rows]
  PROVE  work' = [work EXCEPT ![r] = [work[r] EXCEPT !.stage = stage, !.rows = rows]]
<1> HIDE DEF SaveStages, NameRows, Filings, NoOverride
<1> QED BY DEF CatTyped, Savers

\* An author that is there and has a name is going only if the name goes with it.
LEMMA NamesKeepAuthors ==
  ASSUME CatInv, NEW r \in Works, NEW q \in Works \ {r}, q \in Underway, NEW n \in DOMAIN names,
         n \notin DOMAIN work[q].rows \cup work[q].lost
  PROVE  names[n].author \in authors /\ names[n].author \notin work[q].gone
<1>1. names[n].author \in authors
  BY DEF CatInv, HaveAuthors
<1>2. work[q] \in AtWork(q)
  BY WhoIsAtWork DEF CatInv
<1>3. CASE work[q] \in Savers(q)
  BY <1>1, <1>3, SaverIs
<1>4. CASE work[q] \in Mergers
  <2>1. MergerAlone(work[q])
    BY <1>4 DEF CatInv, CatAlone
  <2> QED BY <1>1, <2>1 DEF MergerAlone
<1> QED BY <1>2, <1>3, <1>4 DEF AtWork

\* Nobody deletes the author of one who has not finished.
LEMMA OwnAuthorStays ==
  ASSUME CatInv, NEW r \in Works, work[r] # Finished, NEW q \in Underway
  PROVE  r \notin work[q].gone
<1>1. q \in Works /\ work[q] \in AtWork(q)
  BY WhoIsAtWork DEF CatInv, Underway
<1>2. CASE work[q] \in Savers(q)
  BY <1>2, SaverIs
<1>3. CASE work[q] \in Mergers
  <2>1. MergerAlone(work[q])
    BY <1>1, <1>3 DEF CatInv, CatAlone
  <2> QED BY <2>1 DEF MergerAlone
<1> QED BY <1>1, <1>2, <1>3 DEF AtWork

LEMMA InsertAliasStays == ASSUME CatInv, NEW r \in Works, InsertAlias(r) PROVE CatInv'
<1> DEFINE filing == IF work[r].said = NoOverride THEN "derived" ELSE work[r].said
           row == [author |-> r, filing |-> filing]
<1>1. /\ work[r].stage = "insert" /\ NameFree(r, work[r].name)
      /\ UNCHANGED <<catalogued, names, authors>>
  BY DEF InsertAlias
<1>2. work[r] \in Savers(r) /\ work[r] # Finished
  <2>1. r \in Underway /\ work[r] \notin Mergers
    BY <1>1, WhoIsAtWork, MergerIs DEF CatInv
  <2> QED BY <2>1, WhoIsAtWork DEF CatInv, AtWork
<1>3. CASE work[r].name \in DOMAIN names
  <2>1. work' = [work EXCEPT ![r].stage = "met", ![r].rows = work[r].rows]
    BY <1>3 DEF InsertAlias, CatInv, CatTyped
  <2>2. PICK v : v = [work[r] EXCEPT !.stage = "met", !.rows = work[r].rows]
    OBVIOUS
  <2>3. work' = [work EXCEPT ![r] = v]
    BY <1>2, <2>1, <2>2, SaverUpdates DEF CatInv
  <2>4. "met" \in SaveStages
    BY DEF SaveStages
  <2>5. /\ Onward(r, work[r], v, "met") /\ v.rows = work[r].rows /\ v.new = work[r].new
    <3>1. work[r].rows \in NameRows
      BY <1>2, SaverIs
    <3> HIDE DEF SaveStages, NameRows, Filings, NoOverride
    <3> QED BY <1>2, <2>2, <2>4, <3>1 DEF Savers, Onward
  <2> QED BY <1>1, <1>2, <2>3, <2>4, <2>5, SaveMoves
<1>4. CASE work[r].name \notin DOMAIN names
  <2>1. work' = [work EXCEPT ![r].stage = "met", ![r].rows = Writes(r, work[r].name, row)]
    BY <1>4 DEF InsertAlias, CatInv, CatTyped
  <2>2. PICK v : v = [work[r] EXCEPT !.stage = "met", !.rows = Writes(r, work[r].name, row)]
    OBVIOUS
  <2>3. work' = [work EXCEPT ![r] = v]
    BY <1>2, <2>1, <2>2, SaverUpdates DEF CatInv
  <2>4. row \in NameRow /\ row.author = r
    <3>1. filing \in Filings
      BY <1>2, SaverIs, OverridesAre
    <3> QED BY <3>1, RowIs DEF Ids
  <2>5. work[r].new = {r}
    BY <1>1, <1>2 DEF CatInv, CatAlone, SaverAlone
  <2>6. \A q \in Underway \ {r} : row.author \notin work[q].gone
    BY <1>2, <2>4, OwnAuthorStays
  <2> HIDE DEF row
  <2> QED BY <1>1, <1>2, <1>4, <2>2, <2>3, <2>4, <2>5, <2>6, SaveWrites
<1> QED BY <1>3, <1>4

LEMMA OverrideStays == ASSUME CatInv, NEW r \in Works, Override(r) PROVE CatInv'
<1> DEFINE row == [NamesOf(r)[work[r].name] EXCEPT !.filing = work[r].said]
<1>1. /\ work[r].stage = "file" /\ NameFree(r, work[r].name)
      /\ UNCHANGED <<catalogued, names, authors>>
      /\ work[r].name \in DOMAIN NamesOf(r)
      /\ work' = [work EXCEPT ![r].stage = "write", ![r].rows = Writes(r, work[r].name, row)]
  BY DEF Override
<1>2. work[r] \in Savers(r)
  <2>1. r \in Underway /\ work[r] \notin Mergers
    BY <1>1, WhoIsAtWork, MergerIs DEF CatInv
  <2> QED BY <2>1, WhoIsAtWork DEF CatInv, AtWork
<1>3. PICK v : v = [work[r] EXCEPT !.stage = "write", !.rows = Writes(r, work[r].name, row)]
  OBVIOUS
<1>4. work' = [work EXCEPT ![r] = v]
  BY <1>1, <1>2, <1>3, SaverUpdates DEF CatInv
<1>5. NamesOf(r) = Seen(work[r])
  BY DEF NamesOf, Seen
<1>6. PICK old : old = Seen(work[r])[work[r].name]
  OBVIOUS
<1>7. work[r].said \in Filings /\ work[r].said # NoOverride
  BY <1>1, <1>2, SaverIs, OverridesAre DEF CatInv, CatAlone, SaverAlone
<1>8. /\ old \in NameRow /\ old.author \in authors \cup work[r].new
      /\ \A q \in Underway \ {r} : old.author \notin work[q].gone
  <2>1. work[r].lost = {}
    BY <1>2, SaverIs
  <2>2. CASE work[r].name \in DOMAIN work[r].rows
    <3>1. old = work[r].rows[work[r].name]
      BY <1>6, <2>1, <2>2, SeenBySavers
    <3>2. old \in NameRow
      BY <1>2, <2>2, <3>1, SaverIs, RowsAre
    <3>3. old.author \in authors \cup work[r].new
      BY <1>2, <2>2, <3>1 DEF CatInv, CatAlone, SaverAlone
    <3>4. ASSUME NEW q \in Underway \ {r} PROVE old.author \notin work[q].gone
      <4>1. q \in Works /\ work[q] \in AtWork(q)
        BY WhoIsAtWork DEF CatInv, Underway
      <4>2. Beside(work[r], work[q])
        BY <1>2, <4>1 DEF CatInv, CatBeside, AtWork
      <4> QED BY <2>2, <3>1, <4>2 DEF Beside
    <3> QED BY <3>2, <3>3, <3>4
  <2>3. CASE work[r].name \notin DOMAIN work[r].rows
    <3>1. work[r].name \in DOMAIN names /\ old = names[work[r].name]
      BY <1>1, <1>5, <1>6, <2>1, <2>3, SeenBySavers
    <3>2. old \in NameRow
      BY <3>1, RowsAre DEF CatInv, CatTyped
    <3>3. old.author \in authors
      BY <3>1 DEF CatInv, HaveAuthors
    <3>4. ASSUME NEW q \in Underway \ {r} PROVE old.author \notin work[q].gone
      <4>1. q \in Works
        BY DEF Underway
      <4>2. work[r].name \notin DOMAIN work[q].rows \cup work[q].lost
        BY <1>1 DEF NameFree
      <4> QED BY <3>1, <4>1, <4>2, NamesKeepAuthors
    <3> QED BY <3>2, <3>3, <3>4
  <2> QED BY <2>2, <2>3
<1>9. row \in NameRow /\ row.author = old.author /\ row.filing = work[r].said
  <2>1. row = [old EXCEPT !.filing = work[r].said]
    BY <1>5, <1>6
  <2> HIDE DEF row
  <2> QED BY <1>7, <1>8, <2>1 DEF NameRow
<1> HIDE DEF row
<1>10. work[r].stage # "ask"
  BY <1>1
<1>11. /\ work[r].said = NoOverride => work[r].name \notin DOMAIN names
       /\ row.author \in authors \cup work[r].new
       /\ \A q \in Underway \ {r} : row.author \notin work[q].gone
  BY <1>7, <1>8, <1>9
<1> QED BY <1>1, <1>2, <1>3, <1>4, <1>9, <1>10, <1>11, SaveWrites
-----------------------------------------------------------------------------
(* The steps of a merge *)

LEMMA MergeStays ==
  ASSUME CatInv, NEW r \in Works, NEW into, NEW from, Merge(r, into, from)
  PROVE  CatInv'
<1>1. PICK v : v = [how |-> "merge", into |-> into, from |-> from,
                    stage |-> "move", rows |-> <<>>, lost |-> {}, new |-> {}, gone |-> {}]
  OBVIOUS
<1>2. /\ work[r] = Undone /\ into # from /\ UNCHANGED <<catalogued, names, authors>>
      /\ work' = [work EXCEPT ![r] = v]
  BY <1>1 DEF Merge
<1>3. into \in authors /\ from \in authors
  BY DEF Merge, CatInv, HaveAuthors
<1>4. /\ v \in Mergers /\ v.how = "merge" /\ v.into = into /\ v.from = from /\ v.stage = "move"
      /\ DOMAIN v.rows = {} /\ v.lost = {} /\ v.gone = {}
  <2>1. into \in Ids /\ from \in Ids
    BY <1>3 DEF CatInv, CatTyped
  <2> HIDE DEF NameRows, Ids
  <2> QED BY <1>1, <2>1, NothingWritten DEF Mergers
<1>5. MergerAlone(v)
  BY <1>2, <1>3, <1>4 DEF MergerAlone, CatInv, HaveAuthors
<1>6. ASSUME NEW q \in Works \ {r}, work[q] \in AtWork(q)
      PROVE  Beside(v, work[q]) /\ Beside(work[q], v)
  BY <1>4 DEF Beside
<1>7. v \notin Savers(r)
  BY <1>4, MergerIs
<1>8. Undone # Finished
  BY DEF Undone, Finished
<1> QED BY <1>2, <1>4, <1>5, <1>6, <1>7, <1>8, OneMoves DEF AtWork

LEMMA MoveNamesStays == ASSUME CatInv, NEW r \in Works, MoveNames(r) PROVE CatInv'
<1> DEFINE moved == {n \in DOMAIN names : names[n].author = work[r].from}
           rows == [n \in moved |-> [names[n] EXCEPT !.author = work[r].into]]
<1>1. /\ work[r].stage = "move" /\ UNCHANGED <<catalogued, names, authors>>
      /\ \A n \in moved : NameFree(r, n)
      /\ \A q \in Underway : work[r].into \notin work[q].gone
      /\ moved # {} => work[r].into \in authors
      /\ work' = [work EXCEPT ![r].stage = "drop", ![r].rows = rows]
  BY DEF MoveNames
<1>2. work[r] \in Mergers /\ work[r] # Finished
  <2>1. r \in Underway /\ work[r] \notin Savers(r)
    BY <1>1, WhoIsAtWork, SaverIs DEF CatInv, SaveStages
  <2> QED BY <2>1, WhoIsAtWork DEF CatInv, AtWork
<1>3. /\ DOMAIN rows = moved /\ rows = [n \in DOMAIN rows |-> rows[n]]
      /\ \A n \in moved : rows[n] = [names[n] EXCEPT !.author = work[r].into]
  OBVIOUS
<1>4. \A n \in moved : /\ rows[n] \in NameRow /\ rows[n].author = work[r].into
                       /\ rows[n].filing = names[n].filing
  <2>1. work[r].into \in Ids
    BY <1>2, MergerIs
  <2>2. \A n \in moved : names[n] \in NameRow
    BY RowsAre DEF CatInv, CatTyped
  <2> HIDE DEF rows, moved
  <2> QED BY <1>3, <2>1, <2>2 DEF NameRow
<1>5. moved \subseteq DOMAIN names
  OBVIOUS
<1> HIDE DEF rows, moved
<1>6. rows \in NameRows
  BY <1>3, <1>4, <1>5, RowsAre DEF CatInv, CatTyped
<1>7. PICK v : v = [work[r] EXCEPT !.stage = "drop", !.rows = rows]
  OBVIOUS
<1>8. work' = [work EXCEPT ![r] = v]
  <2> HIDE DEF NameRows, Ids
  <2> QED BY <1>1, <1>2, <1>7 DEF CatInv, CatTyped, Mergers
<1>9. /\ v \in Mergers /\ v.into = work[r].into /\ v.from = work[r].from /\ v.stage = "drop"
      /\ v.rows = rows /\ v.lost = work[r].lost /\ v.gone = work[r].gone
  <2> HIDE DEF NameRows, Ids
  <2> QED BY <1>2, <1>6, <1>7 DEF Mergers
<1>10. MergerAlone(work[r]) /\ work[r].lost = {} /\ work[r].gone = {}
  BY <1>1, <1>2 DEF CatInv, CatAlone, MergerAlone
<1>11. MergerAlone(v)
  BY <1>1, <1>3, <1>4, <1>5, <1>9, <1>10 DEF MergerAlone
<1>12. ASSUME NEW q \in Works \ {r}, work[q] \in AtWork(q)
       PROVE  Beside(v, work[q]) /\ Beside(work[q], v)
  <2>1. q \in Underway
    BY <1>12, WhoIsAtWork DEF CatInv
  <2>2. /\ moved \cap (DOMAIN work[q].rows \cup work[q].lost) = {}
        /\ work[r].into \notin work[q].gone
    BY <1>1, <2>1 DEF NameFree
  <2>3. v.how = "merge"
    BY <1>9, MergerIs
  <2> QED BY <1>3, <1>4, <1>9, <1>10, <2>2, <2>3 DEF Beside
<1>13. v \notin Savers(r)
  BY <1>9, MergerIs
<1> QED BY <1>1, <1>2, <1>8, <1>9, <1>11, <1>12, <1>13, OneMoves DEF AtWork

LEMMA DropAuthorStays == ASSUME CatInv, NEW r \in Works, DropAuthor(r) PROVE CatInv'
<1>1. /\ work[r].stage = "drop" /\ NotReferred(r) /\ UNCHANGED <<catalogued, names, authors>>
      /\ \A n \in Strays(r) : NameFree(r, n) /\ ~Crediting(n) /\ ~Credited(n)
      /\ work' = [work EXCEPT ![r].stage = "commit", ![r].gone = {work[r].from},
                              ![r].lost = Strays(r)]
  BY DEF DropAuthor
<1>2. work[r] \in Mergers /\ work[r] # Finished
  <2>1. r \in Underway /\ work[r] \notin Savers(r)
    BY <1>1, WhoIsAtWork, SaverIs DEF CatInv, SaveStages
  <2> QED BY <2>1, WhoIsAtWork DEF CatInv, AtWork
<1>3. MergerAlone(work[r]) /\ work[r].lost = {} /\ work[r].gone = {}
  BY <1>1, <1>2 DEF CatInv, CatAlone, MergerAlone
<1>4. NamesOf(r) = Seen(work[r])
  BY DEF NamesOf, Seen
<1>5. \A n \in DOMAIN names : names[n].author = work[r].from =>
        n \in Strays(r) \cup DOMAIN work[r].rows
  <2> SUFFICES ASSUME NEW n \in DOMAIN names, names[n].author = work[r].from,
                      n \notin DOMAIN work[r].rows
               PROVE  n \in Strays(r)
    OBVIOUS
  <2>1. n \in DOMAIN NamesOf(r) /\ NamesOf(r)[n] = names[n]
    BY <1>3 DEF NamesOf
  <2> QED BY <2>1 DEF Strays
<1>6. Strays(r) \subseteq Printed
  <2>1. DOMAIN names \subseteq Printed /\ DOMAIN work[r].rows \subseteq Printed
    BY <1>2, MergerIs, RowsAre DEF CatInv, CatTyped
  <2> QED BY <1>3, <1>4, <2>1, SeenBySavers DEF Strays
<1>7. PICK v : v = [work[r] EXCEPT !.stage = "commit", !.gone = {work[r].from},
                                   !.lost = Strays(r)]
  OBVIOUS
<1>8. PICK strays : strays = Strays(r)
  OBVIOUS
<1>9. work' = [work EXCEPT ![r] = v]
  <2> HIDE DEF NameRows, Ids
  <2> QED BY <1>1, <1>2, <1>7 DEF CatInv, CatTyped, Mergers
<1>10. /\ v \in Mergers /\ v.into = work[r].into /\ v.from = work[r].from
       /\ v.rows = work[r].rows /\ v.lost = strays /\ v.gone = {work[r].from}
       /\ v.stage = "commit"
  <2>1. work[r].from \in Ids
    BY <1>2, MergerIs
  <2> HIDE DEF NameRows, Ids
  <2> QED BY <1>2, <1>6, <1>7, <1>8, <2>1 DEF Mergers
<1>11. MergerAlone(v)
  BY <1>1, <1>3, <1>5, <1>8, <1>10 DEF MergerAlone
<1>12. ASSUME NEW q \in Works \ {r}, work[q] \in AtWork(q)
       PROVE  Beside(v, work[q]) /\ Beside(work[q], v)
  <2>1. q \in Underway
    BY <1>12, WhoIsAtWork DEF CatInv
  <2>2. strays \cap (DOMAIN work[q].rows \cup work[q].lost) = {}
    BY <1>1, <1>8, <2>1 DEF NameFree
  <2>3. v.how = "merge"
    BY <1>10, MergerIs
  <2>4. \A n \in DOMAIN work[q].rows : work[q].rows[n].author # work[r].from
    BY <1>1, <2>1 DEF NotReferred
  <2>5. work[q].how # "merge" /\ work[q].stage = "commit" => work[q].name \notin strays
    <3>1. work[q].how # "merge" => q \in Saving \cup Revising
      BY <1>12, MergerIs, WhoIsAtWork DEF CatInv, AtWork
    <3> QED BY <1>1, <1>8, <3>1 DEF Crediting
  <2>6. Beside(work[r], work[q]) /\ Beside(work[q], work[r])
    BY <1>2, <1>12 DEF CatInv, CatBeside, AtWork
  <2> QED BY <1>10, <2>2, <2>3, <2>4, <2>5, <2>6 DEF Beside
<1>13. v \notin Savers(r)
  BY <1>10, MergerIs
<1> QED BY <1>1, <1>2, <1>9, <1>10, <1>11, <1>12, <1>13, OneMoves DEF AtWork
-----------------------------------------------------------------------------
(* Names that change, and the end of a request *)

\* The others after r has changed some names: whoever is past meeting one is late.
LEMMA OthersAreLate ==
  ASSUME CatTyped, NEW r \in Works, NEW changed, NEW q \in Works \ {r},
         work' = [Overtaken(r, changed) EXCEPT ![r] = Finished]
  PROVE  /\ work' = [p \in Works |-> work'[p]]
         /\ work'[r] = Finished
         /\ work[q] \notin Savers(q) => work'[q] = work[q]
         /\ work[q] \in Savers(q) =>
              /\ Onward(q, work[q], work'[q], work[q].stage)
              /\ work'[q].filed = work[q].filed
              /\ work'[q].rows = work[q].rows /\ work'[q].new = work[q].new
              /\ work[q].late => work'[q].late
              /\ work[q].name \in changed /\ work[q].stage \in {"file", "write", "commit"} =>
                   work'[q].late
<1>1. /\ work' = [p \in Works |-> work'[p]] /\ work'[r] = Finished
      /\ work'[q] = Overtaken(r, changed)[q]
  BY DEF Overtaken
<1>2. CASE work[q] \notin Savers(q)
  <2>1. q \notin Saving \cup Revising
    BY <1>2, WhoIsAtWork
  <2>2. work'[q] = work[q]
    BY <1>1, <2>1 DEF Overtaken
  <2> QED BY <1>1, <1>2, <2>2
<1>3. CASE work[q] \in Savers(q)
  <2>1. q \in Saving \cup Revising
    BY <1>3, WhoIsAtWork
  <2>2. CASE work[q].name \in changed /\ work[q].stage \in {"file", "write", "commit"}
    <3>1. work'[q] = [work[q] EXCEPT !.late = TRUE]
      BY <1>1, <2>1, <2>2 DEF Overtaken
    <3>2. PICK w : w = work[q]
      OBVIOUS
    <3>3. PICK v : v = work'[q]
      OBVIOUS
    <3>4. w \in Savers(q) /\ v = [w EXCEPT !.late = TRUE]
      BY <1>3, <3>1, <3>2, <3>3
    <3>5. /\ Onward(q, w, v, w.stage) /\ v.filed = w.filed /\ v.late = TRUE
          /\ v.rows = w.rows /\ v.new = w.new
      BY <3>4, SaverIsLate
    <3> QED BY <1>1, <1>3, <3>2, <3>3, <3>5
  <2>3. CASE ~(work[q].name \in changed /\ work[q].stage \in {"file", "write", "commit"})
    <3>1. work'[q] = work[q]
      BY <1>1, <2>3 DEF Overtaken
    <3> QED BY <1>1, <1>3, <2>3, <3>1 DEF Onward, Savers
  <2> QED BY <2>2, <2>3
<1> QED BY <1>2, <1>3

\* What the end of r leaves the others: of the names those that r does not touch, of
\* those it touches how they file, unless they are changed, and the authors their
\* rows refer to.
OthersKeep(r, changed, touched) ==
  /\ \A n : n \notin touched =>
       /\ n \in DOMAIN names <=> n \in DOMAIN names'
       /\ n \in DOMAIN names => names'[n] = names[n]
  /\ \A n \in touched \cap DOMAIN names : n \notin changed =>
       n \in DOMAIN names' /\ names'[n].filing = names[n].filing
  /\ \A q \in Works \ {r} : work[q] \in AtWork(q) =>
       /\ touched \cap (DOMAIN work[q].rows \cup work[q].lost) = {}
       /\ \A n \in DOMAIN work[q].rows :
            work[q].rows[n].author \in authors => work[q].rows[n].author \in authors'
       /\ \A n \in work[q].lost : ~Credited(n)'
  /\ \A q \in Works \ {r} : work[q] \in Savers(q) /\ work[q].stage = "commit"
                            /\ work[q].name \in DOMAIN names => work[q].name \in DOMAIN names'
  /\ \A q \in Works \ {r} : work[q] \in Mergers =>
       \A n \in DOMAIN names' : names'[n].author \in work[q].gone =>
         n \in DOMAIN names /\ names[n].author = names'[n].author
  /\ \A b \in DOMAIN catalogued' :
       \/ catalogued'[b].revised
       \/ b \in DOMAIN catalogued /\ catalogued'[b] = catalogued[b]
       \/ \A q \in Works \ {r} : work[q] \in Savers(q) /\ work[q].how = "answer" =>
            work[q].isbn # catalogued'[b].isbn
  /\ DOMAIN catalogued \subseteq DOMAIN catalogued'

LEMMA OneEnds ==
  ASSUME CatInv, NEW r \in Works, NEW changed, NEW touched,
         work' = [Overtaken(r, changed) EXCEPT ![r] = Finished],
         CatTyped', HaveAuthors',
         OthersKeep(r, changed, touched)
  PROVE  CatInv'
<1> USE DEF OthersKeep
<1>1. CatTyped
  BY DEF CatInv
<1>2. /\ work'[r] = Finished
      /\ \A q \in Works \ {r} : work[q] \notin Savers(q) => work'[q] = work[q]
      /\ \A q \in Works \ {r} : work[q] \in Savers(q) => work'[q] \in Savers(q)
      /\ work'[r] \notin Savers(r) /\ work'[r] \notin Mergers
  <2>1. work'[r] = Finished
    BY DEF Overtaken
  <2>2. Finished.stage = "over"
    BY DEF Finished
  <2>3. \A q \in Works \ {r} : /\ work[q] \notin Savers(q) => work'[q] = work[q]
                               /\ work[q] \in Savers(q) => work'[q] \in Savers(q)
    BY <1>1, OthersAreLate DEF Onward
  <2> QED BY <2>1, <2>2, <2>3, SaverIs, MergerIs DEF SaveStages
<1>3. ASSUME NEW q \in Works PROVE (work[q] \in Savers(q) => SaverAlone(q, work[q]))'
  <2> SUFFICES ASSUME q # r, work'[q] \in Savers(q) PROVE SaverAlone(q, work[q])'
    BY <1>2 DEF Savers
  <2>1. work[q] \in Savers(q)
    BY <1>2
  <2>2. PICK w : w = work[q]
    OBVIOUS
  <2>3. PICK v : v = work'[q]
    OBVIOUS
  <2>4. /\ Onward(q, w, v, w.stage) /\ v.filed = w.filed /\ v.rows = w.rows /\ v.new = w.new
        /\ w.late => v.late
        /\ w.name \in changed /\ w.stage \in {"file", "write", "commit"} => v.late
    BY <1>1, <2>1, <2>2, <2>3, OthersAreLate
  <2>5. w.lost = {} /\ v.lost = {} /\ w \in AtWork(q)
    BY <2>1, <2>2, <2>4, SaverIs DEF Onward, AtWork
  <2>6. SaverAlone(q, w)
    BY <2>1, <2>2 DEF CatInv, CatAlone
  <2>7. touched \cap DOMAIN w.rows = {}
    BY <2>2, <2>5
  <2>8. /\ DOMAIN Seen(w) = DOMAIN names \cup DOMAIN w.rows
        /\ \A n \in DOMAIN w.rows : Seen(w)[n] = w.rows[n]
        /\ \A n \in DOMAIN names \ DOMAIN w.rows : Seen(w)[n] = names[n]
    BY <2>5, SeenBySavers
  <2>9. /\ DOMAIN Seen(v)' = DOMAIN names' \cup DOMAIN w.rows
        /\ \A n \in DOMAIN w.rows : Seen(v)'[n] = w.rows[n]
        /\ \A n \in DOMAIN names' \ DOMAIN w.rows : Seen(v)'[n] = names'[n]
    BY <2>4, <2>5 DEF Seen
  <2>10. \A filing : w.stage \in {"write", "commit"} =>
           v.late \/ (FilesAs(w, filing) => FilesAs(v, filing)')
    <3> SUFFICES ASSUME NEW filing, w.stage \in {"write", "commit"}, ~v.late, FilesAs(w, filing)
                 PROVE  FilesAs(v, filing)'
      OBVIOUS
    <3>1. w.name \notin changed /\ v.name = w.name
      BY <2>4 DEF Onward
    <3>2. w.name \in DOMAIN Seen(w) /\ Seen(w)[w.name].filing = filing
      BY DEF FilesAs
    <3>3. w.name \in DOMAIN Seen(v)' /\ Seen(v)'[w.name].filing = filing
      <4>1. CASE w.name \in DOMAIN w.rows
        BY <2>8, <2>9, <3>2, <4>1
      <4>2. CASE w.name \notin DOMAIN w.rows
        BY <2>8, <2>9, <3>1, <3>2, <4>2
      <4> QED BY <4>1, <4>2
    <3> QED BY <3>1, <3>3 DEF FilesAs
  <2>11. w.stage = "commit" => v.name \in DOMAIN Seen(v)'
    BY <2>1, <2>2, <2>4, <2>6, <2>8, <2>9 DEF Onward, SaverAlone
  <2>12. w.said = NoOverride => DOMAIN w.rows \cap DOMAIN names' = {}
    BY <2>6, <2>7 DEF SaverAlone
  <2>13. \A n \in DOMAIN w.rows : w.rows[n].author \in authors' \cup w.new
    BY <2>2, <2>5, <2>6 DEF SaverAlone
  <2>14. w.how = "answer" /\ w.stage # "ask" =>
           \A b \in DOMAIN catalogued' : catalogued'[b].isbn = w.isbn => catalogued'[b].revised
    BY <2>1, <2>2, <2>6 DEF SaverAlone
  <2>15. SaverAlone(q, v)'
    BY <2>4, <2>6, <2>10, <2>11, <2>12, <2>13, <2>14 DEF SaverAlone, Onward
  <2> QED BY <2>3, <2>15
<1>4. ASSUME NEW q \in Works PROVE (work[q] \in Mergers => MergerAlone(work[q]))'
  <2> SUFFICES ASSUME q # r, work'[q] \in Mergers PROVE MergerAlone(work[q])'
    BY <1>2 DEF Mergers
  <2>1. PICK w : w = work'[q]
    OBVIOUS
  <2>2. w = work[q] /\ w \in Mergers /\ w \in AtWork(q)
    BY <1>2, <2>1, SaverIs DEF AtWork
  <2>3. MergerAlone(w)
    BY <2>2 DEF CatInv, CatAlone
  <2>4. touched \cap (DOMAIN w.rows \cup w.lost) = {}
    BY <2>2
  <2>5. /\ \A n \in DOMAIN names' : names'[n].author \in w.gone =>
             n \in DOMAIN names /\ names[n].author = names'[n].author
        /\ \A n \in DOMAIN w.rows : w.rows[n].author \in authors => w.rows[n].author \in authors'
        /\ \A n \in w.lost : ~Credited(n)'
    BY <2>2
  <2>6. \A a \in {w.into, w.from} \cap Works : work'[a] = Finished
    <3> SUFFICES ASSUME NEW a \in {w.into, w.from} \cap Works PROVE work'[a] = Finished
      OBVIOUS
    <3>1. work[a] = Finished
      BY <2>3 DEF MergerAlone
    <3>2. work[a] \notin Savers(a)
      BY <1>1, <3>1, WhoIsAtWork
    <3> QED BY <1>2, <3>1, <3>2
  <2>7. MergerAlone(w)'
    BY <2>3, <2>4, <2>5, <2>6 DEF MergerAlone
  <2> QED BY <2>1, <2>7
<1>5. ASSUME NEW p \in Works, NEW q \in Works, p # q,
             work'[p] \in AtWork(p), work'[q] \in AtWork(q)
      PROVE  Beside(work'[p], work'[q])
  <2>1. p # r /\ q # r
    BY <1>2, <1>5 DEF AtWork
  <2>2. work[p] \in AtWork(p) /\ work[q] \in AtWork(q)
    BY <1>2, <1>5, <2>1 DEF AtWork
  <2>3. Beside(work[p], work[q])
    BY <1>5, <2>2 DEF CatInv, CatBeside
  <2>4. ASSUME NEW s \in {p, q}
        PROVE  /\ work'[s].rows = work[s].rows /\ work'[s].lost = work[s].lost
               /\ work'[s].gone = work[s].gone /\ work'[s].how = work[s].how
               /\ work[s].how # "merge" =>
                    /\ work'[s].stage = work[s].stage /\ work'[s].name = work[s].name
                    /\ work'[s].isbn = work[s].isbn
    <3>1. CASE work[s] \in Savers(s)
      <4>1. /\ Onward(s, work[s], work'[s], work[s].stage)
            /\ work'[s].rows = work[s].rows
        <5>1. s \in Works \ {r}
          BY <2>1, <2>4
        <5> QED BY <1>1, <3>1, <5>1, OthersAreLate
      <4>2. /\ work[s].lost = {} /\ work[s].gone = {}
            /\ work'[s].lost = {} /\ work'[s].gone = {}
        BY <3>1, <4>1, SaverIs DEF Onward
      <4> QED BY <4>1, <4>2 DEF Onward
    <3>2. CASE work[s] \notin Savers(s)
      BY <1>2, <2>1, <2>4, <3>2
    <3> QED BY <3>1, <3>2
  <2> QED BY <2>3, <2>4 DEF Beside
<1>6. CatBeside'
  BY <1>5 DEF CatBeside, Beside, AtWork, Savers, Mergers
<1>7. CatAlone'
  BY <1>3, <1>4 DEF CatAlone
<1> QED BY <1>6, <1>7 DEF CatInv
LEMMA FinishedAfter ==
  ASSUME CatTyped, NEW r \in Works, NEW changed,
         work' = [Overtaken(r, changed) EXCEPT ![r] = Finished]
  PROVE  \A q \in Works : work[q] = Finished => work'[q] = Finished
<1> SUFFICES ASSUME NEW q \in Works \ {r}, work[q] = Finished PROVE work'[q] = Finished
  BY DEF Overtaken
<1>1. work[q] \notin Savers(q)
  BY WhoIsAtWork
<1> QED BY <1>1, OthersAreLate

LEMMA WorkTypedAfter ==
  ASSUME CatTyped, NEW r \in Works, NEW changed,
         work' = [Overtaken(r, changed) EXCEPT ![r] = Finished]
  PROVE  /\ work' = [q \in Works |-> work'[q]]
         /\ \A q \in Works : work'[q] \in {Undone, Finished} \cup AtWork(q)
         /\ \A q \in Works : (work[q] \in {Undone, Finished} \cup AtWork(q))'
<1>1. work' = [q \in Works |-> work'[q]] /\ work'[r] = Finished
  BY DEF Overtaken
<1>2. ASSUME NEW q \in Works \ {r} PROVE work'[q] \in {Undone, Finished} \cup AtWork(q)
  <2>1. work[q] \in {Undone, Finished} \cup AtWork(q)
    BY DEF CatTyped
  <2>2. CASE work[q] \in Savers(q)
    <3>1. Onward(q, work[q], work'[q], work[q].stage)
      BY <2>2, OthersAreLate
    <3> QED BY <3>1 DEF Onward, AtWork
  <2>3. CASE work[q] \notin Savers(q)
    BY <2>1, <2>3, OthersAreLate
  <2> QED BY <2>2, <2>3
<1>3. \A q \in Works : work'[q] \in {Undone, Finished} \cup AtWork(q)
  BY <1>1, <1>2
<1>4. ASSUME NEW q \in Works PROVE (work[q] \in {Undone, Finished} \cup AtWork(q))'
  BY <1>3 DEF AtWork, Savers, Mergers
<1> QED BY <1>1, <1>3, <1>4
LEMMA FileAliasStays ==
  ASSUME CatInv, NEW r \in Works, NEW n, NEW filing \in Filings, FileAlias(r, n, filing)
  PROVE  CatInv'
<1>1. /\ work[r] = Undone /\ n \in DOMAIN names /\ NameFree(r, n)
      /\ names' = [names EXCEPT ![n].filing = filing]
      /\ work' = [Overtaken(r, {n}) EXCEPT ![r] = Finished]
      /\ UNCHANGED <<catalogued, authors>>
  BY DEF FileAlias
<1>2. \A m \in DOMAIN names : names[m] \in NameRow
  BY RowsAre DEF CatInv, CatTyped
<1>3. /\ names' = [m \in DOMAIN names |-> names'[m]] /\ DOMAIN names' = DOMAIN names
      /\ \A m \in DOMAIN names \ {n} : names'[m] = names[m]
      /\ names'[n] = [names[n] EXCEPT !.filing = filing]
  <2>1. names = [m \in DOMAIN names |-> names[m]]
    BY RowsAre DEF CatInv, CatTyped
  <2> QED BY <1>1, <2>1
<1>4. \A m \in DOMAIN names : names'[m] \in NameRow /\ names'[m].author = names[m].author
  <2>1. names'[n] \in NameRow /\ names'[n].author = names[n].author
    BY <1>1, <1>2, <1>3 DEF NameRow
  <2> QED BY <1>2, <1>3, <2>1
<1>5. names' \in NameRows
  BY <1>3, <1>4, RowsAre DEF CatInv, CatTyped
<1>6. CatTyped'
  BY <1>1, <1>5, WorkTypedAfter DEF CatInv, CatTyped
<1>7. HaveAuthors'
  <2>1. \A p \in Works : work[p] = Finished => work'[p] = Finished
    BY <1>1, FinishedAfter DEF CatInv
  <2>2. \A m \in DOMAIN names' : names'[m].author \in authors'
    BY <1>1, <1>3, <1>4 DEF CatInv, HaveAuthors
  <2>3. \A p \in Works : p \in authors' => work'[p] = Finished
    BY <1>1, <2>1 DEF CatInv, HaveAuthors
  <2> QED BY <2>2, <2>3 DEF HaveAuthors
<1>8. ASSUME NEW q \in Works \ {r}, work[q] \in AtWork(q)
      PROVE  {n} \cap (DOMAIN work[q].rows \cup work[q].lost) = {}
  <2>1. q \in Underway
    BY <1>8, WhoIsAtWork DEF CatInv
  <2> QED BY <1>1, <2>1 DEF NameFree
<1>9. ASSUME NEW q \in Works \ {r}, work[q] \in AtWork(q), NEW m \in work[q].lost
      PROVE  ~Credited(m)'
  <2>1. MergerAlone(work[q])
    BY <1>9, SaverIs DEF AtWork, CatInv, CatAlone
  <2>2. ~Credited(m)
    BY <2>1 DEF MergerAlone
  <2> QED BY <1>1, <2>2 DEF Credited
<1> DEFINE changed == {n}
<1>10. work' = [Overtaken(r, changed) EXCEPT ![r] = Finished]
  BY <1>1
<1>11. /\ \A m : m \notin changed =>
            /\ m \in DOMAIN names <=> m \in DOMAIN names'
            /\ m \in DOMAIN names => names'[m] = names[m]
       /\ \A m \in changed \cap DOMAIN names : m \notin changed =>
            m \in DOMAIN names' /\ names'[m].filing = names[m].filing
       /\ DOMAIN names' = DOMAIN names
  BY <1>3
<1>12. ASSUME NEW q \in Works \ {r}, work[q] \in AtWork(q)
       PROVE  /\ changed \cap (DOMAIN work[q].rows \cup work[q].lost) = {}
              /\ \A m \in DOMAIN work[q].rows :
                   work[q].rows[m].author \in authors => work[q].rows[m].author \in authors'
              /\ \A m \in work[q].lost : ~Credited(m)'
  BY <1>1, <1>8, <1>9, <1>12
<1>13. \A m \in DOMAIN names' : m \in DOMAIN names /\ names[m].author = names'[m].author
  BY <1>3, <1>4
<1>14. /\ \A b \in DOMAIN catalogued' :
             b \in DOMAIN catalogued /\ catalogued'[b] = catalogued[b]
       /\ DOMAIN catalogued \subseteq DOMAIN catalogued'
  BY <1>1
<1> HIDE DEF changed
<1>15. OthersKeep(r, changed, changed)
  BY <1>11, <1>12, <1>13, <1>14 DEF OthersKeep
<1> QED BY <1>6, <1>7, <1>10, <1>15, OneEnds
\* What a commit does to the names, and what it may not: rows of r are of authors
\* that stay, and a name that stays files as it did unless it is changed.
LEMMA CommitNames ==
  ASSUME CatInv, NEW r \in Works, CommitWork(r)
  PROVE  /\ work[r] \in AtWork(r) /\ work[r].stage = "commit"
         /\ DOMAIN names' = (DOMAIN names \cup DOMAIN work[r].rows) \ work[r].lost
         /\ names' = [n \in DOMAIN names' |-> names'[n]]
         /\ \A n \in DOMAIN names' :
              names'[n] = IF n \in DOMAIN work[r].rows THEN work[r].rows[n] ELSE names[n]
         /\ \A n \in DOMAIN names' : names'[n] \in NameRow /\ names'[n].author \in authors'
         /\ \A n \in (DOMAIN names \ work[r].lost) \ Changed(r) :
              names'[n].filing = names[n].filing
<1>1. PICK w : w = work[r]
  OBVIOUS
<1>2. /\ w \in AtWork(r) /\ w.stage = "commit"
      /\ names' = Seen(w) /\ authors' = (authors \cup w.new) \ w.gone
  BY <1>1, WhoIsAtWork DEF CommitWork, NamesOf, Seen, CatInv
<1>3. /\ DOMAIN names' = (DOMAIN names \cup DOMAIN w.rows) \ w.lost
      /\ names' = [n \in DOMAIN names' |-> names'[n]]
      /\ \A n \in DOMAIN names' :
           names'[n] = IF n \in DOMAIN w.rows THEN w.rows[n] ELSE names[n]
  BY <1>2 DEF Seen
<1>4. ASSUME NEW n \in DOMAIN names' PROVE names'[n] \in NameRow
  <2>1. /\ \A m \in DOMAIN names : names[m] \in NameRow
        /\ \A m \in DOMAIN w.rows : w.rows[m] \in NameRow
    BY <1>2, SaverIs, MergerIs, RowsAre DEF CatInv, CatTyped, AtWork
  <2> QED BY <1>3, <2>1
<1>5. ASSUME NEW n \in DOMAIN names' PROVE names'[n].author \in authors'
  <2>1. \A m \in DOMAIN names : names[m].author \in authors
    BY DEF CatInv, HaveAuthors
  <2>2. CASE w \in Savers(r)
    <3>1. w.gone = {}
      BY <2>2, SaverIs
    <3>2. \A m \in DOMAIN w.rows : w.rows[m].author \in authors \cup w.new
      BY <1>1, <2>2 DEF CatInv, CatAlone, SaverAlone
    <3> QED BY <1>2, <1>3, <2>1, <3>1, <3>2
  <2>3. CASE w \in Mergers
    <3>1. MergerAlone(w)
      BY <1>1, <2>3 DEF CatInv, CatAlone
    <3> QED BY <1>2, <1>3, <2>1, <3>1 DEF MergerAlone
  <2> QED BY <1>2, <2>2, <2>3 DEF AtWork
<1>6. ASSUME NEW n \in (DOMAIN names \ w.lost) \ Changed(r)
      PROVE  names'[n].filing = names[n].filing
  <2>1. n \in DOMAIN names'
    BY <1>3
  <2>2. CASE n \notin DOMAIN w.rows
    BY <1>3, <2>1, <2>2
  <2>3. CASE n \in DOMAIN w.rows /\ w \in Mergers
    BY <1>1, <1>3, <2>1, <2>3 DEF CatInv, CatAlone, MergerAlone
  <2>4. ASSUME n \in DOMAIN w.rows, w \in Savers(r) PROVE FALSE
    <3>1. /\ DOMAIN w.rows \subseteq {w.name}
          /\ w.said = NoOverride => DOMAIN w.rows \cap DOMAIN names = {}
      BY <1>1, <2>4 DEF CatInv, CatAlone, SaverAlone
    <3>2. w.how # "merge"
      BY <2>4, SaverIs
    <3> QED BY <1>1, <2>4, <3>1, <3>2 DEF Changed
  <2> QED BY <1>2, <2>2, <2>3, <2>4 DEF AtWork
<1> QED BY <1>1, <1>2, <1>3, <1>4, <1>5, <1>6

\* What a commit does to the books.
LEMMA CommitBooks ==
  ASSUME CatInv, NEW r \in Works, CommitWork(r)
  PROVE  /\ catalogued' \in UNION {[S -> BookRow] : S \in SUBSET (Works \cup {Old})}
         /\ DOMAIN catalogued \subseteq DOMAIN catalogued'
         /\ \A b \in DOMAIN catalogued' :
              \/ b \in DOMAIN catalogued /\ catalogued'[b] = catalogued[b]
              \/ /\ work[r] \in Savers(r) /\ catalogued'[b].credit = work[r].name
                 /\ \/ catalogued'[b].revised
                    \/ work[r].how \in {"copy", "answer"}
                       /\ catalogued'[b].isbn = work[r].isbn
<1>1. PICK S \in SUBSET (Works \cup {Old}) : catalogued \in [S -> BookRow]
  BY DEF CatInv, CatTyped
<1>2. PICK w : w = work[r]
  OBVIOUS
<1>3. PICK book : book = Written(r)
  OBVIOUS
<1>4. ASSUME w \in Savers(r)
      PROVE  /\ book \in BookRow /\ book.credit = w.name /\ book.isbn = w.isbn
             /\ book.revised <=> r \in Revising
  <2>1. w.isbn \in Codes /\ w.name \in Printed /\ w.filed \in Filings \cup {NoOverride}
    BY <1>4, SaverIs
  <2>2. book = [isbn |-> w.isbn, credit |-> w.name, filed |-> w.filed,
                revised |-> r \in Revising]
    BY <1>2, <1>3 DEF Written
  <2>3. PICK again \in BOOLEAN : again <=> r \in Revising
    <3>1. (r \in Revising) \in BOOLEAN
      OBVIOUS
    <3> QED BY <3>1
  <2>4. book = [isbn |-> w.isbn, credit |-> w.name, filed |-> w.filed, revised |-> again]
    BY <2>2, <2>3
  <2> HIDE DEF Filings, NoOverride, Revising
  <2> QED BY <2>1, <2>3, <2>4 DEF BookRow
<1>5. CASE r \in Saving
  <2>1. w \in Savers(r) /\ w.how \in {"copy", "answer"} /\ r \notin Revising
    BY <1>2, <1>5, WhoIsAtWork DEF CatInv
  <2>2. catalogued' = [b \in S \cup {r} |-> IF b = r THEN book ELSE catalogued[b]]
    <3>1. catalogued' = [b \in DOMAIN catalogued \cup {r} |->
                           IF b = r THEN Written(r) ELSE catalogued[b]]
      BY <1>5, <2>1 DEF CommitWork
    <3>2. DOMAIN catalogued = S
      BY <1>1
    <3> QED BY <1>3, <3>1, <3>2
  <2>3. catalogued' \in [S \cup {r} -> BookRow]
    BY <1>1, <1>4, <2>1, <2>2
  <2> QED BY <1>1, <1>2, <1>4, <2>1, <2>2, <2>3
<1>6. CASE r \in Revising
  <2>1. w \in Savers(r) /\ w.how = "revise" /\ r \notin Saving
    BY <1>2, <1>6, WhoIsAtWork DEF CatInv
  <2>2. catalogued' = [catalogued EXCEPT ![w.of] = book]
    BY <1>2, <1>3, <1>6, <2>1 DEF CommitWork
  <2>3. catalogued' \in [S -> BookRow]
    BY <1>1, <1>4, <2>1, <2>2
  <2> QED BY <1>1, <1>2, <1>4, <1>6, <2>1, <2>2, <2>3
<1>7. CASE r \notin Saving \cup Revising
  BY <1>1, <1>7 DEF CommitWork
<1> QED BY <1>5, <1>6, <1>7

LEMMA CommitStays == ASSUME CatInv, NEW r \in Works, CommitWork(r) PROVE CatInv'
<1> DEFINE changed == Changed(r)
           touched == DOMAIN work[r].rows \cup work[r].lost
<1>1. work' = [Overtaken(r, changed) EXCEPT ![r] = Finished]
  BY DEF CommitWork
<1>2. authors' = (authors \cup work[r].new) \ work[r].gone
  BY DEF CommitWork
<1>3. /\ work[r] \in AtWork(r) /\ work[r].stage = "commit"
      /\ DOMAIN names' = (DOMAIN names \cup DOMAIN work[r].rows) \ work[r].lost
      /\ names' = [n \in DOMAIN names' |-> names'[n]]
      /\ \A n \in DOMAIN names' :
           names'[n] = IF n \in DOMAIN work[r].rows THEN work[r].rows[n] ELSE names[n]
      /\ \A n \in DOMAIN names' : names'[n] \in NameRow /\ names'[n].author \in authors'
      /\ \A n \in (DOMAIN names \ work[r].lost) \ Changed(r) :
           names'[n].filing = names[n].filing
  BY CommitNames
<1>4. /\ work[r].rows \in NameRows /\ work[r].new \subseteq {r}
      /\ work[r].new \subseteq Ids
      /\ work[r].lost \subseteq Changed(r)
  BY <1>3, SaverIs, MergerIs DEF AtWork, Ids, Changed
<1>5. names' \in NameRows
  <2>1. DOMAIN names \subseteq Printed /\ DOMAIN work[r].rows \subseteq Printed
    BY <1>4, RowsAre DEF CatInv, CatTyped
  <2> QED BY <1>3, <2>1, RowsAre
<1>6. CatTyped'
  BY <1>1, <1>2, <1>4, <1>5, CommitBooks, WorkTypedAfter DEF CatInv, CatTyped
<1>7. HaveAuthors'
  <2>1. \A q \in Works : work[q] = Finished => work'[q] = Finished
    BY <1>1, FinishedAfter DEF CatInv
  <2>2. work'[r] = Finished
    BY <1>1 DEF Overtaken
  <2>3. ASSUME NEW q \in Works, q \in authors' PROVE work'[q] = Finished
    BY <1>2, <1>4, <2>1, <2>2, <2>3 DEF CatInv, HaveAuthors
  <2> QED BY <1>3, <2>3 DEF HaveAuthors
<1>8. ASSUME NEW q \in Works \ {r}, work[q] \in AtWork(q)
      PROVE  Beside(work[r], work[q]) /\ Beside(work[q], work[r])
  BY <1>3, <1>8 DEF CatInv, CatBeside
<1>9. ASSUME NEW q \in Works \ {r}, work[q] \in AtWork(q)
      PROVE  /\ touched \cap (DOMAIN work[q].rows \cup work[q].lost) = {}
             /\ \A n \in DOMAIN work[q].rows :
                  work[q].rows[n].author \in authors => work[q].rows[n].author \in authors'
             /\ \A n \in work[q].lost : ~Credited(n)'
  <2>1. touched \cap (DOMAIN work[q].rows \cup work[q].lost) = {}
    BY <1>8, <1>9 DEF Beside
  <2>2. \A n \in DOMAIN work[q].rows :
          work[q].rows[n].author \in authors => work[q].rows[n].author \in authors'
    BY <1>2, <1>8, <1>9 DEF Beside
  <2>3. ASSUME NEW n \in work[q].lost, Credited(n)' PROVE FALSE
    <3>1. PICK b \in DOMAIN catalogued' : catalogued'[b].credit = n
      BY <2>3 DEF Credited
    <3>2. MergerAlone(work[q])
      BY <1>9, SaverIs DEF AtWork, CatInv, CatAlone
    <3>3. ~(b \in DOMAIN catalogued /\ catalogued'[b] = catalogued[b])
      BY <3>1, <3>2 DEF MergerAlone, Credited
    <3>4. work[r] \in Savers(r) /\ work[r].name = n
      BY <3>1, <3>3, CommitBooks
    <3> QED BY <1>3, <1>8, <1>9, <3>4, SaverIs DEF Beside
  <2> QED BY <2>1, <2>2, <2>3
<1>10. ASSUME NEW q \in Works \ {r}, work[q] \in Savers(q), work[q].stage = "commit",
              work[q].name \in DOMAIN names
       PROVE  work[q].name \in DOMAIN names'
  <2>1. Beside(work[q], work[r]) /\ work[q].how # "merge"
    BY <1>8, <1>10, SaverIs DEF AtWork
  <2> QED BY <1>3, <1>10, <2>1 DEF Beside
<1>11. ASSUME NEW q \in Works \ {r}, work[q] \in Mergers, NEW n \in DOMAIN names',
              names'[n].author \in work[q].gone
       PROVE  n \in DOMAIN names /\ names[n].author = names'[n].author
  <2>1. Beside(work[r], work[q])
    BY <1>8, <1>11 DEF AtWork
  <2>2. n \notin DOMAIN work[r].rows
    BY <1>3, <1>11, <2>1 DEF Beside
  <2> QED BY <1>3, <2>2
<1>12. ASSUME NEW b \in DOMAIN catalogued'
       PROVE  \/ catalogued'[b].revised
              \/ b \in DOMAIN catalogued /\ catalogued'[b] = catalogued[b]
              \/ \A q \in Works \ {r} : work[q] \in Savers(q) /\ work[q].how = "answer" =>
                   work[q].isbn # catalogued'[b].isbn
  <2> SUFFICES ASSUME ~catalogued'[b].revised,
                      ~(b \in DOMAIN catalogued /\ catalogued'[b] = catalogued[b]),
                      NEW q \in Works \ {r}, work[q] \in Savers(q), work[q].how = "answer"
               PROVE  work[q].isbn # catalogued'[b].isbn
    OBVIOUS
  <2>1. work[r].how \in {"copy", "answer"} /\ catalogued'[b].isbn = work[r].isbn
    BY CommitBooks
  <2>2. Beside(work[r], work[q])
    BY <1>8 DEF AtWork
  <2> QED BY <2>1, <2>2 DEF Beside
<1>13. /\ \A n : n \notin touched =>
            /\ n \in DOMAIN names <=> n \in DOMAIN names'
            /\ n \in DOMAIN names => names'[n] = names[n]
       /\ \A n \in touched \cap DOMAIN names : n \notin changed =>
            n \in DOMAIN names' /\ names'[n].filing = names[n].filing
       /\ DOMAIN catalogued \subseteq DOMAIN catalogued'
  BY <1>3, <1>4, CommitBooks
<1> HIDE DEF changed, touched
<1>14. OthersKeep(r, changed, touched)
  BY <1>9, <1>10, <1>11, <1>12, <1>13 DEF OthersKeep
<1> QED BY <1>1, <1>6, <1>7, <1>14, OneEnds
-----------------------------------------------------------------------------
(* The properties *)

LEMMA CatStays == ASSUME CatInv, [CatalogueNext]_catalogueVars PROVE CatInv'
<1>1. CASE UNCHANGED catalogueVars
  <2>1. UNCHANGED <<catalogued, names, authors, work>>
    BY <1>1 DEF catalogueVars
  <2>2. CatTyped' /\ HaveAuthors'
    BY <2>1 DEF CatInv, CatTyped, HaveAuthors, AtWork, Savers, Mergers
  <2>3. ASSUME NEW r \in Works
        PROVE  /\ (work[r] \in Savers(r) => SaverAlone(r, work[r]))'
               /\ (work[r] \in Mergers => MergerAlone(work[r]))'
    <3>1. PICK w : w = work[r] /\ w = work'[r]
      BY <2>1
    <3>2. SaverAlone(r, w) => SaverAlone(r, w)'
      BY <2>1 DEF SaverAlone, FilesAs, Seen
    <3>3. MergerAlone(w) => MergerAlone(w)'
      BY <2>1 DEF MergerAlone, Credited
    <3>4. Savers(r)' = Savers(r) /\ Mergers' = Mergers
      BY DEF Savers, Mergers
    <3>5. /\ w \in Savers(r) => SaverAlone(r, w)
          /\ w \in Mergers => MergerAlone(w)
      BY <3>1 DEF CatInv, CatAlone
    <3> QED BY <3>1, <3>2, <3>3, <3>4, <3>5
  <2>4. CatBeside'
    BY <2>1 DEF CatInv, CatBeside, Beside, AtWork, Savers, Mergers
  <2>5. CatAlone'
    BY <2>3 DEF CatAlone
  <2> QED BY <2>2, <2>4, <2>5 DEF CatInv
<1>2. CASE CatalogueNext
  <2> SUFFICES ASSUME NEW r \in Works,
                      \/ Asking(r)
                      \/ Ask(r) \/ Known(r) \/ InsertAuthor(r) \/ InsertAlias(r) \/ Override(r)
                      \/ WriteBook(r)
                      \/ \E n \in Printed, filing \in Filings : FileAlias(r, n, filing)
                      \/ \E into, from \in authors : Merge(r, into, from)
                      \/ MoveNames(r) \/ DropAuthor(r)
                      \/ CommitWork(r) \/ StatementFails(r)
               PROVE  CatInv'
    BY <1>2 DEF CatalogueNext
  <2>1. CASE Asking(r)
    <3>1. PICK code \in Codes, n \in Printed, said \in {NoOverride, "corrected"} :
            \/ \E how \in {"copy", "answer"} : Save(r, how, code, n, said)
            \/ \E b \in DOMAIN catalogued : ReviseBook(r, b, code, n, said)
      BY <2>1 DEF Asking
    <3>2. ASSUME NEW how \in {"copy", "answer"}, Save(r, how, code, n, said) PROVE CatInv'
      <4>1. how \in {"copy", "answer", "revise"} /\ how # "revise"
            /\ Old \in DOMAIN catalogued \cup {Old}
        OBVIOUS
      <4> QED BY <3>2, <4>1, SaveStarts DEF Save
    <3>3. ASSUME NEW b \in DOMAIN catalogued, ReviseBook(r, b, code, n, said) PROVE CatInv'
      <4> DEFINE how == "revise"
      <4>1. /\ how \in {"copy", "answer", "revise"} /\ how = "revise"
            /\ b \in DOMAIN catalogued \cup {Old}
        OBVIOUS
      <4>2. work' = [work EXCEPT ![r] =
              Begun(how, b, code, n, said, IF how = "answer" THEN "ask" ELSE "meet")]
        BY <3>3 DEF ReviseBook
      <4>3. work[r] = Undone /\ UNCHANGED <<catalogued, names, authors>>
        BY <3>3 DEF ReviseBook
      <4>4. how = "revise" => b \in DOMAIN catalogued
        OBVIOUS
      <4>5. how # "revise" => \A q \in Saving : work[q].isbn # code
        OBVIOUS
      <4> HIDE DEF how
      <4> QED BY <4>1, <4>2, <4>3, <4>4, <4>5, SaveStarts
    <3> QED BY <3>1, <3>2, <3>3
  <2>2. CASE Ask(r)
    BY <2>2, AskStays
  <2>3. CASE Known(r)
    BY <2>3, KnownStays
  <2>4. CASE InsertAuthor(r)
    BY <2>4, InsertAuthorStays
  <2>5. CASE InsertAlias(r)
    BY <2>5, InsertAliasStays
  <2>6. CASE Override(r)
    BY <2>6, OverrideStays
  <2>7. CASE WriteBook(r)
    BY <2>7, WriteBookStays
  <2>8. CASE \E n \in Printed, filing \in Filings : FileAlias(r, n, filing)
    BY <2>8, FileAliasStays
  <2>9. CASE \E into, from \in authors : Merge(r, into, from)
    BY <2>9, MergeStays
  <2>10. CASE MoveNames(r)
    BY <2>10, MoveNamesStays
  <2>11. CASE DropAuthor(r)
    BY <2>11, DropAuthorStays
  <2>12. CASE CommitWork(r)
    BY <2>12, CommitStays
  <2>13. CASE StatementFails(r)
    <3>1. work[r] # Finished
      BY <2>13, WhoIsAtWork DEF StatementFails, CatInv, AtWork
    <3> QED BY <2>13, <3>1, FinishedStays DEF StatementFails
  <2> QED BY <2>1, <2>2, <2>3, <2>4, <2>5, <2>6, <2>7, <2>8, <2>9, <2>10, <2>11, <2>12, <2>13
<1> QED BY <1>1, <1>2

LEMMA CatAlways == CatalogueSpec => []CatInv
<1>1. CatInv /\ [CatalogueNext]_catalogueVars => CatInv'
  BY CatStays
<1> QED BY <1>1, CatStarts, PTL DEF CatalogueSpec

\* AnswersOrAdds: a save told to answer the book there is commits one only where no
\* other book has the number, unless a revision gave it that number, whatever is
\* saved and revised at once.
THEOREM OneBookForANumber == CatalogueSpec => AnswersOrAdds
<1>1. ASSUME CatInv
      PROVE  \A r \in Saving : CommitWork(r) /\ work[r].how = "answer" =>
               \A b \in DOMAIN catalogued :
                 catalogued[b].isbn = work[r].isbn => catalogued[b].revised
  <2> SUFFICES ASSUME NEW r \in Saving, CommitWork(r), work[r].how = "answer"
               PROVE  \A b \in DOMAIN catalogued :
                        catalogued[b].isbn = work[r].isbn => catalogued[b].revised
    OBVIOUS
  <2>1. r \in Works
    BY DEF Saving, Underway
  <2>2. work[r] \in Savers(r) /\ work[r].stage = "commit"
    BY <1>1, <2>1, WhoIsAtWork DEF CatInv, CommitWork
  <2> QED BY <1>1, <2>1, <2>2 DEF CatInv, CatAlone, SaverAlone
<1> QED BY <1>1, CatAlways, PTL DEF AnswersOrAdds

LEMMA NamesStand ==
  ASSUME CatInv, [CatalogueNext]_catalogueVars, NEW n \in DOMAIN names, Credited(n)
  PROVE  /\ n \in DOMAIN names' /\ names'[n].author \in authors'
         /\ names'[n].filing = names[n].filing \/ CorrectsAName(n)
<1>1. CASE UNCHANGED <<names, authors>>
  BY <1>1 DEF CatInv, HaveAuthors
<1>2. ASSUME NEW r \in Works, NEW m \in Printed, NEW filing \in Filings, FileAlias(r, m, filing)
      PROVE  /\ n \in DOMAIN names' /\ names'[n].author \in authors'
             /\ names'[n].filing = names[n].filing \/ CorrectsAName(n)
  <2>1. names' = [names EXCEPT ![m].filing = filing] /\ authors' = authors
    BY <1>2 DEF FileAlias
  <2>2. names[n].author \in authors /\ names[n] \in NameRow
    BY RowsAre DEF CatInv, HaveAuthors, CatTyped
  <2>3. DOMAIN names' = DOMAIN names
    BY <2>1
  <2>4. CASE m # n
    BY <2>1, <2>2, <2>3, <2>4
  <2>5. CASE m = n
    <3>1. names'[n] = [names[n] EXCEPT !.filing = filing]
      BY <2>1, <2>5
    <3>2. names'[n].author = names[n].author
      BY <2>2, <3>1 DEF NameRow
    <3>3. CorrectsAName(n)
      BY <1>2, <2>5 DEF CorrectsAName
    <3> QED BY <2>1, <2>2, <2>3, <3>2, <3>3
  <2> QED BY <2>4, <2>5
<1>3. ASSUME NEW r \in Works, CommitWork(r)
      PROVE  /\ n \in DOMAIN names' /\ names'[n].author \in authors'
             /\ names'[n].filing = names[n].filing \/ CorrectsAName(n)
  <2>1. n \notin work[r].lost
    <3>1. CASE work[r] \in Savers(r)
      BY <3>1, SaverIs
    <3>2. CASE work[r] \in Mergers
      BY <3>2 DEF CatInv, CatAlone, MergerAlone
    <3> QED BY <1>3, <3>1, <3>2, CommitNames DEF AtWork
  <2>2. n \in DOMAIN names' /\ names'[n].author \in authors'
    BY <1>3, <2>1, CommitNames
  <2>3. CASE n \notin Changed(r)
    BY <1>3, <2>1, <2>2, <2>3, CommitNames
  <2>4. CASE n \in Changed(r)
    <3>1. work[r].how # "merge" /\ work[r].said # NoOverride /\ n = work[r].name
      BY <2>1, <2>4 DEF Changed
    <3>2. work[r] \in Savers(r)
      BY <1>3, <3>1, CommitNames, MergerIs DEF AtWork
    <3>3. r \in Saving \cup Revising
      BY <3>2, WhoIsAtWork DEF CatInv
    <3>4. CorrectsAName(n)
      BY <1>3, <3>1, <3>3 DEF CorrectsAName
    <3> QED BY <2>2, <3>4
  <2> QED BY <2>3, <2>4
<1>4. CatalogueNext =>
        \/ UNCHANGED <<names, authors>>
        \/ \E r \in Works :
             CommitWork(r) \/ \E m \in Printed, filing \in Filings : FileAlias(r, m, filing)
  BY DEF CatalogueNext, Asking, Save, ReviseBook, Ask, Known, InsertAuthor, InsertAlias, Override,
         WriteBook, Merge, MoveNames, DropAuthor, StatementFails
<1> QED BY <1>1, <1>2, <1>3, <1>4 DEF catalogueVars

\* CorrectionsStand: whatever is saved, revised, corrected and merged at once, a name
\* that a book credits keeps an author that is there and its filing until a person
\* corrects it, and a book files under what its name does.
THEOREM CorrectedNamesStand == CatalogueSpec => CorrectionsStand
<1>1. ASSUME CatInv, [CatalogueNext]_catalogueVars
      PROVE  \A n \in DOMAIN names : Credited(n) =>
               /\ n \in DOMAIN names' /\ names'[n].author \in authors'
               /\ names'[n].filing = names[n].filing \/ CorrectsAName(n)
  BY <1>1, NamesStand
<1>2. ASSUME CatInv, NEW r \in Saving \cup Revising, CommitWork(r)
      PROVE  work[r].late \/ work[r].filed = names'[work[r].name].filing
  <2>1. r \in Works
    BY DEF Saving, Revising, Underway
  <2>2. work[r] \in Savers(r) /\ work[r].stage = "commit"
    BY <1>2, <2>1, WhoIsAtWork DEF CatInv, CommitWork
  <2>3. work[r].late \/ FilesAs(work[r], work[r].filed)
    BY <1>2, <2>1, <2>2 DEF CatInv, CatAlone, SaverAlone
  <2>4. names' = Seen(work[r])
    BY <1>2 DEF CommitWork, NamesOf, Seen
  <2> QED BY <2>3, <2>4 DEF FilesAs
<1>3. ASSUME CatInv, [CatalogueNext]_catalogueVars
      PROVE  /\ \A n \in DOMAIN names : Credited(n) =>
                  /\ n \in DOMAIN names' /\ names'[n].author \in authors'
                  /\ names'[n].filing = names[n].filing \/ CorrectsAName(n)
             /\ \A r \in Saving \cup Revising : CommitWork(r) =>
                  work[r].late \/ work[r].filed = names'[work[r].name].filing
  BY <1>1, <1>2, <1>3
<1> QED BY <1>3, CatAlways, PTL DEF CorrectionsStand, CatalogueSpec
=============================================================================
