--------------------------- MODULE CarryListProofs ---------------------------
(***************************************************************************)
(* Proofs about what Shelves puts on the carry list, for any books, ranges *)
(* and rooms a history may begin in: the books whose plank a change of the *)
(* room changes (CarryListIsComplete), and those whose plank leaves its    *)
(* place or moves with its run (BooksGoWithTheirPlanks).                   *)
(*                                                                         *)
(* A run is looked at here by the places of its planks: those from the one *)
(* it opens at to the next at which another begins.  In a straight room a  *)
(* key falls on the last of them it reaches (KeyFalls), and a plank that   *)
(* goes leaves what falls on it to the plank beside it, be that the one    *)
(* before, which then is the last reached, or the one after, which takes   *)
(* its anchor over (KeysClose).                                            *)
(***************************************************************************)
EXTENDS ShelvesProofs

-----------------------------------------------------------------------------
(* A run by the places of its planks *)

\* The planks from the one a run opens at to the next at which another begins.
RunOf(rm, opening) ==
  {a \in OnAFace(rm) :
     /\ ~Earlier(At(rm, a), At(rm, opening))
     /\ \A s \in Starting(rm) : Earlier(At(rm, opening), At(rm, s)) => Earlier(At(rm, a), At(rm, s))}

Opening(rm, r) == Survey(rm).bands[r].run[1]
\* Past the opening, the planks are met in the order of their anchors.
Rising(rm, opening) ==
  \A x, y \in RunOf(rm, opening) :
    x # opening /\ Earlier(At(rm, x), At(rm, y)) => x.startsAt <= y.startsAt
\* The plank of a run a key falls on is the last one it reaches.
FallsOn(rm, opening, key, c) ==
  /\ c \in RunOf(rm, opening) /\ (c = opening \/ c.startsAt <= key)
  /\ \A d \in RunOf(rm, opening) : Earlier(At(rm, c), At(rm, d)) => key < d.startsAt

LEMMA PastIs ==
  ASSUME NEW V, NEW rm, Sound(rm, V), Level(rm), NEW opening \in OnAFace(rm), NEW a \in OnAFace(rm)
  PROVE  (\A p \in Past(rm, Order(rm), Starting(rm), opening) : Earlier(At(rm, a), p))
           <=> \A s \in Starting(rm) : Earlier(At(rm, opening), At(rm, s)) => Earlier(At(rm, a), At(rm, s))
<1> DEFINE face == OnAFace(rm)
           order == Order(rm)
           n == Len(order)
           at == CHOOSE i \in DOMAIN order : order[i] = opening
           later == {i \in DOMAIN order : i > at /\ order[i] \in Starting(rm)}
<1>1. /\ order \in Seq(face) /\ n \in Nat /\ DOMAIN order = 1 .. n
      /\ \A x \in face : \E i \in 1 .. n : order[i] = x
      /\ \A i, j \in 1 .. n : i < j <=> Earlier(At(rm, order[i]), At(rm, order[j]))
  <2>1. face \in SUBSET OnAFace(rm)
    OBVIOUS
  <2>2. /\ Enumerates(OrderOf(rm, face), face)
        /\ \A i, j \in 1 .. Len(OrderOf(rm, face)) :
             i < j <=> Earlier(At(rm, OrderOf(rm, face)[i]), At(rm, OrderOf(rm, face)[j]))
    BY <2>1, PlanksInOrder
  <2>3. order = OrderOf(rm, face)
    BY DEF Order
  <2> HIDE DEF order, face
  <2> QED BY <2>2, <2>3 DEF Enumerates
<1>2. Starting(rm) \subseteq face
  BY DEF Starting
<1>3. Past(rm, order, Starting(rm), opening) = IF later = {} THEN {} ELSE {At(rm, order[Min(later)])}
  BY DEF Past
<1> HIDE DEF order, n, face
<1>4. at \in 1 .. n /\ order[at] = opening
  BY <1>1 DEF face
<1> HIDE DEF at
<1>5. \A i : i \in later <=> i \in 1 .. n /\ i > at /\ order[i] \in Starting(rm)
  BY <1>1
<1> HIDE DEF later
<1>6. PICK k \in 1 .. n : order[k] = a
  BY <1>1 DEF face
<1>7. CASE later = {}
  <2>1. \A s \in Starting(rm) : ~Earlier(At(rm, opening), At(rm, s))
    BY <1>1, <1>2, <1>4, <1>5, <1>7
  <2> QED BY <1>3, <1>7, <2>1 DEF order
<1>8. CASE later # {}
  <2> DEFINE m == Min(later)
  <2>1. m \in later /\ \A i \in later : m <= i
    <3>1. later \in SUBSET (1 .. n) /\ later \in SUBSET Int
      BY <1>1, <1>5
    <3>2. IsFiniteSet(later)
      BY <1>1, <3>1, IntervalSubset
    <3> QED BY <1>8, <3>1, <3>2, MinInt
  <2> HIDE DEF m
  <2>2. m \in 1 .. n /\ at < m /\ order[m] \in Starting(rm) /\ Earlier(At(rm, opening), At(rm, order[m]))
    BY <1>1, <1>4, <1>5, <2>1
  <2>3. ASSUME NEW s \in Starting(rm), Earlier(At(rm, opening), At(rm, s)), Earlier(At(rm, a), At(rm, order[m]))
        PROVE  Earlier(At(rm, a), At(rm, s))
    <3>1. PICK j \in 1 .. n : order[j] = s
      BY <1>1, <1>2
    <3>2. j > at
      BY <1>1, <1>4, <2>3, <3>1
    <3>3. m <= j /\ k < m
      BY <1>1, <1>5, <1>6, <2>1, <2>2, <2>3, <3>1, <3>2
    <3>4. k < j
      BY <1>1, <1>6, <2>2, <3>1, <3>3
    <3> QED BY <1>1, <1>6, <3>1, <3>4
  <2>4. Past(rm, order, Starting(rm), opening) = {At(rm, order[m])}
    BY <1>3, <1>8 DEF m
  <2>5. (Earlier(At(rm, a), At(rm, order[m])))
           <=> \A s \in Starting(rm) : Earlier(At(rm, opening), At(rm, s)) => Earlier(At(rm, a), At(rm, s))
    BY <2>2, <2>3
  <2> QED BY <2>4, <2>5 DEF order
<1> QED BY <1>7, <1>8

\* In a level room the band of a run holds those planks, and the opening is first.
LEMMA RunIsOf ==
  ASSUME NEW V, NEW rm, Sound(rm, V), Level(rm), NEW r \in Ranges, Survey(rm).bands[r].open
  PROVE  /\ Opening(rm, r) \in OnAFace(rm) /\ Opening(rm, r) \in Starting(rm)
         /\ Opening(rm, r).id = EntryAreaOf(rm, rm.rules[r])
         /\ Enumerates(Survey(rm).bands[r].run, RunOf(rm, Opening(rm, r)))
<1> DEFINE run == Survey(rm).bands[r].run
<1>1. PICK opening \in OnAFace(rm) :
        /\ opening.id = EntryAreaOf(rm, rm.rules[r]) /\ opening \in Starting(rm)
        /\ Survey(rm).bands[r] = Band(rm, At(rm, opening), Past(rm, Order(rm), Starting(rm), opening))
  BY OpeningIs
<1> DEFINE past == Past(rm, Order(rm), Starting(rm), opening)
           inside == {a \in OnAFace(rm) : /\ ~Earlier(At(rm, a), At(rm, opening))
                                          /\ \A p \in past : Earlier(At(rm, a), p)}
           first == {a \in inside : \A b \in inside : At(rm, b).shelf = At(rm, a).shelf => a.piece <= b.piece}
<1>2. run = RunAreasOf(rm, At(rm, opening), past)
  BY <1>1 DEF Band
<1>3. RunAreasOf(rm, At(rm, opening), past) = OrderOf(rm, first)
  BY DEF RunAreasOf
<1>4. \A a \in OnAFace(rm) : (\A p \in past : Earlier(At(rm, a), p))
         <=> \A s \in Starting(rm) : Earlier(At(rm, opening), At(rm, s)) => Earlier(At(rm, a), At(rm, s))
  BY PastIs
<1> HIDE DEF past
<1>5. inside = RunOf(rm, opening)
  BY <1>4 DEF RunOf
<1>6. inside \in SUBSET OnAFace(rm)
  OBVIOUS
<1> HIDE DEF inside
<1>7. first = inside
  <2>1. ASSUME NEW a \in inside, NEW b \in inside, At(rm, b).shelf = At(rm, a).shelf PROVE a.piece <= b.piece
    <3>1. a.piece = b.piece
      BY <1>6, <2>1 DEF Level
    <3>2. a.piece \in Nat
      BY <1>6, AtIs, FacesFinite DEF FaceIsFinite
    <3> QED BY <3>1, <3>2
  <2> QED BY <2>1
<1> HIDE DEF first
<1>8. Enumerates(run, RunOf(rm, opening))
  BY <1>2, <1>3, <1>5, <1>6, <1>7, PlanksInOrder
<1>9. /\ run \in Seq(OnAFace(rm)) /\ Len(run) >= 1
      /\ \A i, j \in 1 .. Len(run) : i < j <=> Earlier(At(rm, run[i]), At(rm, run[j]))
  BY RunsAgree
<1> HIDE DEF run
<1>10. run[1] = opening
  <2>1. Len(run) \in Nat /\ DOMAIN run = 1 .. Len(run)
    BY <1>9
  <2>2. ~Earlier(At(rm, opening), At(rm, opening)) /\ At(rm, opening).shelf \in Int /\ At(rm, opening).area \in Int
    BY AtIs, FacesFinite DEF FaceIsFinite, Earlier
  <2>3. opening \in RunOf(rm, opening)
    BY <2>2 DEF RunOf
  <2>4. PICK i \in 1 .. Len(run) : run[i] = opening
    BY <1>8, <2>3 DEF Enumerates
  <2>5. run[1] \in RunOf(rm, opening)
    BY <1>8, <1>9, <2>1 DEF Enumerates
  <2>6. ~(1 < i)
    BY <1>9, <2>1, <2>4, <2>5 DEF RunOf
  <2> QED BY <2>1, <2>4, <2>6
<1> QED BY <1>1, <1>8, <1>10 DEF run, Opening

LEMMA StraightRises ==
  ASSUME NEW rm, Sound(rm, Nat), Straight(rm, Survey(rm)), NEW r \in Ranges, Survey(rm).bands[r].open
  PROVE  Level(rm) /\ Rising(rm, Opening(rm, r))
<1> DEFINE run == Survey(rm).bands[r].run
<1>1. Level(rm) /\ StraightRun(rm, run)
  BY DEF Straight, Level
<1>2. /\ run \in Seq(OnAFace(rm)) /\ Len(run) >= 1
      /\ \A i, j \in 1 .. Len(run) : i < j <=> Earlier(At(rm, run[i]), At(rm, run[j]))
  BY <1>1, RunsAgree
<1>3. Enumerates(run, RunOf(rm, Opening(rm, r)))
  BY <1>1, RunIsOf
<1>4. RunsStraight(rm, run) /\ Opening(rm, r) = run[1]
  BY <1>1, <1>2 DEF RunsStraight, Opening
<1> HIDE DEF run
<1>5. ASSUME NEW x \in RunOf(rm, Opening(rm, r)), NEW y \in RunOf(rm, Opening(rm, r)),
             x # Opening(rm, r), Earlier(At(rm, x), At(rm, y))
      PROVE  x.startsAt <= y.startsAt
  <2>1. PICK i \in 1 .. Len(run) : run[i] = x
    BY <1>3 DEF Enumerates
  <2>2. PICK j \in 1 .. Len(run) : run[j] = y
    BY <1>3 DEF Enumerates
  <2>3. Len(run) \in Nat /\ i # 1 /\ i < j
    BY <1>2, <1>4, <1>5, <2>1, <2>2
  <2>4. i \in 2 .. Len(run) /\ j \in 2 .. Len(run) /\ i <= j
    BY <2>3
  <2> QED BY <1>4, <2>1, <2>2, <2>4, StartsInOrder
<1> QED BY <1>1, <1>5 DEF Rising

\* In a run that rises a key falls on one plank, and the run puts it there.
LEMMA KeyFalls ==
  ASSUME NEW rm, Sound(rm, Nat), Level(rm), NEW r \in Ranges, Survey(rm).bands[r].open,
         Rising(rm, Opening(rm, r)), NEW key \in Nat
  PROVE  /\ \E c : FallsOn(rm, Opening(rm, r), key, c)
         /\ \A c : FallsOn(rm, Opening(rm, r), key, c) => AreaOfKey(Survey(rm).bands[r].run, key) = c.id
<1> DEFINE run == Survey(rm).bands[r].run
           planks == RunOf(rm, Opening(rm, r))
           rest == Tail(run)
           n == Len(run) - 1
           reached == {i \in 1 .. n : run[i + 1].startsAt <= key}
<1>1. /\ run \in Seq(OnAFace(rm)) /\ Len(run) >= 1
      /\ \A i, j \in 1 .. Len(run) : i < j <=> Earlier(At(rm, run[i]), At(rm, run[j]))
  BY RunsAgree
<1>2. Enumerates(run, planks) /\ Opening(rm, r) = run[1]
  BY RunIsOf DEF Opening
<1>3. \A a \in OnAFace(rm) : a.startsAt \in Nat
  BY AtIs, FacesFinite DEF FaceIsFinite
<1> HIDE DEF run
<1>4. Len(run) \in Nat /\ n \in Nat /\ run # <<>> /\ DOMAIN run = 1 .. n + 1 /\ Len(run) = n + 1
  BY <1>1
<1>5. rest \in Seq(OnAFace(rm)) /\ Len(rest) = n /\ \A i \in 1 .. n : rest[i] = run[i + 1]
  BY <1>1, <1>4, HeadTailProperties
<1> HIDE DEF rest, n
<1>6. \A i \in 1 .. n + 1 : run[i] \in OnAFace(rm) /\ run[i] \in planks /\ run[i].startsAt \in Nat
  BY <1>1, <1>2, <1>3, <1>4 DEF Enumerates
<1>7. \A i \in 2 .. n + 1 : run[i] # Opening(rm, r)
  BY <1>2, <1>4 DEF Enumerates
<1>8. ASSUME NEW i \in 1 .. Len(rest), NEW j \in 1 .. Len(rest), i < j PROVE rest[i].startsAt <= rest[j].startsAt
  <2>1. i + 1 \in 2 .. n + 1 /\ j + 1 \in 1 .. n + 1 /\ i + 1 < j + 1 /\ i + 1 \in 1 .. n + 1 /\ i \in 1 .. n /\ j \in 1 .. n
    BY <1>4, <1>5, <1>8
  <2>2. Earlier(At(rm, run[i + 1]), At(rm, run[j + 1]))
    BY <1>1, <1>4, <2>1
  <2> QED BY <1>5, <1>6, <1>7, <2>1, <2>2 DEF Rising
<1>9. Anchored(rest) = rest
  <2>1. \A b \in OnAFace(rm) : b.startsAt \in Int
    BY <1>3
  <2> QED BY <1>5, <1>8, <2>1, MetInOrder
<1>10. AreaOfKey(run, key) = IF reached = {} THEN run[1].id ELSE run[Max(reached) + 1].id
  <2> DEFINE met == {i \in DOMAIN rest : rest[i].startsAt <= key}
  <2>1. AreaOfKey(run, key) = IF met = {} THEN run[1].id ELSE rest[Max(met)].id
    BY <1>4, <1>9 DEF AreaOfKey, rest
  <2>2. met = reached
    BY <1>4, <1>5
  <2>3. reached # {} => Max(reached) \in reached
    <3>1. reached \in SUBSET (1 .. n) /\ reached \in SUBSET Int
      OBVIOUS
    <3>2. IsFiniteSet(reached)
      BY <1>4, <3>1, IntervalSubset
    <3> QED BY <3>1, <3>2, MaxInt
  <2> HIDE DEF met
  <2> QED BY <1>5, <2>1, <2>2, <2>3
<1>11. \A i : i \in reached <=> i \in 1 .. n /\ run[i + 1].startsAt <= key
  OBVIOUS
<1> HIDE DEF reached
<1>12. reached # {} => Max(reached) \in reached /\ \A i \in reached : i <= Max(reached)
  <2>1. reached \in SUBSET (1 .. n) /\ reached \in SUBSET Int
    BY <1>11
  <2>2. IsFiniteSet(reached)
    BY <1>4, <2>1, IntervalSubset
  <2> QED BY <2>1, <2>2, MaxInt
<1> DEFINE m == IF reached = {} THEN 0 ELSE Max(reached)
<1>13. m \in 0 .. n /\ (m > 0 => run[m + 1].startsAt <= key) /\ \A i \in m + 1 .. n : key < run[i + 1].startsAt
  <2>1. m \in 0 .. n /\ (m > 0 => m \in reached) /\ \A i \in reached : i <= m
    BY <1>4, <1>11, <1>12
  <2> HIDE DEF m
  <2>2. ASSUME NEW i \in m + 1 .. n PROVE key < run[i + 1].startsAt
    <3>1. i \in 1 .. n /\ ~(i <= m) /\ i + 1 \in 1 .. n + 1
      BY <1>4, <2>1
    <3>2. ~(run[i + 1].startsAt <= key) /\ run[i + 1].startsAt \in Nat
      BY <1>6, <1>11, <2>1, <3>1
    <3> QED BY <3>2
  <2> QED BY <1>11, <2>1, <2>2
<1>14. AreaOfKey(run, key) = run[m + 1].id
  BY <1>10
<1> HIDE DEF m
<1>15. FallsOn(rm, Opening(rm, r), key, run[m + 1])
  <2>1. m + 1 \in 1 .. n + 1 /\ run[m + 1] \in planks
    BY <1>4, <1>6, <1>13
  <2>2. run[m + 1] = Opening(rm, r) \/ run[m + 1].startsAt <= key
    BY <1>2, <1>13
  <2>3. ASSUME NEW d \in planks, Earlier(At(rm, run[m + 1]), At(rm, d)) PROVE key < d.startsAt
    <3>1. PICK j \in 1 .. n + 1 : run[j] = d
      BY <1>2, <1>4 DEF Enumerates
    <3>2. m + 1 < j
      BY <1>1, <1>4, <2>1, <2>3, <3>1
    <3>3. j - 1 \in m + 1 .. n /\ (j - 1) + 1 = j
      BY <1>4, <1>13, <3>1, <3>2
    <3> QED BY <1>13, <3>1, <3>3
  <2> QED BY <2>1, <2>2, <2>3 DEF FallsOn
<1>16. ASSUME NEW c, FallsOn(rm, Opening(rm, r), key, c) PROVE c = run[m + 1]
  <2>1. PICK j \in 1 .. n + 1 : run[j] = c
    BY <1>2, <1>4, <1>16 DEF Enumerates, FallsOn
  <2>2. m + 1 \in 1 .. n + 1 /\ run[m + 1] \in planks /\ c \in planks
    BY <1>4, <1>6, <1>13, <1>16 DEF FallsOn
  <2>3. ~(j < m + 1)
    <3>1. SUFFICES ASSUME j < m + 1 PROVE FALSE
      OBVIOUS
    <3>2. m > 0 /\ run[m + 1].startsAt <= key /\ key < run[m + 1].startsAt /\ run[m + 1].startsAt \in Nat
      <4>1. m > 0
        BY <1>4, <1>13, <2>1, <3>1
      <4>2. Earlier(At(rm, c), At(rm, run[m + 1]))
        BY <1>1, <1>4, <2>1, <2>2, <3>1
      <4> QED BY <1>6, <1>13, <1>16, <2>2, <4>1, <4>2 DEF FallsOn
    <3> QED BY <3>2
  <2>4. ~(m + 1 < j)
    <3>1. SUFFICES ASSUME m + 1 < j PROVE FALSE
      OBVIOUS
    <3>2. j \in 2 .. n + 1 /\ j - 1 \in m + 1 .. n /\ (j - 1) + 1 = j
      BY <1>4, <1>13, <2>1, <3>1
    <3>3. key < c.startsAt /\ c.startsAt <= key /\ c.startsAt \in Nat
      BY <1>6, <1>7, <1>13, <1>16, <2>1, <3>2 DEF FallsOn
    <3> QED BY <3>3
  <2> QED BY <1>13, <2>1, <2>3, <2>4
<1> QED BY <1>14, <1>15, <1>16 DEF run

LEMMA OpenIs ==
  ASSUME NEW rm, NEW r \in Ranges
  PROVE  /\ Survey(rm).bands[r].open <=> EntryAreaOf(rm, rm.rules[r]) # Null
         /\ ~Survey(rm).bands[r].open => Survey(rm).bands[r].run = <<>>
<1>1. Survey(rm).bands[r] = BandOf(rm, Order(rm), Starting(rm), EntryAreaOf(rm, rm.rules[r]))
  BY DEF Survey, Surveyed
<1> QED BY <1>1 DEF BandOf, Band

LEMMA SamePlank ==
  ASSUME NEW V, NEW rm, Sound(rm, V)
  PROVE  \A a, c \in OnAFace(rm) : a.id = c.id => a = c
BY FacesFinite DEF FaceIsFinite, Sound, SchemaHolds, OnePlankAPlace

\* Planks that go and that no run opens at leave every key on the plank it fell on,
\* or did that plank go.
LEMMA FewerPlanks ==
  ASSUME NEW rm, Sound(rm, Nat), NEW to, Sound(to, Nat), NEW F \in SUBSET OnAFace(rm),
         OnAFace(to) = OnAFace(rm) \ F, \A a \in OnAFace(to) : At(to, a) = At(rm, a),
         F \cap Starting(rm) = {},
         \A q \in Rules : EntryAreaOf(to, to.rules[q]) = EntryAreaOf(rm, rm.rules[q]),
         Straight(rm, Survey(rm)), NEW r \in Ranges, Survey(to).bands[r].open, NEW key \in Nat
  PROVE  \/ AreaOfKey(Survey(to).bands[r].run, key) = AreaOfKey(Survey(rm).bands[r].run, key)
         \/ AreaOfKey(Survey(rm).bands[r].run, key) \in IdsOf(F)
<1> DEFINE O == Opening(rm, r)
<1>1. r \in Rules /\ Survey(rm).bands[r].open
  BY OpenIs DEF Rules
<1>2. Level(rm) /\ Rising(rm, O)
  BY <1>1, StraightRises
<1>3. Level(to)
  BY <1>2 DEF Level
<1>4. O \in OnAFace(rm) /\ O \in Starting(rm) /\ O.id = EntryAreaOf(rm, rm.rules[r])
  BY <1>1, <1>2, RunIsOf
<1>5. Starting(to) = Starting(rm)
  <2>1. Entries(to) = Entries(rm)
    BY DEF Entries
  <2> QED BY <2>1 DEF Starting
<1>6. Opening(to, r) = O
  <2>1. Opening(to, r) \in OnAFace(to) /\ Opening(to, r).id = EntryAreaOf(to, to.rules[r])
    BY <1>3, RunIsOf
  <2>2. Opening(to, r) \in OnAFace(rm) /\ Opening(to, r).id = O.id
    BY <1>1, <1>4, <2>1
  <2> QED BY <1>4, <2>2, SamePlank
<1> HIDE DEF O
<1>7. O \in OnAFace(to)
  BY <1>4
<1>8. RunOf(to, O) = RunOf(rm, O) \ F
  <2>1. \A s \in Starting(rm) : s \in OnAFace(to)
    BY <1>5 DEF Starting
  <2>2. ASSUME NEW a \in OnAFace(to) PROVE a \in RunOf(to, O) <=> a \in RunOf(rm, O)
    BY <1>5, <1>7, <2>1 DEF RunOf
  <2>3. RunOf(to, O) \subseteq OnAFace(to) /\ RunOf(rm, O) \subseteq OnAFace(rm)
    BY DEF RunOf
  <2> QED BY <2>2, <2>3
<1>9. Rising(to, O)
  <2>1. RunOf(to, O) \subseteq OnAFace(to)
    BY DEF RunOf
  <2> QED BY <1>2, <1>8, <2>1 DEF Rising, O
<1>10. PICK c : FallsOn(rm, O, key, c)
  BY <1>1, <1>2, KeyFalls DEF O
<1>11. AreaOfKey(Survey(rm).bands[r].run, key) = c.id
  BY <1>1, <1>2, <1>10, KeyFalls DEF O
<1>12. CASE c \in F
  BY <1>11, <1>12 DEF IdsOf
<1>13. CASE c \notin F
  <2>1. RunOf(to, O) \subseteq OnAFace(to)
    BY DEF RunOf
  <2>2. FallsOn(to, O, key, c)
    BY <1>8, <1>10, <1>13, <2>1 DEF FallsOn
  <2>3. AreaOfKey(Survey(to).bands[r].run, key) = c.id
    BY <1>3, <1>6, <1>9, <2>2, KeyFalls
  <2> QED BY <1>11, <2>3
<1> QED BY <1>12, <1>13

LEMMA OnePlace ==
  ASSUME NEW V, NEW rm, Sound(rm, V), Level(rm), NEW a \in OnAFace(rm), NEW c \in OnAFace(rm),
         ~Earlier(At(rm, a), At(rm, c)), ~Earlier(At(rm, c), At(rm, a))
  PROVE  a = c
<1>1. a \in rm.areas /\ c \in rm.areas
  BY FacesFinite DEF FaceIsFinite
<1>2. At(rm, a).shelf = At(rm, c).shelf /\ a.position = c.position
  BY <1>1, AtIs DEF Earlier
<1>3. a.piece = c.piece
  BY <1>2 DEF Level
<1> QED BY <1>1, <1>2, <1>3 DEF Sound, SchemaHolds, OnePlankAPlace

\* No run but its own opens at a plank of a run.
LEMMA StartsOnce ==
  ASSUME NEW V, NEW rm, Sound(rm, V), Level(rm), NEW opening \in OnAFace(rm),
         NEW a \in RunOf(rm, opening), a \in Starting(rm)
  PROVE  a = opening
<1>1. a \in OnAFace(rm) /\ ~Earlier(At(rm, a), At(rm, opening))
  BY DEF RunOf
<1>2. ~Earlier(At(rm, a), At(rm, a))
  BY <1>1, AtIs, FacesFinite DEF FaceIsFinite, Earlier
<1>3. ~Earlier(At(rm, opening), At(rm, a))
  BY <1>2 DEF RunOf
<1> QED BY <1>1, <1>3, OnePlace

LEMMA BelongsSomewhere ==
  ASSUME NEW rm, NEW b \in Books, Belonging(Survey(rm))[b] # Nowhere
  PROVE  RangeOf[b] \in Ranges /\ Survey(rm).bands[RangeOf[b]].open /\ Key[b] \in Nat
<1>1. RangeOf[b] \in Ranges /\ Key[b] \in Nat
  BY ShelvesAssumption
<1>2. Belonging(Survey(rm))[b] = AreaOfKey(Survey(rm).bands[RangeOf[b]].run, Key[b])
  BY DEF Belonging
<1>3. ASSUME ~Survey(rm).bands[RangeOf[b]].open PROVE FALSE
  <2>1. Survey(rm).bands[RangeOf[b]].run = <<>>
    BY <1>1, <1>3, OpenIs
  <2>2. Belonging(Survey(rm))[b] = Null
    BY <1>2, <2>1 DEF AreaOfKey
  <2> QED BY <2>2, ShelvesAssumption
<1> QED BY <1>1, <1>3

LEMMA EntryKept ==
  ASSUME NEW rm, NEW to, NEW F, OnAFace(to) = OnAFace(rm) \ F
  PROVE  \A place : (\A a \in F : a.id # place.area /\ a.piece # place.piece)
                       => EntryAreaOf(to, place) = EntryAreaOf(rm, place)
<1> SUFFICES ASSUME NEW place, \A a \in F : a.id # place.area /\ a.piece # place.piece
             PROVE  EntryAreaOf(to, place) = EntryAreaOf(rm, place)
  OBVIOUS
<1> DEFINE face(room0) == {a \in OnAFace(room0) : a.piece = place.piece}
<1>1. face(to) = face(rm)
  OBVIOUS
<1>2. (\E a \in OnAFace(to) : a.id = place.area) <=> \E a \in OnAFace(rm) : a.id = place.area
  OBVIOUS
<1>3. \A room0 : EntryAreaOf(room0, place) =
        IF place.area # Null
        THEN IF \E a \in OnAFace(room0) : a.id = place.area THEN place.area ELSE Null
        ELSE IF face(room0) = {} THEN Null
             ELSE (CHOOSE a \in face(room0) : \A b \in face(room0) : a.position <= b.position).id
  BY DEF EntryAreaOf
<1> HIDE DEF face
<1> QED BY <1>1, <1>2, <1>3

\* What a rule names by its place is the plank itself or the first of the piece.
Lowest(rm, a) == \A x \in OnAFace(rm) : x.piece = a.piece => a.position <= x.position
Names(rm, place, a) ==
  place.area = a.id \/ (place.area = Null /\ place.piece = a.piece /\ Lowest(rm, a))
LEMMA EntryNames ==
  ASSUME NEW V, NEW rm, Sound(rm, V), NEW place, NEW a \in OnAFace(rm)
  PROVE  EntryAreaOf(rm, place) = a.id <=> Names(rm, place, a)
<1> DEFINE face == {c \in OnAFace(rm) : c.piece = place.piece}
           first == CHOOSE c \in face : \A d \in face : c.position <= d.position
<1>1. a.id # Null
  BY AtIs, FacesFinite DEF FaceIsFinite
<1>2. CASE place.area # Null
  BY <1>1, <1>2 DEF EntryAreaOf, Names
<1>3. CASE place.area = Null
  <2>1. EntryAreaOf(rm, place) = IF face = {} THEN Null ELSE first.id
    BY <1>3 DEF EntryAreaOf
  <2>2. IsFiniteSet(face) /\ \A c \in face : c.position \in Int
    BY FacesFinite, AtIs, FS_Subset DEF FaceIsFinite
  <2>3. ASSUME face # {} PROVE first \in face /\ \A d \in face : first.position <= d.position
    <3> DEFINE places == {c.position : c \in face}
               g == [c \in face |-> c.position]
    <3>1. g \in Surjection(face, places)
      BY DEF Surjection
    <3>2. IsFiniteSet(places) /\ places \in SUBSET Int /\ places # {}
      BY <2>2, <2>3, <3>1, FS_Surjection
    <3>3. Min(places) \in places /\ \A x \in places : Min(places) <= x
      BY <3>2, MinInt
    <3>4. PICK c \in face : c.position = Min(places)
      BY <3>3
    <3>5. \A d \in face : c.position <= d.position
      BY <3>3, <3>4
    <3> QED BY <3>5
  <2>4. Lowest(rm, a) /\ place.piece = a.piece <=> a \in face /\ \A d \in face : a.position <= d.position
    BY DEF Lowest
  <2>5. \A c, d \in face : c.position = d.position => c = d
    <3>1. \A c \in face : c \in rm.areas
      BY FacesFinite DEF FaceIsFinite
    <3> QED BY <3>1 DEF Sound, SchemaHolds, OnePlankAPlace
  <2>6. face \in SUBSET OnAFace(rm)
    OBVIOUS
  <2> HIDE DEF face, first
  <2>7. CASE face = {}
    BY <1>1, <1>3, <2>1, <2>4, <2>7 DEF Names
  <2>8. CASE face # {}
    <3>1. first \in face /\ \A d \in face : first.position <= d.position
      BY <2>3, <2>8
    <3>2. a.id = first.id <=> a = first
      BY <2>6, <3>1, SamePlank
    <3>3. a \in face /\ (\A d \in face : a.position <= d.position) => a = first
      BY <2>2, <2>5, <3>1
    <3> QED BY <1>1, <1>3, <2>1, <2>4, <2>8, <3>1, <3>2, <3>3 DEF Names
  <2> QED BY <2>7, <2>8
<1> QED BY <1>2, <1>3

\* What the rule names is on the piece the run opens at.
LEMMA EntryIsNamed ==
  ASSUME NEW V, NEW rm, Sound(rm, V), NEW place, NEW a \in OnAFace(rm), a.id = EntryAreaOf(rm, place)
  PROVE  place.area = a.id \/ (place.area = Null /\ place.piece = a.piece)
BY EntryNames DEF Names

-----------------------------------------------------------------------------
(* A plank out of its run *)

LEMMA AlongAscends ==
  ASSUME NEW planks, IsFiniteSet(planks), \A a \in planks : a.position \in Int,
         \A a, c \in planks : a.position = c.position => a = c
  PROVE  /\ Enumerates(Along(planks), planks)
         /\ \A i, j \in 1 .. Len(Along(planks)) :
              i < j <=> Along(planks)[i].position < Along(planks)[j].position
<1> DEFINE rank == [a \in planks |-> <<a.position>>]
           s == Along(planks)
<1>1. \A a \in planks : rank[a] = <<a.position>> /\ rank[a] \in [1 .. 1 -> Int]
  OBVIOUS
<1>2. \A x, y \in planks : rank[x] = rank[y] => x = y
  <2>1. \A x, y \in planks : rank[x][1] = x.position /\ rank[y][1] = y.position
    OBVIOUS
  <2> HIDE DEF rank
  <2> QED BY <2>1
<1>3. s = Sorted(planks, rank)
  BY DEF Along
<1> HIDE DEF rank, s
<1>4. Ranks(planks, rank)
  <2>1. 1 \in Nat /\ \A x \in planks : rank[x] \in [1 .. 1 -> Int]
    BY <1>1
  <2> QED BY <1>2, <2>1 DEF Ranks
<1>5. Enumerates(s, planks) /\ Ascends(s, rank)
  BY <1>3, <1>4, SortedEnumerates
<1>6. \A i \in 1 .. Len(s) : s[i] \in planks
  BY <1>5 DEF Enumerates
<1>7. ASSUME NEW i \in 1 .. Len(s), NEW j \in 1 .. Len(s), i < j PROVE s[i].position < s[j].position
  <2>1. Below(<<s[i].position>>, <<s[j].position>>)
    BY <1>1, <1>5, <1>6, <1>7 DEF Ascends
  <2>2. PICK k \in DOMAIN <<s[i].position>> : <<s[i].position>>[k] < <<s[j].position>>[k]
    BY <2>1 DEF Below
  <2>3. k = 1
    BY <2>2
  <2> QED BY <2>2, <2>3
<1>8. ASSUME NEW i \in 1 .. Len(s), NEW j \in 1 .. Len(s), s[i].position < s[j].position PROVE i < j
  <2>1. i \in Int /\ j \in Int /\ s[i].position \in Int /\ s[j].position \in Int
    BY <1>6
  <2>2. CASE j < i
    BY <1>7, <1>8, <2>1, <2>2
  <2>3. CASE i = j
    BY <1>8, <2>1, <2>3
  <2> QED BY <2>1, <2>2, <2>3
<1> QED BY <1>5, <1>7, <1>8 DEF s

LEMMA PlanksApart ==
  ASSUME NEW V, NEW rm, Sound(rm, V), NEW area \in OnAFace(rm)
  PROVE  /\ IsFiniteSet(Planks(rm, area.piece)) /\ area \in Planks(rm, area.piece)
         /\ Planks(rm, area.piece) \in SUBSET OnAFace(rm)
         /\ \A a \in Planks(rm, area.piece) : a.position \in Int /\ a.piece = area.piece /\ a \in rm.areas
         /\ \A a, c \in Planks(rm, area.piece) : a.position = c.position => a = c
<1>1. Planks(rm, area.piece) \in SUBSET OnAFace(rm) /\ \A a \in Planks(rm, area.piece) : a.piece = area.piece
  BY DEF Planks
<1>2. area \in Planks(rm, area.piece)
  BY DEF Planks
<1>3. IsFiniteSet(Planks(rm, area.piece)) /\ \A a \in Planks(rm, area.piece) : a \in rm.areas
  BY <1>1, FacesFinite, FS_Subset DEF FaceIsFinite
<1>4. \A a \in rm.areas : a.position \in Int
  BY AtIs
<1> QED BY <1>1, <1>2, <1>3, <1>4 DEF Sound, SchemaHolds, OnePlankAPlace

\* The plank that takes its books is the one before it on the face, or the one
\* after the first.
LEMMA AbsorbingNext ==
  ASSUME NEW V, NEW rm, Sound(rm, V), NEW area \in OnAFace(rm), Len(Face(rm, area.piece)) > 1
  PROVE  LET into == Absorbing(rm, area)
             planks == Planks(rm, area.piece)
         IN  /\ into \in planks /\ into # area
             /\ \/ /\ into.position < area.position
                   /\ \A x \in planks : x.position <= into.position \/ area.position <= x.position
                \/ /\ area.position < into.position
                   /\ \A x \in planks : x = area \/ into.position <= x.position
<1> DEFINE into == Absorbing(rm, area)
           planks == Planks(rm, area.piece)
           face == Face(rm, area.piece)
           n == Len(face)
           at == CHOOSE i \in DOMAIN face : face[i] = area
<1>1. /\ IsFiniteSet(planks) /\ area \in planks /\ \A a \in planks : a.position \in Int
      /\ \A a, c \in planks : a.position = c.position => a = c
  BY PlanksApart
<1>2. Enumerates(face, planks) /\ \A i, j \in 1 .. Len(face) : i < j <=> face[i].position < face[j].position
  <2> HIDE DEF planks
  <2>1. face = Along(planks)
    BY DEF Face, planks
  <2> HIDE DEF face
  <2> QED BY <1>1, <2>1, AlongAscends
<1>3. into = IF at > 1 THEN face[at - 1] ELSE face[2]
  BY DEF Absorbing
<1>4. n > 1
  OBVIOUS
<1> HIDE DEF face, planks, into
<1>5. /\ n \in Nat /\ DOMAIN face = 1 .. n /\ \A i \in 1 .. n : face[i] \in planks
      /\ \A x \in planks : \E i \in 1 .. n : face[i] = x
      /\ \A i, j \in 1 .. n : i < j <=> face[i].position < face[j].position
  BY <1>2 DEF Enumerates
<1>6. at \in 1 .. n /\ face[at] = area
  BY <1>1, <1>5
<1> HIDE DEF at, n
<1>7. CASE at > 1
  <2>1. at - 1 \in 1 .. n /\ into = face[at - 1] /\ at - 1 < at
    BY <1>3, <1>5, <1>6, <1>7
  <2>2. into \in planks /\ into.position < area.position
    BY <1>5, <1>6, <2>1
  <2>3. ASSUME NEW x \in planks PROVE x.position <= into.position \/ area.position <= x.position
    <3>1. PICK k \in 1 .. n : face[k] = x
      BY <1>5
    <3>2. ~(at - 1 < k) \/ ~(k < at)
      BY <1>5, <1>6, <3>1
    <3>3. ~(into.position < x.position) \/ ~(x.position < area.position)
      BY <1>5, <1>6, <2>1, <3>1, <3>2
    <3> QED BY <1>1, <2>2, <3>3
  <2>4. into # area
    BY <1>1, <2>2
  <2> QED BY <2>2, <2>3, <2>4 DEF into, planks
<1>8. CASE ~(at > 1)
  <2>1. at = 1 /\ 2 \in 1 .. n /\ into = face[2] /\ 1 \in 1 .. n
    BY <1>3, <1>4, <1>5, <1>6, <1>8
  <2>2. into \in planks /\ area.position < into.position
    BY <1>5, <1>6, <2>1
  <2>3. ASSUME NEW x \in planks, x # area PROVE into.position <= x.position
    <3>1. PICK k \in 1 .. n : face[k] = x
      BY <1>5
    <3>2. k # 1 /\ ~(k < 2)
      BY <1>5, <1>6, <2>1, <2>3, <3>1
    <3>3. ~(x.position < into.position)
      BY <1>5, <2>1, <3>1, <3>2
    <3> QED BY <1>1, <2>2, <3>3
  <2>4. into # area
    BY <1>1, <2>2
  <2> QED BY <2>2, <2>3, <2>4 DEF into, planks
<1> QED BY <1>7, <1>8

LEMMA RulesPassOn ==
  ASSUME NEW V, NEW rm, Sound(rm, V), NEW id \in IdsOf(rm.areas), NEW q \in Rules
  PROVE  RetireOrRemove(rm, id).rules[q] =
           IF rm.rules[q].area = id THEN [area |-> Null, piece |-> Row(rm, id).piece] ELSE rm.rules[q]
<1>1. Row(rm, id) \in rm.areas /\ Row(rm, id).id = id
  BY RowOf
<1>2. rm \in RoomIn(V)
  BY DEF Sound
<1>3. CASE id \in rm.named \/ \E r \in Rules : rm.rules[r].area = id
  <2>1. RetireOrRemove(rm, id) = RetireArea(rm, id)
    BY <1>3 DEF RetireOrRemove
  <2>2. RetireArea(rm, id).rules = Repointed(rm, Row(rm, id)).rules
    <3> DEFINE area == Row(rm, id)
               others == {a \in rm.areas : a.piece = area.piece /\ a # area}
               new == [area EXCEPT !.position = IF \E a \in others : a.position = RetiredPosition(area.position)
                         THEN Min({a.position : a \in others \cup {area}}) - 1 ELSE RetiredPosition(@)]
    <3>1. RetireArea(rm, id) = Changed(Repointed(rm, area), area, new)
      BY DEF RetireArea
    <3> HIDE DEF new
    <3>2. Repointed(rm, area) \in RoomIn(V)
      BY <1>1, RepointedSound DEF Sound
    <3> HIDE DEF area
    <3> QED BY <3>1, <3>2 DEF Changed, RoomIn, area
  <2>3. Repointed(rm, Row(rm, id)).rules[q] =
          IF rm.rules[q].area = id THEN [area |-> Null, piece |-> Row(rm, id).piece] ELSE rm.rules[q]
    BY <1>1, <1>2 DEF Repointed, RoomIn
  <2> QED BY <2>1, <2>2, <2>3
<1>4. CASE ~(id \in rm.named \/ \E r \in Rules : rm.rules[r].area = id)
  <2>1. RetireOrRemove(rm, id).rules = rm.rules
    BY <1>2, <1>4 DEF RetireOrRemove, RoomIn
  <2> QED BY <1>4, <2>1
<1> QED BY <1>3, <1>4

\* What a plank is once another has left its piece and the rest are renumbered.
Anchor(rm, area, a) ==
  IF a = Absorbing(rm, area) /\ a.position > area.position THEN area.startsAt ELSE a.startsAt
Stayed(rm, area, a, c) ==
  /\ c.id = a.id /\ c.piece = a.piece /\ c.own = a.own /\ c.startsAt = Anchor(rm, area, a)
  /\ a.piece # area.piece => c.position = a.position
LEMMA WithoutIs ==
  ASSUME NEW rm, Sound(rm, Nat), NEW id, CanDrop(rm, id)
  PROVE  LET area == Row(rm, id)
             to == Without(rm, id)
         IN  /\ to.pieces = rm.pieces
             /\ \A q \in Rules : to.rules[q] =
                  IF rm.rules[q].area = id THEN [area |-> Null, piece |-> area.piece] ELSE rm.rules[q]
             /\ \A a \in OnAFace(rm) \ {area} :
                  Row(to, a.id) \in OnAFace(to) /\ Stayed(rm, area, a, Row(to, a.id))
             /\ \A a, c \in Planks(rm, area.piece) \ {area} :
                  a.position < c.position <=> Row(to, a.id).position < Row(to, c.id).position
<1> DEFINE area == Row(rm, id)
           into == Absorbing(rm, area)
           planks == Planks(rm, area.piece)
           mid == IF into.position > area.position
                  THEN Changed(rm, into, [into EXCEPT !.startsAt = area.startsAt]) ELSE rm
           out == RetireOrRemove(mid, id)
           left == planks \ {area}
           rest == Along(left)
           ids == [i \in DOMAIN rest |-> rest[i].id]
           to == Without(rm, id)
           n == Len(rest)
<1>1. to = Resequenced(out, ids)
  BY DEF Without
<1>2. area \in OnAFace(rm) /\ area \in rm.areas /\ area.id = id /\ id \in Nat \ {Null} /\ into \in left
  BY DroppableIs
<1>3. Sound(to, Nat)
  BY WithoutSound
<1>4. \A a \in OnAFace(rm) : Anchor(rm, area, a) = IF a = into /\ a.position > area.position THEN area.startsAt ELSE a.startsAt
  BY DEF Anchor
<1> HIDE DEF area, into, to
<1>5. /\ planks = {a \in rm.areas : a.piece = area.piece /\ a.position >= 0} /\ planks \in SUBSET OnAFace(rm)
      /\ IsFiniteSet(planks) /\ area \in planks
      /\ \A a \in planks : a.position \in Int
      /\ \A a, c \in planks : a.position = c.position => a = c
  <2>1. /\ PieceOf(rm, area) \in rm.pieces /\ PieceOf(rm, area).id = area.piece
        /\ PieceOf(rm, area).position >= 0
    BY <1>2, PieceOfPlank
  <2> QED BY <1>2, <2>1, PlanksAre, PlanksApart
<1> HIDE DEF planks
<1>6. \A a, c \in rm.areas : a.id = c.id => a = c
  BY DEF Sound, SchemaHolds, OnePlankAPlace
<1>7. IsFiniteSet(left) /\ left \in SUBSET planks /\ into \in rm.areas /\ into \in planks /\ into.id # id
  <2>1. into \in rm.areas /\ into # area
    BY <1>2, <1>5
  <2> QED BY <1>2, <1>5, <1>6, <2>1, FS_RemoveElement
<1>8. /\ n \in Nat /\ DOMAIN rest = 1 .. n /\ \A i \in 1 .. n : rest[i] \in left
      /\ \A x \in left : \E i \in 1 .. n : rest[i] = x
      /\ \A i, j \in 1 .. n : i < j <=> rest[i].position < rest[j].position
  <2>1. \A a \in left : a.position \in Int
    BY <1>5, <1>7
  <2>2. \A a, c \in left : a.position = c.position => a = c
    BY <1>5, <1>7
  <2> HIDE DEF left
  <2>3. Enumerates(rest, left) /\ \A i, j \in 1 .. Len(rest) : i < j <=> rest[i].position < rest[j].position
    BY <1>7, <2>1, <2>2, AlongAscends
  <2> HIDE DEF rest
  <2> QED BY <2>3 DEF Enumerates
<1> HIDE DEF n, rest
<1>9. DOMAIN ids = 1 .. n /\ \A i \in 1 .. n : ids[i] = rest[i].id
  BY <1>8
<1> HIDE DEF ids
\* a plank that stays, reanchored if it is the one that takes the books
<1> DEFINE then(a) == IF a = into /\ into.position > area.position
                      THEN [into EXCEPT !.startsAt = area.startsAt] ELSE a
<1>10. /\ Sound(mid, Nat) /\ mid.pieces = rm.pieces /\ mid.rules = rm.rules /\ IdsOf(mid.areas) = IdsOf(rm.areas)
       /\ \A a \in rm.areas : then(a) \in mid.areas
       /\ Row(mid, id).piece = area.piece
  <2>1. SamePlanks(rm, rm)
    BY DEF SamePlanks
  <2>2. /\ Sound(mid, Nat) /\ mid.pieces = rm.pieces
        /\ IdsOf(mid.areas) = IdsOf(rm.areas) /\ SamePlanks(mid, rm)
    BY <1>2, <1>7, <2>1, ReanchoredSound
  <2>3. rm \in RoomIn(Nat)
    BY DEF Sound
  <2>4. mid.rules = rm.rules
    BY <2>3 DEF Changed, RoomIn
  <2>5. ASSUME NEW a \in rm.areas PROVE then(a) \in mid.areas
    <3>1. CASE into.position > area.position
      <4>1. mid.areas = (rm.areas \ {into}) \cup {[into EXCEPT !.startsAt = area.startsAt]}
        BY <2>3, <3>1 DEF Changed, RoomIn
      <4> HIDE DEF mid
      <4> QED BY <3>1, <4>1
    <3>2. CASE ~(into.position > area.position)
      BY <3>2
    <3> QED BY <3>1, <3>2
  <2> HIDE DEF mid
  <2>6. Row(mid, id).piece = area.piece
    <3>1. id \in IdsOf(mid.areas)
      BY <1>2, <2>2 DEF IdsOf
    <3>2. Row(mid, id) \in mid.areas /\ Row(mid, id).id = id
      BY <2>2, <3>1, RowOf
    <3>3. PICK a \in rm.areas : Row(mid, id).id = a.id /\ Row(mid, id).piece = a.piece
      BY <2>2, <3>2 DEF SamePlanks
    <3> QED BY <1>2, <1>6, <3>2, <3>3
  <2> QED BY <2>2, <2>4, <2>5, <2>6
<1> HIDE DEF mid
<1>11. rm.areas \in SUBSET AreaRowIn(Nat)
  BY DEF Sound, RoomIn
<1>12. ASSUME NEW a \in rm.areas
       PROVE  /\ then(a).id = a.id /\ then(a).piece = a.piece /\ then(a).own = a.own
              /\ then(a).position = a.position /\ then(a) \in AreaRowIn(Nat)
              /\ then(a).startsAt = IF a = into /\ a.position > area.position THEN area.startsAt ELSE a.startsAt
  <2>1. a \in AreaRowIn(Nat) /\ area \in AreaRowIn(Nat)
    BY <1>2, <1>11
  <2> QED BY <2>1 DEF AreaRowIn
<1> HIDE DEF then
<1>13. /\ Sound(out, Nat) /\ out.pieces = rm.pieces
       /\ \A a \in rm.areas : a.id # id => then(a) \in out.areas
       /\ \A q \in Rules : out.rules[q] =
            IF rm.rules[q].area = id THEN [area |-> Null, piece |-> area.piece] ELSE rm.rules[q]
  <2>1. id \in IdsOf(mid.areas)
    BY <1>2, <1>10 DEF IdsOf
  <2>2. Sound(out, Nat) /\ out.pieces = mid.pieces /\ OneOff(mid, out, id)
    BY <1>2, <1>10, RetireOrRemoveSound
  <2>3. \A q \in Rules : out.rules[q] =
            IF mid.rules[q].area = id THEN [area |-> Null, piece |-> Row(mid, id).piece] ELSE mid.rules[q]
    BY <1>10, <2>1, RulesPassOn
  <2> HIDE DEF out
  <2>4. \A a \in rm.areas : a.id # id => then(a) \in out.areas
    BY <1>10, <1>12, <2>2 DEF OneOff
  <2> QED BY <1>10, <2>2, <2>3, <2>4
<1> HIDE DEF out
<1> DEFINE place(x) == CHOOSE i \in DOMAIN ids : ids[i] = x
           moved(c) == IF c.id \in ToSet(ids) THEN [c EXCEPT !.position = place(c.id) - 1] ELSE c
<1>14. to.pieces = rm.pieces /\ to.rules = out.rules /\ \A c \in out.areas : moved(c) \in to.areas
  <2>1. out \in RoomIn(Nat)
    BY <1>13 DEF Sound
  <2>2. to = [out EXCEPT !.areas = {moved(c) : c \in out.areas}]
    BY <1>1 DEF Resequenced
  <2> DEFINE A == {moved(c) : c \in out.areas}
  <2>3. \A c \in out.areas : moved(c) \in A
    OBVIOUS
  <2> HIDE DEF A, moved
  <2>4. to = [out EXCEPT !.areas = A]
    BY <2>2 DEF A
  <2>5. to.areas = A /\ to.pieces = out.pieces /\ to.rules = out.rules
    BY <2>1, <2>4 DEF RoomIn
  <2> QED BY <1>13, <2>3, <2>5
<1>15. /\ \A a \in left : a.id \in ToSet(ids)
       /\ \A a \in rm.areas : a.id \in ToSet(ids) => a \in left
       /\ \A i \in 1 .. n : place(rest[i].id) = i
  <2>1. \A a \in left : a \in rm.areas
    BY <1>5, <1>7
  <2> HIDE DEF left
  <2>2. \A i, j \in 1 .. n : ids[i] = ids[j] => i = j
    BY <1>6, <1>8, <1>9, <2>1
  <2>3. \A i \in 1 .. n : place(rest[i].id) = i
    BY <1>9, <2>2
  <2> HIDE DEF place
  <2> QED BY <1>6, <1>8, <1>9, <2>1, <2>3 DEF ToSet
<1> HIDE DEF place
<1>16. ASSUME NEW a \in rm.areas, a.id # id
       PROVE  /\ Row(to, a.id) = moved(then(a)) /\ Row(to, a.id) \in to.areas
              /\ moved(then(a)).id = a.id /\ moved(then(a)).piece = a.piece /\ moved(then(a)).own = a.own
              /\ moved(then(a)).startsAt = then(a).startsAt
              /\ a \in left => moved(then(a)).position = place(a.id) - 1
              /\ a \notin left => moved(then(a)).position = a.position
  <2>1. moved(then(a)) \in to.areas
    BY <1>13, <1>14, <1>16
  <2>2. then(a) \in AreaRowIn(Nat) /\ then(a).id = a.id
    BY <1>12
  <2>3. /\ moved(then(a)).id = a.id /\ moved(then(a)).piece = a.piece /\ moved(then(a)).own = a.own
        /\ moved(then(a)).startsAt = then(a).startsAt
        /\ a \in left => moved(then(a)).position = place(a.id) - 1
        /\ a \notin left => moved(then(a)).position = a.position
    BY <1>12, <1>15, <2>2 DEF AreaRowIn
  <2> HIDE DEF moved
  <2>4. a.id \in IdsOf(to.areas)
    BY <2>1, <2>3 DEF IdsOf
  <2>5. Row(to, a.id) \in to.areas /\ Row(to, a.id).id = a.id
    BY <1>3, <2>4, RowOf
  <2>6. Row(to, a.id) = moved(then(a))
    BY <1>3, <2>1, <2>3, <2>5 DEF Sound, SchemaHolds, OnePlankAPlace
  <2> QED BY <2>3, <2>5, <2>6
<1> HIDE DEF moved
<1>17. ASSUME NEW a \in left, NEW c \in left
       PROVE  a.position < c.position <=> Row(to, a.id).position < Row(to, c.id).position
  <2>1. PICK i \in 1 .. n : rest[i] = a
    BY <1>8
  <2>2. PICK j \in 1 .. n : rest[j] = c
    BY <1>8
  <2>3. a \in rm.areas /\ c \in rm.areas /\ a.id # id /\ c.id # id
    BY <1>2, <1>5, <1>6, <1>7
  <2>4. Row(to, a.id).position = i - 1 /\ Row(to, c.id).position = j - 1
    BY <1>15, <1>16, <2>1, <2>2, <2>3
  <2>5. i < j <=> a.position < c.position
    BY <1>8, <2>1, <2>2
  <2> QED BY <2>4, <2>5
<1>18. ASSUME NEW a \in OnAFace(rm) \ {area}
       PROVE  Row(to, a.id) \in OnAFace(to) /\ Stayed(rm, area, a, Row(to, a.id))
  <2>1. a \in rm.areas /\ a.position >= 0 /\ PieceOf(rm, a).position >= 0 /\ a.id # id
    BY <1>2, <1>6 DEF OnAFace
  <2>2. a \in left <=> a.piece = area.piece
    BY <1>5, <2>1
  <2>3. then(a).startsAt = Anchor(rm, area, a)
    BY <1>4, <1>12, <2>1
  <2>4. Stayed(rm, area, a, Row(to, a.id))
    BY <1>16, <2>1, <2>2, <2>3 DEF Stayed
  <2>5. Row(to, a.id).position >= 0
    <3>1. CASE a \in left
      <4>1. PICK i \in 1 .. n : rest[i] = a
        BY <1>8, <3>1
      <4>2. Row(to, a.id).position = i - 1
        BY <1>15, <1>16, <2>1, <3>1, <4>1
      <4> QED BY <4>2
    <3>2. CASE a \notin left
      BY <1>16, <2>1, <3>2
    <3> QED BY <3>1, <3>2
  <2>6. PieceOf(to, Row(to, a.id)) = PieceOf(rm, a)
    BY <1>14, <2>4 DEF PieceOf, Stayed
  <2> QED BY <1>16, <2>1, <2>4, <2>5, <2>6 DEF OnAFace
<1> QED BY <1>13, <1>14, <1>17, <1>18 DEF area, to, left, planks

LEMMA PlacesAreOrdered ==
  ASSUME NEW V, NEW rm, Sound(rm, V), Level(rm)
  PROVE  /\ \A a \in OnAFace(rm) : ~Earlier(At(rm, a), At(rm, a))
         /\ \A a, c \in OnAFace(rm) : a = c \/ Earlier(At(rm, a), At(rm, c)) \/ Earlier(At(rm, c), At(rm, a))
         /\ \A a, c, d \in OnAFace(rm) :
              Earlier(At(rm, a), At(rm, c)) /\ Earlier(At(rm, c), At(rm, d)) => Earlier(At(rm, a), At(rm, d))
<1>1. \A a \in OnAFace(rm) : At(rm, a).shelf \in Int /\ At(rm, a).area \in Int
  BY AtIs, FacesFinite DEF FaceIsFinite
<1>2. \A a \in OnAFace(rm) : ~Earlier(At(rm, a), At(rm, a))
  BY <1>1 DEF Earlier
<1>3. \A a, c, d \in OnAFace(rm) :
         Earlier(At(rm, a), At(rm, c)) /\ Earlier(At(rm, c), At(rm, d)) => Earlier(At(rm, a), At(rm, d))
  BY <1>1 DEF Earlier
<1> QED BY <1>2, <1>3, OnePlace

\* A plank is taken out between others, and these close up: they keep their order,
\* and what stands before or after the plank does of the one that takes its books.
Closes(rm, to, area, into) ==
  /\ area \in OnAFace(rm) /\ into \in OnAFace(rm) /\ area # into /\ area.piece = into.piece
  /\ \A a \in OnAFace(rm) \ {area} :
       Row(to, a.id) \in OnAFace(to) /\ Stayed(rm, area, a, Row(to, a.id))
  /\ \A c \in OnAFace(to) : \E a \in OnAFace(rm) \ {area} : c = Row(to, a.id)
  /\ \A a, c \in OnAFace(rm) \ {area} :
       /\ Earlier(At(to, Row(to, a.id)), At(to, Row(to, c.id))) <=> Earlier(At(rm, a), At(rm, c))
       /\ a.piece = c.piece =>
            (Row(to, a.id).position < Row(to, c.id).position <=> a.position < c.position)
  /\ \A x \in OnAFace(rm) \ {area, into} :
       /\ Earlier(At(rm, x), At(rm, area)) <=> Earlier(At(rm, x), At(rm, into))
       /\ Earlier(At(rm, area), At(rm, x)) <=> Earlier(At(rm, into), At(rm, x))

LEMMA PlanksClose ==
  ASSUME NEW rm, Sound(rm, Nat), Level(rm), NEW id, CanDrop(rm, id)
  PROVE  /\ Sound(Without(rm, id), Nat) /\ Level(Without(rm, id))
         /\ Closes(rm, Without(rm, id), Row(rm, id), Absorbing(rm, Row(rm, id)))
         /\ Row(rm, id).id = id /\ id # Null
<1> DEFINE area == Row(rm, id)
           into == Absorbing(rm, area)
           to == Without(rm, id)
           planks == Planks(rm, area.piece)
           face == OnAFace(rm) \ {area}
           im(a) == Row(to, a.id)
<1>1. area \in OnAFace(rm) /\ area.id = id /\ id # Null /\ Len(Face(rm, area.piece)) > 1
  BY DroppableIs DEF CanDrop
<1>2. /\ into \in planks /\ into # area
      /\ \/ /\ into.position < area.position
            /\ \A x \in planks : x.position <= into.position \/ area.position <= x.position
         \/ /\ area.position < into.position
            /\ \A x \in planks : x = area \/ into.position <= x.position
  BY <1>1, AbsorbingNext
<1>3. /\ to.pieces = rm.pieces
      /\ \A a \in face : im(a) \in OnAFace(to) /\ Stayed(rm, area, a, im(a))
      /\ \A a, c \in planks \ {area} : a.position < c.position <=> im(a).position < im(c).position
  BY WithoutIs
<1>4. Sound(to, Nat) /\ IdsOf(OnAFace(to)) \subseteq IdsOf(OnAFace(rm)) \ {id}
  BY WithoutSound
<1> HIDE DEF area, into, to
<1>5. /\ planks \in SUBSET OnAFace(rm) /\ \A a \in planks : a.position \in Int /\ a.piece = area.piece
      /\ \A a, c \in planks : a.position = c.position => a = c
      /\ \A a \in OnAFace(rm) : a.piece = area.piece => a \in planks
      /\ area \in planks
  BY <1>1, PlanksApart DEF Planks
<1> HIDE DEF planks
<1>6. \A a \in OnAFace(rm) : At(rm, a).shelf \in Int /\ At(rm, a).area = a.position /\ a.position \in Int
  BY AtIs, FacesFinite DEF FaceIsFinite
<1>7. \A a \in face : At(to, im(a)).shelf = At(rm, a).shelf /\ At(to, im(a)).area = im(a).position /\ im(a).position \in Int
  <2>1. ASSUME NEW a \in face PROVE At(to, im(a)).shelf = At(rm, a).shelf
    <3>1. Stayed(rm, area, a, im(a))
      BY <1>3
    <3> HIDE DEF im
    <3>2. im(a).piece = a.piece
      BY <3>1 DEF Stayed
    <3>3. PieceOf(to, im(a)) = PieceOf(rm, a)
      BY <1>3, <3>2 DEF PieceOf
    <3> QED BY <3>3 DEF At
  <2>2. ASSUME NEW a \in face PROVE At(to, im(a)).area = im(a).position /\ im(a).position \in Int
    BY <1>3, <1>4, AtIs, FacesFinite DEF FaceIsFinite
  <2> QED BY <2>1, <2>2
<1>8. ASSUME NEW c \in OnAFace(to) PROVE \E a \in face : c = im(a)
  <2>1. PICK a \in OnAFace(rm) : a.id = c.id /\ a.id # id
    BY <1>4 DEF IdsOf
  <2>2. a \in face /\ im(a) \in OnAFace(to) /\ im(a).id = a.id
    BY <1>1, <1>3, <2>1 DEF Stayed
  <2> HIDE DEF im
  <2>3. c = im(a)
    BY <1>4, <2>1, <2>2, SamePlank
  <2> QED BY <2>2, <2>3
<1> HIDE DEF im
<1>9. ASSUME NEW a \in face, NEW c \in face, a.piece = c.piece
      PROVE  im(a).position < im(c).position <=> a.position < c.position
  <2>1. CASE a.piece = area.piece
    BY <1>3, <1>5, <1>9, <2>1
  <2>2. CASE a.piece # area.piece
    BY <1>3, <1>9, <2>2 DEF Stayed
  <2> QED BY <2>1, <2>2
<1>10. ASSUME NEW a \in face, NEW c \in face
       PROVE  Earlier(At(to, im(a)), At(to, im(c))) <=> Earlier(At(rm, a), At(rm, c))
  <2>1. a.piece # c.piece => At(rm, a).shelf # At(rm, c).shelf
    BY DEF Level
  <2> QED BY <1>6, <1>7, <1>9, <2>1 DEF Earlier
<1>11. ASSUME NEW x \in OnAFace(rm), x # area, x # into
       PROVE  /\ Earlier(At(rm, x), At(rm, area)) <=> Earlier(At(rm, x), At(rm, into))
              /\ Earlier(At(rm, area), At(rm, x)) <=> Earlier(At(rm, into), At(rm, x))
  <2>1. At(rm, into).shelf = At(rm, area).shelf
    <3>1. into.piece = area.piece
      BY <1>2, <1>5
    <3>2. PieceOf(rm, into) = PieceOf(rm, area)
      BY <3>1 DEF PieceOf
    <3> QED BY <3>2 DEF At
  <2>2. CASE x.piece # area.piece
    <3>1. At(rm, x).shelf # At(rm, area).shelf
      BY <1>1, <2>2 DEF Level
    <3> QED BY <2>1, <3>1 DEF Earlier
  <2>3. CASE x.piece = area.piece
    <3>1. x \in planks /\ x.position # area.position /\ x.position # into.position
      BY <1>2, <1>5, <1>11, <2>3
    <3>2. into.position \in Int /\ area.position \in Int /\ x.position \in Int
      BY <1>2, <1>5, <3>1
    <3>3. /\ x.position < area.position <=> x.position < into.position
          /\ area.position < x.position <=> into.position < x.position
      BY <1>2, <1>11, <3>1, <3>2
    <3>4. /\ At(rm, x).area = x.position /\ At(rm, area).area = area.position /\ At(rm, into).area = into.position
          /\ At(rm, x).shelf = At(rm, area).shelf
      BY <1>1, <1>2, <1>5, <1>6, <2>3 DEF At, PieceOf
    <3> QED BY <2>1, <3>3, <3>4 DEF Earlier
  <2> QED BY <2>2, <2>3
<1>12. Level(to)
  <2>1. ASSUME NEW a \in face, NEW c \in face, im(a).piece # im(c).piece
        PROVE  At(to, im(a)).shelf # At(to, im(c)).shelf
    <3>1. a.piece # c.piece
      BY <1>3, <2>1 DEF Stayed
    <3> QED BY <1>7, <3>1 DEF Level
  <2> QED BY <1>8, <2>1 DEF Level
<1>13. Closes(rm, to, area, into)
  <2>1. into \in OnAFace(rm) /\ into.piece = area.piece
    BY <1>2, <1>5
  <2> QED BY <1>1, <1>2, <1>3, <1>8, <1>9, <1>10, <1>11, <2>1 DEF Closes, im
<1> QED BY <1>1, <1>4, <1>12, <1>13 DEF area, to, into

\* A plank and the one that takes its books are planks of one run.
Share(rm, area, into) ==
  \E q \in Ranges : Survey(rm).bands[q].open /\ {area, into} \subseteq RunOf(rm, Opening(rm, q))

\* No plank is of two runs.
LEMMA SameRun ==
  ASSUME NEW V, NEW rm, Sound(rm, V), Level(rm), NEW o \in Starting(rm), NEW p \in Starting(rm),
         NEW a \in RunOf(rm, o), a \in RunOf(rm, p)
  PROVE  o = p
<1>1. o \in OnAFace(rm) /\ p \in OnAFace(rm)
  BY DEF Starting
<1>2. ~Earlier(At(rm, o), At(rm, p)) /\ ~Earlier(At(rm, p), At(rm, o))
  BY DEF RunOf
<1> QED BY <1>1, <1>2, OnePlace

\* Of the two only the earlier can begin the run.
LEMMA SharedRun ==
  ASSUME NEW V, NEW rm, Sound(rm, V), Level(rm), NEW area \in OnAFace(rm), NEW into \in OnAFace(rm),
         area.piece = into.piece, Share(rm, area, into)
  PROVE  /\ Earlier(At(rm, area), At(rm, into)) <=> area.position < into.position
         /\ Earlier(At(rm, into), At(rm, area)) <=> into.position < area.position
         /\ area \in Starting(rm) =>
              area.id \in Entries(rm) /\ ~(into.position < area.position)
         /\ area.position < into.position => into \notin Starting(rm)
         /\ \A o \in Starting(rm) : area \in RunOf(rm, o) <=> into \in RunOf(rm, o)
<1>1. PICK q \in Ranges : Survey(rm).bands[q].open /\ {area, into} \subseteq RunOf(rm, Opening(rm, q))
  BY DEF Share
<1> DEFINE o == Opening(rm, q)
<1>2. o \in OnAFace(rm) /\ o \in Starting(rm) /\ o.id = EntryAreaOf(rm, rm.rules[q])
  BY <1>1, RunIsOf
<1>3. area \in RunOf(rm, o) /\ into \in RunOf(rm, o)
  BY <1>1
<1> HIDE DEF o
<1>4. /\ Earlier(At(rm, area), At(rm, into)) <=> area.position < into.position
      /\ Earlier(At(rm, into), At(rm, area)) <=> into.position < area.position
  <2>1. PieceOf(rm, into) = PieceOf(rm, area)
    BY DEF PieceOf
  <2>2. At(rm, into).shelf = At(rm, area).shelf
    BY <2>1 DEF At
  <2>3. /\ At(rm, area).shelf \in Int /\ At(rm, area).area = area.position /\ At(rm, into).area = into.position
    BY AtIs, FacesFinite DEF FaceIsFinite
  <2> QED BY <2>2, <2>3 DEF Earlier
<1>5. area \in Starting(rm) => area.id \in Entries(rm) /\ ~(into.position < area.position)
  <2>1. SUFFICES ASSUME area \in Starting(rm) PROVE area.id \in Entries(rm) /\ ~(into.position < area.position)
    OBVIOUS
  <2>2. area = o
    BY <1>2, <1>3, <2>1, StartsOnce
  <2>3. q \in Rules /\ area.id # Null
    BY AtIs, FacesFinite DEF FaceIsFinite, Rules
  <2>4. area.id \in Entries(rm)
    BY <1>2, <2>2, <2>3 DEF Entries
  <2>5. ~Earlier(At(rm, into), At(rm, area))
    BY <1>3, <2>2 DEF RunOf
  <2> QED BY <1>4, <2>4, <2>5
<1>6. area.position < into.position => into \notin Starting(rm)
  <2>1. SUFFICES ASSUME area.position < into.position, into \in Starting(rm) PROVE FALSE
    OBVIOUS
  <2>2. into = o
    BY <1>2, <1>3, <2>1, StartsOnce
  <2> QED BY <1>3, <1>4, <2>1, <2>2 DEF RunOf
<1>7. ASSUME NEW p \in Starting(rm) PROVE area \in RunOf(rm, p) <=> into \in RunOf(rm, p)
  BY <1>2, <1>3, SameRun
<1> QED BY <1>4, <1>5, <1>6, <1>7

\* The plank that takes the books of another is the one before it, or the one after
\* the first of the piece.
Adjoins(rm, area, into) ==
  \/ /\ into.position < area.position
     /\ \A x \in OnAFace(rm) : x.piece = area.piece =>
          x.position <= into.position \/ area.position <= x.position
  \/ /\ area.position < into.position
     /\ \A x \in OnAFace(rm) : x.piece = area.piece => x = area \/ into.position <= x.position

\* The first of a piece is the first still, or it went and left its books to the
\* next.
LEMMA LowestCloses ==
  ASSUME NEW V, NEW rm, Sound(rm, V), NEW to, Sound(to, V), NEW area, NEW into,
         Closes(rm, to, area, into), Adjoins(rm, area, into), NEW a \in OnAFace(rm) \ {area}
  PROVE  Lowest(to, Row(to, a.id)) <=> Lowest(rm, a) \/ (Lowest(rm, area) /\ a = into)
<1> DEFINE im(x) == Row(to, x.id)
           face == OnAFace(rm) \ {area}
<1>1. /\ area \in OnAFace(rm) /\ into \in face /\ area.piece = into.piece
      /\ \A x \in face : im(x) \in OnAFace(to) /\ im(x).piece = x.piece
      /\ \A c \in OnAFace(to) : \E x \in face : c = im(x)
      /\ \A x, c \in face : x.piece = c.piece => (im(x).position < im(c).position <=> x.position < c.position)
  BY DEF Closes, Stayed
<1> HIDE DEF im
<1>2. /\ \A x \in OnAFace(rm) : x.position \in Int
      /\ \A x \in OnAFace(to) : x.position \in Int
      /\ \A x \in OnAFace(rm) : x \in rm.areas
  BY AtIs, FacesFinite DEF FaceIsFinite
<1>3. \A x, c \in OnAFace(rm) : x.piece = c.piece /\ x.position = c.position => x = c
  BY <1>2 DEF Sound, SchemaHolds, OnePlankAPlace
<1>4. Lowest(to, im(a)) <=> \A x \in face : x.piece = a.piece => a.position <= x.position
  <2>1. Lowest(to, im(a)) <=> \A x \in face : im(x).piece = im(a).piece => im(a).position <= im(x).position
    BY <1>1 DEF Lowest
  <2>2. ASSUME NEW x \in face, x.piece = a.piece
        PROVE  im(a).position <= im(x).position <=> a.position <= x.position
    <3>1. im(x).position < im(a).position <=> x.position < a.position
      BY <1>1, <2>2
    <3>2. im(x).position \in Int /\ im(a).position \in Int /\ x.position \in Int /\ a.position \in Int
      BY <1>1, <1>2
    <3> QED BY <3>1, <3>2
  <2>3. \A x \in face : im(x).piece = im(a).piece <=> x.piece = a.piece
    BY <1>1
  <2> QED BY <2>1, <2>2, <2>3
<1>5. ASSUME Lowest(rm, a) PROVE \A x \in face : x.piece = a.piece => a.position <= x.position
  BY <1>5 DEF Lowest
<1>6. ASSUME Lowest(rm, area), a = into PROVE \A x \in face : x.piece = a.piece => a.position <= x.position
  <2>1. area.position <= into.position
    BY <1>1, <1>6 DEF Lowest
  <2>2. ~(into.position < area.position)
    BY <1>1, <1>2, <2>1
  <2> QED BY <1>1, <1>6, <2>2 DEF Adjoins
<1>7. ASSUME \A x \in face : x.piece = a.piece => a.position <= x.position, ~Lowest(rm, a)
      PROVE  Lowest(rm, area) /\ a = into
  <2>1. area.piece = a.piece /\ ~(a.position <= area.position)
    BY <1>7 DEF Lowest
  <2>2. area.position < a.position
    BY <1>1, <1>2, <2>1
  <2>3. Lowest(rm, area)
    <3>1. ASSUME NEW x \in OnAFace(rm), x.piece = area.piece PROVE area.position <= x.position
      <4>1. CASE x = area
        BY <1>1, <1>2, <4>1
      <4>2. CASE x # area
        <5>1. a.position <= x.position /\ x.position \in Int /\ a.position \in Int /\ area.position \in Int
          BY <1>1, <1>2, <1>7, <2>1, <3>1, <4>2
        <5> QED BY <2>2, <5>1
      <4> QED BY <4>1, <4>2
    <3> QED BY <3>1 DEF Lowest
  <2>4. ~(into.position < area.position)
    <3>1. area.position <= into.position
      BY <1>1, <2>3 DEF Lowest
    <3> QED BY <1>1, <1>2, <3>1
  <2>5. into.position <= a.position
    BY <2>1, <2>4 DEF Adjoins
  <2>6. a.position <= into.position
    BY <1>1, <1>7, <2>1
  <2>7. a.position = into.position
    BY <1>1, <1>2, <2>5, <2>6
  <2> QED BY <1>1, <1>3, <2>1, <2>3, <2>7
<1> QED BY <1>4, <1>5, <1>6, <1>7 DEF im

\* Each rule names the plank it named, or the one that took its books.
LEMMA EntriesClose ==
  ASSUME NEW V, NEW rm, Sound(rm, V), Level(rm), NEW to, Sound(to, V), NEW area, NEW into,
         Closes(rm, to, area, into), Adjoins(rm, area, into), Share(rm, area, into),
         \A q \in Rules : to.rules[q] =
           IF rm.rules[q].area = area.id THEN [area |-> Null, piece |-> area.piece] ELSE rm.rules[q],
         NEW a \in OnAFace(rm) \ {area}
  PROVE  /\ \A q \in Rules : EntryAreaOf(to, to.rules[q]) = a.id
              <=> \/ EntryAreaOf(rm, rm.rules[q]) = a.id
                  \/ EntryAreaOf(rm, rm.rules[q]) = area.id /\ a = into
         /\ Row(to, a.id) \in Starting(to) <=> a \in Starting(rm) \/ (area \in Starting(rm) /\ a = into)
<1> DEFINE c == Row(to, a.id)
<1>1. /\ area \in OnAFace(rm) /\ into \in OnAFace(rm) /\ area # into /\ area.piece = into.piece
      /\ c \in OnAFace(to) /\ c.id = a.id /\ c.piece = a.piece /\ c.own = a.own
  BY DEF Closes, Stayed
<1>2. Lowest(to, c) <=> Lowest(rm, a) \/ (Lowest(rm, area) /\ a = into)
  BY LowestCloses
<1> HIDE DEF c
<1>3. a.id # area.id /\ a.id # Null /\ area.id # Null
  BY <1>1, SamePlank, AtIs, FacesFinite DEF FaceIsFinite
<1>4. area \in Starting(rm) => area.id \in Entries(rm) /\ ~(into.position < area.position)
  BY <1>1, SharedRun
<1>5. area \in Starting(rm) => Lowest(rm, area)
  <2>1. ASSUME area \in Starting(rm), NEW x \in OnAFace(rm), x.piece = area.piece PROVE area.position <= x.position
    <3>1. area.position < into.position /\ (x = area \/ into.position <= x.position)
      BY <1>4, <2>1 DEF Adjoins
    <3>2. area.position \in Int /\ into.position \in Int /\ x.position \in Int
      BY <1>1, AtIs, FacesFinite DEF FaceIsFinite
    <3> QED BY <3>1, <3>2
  <2> QED BY <2>1 DEF Lowest
<1>6. ASSUME NEW q \in Rules
      PROVE  EntryAreaOf(to, to.rules[q]) = a.id
              <=> \/ EntryAreaOf(rm, rm.rules[q]) = a.id
                  \/ EntryAreaOf(rm, rm.rules[q]) = area.id /\ a = into
  <2> DEFINE p == rm.rules[q]
             new == to.rules[q]
  <2>1. /\ EntryAreaOf(to, new) = a.id <=> Names(to, new, c)
        /\ EntryAreaOf(rm, p) = a.id <=> Names(rm, p, a)
        /\ EntryAreaOf(rm, p) = area.id <=> Names(rm, p, area)
    BY <1>1, EntryNames
  <2>2. Names(rm, p, area) => Lowest(rm, area)
    <3>1. Names(rm, p, area) => area.id \in Entries(rm)
      BY <1>3, <2>1 DEF Entries
    <3> QED BY <1>1, <1>5, <3>1 DEF Starting
  <2>3. new = IF p.area = area.id THEN [area |-> Null, piece |-> area.piece] ELSE p
    OBVIOUS
  <2> HIDE DEF p, new
  <2>4. CASE p.area = area.id
    <3>1. new.area = Null /\ new.piece = area.piece
      BY <2>3, <2>4
    <3>2. Lowest(rm, area)
      BY <2>2, <2>4 DEF Names
    <3>3. ~Names(rm, p, a)
      BY <1>3, <2>4 DEF Names
    <3>4. Lowest(rm, a) => a.piece # area.piece
      <4>1. SUFFICES ASSUME Lowest(rm, a), a.piece = area.piece PROVE FALSE
        OBVIOUS
      <4>2. a.position <= area.position /\ area.position <= a.position
        BY <1>1, <3>2, <4>1 DEF Lowest
      <4>3. a.position = area.position /\ a \in rm.areas /\ area \in rm.areas
        BY <1>1, <4>2, AtIs, FacesFinite DEF FaceIsFinite
      <4> QED BY <4>1, <4>3 DEF Sound, SchemaHolds, OnePlankAPlace
    <3>5. Names(to, new, c) <=> a = into
      BY <1>1, <1>2, <1>3, <3>1, <3>2, <3>4 DEF Names
    <3> QED BY <2>1, <2>4, <3>3, <3>5 DEF Names, p, new
  <2>5. CASE p.area # area.id
    <3>1. new = p
      BY <2>3, <2>5
    <3>2. Names(to, p, c) <=> Names(rm, p, a) \/ (Names(rm, p, area) /\ a = into)
      BY <1>1, <1>2, <2>5 DEF Names
    <3> QED BY <2>1, <3>1, <3>2 DEF p, new
  <2> QED BY <2>4, <2>5
<1>7. c.id \in Entries(to) <=> a.id \in Entries(rm) \/ (area.id \in Entries(rm) /\ a = into)
  BY <1>1, <1>3, <1>6 DEF Entries
<1>8. c \in Starting(to) <=> c.id \in Entries(to) \/ c.own
  BY <1>1 DEF Starting
<1>9. /\ a \in Starting(rm) <=> a.id \in Entries(rm) \/ a.own
      /\ area.id \in Entries(rm) <=> area \in Starting(rm)
  BY <1>1, <1>4 DEF Starting
<1> QED BY <1>1, <1>6, <1>7, <1>8, <1>9 DEF c

\* Each run holds the planks it held, less the one that went.
LEMMA RunsClose ==
  ASSUME NEW V, NEW rm, Sound(rm, V), Level(rm), NEW to, Sound(to, V), Level(to), NEW area, NEW into,
         Closes(rm, to, area, into), Adjoins(rm, area, into), Share(rm, area, into),
         \A q \in Rules : to.rules[q] =
           IF rm.rules[q].area = area.id THEN [area |-> Null, piece |-> area.piece] ELSE rm.rules[q],
         NEW r \in Ranges, Survey(to).bands[r].open
  PROVE  LET o == Opening(rm, r)
             opens == IF o = area THEN into ELSE o
         IN  /\ Survey(rm).bands[r].open
             /\ Opening(to, r) = Row(to, opens.id)
             /\ \A a \in OnAFace(rm) \ {area} :
                  Row(to, a.id) \in RunOf(to, Opening(to, r)) <=> a \in RunOf(rm, o)
<1> DEFINE im(x) == Row(to, x.id)
           face == OnAFace(rm) \ {area}
           E(x, y) == Earlier(At(rm, x), At(rm, y))
           S == Starting(rm)
           o == Opening(rm, r)
           opens == IF o = area THEN into ELSE o
<1>1. /\ area \in OnAFace(rm) /\ into \in face /\ area.piece = into.piece
      /\ \A x \in face : im(x) \in OnAFace(to) /\ im(x).id = x.id
      /\ \A c \in OnAFace(to) : \E x \in face : c = im(x)
      /\ \A x, y \in face : Earlier(At(to, im(x)), At(to, im(y))) <=> E(x, y)
      /\ \A x \in face \ {into} : (E(x, area) <=> E(x, into)) /\ (E(area, x) <=> E(into, x))
  BY DEF Closes, Stayed
<1>2. \A x \in face :
        /\ \A q \in Rules : EntryAreaOf(to, to.rules[q]) = x.id
             <=> \/ EntryAreaOf(rm, rm.rules[q]) = x.id
                 \/ EntryAreaOf(rm, rm.rules[q]) = area.id /\ x = into
        /\ im(x) \in Starting(to) <=> x \in S \/ (area \in S /\ x = into)
  BY EntriesClose
<1>3. \A x \in OnAFace(rm) : ~E(x, x)
  BY PlacesAreOrdered
<1>4. area \in S => ~E(into, area) /\ into \notin S
  <2>1. /\ E(into, area) <=> into.position < area.position
        /\ area \in S => ~(into.position < area.position)
        /\ area.position < into.position => into \notin S
    BY <1>1, SharedRun
  <2> QED BY <2>1 DEF Adjoins
<1>5. Opening(to, r) \in OnAFace(to) /\ Opening(to, r).id = EntryAreaOf(to, to.rules[r])
  BY RunIsOf
<1> HIDE DEF im
<1>6. PICK a \in face : Opening(to, r) = im(a)
  BY <1>1, <1>5
<1>7. r \in Rules /\ EntryAreaOf(to, to.rules[r]) = a.id
  BY <1>1, <1>5, <1>6 DEF Rules
<1>8. EntryAreaOf(rm, rm.rules[r]) = a.id \/ (EntryAreaOf(rm, rm.rules[r]) = area.id /\ a = into)
  BY <1>2, <1>7
<1>9. Survey(rm).bands[r].open
  <2>1. a.id # Null /\ area.id # Null
    BY <1>1, AtIs, FacesFinite DEF FaceIsFinite
  <2> QED BY <1>8, <2>1, OpenIs
<1>10. o \in OnAFace(rm) /\ o \in S /\ o.id = EntryAreaOf(rm, rm.rules[r])
  BY <1>9, RunIsOf
<1> HIDE DEF o, face
<1>11. opens = a
  <2>1. o = a \/ (o = area /\ a = into)
    BY <1>1, <1>8, <1>10, SamePlank DEF face
  <2> QED BY <2>1 DEF face
<1>12. opens \in face /\ Opening(to, r) = im(opens)
  BY <1>6, <1>11
<1> HIDE DEF E
<1>13. ASSUME NEW x \in face
       PROVE  im(x) \in RunOf(to, im(opens)) <=>
                /\ ~E(x, opens)
                /\ \A s \in face : (s \in S \/ (area \in S /\ s = into)) /\ E(opens, s) => E(x, s)
  <2>1. \A s \in Starting(to) : s \in OnAFace(to)
    BY DEF Starting
  <2>2. (\A s \in Starting(to) : Earlier(At(to, im(opens)), At(to, s)) => Earlier(At(to, im(x)), At(to, s)))
          <=> \A y \in face : im(y) \in Starting(to) =>
                (Earlier(At(to, im(opens)), At(to, im(y))) => Earlier(At(to, im(x)), At(to, im(y))))
    BY <1>1, <2>1
  <2>3. (\A y \in face : im(y) \in Starting(to) =>
            (Earlier(At(to, im(opens)), At(to, im(y))) => Earlier(At(to, im(x)), At(to, im(y)))))
          <=> \A s \in face : (s \in S \/ (area \in S /\ s = into)) /\ E(opens, s) => E(x, s)
    BY <1>1, <1>2, <1>12 DEF E
  <2>4. im(x) \in OnAFace(to) /\ (Earlier(At(to, im(x)), At(to, im(opens))) <=> E(x, opens))
    BY <1>1, <1>12 DEF E
  <2> HIDE DEF opens, S
  <2> QED BY <2>2, <2>3, <2>4 DEF RunOf
<1>14. \A x \in face : x \in RunOf(rm, o) <=> ~E(x, o) /\ \A s \in S : E(o, s) => E(x, s)
  BY DEF RunOf, E, face
<1>15. S \subseteq face \cup {area}
  BY DEF Starting, face
<1>16. /\ area \notin face
       /\ \A x \in OnAFace(rm) : ~E(x, x)
       /\ \A x \in face : x # into => (E(x, area) <=> E(x, into)) /\ (E(area, x) <=> E(into, x))
       /\ area \in S => ~E(into, area) /\ into \notin S
  BY <1>1, <1>3, <1>4 DEF E, face
<1>17. into \in face /\ into \in OnAFace(rm) /\ o \in S
  BY <1>1, <1>10 DEF face
<1> HIDE DEF S
<1>18. ASSUME NEW x \in face
       PROVE  (/\ ~E(x, opens)
               /\ \A s \in face : (s \in S \/ (area \in S /\ s = into)) /\ E(opens, s) => E(x, s))
              <=> ~E(x, o) /\ \A s \in S : E(o, s) => E(x, s)
  <2>1. CASE o = area
    <3>1. opens = into /\ area \in S /\ into \notin S /\ ~E(into, area) /\ ~E(into, into) /\ ~E(area, area)
      BY <1>1, <1>16, <1>17, <2>1
    <3>2. E(x, into) <=> E(x, area)
      BY <1>16, <3>1
    <3>3. (\A s \in face : (s \in S \/ s = into) /\ E(into, s) => E(x, s))
            <=> \A s \in face : s \in S /\ E(into, s) => E(x, s)
      BY <3>1
    <3>4. (\A s \in face : s \in S /\ E(into, s) => E(x, s)) <=> \A s \in face : s \in S /\ E(area, s) => E(x, s)
      BY <1>16, <3>1
    <3>5. (\A s \in face : s \in S /\ E(area, s) => E(x, s)) <=> \A s \in S : E(area, s) => E(x, s)
      BY <1>15, <3>1
    <3> QED BY <2>1, <3>1, <3>2, <3>3, <3>4, <3>5
  <2>2. CASE o # area
    <3>1. opens = o
      BY <2>2
    <3>2. CASE area \notin S
      BY <1>15, <3>1, <3>2
    <3>3. CASE area \in S
      <4>1. into \notin S /\ o # into /\ o \in face /\ ~E(into, area) /\ ~E(into, into)
        BY <1>15, <1>16, <1>17, <2>2, <3>3
      <4>2. (E(o, area) <=> E(o, into)) /\ (E(x, area) <=> E(x, into))
        BY <1>16, <4>1
      <4>3. (\A s \in face : (s \in S \/ s = into) /\ E(o, s) => E(x, s))
              <=> (\A s \in face : s \in S /\ E(o, s) => E(x, s)) /\ (E(o, into) => E(x, into))
        BY <1>17
      <4>4. (\A s \in S : E(o, s) => E(x, s))
              <=> (\A s \in face : s \in S /\ E(o, s) => E(x, s)) /\ (E(o, area) => E(x, area))
        BY <1>15, <3>3
      <4> QED BY <3>1, <3>3, <4>2, <4>3, <4>4
    <3> QED BY <3>2, <3>3
  <2> QED BY <2>1, <2>2
<1> QED BY <1>9, <1>12, <1>13, <1>14, <1>18 DEF im, o, face

\* And each key falls where it fell, or on the plank that took its books.
LEMMA KeysClose ==
  ASSUME NEW rm, Sound(rm, Nat), Level(rm), NEW to, Sound(to, Nat), Level(to), NEW area, NEW into,
         Closes(rm, to, area, into), Adjoins(rm, area, into), Share(rm, area, into),
         into = Absorbing(rm, area),
         \A q \in Rules : to.rules[q] =
           IF rm.rules[q].area = area.id THEN [area |-> Null, piece |-> area.piece] ELSE rm.rules[q],
         Straight(rm, Survey(rm)), NEW r \in Ranges, Survey(to).bands[r].open, NEW key \in Nat
  PROVE  AreaOfKey(Survey(to).bands[r].run, key) =
           IF AreaOfKey(Survey(rm).bands[r].run, key) = area.id THEN into.id
           ELSE AreaOfKey(Survey(rm).bands[r].run, key)
<1> DEFINE im(x) == Row(to, x.id)
           face == OnAFace(rm) \ {area}
           E(x, y) == Earlier(At(rm, x), At(rm, y))
           o == Opening(rm, r)
           opens == IF o = area THEN into ELSE o
           run == RunOf(rm, o)
           then == RunOf(to, Opening(to, r))
           last == area.position < into.position
           from(x) == IF x = into /\ last THEN area.startsAt ELSE x.startsAt
<1>1. /\ area \in OnAFace(rm) /\ into \in face /\ into # area /\ area.piece = into.piece
      /\ \A x \in face : im(x) \in OnAFace(to) /\ im(x).id = x.id
      /\ \A c \in OnAFace(to) : \E x \in face : c = im(x)
      /\ \A x, y \in face : Earlier(At(to, im(x)), At(to, im(y))) <=> E(x, y)
      /\ \A x \in face \ {into} : (E(x, area) <=> E(x, into)) /\ (E(area, x) <=> E(into, x))
  BY DEF Closes, Stayed
<1>2. \A x \in OnAFace(rm) : x.startsAt \in Nat /\ x.position \in Int /\ x.id # Null
  BY AtIs, FacesFinite DEF FaceIsFinite
<1>3. \A x \in face : im(x).startsAt = from(x)
  <2>1. \A x \in face : im(x).startsAt = Anchor(rm, area, x)
    BY DEF Closes, Stayed
  <2>2. \A x \in face : Anchor(rm, area, x) = from(x)
    BY DEF Anchor
  <2> HIDE DEF im, from, face
  <2> QED BY <2>1, <2>2
<1>4. Survey(rm).bands[r].open /\ Opening(to, r) = im(opens) /\ \A x \in face : im(x) \in then <=> x \in run
  BY RunsClose
<1>5. o \in OnAFace(rm) /\ o \in Starting(rm) /\ o.id = EntryAreaOf(rm, rm.rules[r]) /\ Rising(rm, o)
  BY <1>4, RunIsOf, StraightRises
<1>6. /\ E(area, into) <=> area.position < into.position
      /\ E(into, area) <=> into.position < area.position
      /\ area \in Starting(rm) => ~(into.position < area.position)
      /\ last => into \notin Starting(rm)
      /\ area \in run <=> into \in run
  BY <1>1, <1>5, SharedRun
<1>7. ~E(into, into) /\ ~E(area, area)
  BY <1>1, PlacesAreOrdered
<1>8. (last <=> E(area, into)) /\ (~last <=> E(into, area)) /\ (o = area => last) /\ (last => o # into)
  BY <1>1, <1>2, <1>5, <1>6 DEF Adjoins
<1>9. run \subseteq OnAFace(rm) /\ then \subseteq OnAFace(to) /\ opens \in face
  BY <1>1, <1>5 DEF RunOf
<1>10. \A x, y \in run : x # o /\ E(x, y) => x.startsAt <= y.startsAt
  BY <1>5 DEF Rising
<1>11. \A y \in then : \E x \in face \cap run : y = im(x)
  BY <1>1, <1>4, <1>9
<1> HIDE DEF im, E, run, then, o
<1>12. /\ \A x \in face : x.startsAt \in Nat /\ from(x) \in Nat
       /\ area.startsAt \in Nat /\ into.startsAt \in Nat /\ into \in OnAFace(rm)
  BY <1>1, <1>2
<1> HIDE DEF last
<1>13. Rising(to, Opening(to, r))
  <2>1. ASSUME NEW x \in face \cap run, NEW y \in face \cap run, x # opens, E(x, y) PROVE from(x) <= from(y)
    <3>1. x # o /\ x # area /\ y # area
      BY <2>1, <1>1
    <3>2. CASE x = into /\ last
      <4>1. o # area /\ area \in run /\ y # into /\ E(area, y)
        BY <1>1, <1>6, <1>7, <2>1, <3>1, <3>2
      <4>2. area.startsAt <= y.startsAt
        BY <1>10, <4>1
      <4> QED BY <3>2, <4>1, <4>2
    <3>3. CASE y = into /\ last
      <4>1. area \in run /\ x # into /\ E(x, area)
        BY <1>1, <1>6, <1>7, <2>1, <3>1, <3>3
      <4>2. x.startsAt <= area.startsAt
        BY <1>10, <3>1, <4>1
      <4> QED BY <3>3, <4>1, <4>2
    <3>4. CASE ~(x = into /\ last) /\ ~(y = into /\ last)
      BY <1>10, <2>1, <3>1, <3>4
    <3> QED BY <3>2, <3>3, <3>4
  <2>2. ASSUME NEW x \in then, NEW y \in then, x # im(opens), Earlier(At(to, x), At(to, y))
        PROVE  x.startsAt <= y.startsAt
    <3>1. PICK v \in face \cap run : x = im(v)
      BY <1>11
    <3>2. PICK w \in face \cap run : y = im(w)
      BY <1>11
    <3> HIDE DEF opens
    <3>3. v # opens /\ E(v, w)
      BY <1>1, <2>2, <3>1, <3>2
    <3>4. from(v) <= from(w)
      BY <2>1, <3>3
    <3> QED BY <1>3, <3>1, <3>2, <3>4
  <2> QED BY <1>4, <2>2 DEF Rising, then
<1>14. PICK c : FallsOn(rm, o, key, c)
  BY <1>4, <1>5, KeyFalls DEF o
<1>15. AreaOfKey(Survey(rm).bands[r].run, key) = c.id
  BY <1>4, <1>5, <1>14, KeyFalls DEF o
<1>16. /\ c \in run /\ (c = o \/ c.startsAt <= key)
       /\ \A d \in run : E(c, d) => key < d.startsAt
  BY <1>14 DEF FallsOn, run, E
<1> DEFINE takes == IF c = area THEN into ELSE c
<1>17. takes \in face /\ takes \in run /\ im(takes) \in then
  BY <1>1, <1>4, <1>6, <1>9, <1>16
<1>18. takes = opens \/ from(takes) <= key
  <2>1. CASE c = area
    <3>1. takes = into
      BY <2>1
    <3>2. CASE last
      BY <1>16, <2>1, <3>1, <3>2
    <3>3. CASE ~last
      <4>1. o # area /\ opens = o /\ area.startsAt <= key /\ E(into, area) /\ into \in run
        BY <1>6, <1>8, <1>16, <2>1, <3>3
      <4>2. CASE into = o
        BY <3>1, <4>1, <4>2
      <4>3. CASE into # o
        <5>1. into.startsAt <= area.startsAt
          BY <1>10, <1>16, <2>1, <4>1, <4>3
        <5> QED BY <1>12, <3>1, <3>3, <4>1, <5>1
      <4> QED BY <4>2, <4>3
    <3> QED BY <3>2, <3>3
  <2>2. CASE c = into /\ last
    <3>1. takes = into /\ o # into /\ into.startsAt <= key
      BY <1>1, <1>8, <1>16, <2>2
    <3>2. CASE o = area
      BY <3>1, <3>2
    <3>3. CASE o # area
      <4>1. area \in run /\ E(area, into)
        BY <1>6, <1>8, <1>16, <2>2
      <4>2. area.startsAt <= into.startsAt
        BY <1>10, <1>16, <2>2, <3>3, <4>1
      <4> QED BY <1>12, <2>2, <3>1, <4>2
    <3> QED BY <3>2, <3>3
  <2>3. CASE c # area /\ ~(c = into /\ last)
    BY <1>16, <2>3
  <2> QED BY <2>1, <2>2, <2>3
<1>19. ASSUME NEW d \in face \cap run, E(takes, d) PROVE key < from(d)
  <2>1. CASE d = into /\ last
    <3>1. c # area /\ c # into /\ takes = c /\ area \in run
      BY <1>1, <1>6, <1>7, <1>19, <2>1
    <3>2. E(c, area)
      BY <1>1, <1>17, <1>19, <2>1, <3>1
    <3> QED BY <1>16, <2>1, <3>1, <3>2
  <2>2. CASE ~(d = into /\ last)
    <3>1. E(c, d)
      <4>1. CASE c = area
        <5>1. takes = into /\ d # into
          BY <1>7, <1>19, <4>1
        <5> QED BY <1>1, <1>19, <4>1, <5>1
      <4>2. CASE c # area
        BY <1>19, <4>2
      <4> QED BY <4>1, <4>2
    <3> QED BY <1>16, <2>2, <3>1
  <2> QED BY <2>1, <2>2
<1> HIDE DEF takes, opens, from
<1>20. FallsOn(to, Opening(to, r), key, im(takes))
  <2>1. im(takes) = im(opens) \/ im(takes).startsAt <= key
    BY <1>3, <1>17, <1>18
  <2>2. ASSUME NEW d \in then, Earlier(At(to, im(takes)), At(to, d)) PROVE key < d.startsAt
    <3>1. PICK x \in face \cap run : d = im(x)
      BY <1>11
    <3>2. E(takes, x)
      BY <1>1, <1>17, <2>2, <3>1
    <3> QED BY <1>3, <1>19, <3>1, <3>2
  <2> QED BY <1>4, <1>17, <2>1, <2>2 DEF FallsOn, then
<1>21. AreaOfKey(Survey(to).bands[r].run, key) = takes.id
  <2>1. AreaOfKey(Survey(to).bands[r].run, key) = im(takes).id
    BY <1>13, <1>20, KeyFalls
  <2> QED BY <1>1, <1>17, <2>1
<1>22. c.id = area.id <=> c = area
  BY <1>1, <1>9, <1>16, SamePlank
<1> QED BY <1>15, <1>21, <1>22 DEF takes

-----------------------------------------------------------------------------
(* The carry list *)

\* A book whose answer is looked at is on its way there, unless nobody may move it or
\* it has been declined.
LEMMA AssignedFollows ==
  ASSUME NEW W, NEW where \in StandingIn(W), ~LeftAlone(where), NEW wanted, NEW then,
         then = IF AssignmentFor(where, wanted) = Nowhere THEN where
                ELSE AfterRow(where, [kind |-> "assigned", area |-> AssignmentFor(where, wanted)]),
         wanted \notin {Nowhere, then.declined}
  PROVE  Owed(then) = wanted
<1>1. CASE AssignmentFor(where, wanted) = Nowhere
  BY <1>1 DEF AssignmentFor, Owed
<1>2. CASE AssignmentFor(where, wanted) # Nowhere
  <2>1. AssignmentFor(where, wanted) = wanted
    BY <1>2, AssignmentIs
  <2>2. then.assigned = wanted
    BY <1>2, <2>1 DEF AfterRow, Refused, StandingIn
  <2> QED BY <2>2 DEF Owed
<1> QED BY <1>1, <1>2

\* What is read of a room is what was read of it before the names were noted.
LEMMA DoneIsRead ==
  ASSUME Sound(room', Nat), NEW new, NEW where, NEW said, Done(new, where, said)
  PROVE  /\ SameFurniture(new, room') /\ Survey(new) = survey'
         /\ walk'.belonging = Belonging(Survey(new))
         /\ OnAFace(new) = OnAFace(room')
         /\ standing' = where /\ did' = said
<1>1. /\ room' = Naming(new, where) /\ survey' = Survey(room') /\ walk' = Walk(room', survey')
      /\ standing' = where /\ did' = said
  BY DEF Done
<1>2. SameFurniture(new, room')
  BY <1>1, NamingReads
<1>3. Survey(new) = Survey(room') /\ OnAFace(new) = OnAFace(room')
  BY <1>2, SurveyReads, PlacesRead
<1>4. walk'.belonging = Belonging(survey')
  BY <1>1 DEF Walk
<1> QED BY <1>1, <1>2, <1>3, <1>4

LEMMA MovedByIs ==
  ASSUME NEW new, NEW where, NEW b \in Books
  PROVE  MovedBy(new, where)[b] =
           IF walk.belonging[b] = Belonging(Survey(new))[b] \/ AssignmentFor(where[b], Belonging(Survey(new))[b]) = Nowhere
           THEN where[b]
           ELSE AfterRow(where[b], [kind |-> "assigned", area |-> AssignmentFor(where[b], Belonging(Survey(new))[b])])
BY DEF MovedBy, Assigned

\* The books whose answer a change of the room changed follow it.
LEMMA MovedFollows ==
  ASSUME NEW W, standing \in WhereIn(W), NEW new, NEW b \in Books,
         standing'[b] = MovedBy(new, standing)[b], walk'.belonging = Belonging(Survey(new))
  PROVE  FollowsTheRules(b)
<1> SUFFICES ASSUME ~LeftAlone(standing[b]), walk'.belonging[b] \notin {Nowhere, standing'[b].declined},
                    Owed(standing[b]) = walk.belonging[b]
             PROVE  Owed(standing'[b]) = walk'.belonging[b]
  BY DEF FollowsTheRules
<1> DEFINE is == walk'.belonging[b]
<1>1. /\ standing[b] \in StandingIn(W)
      /\ standing'[b] = IF walk.belonging[b] = is \/ AssignmentFor(standing[b], is) = Nowhere THEN standing[b]
                        ELSE AfterRow(standing[b], [kind |-> "assigned", area |-> AssignmentFor(standing[b], is)])
  BY MovedByIs DEF WhereIn
<1>2. is \notin {Nowhere, standing'[b].declined}
  OBVIOUS
<1>3. CASE walk.belonging[b] = is
  BY <1>1, <1>3
<1> HIDE DEF is
<1>4. CASE walk.belonging[b] # is
  <2>1. standing'[b] = IF AssignmentFor(standing[b], is) = Nowhere THEN standing[b]
                       ELSE AfterRow(standing[b], [kind |-> "assigned", area |-> AssignmentFor(standing[b], is)])
    BY <1>1, <1>4
  <2>2. Owed(standing'[b]) = is
    BY <1>1, <1>2, <2>1, AssignedFollows
  <2> QED BY <2>2 DEF is
<1> QED BY <1>3, <1>4

\* A book no run's answer of which has changed, and which is owed what it was.
LEMMA SameFollows ==
  ASSUME NEW b, walk'.belonging = walk.belonging, Owed(standing'[b]) = Owed(standing[b])
  PROVE  FollowsTheRules(b)
BY DEF FollowsTheRules

LEMMA RearrangedFollows ==
  ASSUME IInv, IInv', NEW new, NEW said, Rearranged(new, said), NEW b \in Books
  PROVE  FollowsTheRules(b)
<1>1. Sound(room', Nat) /\ standing \in WhereIn(room.named \cup {Nowhere})
  BY DEF IInv, AllStands, Stands
<1>2. Done(new, MovedBy(new, standing), said)
  BY DEF Rearranged
<1>3. walk'.belonging = Belonging(Survey(new)) /\ standing' = MovedBy(new, standing)
  BY <1>1, <1>2, DoneIsRead
<1> QED BY <1>1, <1>3, MovedFollows

LEMMA RunRearrangedFollows ==
  ASSUME IInv, IInv', NEW range, NEW new, NEW said, RunRearranged(range, new, said),
         said.what \in OfOneRun, said.range = range, NEW b \in Books
  PROVE  CarryListHas(b)
<1>1. Sound(room', Nat) /\ standing \in WhereIn(room.named \cup {Nowhere})
  BY DEF IInv, AllStands, Stands
<1>2. Done(new, MovedIn(range, new, standing), said)
  BY DEF RunRearranged
<1>3. walk'.belonging = Belonging(Survey(new)) /\ standing' = MovedIn(range, new, standing) /\ did' = said
  BY <1>1, <1>2, DoneIsRead
<1>4. CASE RangeOf[b] = range
  <2>1. standing'[b] = MovedBy(new, standing)[b]
    BY <1>3, <1>4 DEF MovedIn
  <2> QED BY <1>1, <1>3, <2>1, MovedFollows DEF CarryListHas
<1>5. CASE RangeOf[b] # range
  BY <1>3, <1>5 DEF CarryListHas
<1> QED BY <1>4, <1>5

\* A plank taken out touches the rows of the books that are on it, or on their way.
LEMMA JoiningIs ==
  ASSUME NEW W, NEW where \in WhereIn(W), NEW rm, NEW id, NEW b \in Books
  PROVE  /\ Joining(rm, where, id)[b] = where[b] \/ id \in {where[b].area, where[b].assigned}
         /\ LeftAlone(Joining(rm, where, id)[b]) <=> LeftAlone(where[b])
<1> DEFINE to == AssignmentFor(where[b], Absorbing(rm, Row(rm, id)).id)
<1>1. where[b] \in StandingIn(W)
  BY DEF WhereIn
<1>2. Joining(rm, where, id)[b] = IF id \in {where[b].area, where[b].assigned} /\ to # Nowhere
                                  THEN AfterRow(where[b], [kind |-> "assigned", area |-> to]) ELSE where[b]
  BY DEF Joining
<1> HIDE DEF to
<1>3. LeftAlone(AfterRow(where[b], [kind |-> "assigned", area |-> to])) <=> LeftAlone(where[b])
  BY <1>1 DEF AfterRow, Refused, StandingIn, LeftAlone
<1> QED BY <1>2, <1>3

\* Where taking planks out has come to: none has come onto a face, and the books
\* touched were on one that has gone, or on their way there.
LeavingFrom(rm, where) ==
  {at \in Taking(Nat) :
     /\ IdsOf(OnAFace(at.room)) \subseteq IdsOf(OnAFace(rm))
     /\ \A b \in Books :
          /\ LeftAlone(at.where[b]) <=> LeftAlone(where[b])
          /\ at.where[b] = where[b] \/ \E d \in IdsOf(OnAFace(rm)) \ IdsOf(OnAFace(at.room)) :
                                         d \in {where[b].area, where[b].assigned}}

LEMMA DroppedLeaves ==
  ASSUME NEW rm, NEW where, NEW at \in LeavingFrom(rm, where), NEW id
  PROVE  Dropped(at, id) \in LeavingFrom(rm, where)
<1> DEFINE then == Dropped(at, id)
           without == Without(at.room, id)
           joined == Joining(at.room, at.where, id)
<1>1. /\ at \in Taking(Nat) /\ IdsOf(OnAFace(at.room)) \subseteq IdsOf(OnAFace(rm))
      /\ \A b \in Books :
           /\ LeftAlone(at.where[b]) <=> LeftAlone(where[b])
           /\ at.where[b] = where[b] \/ \E d \in IdsOf(OnAFace(rm)) \ IdsOf(OnAFace(at.room)) :
                                          d \in {where[b].area, where[b].assigned}
  BY DEF LeavingFrom
<1>2. then \in Taking(Nat)
  BY <1>1, DroppedTakes
<1>3. CASE ~at.ok \/ ~CanDrop(at.room, id)
  <2>1. then = [at EXCEPT !.ok = FALSE]
    BY <1>3 DEF Dropped
  <2>2. then.room = at.room /\ then.where = at.where
    BY <1>1, <2>1 DEF Taking
  <2> HIDE DEF then
  <2>3. then \in LeavingFrom(rm, where)
    BY <1>1, <1>2, <2>2 DEF LeavingFrom
  <2> QED BY <2>3 DEF then
<1>4. CASE ~(~at.ok \/ ~CanDrop(at.room, id))
  <2>1. then = [ok |-> TRUE, where |-> joined, room |-> Naming(without, joined)]
    BY <1>4 DEF Dropped
  <2>2. Sound(at.room, Nat) /\ at.where \in WhereIn(at.room.named \cup {Nowhere}) /\ Sound(then.room, Nat)
    BY <1>1, <1>2 DEF Taking
  <2>3. id \in IdsOf(OnAFace(at.room)) /\ IdsOf(OnAFace(without)) \subseteq IdsOf(OnAFace(at.room)) \ {id}
    BY <1>4, <2>2, WithoutSound DEF CanDrop
  <2> HIDE DEF without
  <2>4. OnAFace(then.room) = OnAFace(without)
    <3>1. then.room = Naming(without, joined)
      BY <2>1
    <3>2. SameFurniture(without, then.room)
      BY <2>2, <3>1, NamingReads
    <3> QED BY <3>2, PlacesRead
  <2>5. ASSUME NEW b \in Books
        PROVE  /\ LeftAlone(joined[b]) <=> LeftAlone(where[b])
               /\ joined[b] = where[b] \/ \E d \in IdsOf(OnAFace(rm)) \ IdsOf(OnAFace(then.room)) :
                                            d \in {where[b].area, where[b].assigned}
    <3>1. /\ joined[b] = at.where[b] \/ id \in {at.where[b].area, at.where[b].assigned}
          /\ LeftAlone(joined[b]) <=> LeftAlone(at.where[b])
      BY <2>2, JoiningIs
    <3> HIDE DEF joined, then
    <3>2. IdsOf(OnAFace(then.room)) \subseteq IdsOf(OnAFace(at.room)) \ {id}
      BY <2>3, <2>4
    <3>3. LeftAlone(joined[b]) <=> LeftAlone(where[b])
      BY <1>1, <3>1
    <3>4. CASE at.where[b] = where[b]
      BY <1>1, <2>3, <3>1, <3>2, <3>3, <3>4
    <3>5. CASE at.where[b] # where[b]
      BY <1>1, <3>2, <3>3, <3>5
    <3> QED BY <3>4, <3>5
  <2>6. then.where = joined
    BY <2>1
  <2>7. IdsOf(OnAFace(then.room)) \subseteq IdsOf(OnAFace(rm))
    BY <1>1, <2>3, <2>4
  <2> HIDE DEF then, joined
  <2>8. then \in LeavingFrom(rm, where)
    BY <1>2, <2>5, <2>6, <2>7 DEF LeavingFrom
  <2> QED BY <2>8 DEF then
<1> QED BY <1>3, <1>4

LEMMA MoveAcrossFollows ==
  ASSUME IInv, IInv', NEW c \in Books, NEW way \in {"next", "previous"}, MoveAcross(c, way), NEW b \in Books
  PROVE  CarryListHas(b)
<1> DEFINE crossed == CrossedIds(c, way)
           range == RangeOf[c]
           key == IF way = "next" THEN Key[c] ELSE Min(After(c))
           shifted == IF Removes(c, way) THEN room
                      ELSE ReanchorAll(room, survey, [k \in DOMAIN crossed |-> [id |-> crossed[k], startsAt |-> key]])
           at == [ok |-> TRUE, room |-> shifted, where |-> standing]
           out == IF Removes(c, way) THEN crossed ELSE <<>>
           done == FoldLeft(Dropped, at, out)
           said == [what |-> "crossing", range |-> range, book |-> c, to |-> PlankOfKey(survey, range, Neighbour(c, way))]
           is == walk'.belonging[b]
<1>1. Done(done.room, MovedIn(range, done.room, done.where), said)
  BY DEF MoveAcross
<1>2. PICK k \in Nat : DOMAIN crossed = 1 .. k
  BY CrossedIsList DEF IInv
<1> HIDE DEF crossed, key
<1>3. /\ Sound(room, Nat) /\ standing \in WhereIn(room.named \cup {Nowhere}) /\ Sound(room', Nat)
      /\ Nowhere = Null
  BY ShelvesAssumption DEF IInv, AllStands, Stands
<1>4. said.what = "crossing" /\ said.range = range
  OBVIOUS
<1> HIDE DEF said
<1>5. /\ walk'.belonging = Belonging(Survey(done.room)) /\ OnAFace(done.room) = OnAFace(room')
      /\ standing' = MovedIn(range, done.room, done.where) /\ did' = said
  BY <1>1, <1>3, DoneIsRead
<1>6. CASE range # RangeOf[b]
  BY <1>4, <1>5, <1>6 DEF CarryListHas, OfOneRun
<1>7. CASE range = RangeOf[b] /\ ~Removes(c, way)
  <2>1. done.where = standing
    <3>1. out = <<>>
      BY <1>7
    <3> DEFINE D == {at}
    <3>2. at \in D /\ \A one \in D : \A x \in 1 .. 0 : Dropped(one, out[x]) \in D
      OBVIOUS
    <3>3. 0 \in Nat /\ DOMAIN out = 1 .. 0
      BY <3>1
    <3> HIDE DEF D, at, out
    <3>4. done \in D
      BY <3>2, <3>3, DroppedStays
    <3> QED BY <3>4 DEF D, at
  <2> HIDE DEF done
  <2>2. standing'[b] = MovedBy(done.room, standing)[b]
    BY <1>5, <1>7, <2>1 DEF MovedIn
  <2> QED BY <1>3, <1>5, <2>2, MovedFollows DEF CarryListHas
<1>8. CASE range = RangeOf[b] /\ Removes(c, way)
  <2>1. at.room = room /\ at.where = standing /\ out = crossed
    BY <1>8
  <2>2. at \in Taking(Nat)
    BY <1>3, <1>8, TakingIs
  <2> HIDE DEF at, out
  <2>3. at \in LeavingFrom(room, standing)
    BY <2>1, <2>2 DEF LeavingFrom
  <2>4. done \in LeavingFrom(room, standing)
    <3> DEFINE D == LeavingFrom(room, standing)
    <3>1. at \in D /\ \A one \in D : \A x \in 1 .. k : Dropped(one, out[x]) \in D
      BY <2>3, DroppedLeaves
    <3> HIDE DEF D
    <3>2. done \in D
      BY <1>2, <2>1, <3>1, DroppedStays
    <3> QED BY <3>2 DEF D
  <2> HIDE DEF done
  <2>5. /\ LeftAlone(done.where[b]) <=> LeftAlone(standing[b])
        /\ done.where[b] = standing[b] \/ \E d \in IdsOf(OnAFace(room)) \ IdsOf(OnAFace(room')) :
                                            d \in {standing[b].area, standing[b].assigned}
        /\ done.where \in WhereIn(Nat) /\ done.where[b] \in StandingIn(Nat)
    BY <1>5, <2>4 DEF LeavingFrom, Taking, WhereIn
  <2>6. standing'[b] =
          IF walk.belonging[b] = is \/ AssignmentFor(done.where[b], is) = Nowhere
          THEN done.where[b]
          ELSE AfterRow(done.where[b], [kind |-> "assigned", area |-> AssignmentFor(done.where[b], is)])
    BY <1>5, <1>8, MovedByIs DEF MovedIn
  <2>7. is \in IdsOf(OnAFace(room')) \cup {Null}
    <3>1. walk'.belonging = Belonging(Survey(room'))
      BY DEF IInv, Walk
    <3> QED BY <1>3, <3>1, BelongingOnAFace
  <2> SUFFICES ASSUME ~LeavingAnyway(b), ~LeftAlone(standing[b]), is \notin {Nowhere, standing'[b].declined},
                      Owed(standing[b]) = walk.belonging[b]
               PROVE  Owed(standing'[b]) = is
    BY DEF CarryListHas, FollowsTheRules
  <2> HIDE DEF is
  <2>8. CASE walk.belonging[b] # is
    BY <2>5, <2>6, <2>8, AssignedFollows
  <2>9. CASE walk.belonging[b] = is /\ done.where[b] = standing[b]
    BY <2>6, <2>9
  <2>10. CASE walk.belonging[b] = is /\ done.where[b] # standing[b]
    <3>1. PICK d \in IdsOf(OnAFace(room)) \ IdsOf(OnAFace(room')) : d \in {standing[b].area, standing[b].assigned}
      BY <2>5, <2>10
    <3>2. d \in IdsOf(GoneAreas) /\ d # Nowhere
      <4>1. PICK a \in OnAFace(room) : a.id = d
        BY <3>1 DEF IdsOf
      <4>2. a.id # Null
        BY <1>3, <4>1 DEF OnAFace, Sound, RoomIn, AreaRowIn
      <4> QED BY <1>3, <3>1, <4>1, <4>2 DEF GoneAreas, IdsOf
    <3>3. is \in IdsOf(OnAFace(room')) /\ is # Nowhere /\ is \notin IdsOf(GoneAreas)
      BY <1>3, <2>7 DEF GoneAreas, IdsOf
    <3>4. CASE standing[b].assigned = Nowhere
      BY <2>10, <3>1, <3>2, <3>3, <3>4 DEF Owed
    <3>5. CASE standing[b].assigned # Nowhere
      <4>1. standing[b].assigned = is /\ standing[b].area = d
        BY <2>10, <3>1, <3>3, <3>5 DEF Owed
      <4> QED BY <3>2, <3>3, <4>1 DEF LeavingAnyway
    <3> QED BY <3>4, <3>5
  <2> QED BY <2>8, <2>9, <2>10
<1> QED BY <1>6, <1>7, <1>8

LEMMA PutDownFollows ==
  ASSUME IInv, IInv', NEW c \in Books, PutDown(c), NEW b \in Books
  PROVE  FollowsTheRules(b)
<1> DEFINE where == [standing EXCEPT ![c] = AfterRow(@, [kind |-> "placed", area |-> @.assigned])]
<1>1. Sound(room', Nat) /\ standing \in WhereIn(room.named \cup {Nowhere}) /\ walk.belonging = Belonging(Survey(room))
  BY DEF IInv, AllStands, Stands, Walk
<1>2. Done(room, where, Nothing) /\ NeedsAttention(standing[c])
  BY DEF PutDown
<1> HIDE DEF where
<1>3. walk'.belonging = walk.belonging /\ standing' = where
  BY <1>1, <1>2, DoneIsRead
<1>4. standing[c] \in StandingIn(room.named \cup {Nowhere}) /\ DOMAIN standing = Books
  BY <1>1 DEF WhereIn
<1>5. Owed(where[b]) = Owed(standing[b])
  <2>1. CASE b = c
    <3>1. where[b] = AfterRow(standing[c], [kind |-> "placed", area |-> standing[c].assigned])
      BY <1>4, <2>1 DEF where
    <3>2. where[b].assigned = standing[c].assigned
      BY <1>4, <3>1 DEF AfterRow, Refused, StandingIn
    <3>3. standing[c].assigned # Nowhere
      BY <1>2 DEF NeedsAttention
    <3> QED BY <2>1, <3>2, <3>3 DEF Owed
  <2>2. CASE b # c
    BY <1>4, <2>2 DEF where
  <2> QED BY <2>1, <2>2
<1> QED BY <1>3, <1>5, SameFollows

LEMMA HalfStrippedFollows ==
  ASSUME IInv, IInv', NEW said, Done(room, standing, said), NEW b \in Books
  PROVE  FollowsTheRules(b)
<1>1. Sound(room', Nat) /\ walk.belonging = Belonging(Survey(room))
  BY DEF IInv, AllStands, Stands, Walk
<1>2. walk'.belonging = walk.belonging /\ standing' = standing
  BY <1>1, DoneIsRead
<1> QED BY <1>2, SameFollows

\* What the rules answer in a room is what they answered before the names were noted.
LEMMA RuleAnswerIsRead ==
  ASSUME NEW new, SameFurniture(new, room'), Survey(new) = survey', NEW b
  PROVE  RuleAnswer(new, Survey(new), b) = RuleAnswer(room', survey', b)
BY PlacesRead DEF RuleAnswer, SameFurniture

\* In a straight room a book the rules were asked about is owed the plank its run
\* puts it on.
LEMMA AnsweredFollows ==
  ASSUME IInv, IInv', WalksAgree', NEW new, NEW books, NEW said,
         Done(new, AssignPlacements(RuleAnswers(new, Survey(new), books), standing), said),
         walk'.straight, NEW b \in Books, b \in books
  PROVE  FollowsTheRules(b)
<1> DEFINE answers == RuleAnswers(new, Survey(new), books)
           is == walk'.belonging[b]
<1>1. Sound(room', Nat) /\ standing[b] \in StandingIn(room.named \cup {Nowhere})
  BY DEF IInv, AllStands, Stands, WhereIn
<1>2. /\ SameFurniture(new, room') /\ Survey(new) = survey' /\ walk'.belonging = Belonging(survey')
      /\ standing' = AssignPlacements(answers, standing)
  BY <1>1, DoneIsRead
<1> SUFFICES ASSUME ~LeftAlone(standing[b]), is \notin {Nowhere, standing'[b].declined}
             PROVE  Owed(standing'[b]) = is
  BY DEF FollowsTheRules
<1>3. survey'.bands[RangeOf[b]].open
  <2>1. survey' = Survey(room')
    BY DEF IInv
  <2> QED BY <1>2, <2>1, BelongsSomewhere
<1>4. RuleAnswer(room', survey', b) = is
  BY <1>3 DEF WalksAgree
<1>5. answers[b] = is /\ b \in DOMAIN answers
  BY <1>2, <1>4, RuleAnswerIsRead DEF RuleAnswers
<1> HIDE DEF answers, is
<1>6. standing'[b] = IF AssignmentFor(standing[b], is) = Nowhere THEN standing[b]
                     ELSE AfterRow(standing[b], [kind |-> "assigned", area |-> AssignmentFor(standing[b], is)])
  BY <1>2, <1>5 DEF AssignPlacements
<1> QED BY <1>1, <1>6, AssignedFollows

LEMMA RuleChangeFollows ==
  ASSUME IInv, IInv', WalksAgree', NEW r, NEW place, RuleChange(r, place), NEW b \in Books
  PROVE  CarryListHas(b)
<1> DEFINE new == [room EXCEPT !.rules[r] = place]
           said == [what |-> "rule changed", rule |-> r]
<1>1. Sound(room', Nat)
  BY DEF IInv, AllStands, Stands
<1>2. Done(new, AssignPlacements(RuleAnswers(new, Survey(new), Books), standing), said) /\ said.what = "rule changed"
  BY DEF RuleChange
<1> HIDE DEF new, said
<1>3. did'.what = "rule changed"
  BY <1>1, <1>2, DoneIsRead
<1>4. walk'.straight => FollowsTheRules(b)
  BY <1>2, AnsweredFollows
<1> QED BY <1>3, <1>4 DEF CarryListHas

LEMMA CarryListStep ==
  ASSUME IInv, IInv', WalksAgree', Next, NEW b \in Books
  PROVE  CarryListHas(b)
<1>1. Sound(room', Nat)
  BY DEF IInv, AllStands, Stands
<1>2. ASSUME FollowsTheRules(b) PROVE CarryListHas(b)
  BY <1>2 DEF CarryListHas
<1>3. ASSUME NEW new, NEW where, NEW said, Done(new, where, said), said.what \in OfPlanks
      PROVE  CarryListHas(b)
  BY <1>1, <1>3, DoneIsRead DEF CarryListHas
<1>4. ASSUME NEW range, NEW at, NEW kind, Overflow(range, at, kind) PROVE CarryListHas(b)
  <2>1. PICK new, said : RunRearranged(range, new, said) /\ said.what = "overflow" /\ said.range = range
    BY <1>4 DEF Overflow
  <2> QED BY <2>1, RunRearrangedFollows DEF OfOneRun
<1>5. ASSUME NEW range, NEW key, NEW kind, CarryOn(range, key, kind) PROVE CarryListHas(b)
  <2> DEFINE plan == CarryOnStep(range, PlankOfKey(survey, range, key), key, kind)
             said == [what |-> "carry on", range |-> range, key |-> key, to |-> plan.to]
  <2>1. RunRearranged(range, Applied(range, plan), said)
    BY <1>5 DEF CarryOn
  <2>2. said.what \in OfOneRun /\ said.range = range
    BY DEF OfOneRun
  <2> HIDE DEF said
  <2> QED BY <2>1, <2>2, RunRearrangedFollows
<1>6. ASSUME NEW c, Retract(c) PROVE CarryListHas(b)
  <2>1. PICK new, said : RunRearranged(RangeOf[c], new, said) /\ said.what = "retraction" /\ said.range = RangeOf[c]
    BY <1>6 DEF Retract, TakeBack
  <2> QED BY <2>1, RunRearrangedFollows DEF OfOneRun
<1>7. ASSUME NEW new, NEW said, Rearranged(new, said) PROVE CarryListHas(b)
  BY <1>2, <1>7, RearrangedFollows
<1>8. ASSUME walk' = walk, standing' = standing PROVE CarryListHas(b)
  BY <1>2, <1>8, SameFollows
<1>9. ASSUME NEW range, NEW to, RelocateRun(range, to) PROVE CarryListHas(b)
  <2>1. PICK new, half, planned : Relocation(range, new, half, planned)
    BY <1>9 DEF RelocateRun
  <2> DEFINE where == AssignPlacements(RuleAnswers(new, Survey(new), BooksOfRun(range)), standing)
             moved == [what |-> "run moved", range |-> range, planned |-> planned]
             stripped == [what |-> "half stripped", range |-> range]
  <2>2. Done(new, where, moved) \/ Done(room, standing, stripped)
    BY <2>1 DEF Relocation
  <2>3. moved.what \in OfPlanks
    BY DEF OfPlanks
  <2> HIDE DEF where, moved, stripped
  <2> QED BY <1>2, <1>3, <2>2, <2>3, HalfStrippedFollows
<1>10. CASE \E range \in Ranges, at \in Slots, kind \in Kinds : Overflow(range, at, kind)
  BY <1>4, <1>10
<1>11. CASE \E range \in Ranges, c \in Books, kind \in Kinds : CarryOn(range, Key[c] + 1, kind)
  BY <1>5, <1>11
<1>12. CASE \E c \in Books, way \in {"next", "previous"} : MoveAcross(c, way)
  BY <1>12, MoveAcrossFollows
<1>13. CASE \E c \in Books : Retract(c) \/ PutDown(c) \/ ClearMove(c)
  <2>1. PICK c \in Books : Retract(c) \/ PutDown(c) \/ ClearMove(c)
    BY <1>13
  <2>2. CASE Retract(c)
    BY <1>6, <2>2
  <2>3. CASE PutDown(c)
    BY <1>2, <2>3, PutDownFollows
  <2>4. CASE ClearMove(c)
    BY <1>8, <2>4 DEF ClearMove
  <2> QED BY <2>1, <2>2, <2>3, <2>4
<1>14. CASE \E position \in Positions : AddPiece(position)
  BY <1>8, <1>14 DEF AddPiece
<1>15. CASE \E f \in room.pieces, position \in Positions : Renumber(f, position)
  BY <1>7, <1>15 DEF Renumber
<1>16. CASE \E f \in room.pieces : DropPiece(f)
  <2>1. PICK f \in room.pieces : DropPiece(f)
    BY <1>16
  <2> DEFINE said == [what |-> "piece gone", piece |-> f.id]
  <2>2. \E new : Done(new, standing, said)
    BY <2>1 DEF DropPiece
  <2>3. said.what \in OfPlanks
    BY DEF OfPlanks
  <2> HIDE DEF said
  <2> QED BY <1>3, <2>2, <2>3
<1>17. CASE \E f \in room.pieces, landing \in 0 .. Cardinality(room.areas) :
              \E said \in Anchors \cup {NotSaid}, own \in BOOLEAN : AddArea(f, landing, said, own)
  <2>1. PICK f \in room.pieces, landing \in 0 .. Cardinality(room.areas) :
          \E said \in Anchors \cup {NotSaid}, own \in BOOLEAN : AddArea(f, landing, said, own)
    BY <1>17
  <2>2. PICK typed \in Anchors \cup {NotSaid}, own \in BOOLEAN : AddArea(f, landing, typed, own)
    BY <2>1
  <2>3. \E new, said : Rearranged(new, said)
    BY <2>2 DEF AddArea
  <2> QED BY <1>7, <2>3
<1>18. CASE \E a \in OnAFace(room) : DropArea(a.id)
  <2>1. PICK a \in OnAFace(room) : DropArea(a.id)
    BY <1>18
  <2> DEFINE said == [what |-> "area gone", area |-> a.id]
  <2>2. \E new, where : Done(new, where, said)
    BY <2>1 DEF DropArea
  <2>3. said.what \in OfPlanks
    BY DEF OfPlanks
  <2> HIDE DEF said
  <2> QED BY <1>3, <2>2, <2>3
<1>19. CASE \E a \in OnAFace(room) : \E edit \in Edits(a) : EditArea(a, edit.landing, edit.startsAt, edit.own)
  <2>1. PICK a \in OnAFace(room) : \E edit \in Edits(a) : EditArea(a, edit.landing, edit.startsAt, edit.own)
    BY <1>19
  <2>2. PICK edit \in Edits(a) : EditArea(a, edit.landing, edit.startsAt, edit.own)
    BY <2>1
  <2>3. \E new, said : Rearranged(new, said)
    BY <2>2 DEF EditArea
  <2> QED BY <1>7, <2>3
<1>20. CASE \E r \in OtherRules, place \in Places \cup {Unplaced} : RuleChange(r, place)
  BY <1>20, RuleChangeFollows
<1>21. CASE \E range \in Ranges, to \in Positions : RelocateRun(range, to)
  BY <1>9, <1>21
<1> QED
  BY <1>10, <1>11, <1>12, <1>13, <1>14, <1>15, <1>16, <1>17, <1>18, <1>19, <1>20, <1>21 DEF Next

\* When a boundary is moved or carried on to, a piece renumbered, a plank added or
\* edited or a rule written, every book whose run puts it elsewhere than before is
\* owed the move there, if it was where its run had it or on its way.
THEOREM CarryListIsComplete == Spec => CarryListFollows
<1>1. Init => IInv
  BY InitStands
<1>2. IInv /\ [Next]_vars => IInv'
  BY NextStands
<1>3. IInv => WalksAgree
  BY WalksOfARoom DEF IInv, AllStands, Stands
<1>4. IInv /\ IInv' /\ WalksAgree' /\ [Next]_vars => [\A b \in Books : CarryListHas(b)]_vars
  BY CarryListStep
<1> QED BY <1>1, <1>2, <1>3, <1>4, PTL DEF Spec, CarryListFollows

-----------------------------------------------------------------------------
(* Books go with their planks *)

\* What is left then of the areas: those that were not on the list, and on the
\* piece of the list rows off its face.
TakenOff(rm, to, ids, s, piece) ==
  /\ \A c \in to.areas : \/ c \in rm.areas /\ \A i \in s : c.id # ids[i]
                         \/ c.piece = piece /\ c.position < 0 /\ \E i \in s : c.id = ids[i]
  /\ \A c \in rm.areas : (\A i \in s : c.id # ids[i]) => c \in to.areas
LEMMA GoneIs ==
  ASSUME NEW V, NEW rm, Sound(rm, V), NEW n \in Nat, NEW ids \in [1 .. n -> Nat \ {Null}], NEW piece,
         \A i, j \in 1 .. n : ids[i] = ids[j] => i = j,
         \A a \in rm.areas, i \in 1 .. n : a.id = ids[i] => a.piece = piece /\ a.position >= 0
  PROVE  TakenOff(rm, FoldLeft(RetireOrRemove, rm, ids), ids, 1 .. n, piece)
<1> DEFINE to == FoldLeft(RetireOrRemove, rm, ids)
<1>0. GoneBy(to, rm, ids, n)
  BY GoneStepwise
<1> HIDE DEF to
<1>1. PICK gone, pick :
           /\ Picks(pick, 1 .. n)
           /\ gone[{}] = rm /\ gone[1 .. n] = to
           /\ \A s \in SUBSET (1 .. n) :
                s # {} => gone[s] = RetireOrRemove(gone[s \ {pick[s]}], ids[pick[s]])
  BY <1>0 DEF GoneBy
<1> DEFINE S == 1 .. n
<1> DEFINE Q == {s \in SUBSET S : Sound(gone[s], V) /\ TakenOff(rm, gone[s], ids, s, piece)}
<1>2. IsFiniteSet(S)
  BY FS_Interval
<1>3. {} \in Q
  BY <1>1 DEF TakenOff
<1>4. ASSUME NEW s \in SUBSET S, s # {}, s \ {pick[s]} \in Q PROVE s \in Q
  <2> DEFINE x == pick[s]
             t == s \ {x}
             at == gone[t]
             then == gone[s]
             id == ids[x]
  <2>1. x \in S /\ x \in s /\ then = RetireOrRemove(at, id) /\ id \in Nat \ {Null}
    BY <1>1, <1>4 DEF Picks
  <2>2. Sound(at, V) /\ TakenOff(rm, at, ids, t, piece)
    BY <1>4
  <2> HIDE DEF x, at, then, id, Q
  <2>3. Sound(then, V) /\ OneOff(at, then, id)
    BY <2>1, <2>2, RetireOrRemoveSound
  <2>4. \A i \in t : ids[i] # id
    BY <2>1 DEF id, S
  <2>5. ASSUME NEW c \in then.areas
        PROVE  \/ c \in rm.areas /\ \A i \in s : c.id # ids[i]
               \/ c.piece = piece /\ c.position < 0 /\ \E i \in s : c.id = ids[i]
    <3>1. CASE c \in at.areas /\ c.id # id
      BY <2>2, <3>1 DEF TakenOff, id
    <3>2. CASE \E a \in at.areas : a.id = id /\ c.id = id /\ c.piece = a.piece /\ (a.position >= 0 => c.position < 0)
      <4>1. PICK a \in at.areas : a.id = id /\ c.id = id /\ c.piece = a.piece /\ (a.position >= 0 => c.position < 0)
        BY <3>2
      <4>2. a \in rm.areas
        BY <2>2, <2>4, <4>1 DEF TakenOff
      <4>3. a.piece = piece /\ a.position >= 0
        BY <2>1, <4>1, <4>2 DEF id, S
      <4> QED BY <2>1, <4>1, <4>3 DEF id
    <3> QED BY <2>3, <3>1, <3>2 DEF OneOff
  <2>6. ASSUME NEW c \in rm.areas, \A i \in s : c.id # ids[i] PROVE c \in then.areas
    <3>1. c \in at.areas /\ c.id # id
      BY <2>1, <2>2, <2>6 DEF TakenOff, id
    <3> QED BY <2>3, <3>1 DEF OneOff
  <2> QED BY <2>3, <2>5, <2>6 DEF Q, then, TakenOff
<1> HIDE DEF Q
<1>5. Q \in SUBSET (SUBSET S) /\ Climbs(Q, S, pick)
  BY <1>1, <1>4 DEF Q, Climbs, Picks
<1>6. S \in Q
  BY <1>2, <1>3, <1>5, SetsAll
<1> QED BY <1>1, <1>6 DEF Q, to

\* A piece that goes takes its planks and leaves every other where it was.
LEMMA PieceGone ==
  ASSUME IInv, IInv', NEW f \in room.pieces, DropPiece(f)
  PROVE  /\ OnAFace(room') = OnAFace(room) \ Planks(room, f.id)
         /\ \A a \in OnAFace(room') : At(room', a) = At(room, a)
         /\ room'.rules = room.rules /\ standing' = standing
<1> DEFINE face == Face(room, f.id)
           F == Planks(room, f.id)
           n == Len(face)
           ids == [i \in DOMAIN face |-> face[i].id]
           bare == FoldLeft(RetireOrRemove, room, ids)
           left == \E a \in bare.areas : a.piece = f.id
           P == IF left THEN (bare.pieces \ {f}) \cup {[f EXCEPT !.position = RetiredPosition(@)]}
                ELSE bare.pieces \ {f}
           new == [bare EXCEPT !.pieces = P]
           said == [what |-> "piece gone", piece |-> f.id]
<1>1. Done(new, standing, said) /\ f.position >= 0 /\ RulesOn(f) = {}
  BY DEF DropPiece
<1>2. Sound(room, Nat) /\ Sound(room', Nat)
  BY DEF IInv, AllStands, Stands
<1>3. room.areas \in SUBSET AreaRowIn(Nat) /\ room.pieces \in SUBSET PieceRow
      /\ \A a, c \in room.areas : a.id = c.id => a = c
  BY <1>2 DEF Sound, RoomIn, SchemaHolds, OnePlankAPlace
<1>4. F = {a \in room.areas : a.piece = f.id /\ a.position >= 0} /\ Enumerates(face, F)
  <2>1. F = {a \in room.areas : a.piece = f.id /\ a.position >= 0} /\ IsFiniteSet(F)
    BY <1>1, <1>2, PlanksAre
  <2> QED BY <2>1, AlongEnumerates DEF Face
<1> HIDE DEF face, F
<1>5. /\ n \in Nat /\ DOMAIN face = 1 .. n /\ \A i \in 1 .. n : face[i] \in F
      /\ \A a \in F : \E i \in 1 .. n : face[i] = a
      /\ \A i, j \in 1 .. n : face[i] = face[j] => i = j
  BY <1>4 DEF Enumerates
<1> HIDE DEF n
<1>6. /\ ids \in [1 .. n -> Nat \ {Null}] /\ \A i, j \in 1 .. n : ids[i] = ids[j] => i = j
      /\ \A a \in room.areas, i \in 1 .. n : a.id = ids[i] => a \in F
      /\ \A a \in F : \E i \in 1 .. n : ids[i] = a.id
  <2>1. \A i \in 1 .. n : ids[i] = face[i].id /\ face[i] \in room.areas
    BY <1>4, <1>5
  <2>2. ids \in [1 .. n -> Nat \ {Null}]
    BY <1>3, <1>5, <2>1 DEF AreaRowIn
  <2> HIDE DEF ids
  <2> QED BY <1>3, <1>5, <2>1, <2>2
<1>7. \A r \in Rules, i \in 1 .. n : room.rules[r].area # ids[i]
  <2>1. \A i \in 1 .. n : ids[i] = face[i].id /\ face[i] \in room.areas /\ face[i].piece = f.id
    BY <1>4, <1>5
  <2>2. \A a \in room.areas, r \in Rules : a.piece = f.id => room.rules[r].area # a.id
    BY <1>1 DEF RulesOn
  <2> QED BY <2>1, <2>2
<1> HIDE DEF ids
<1>8. Sound(bare, Nat) /\ bare.named = room.named /\ bare.pieces = room.pieces /\ bare.rules = room.rules
  <2>1. n \in Nat /\ ids \in [1 .. n -> Nat \ {Null}] /\ Sound(room, Nat)
    BY <1>2, <1>5, <1>6
  <2>2. /\ Sound(bare, Nat) /\ bare.named = room.named /\ bare.pieces = room.pieces
        /\ (\A r \in Rules, i \in 1 .. n : room.rules[r].area # ids[i]) => bare.rules = room.rules
    BY <2>1, GoneSound
  <2> QED BY <1>7, <2>2
<1>9. TakenOff(room, bare, ids, 1 .. n, f.id)
  <2>1. \A a \in room.areas, i \in 1 .. n : a.id = ids[i] => a.piece = f.id /\ a.position >= 0
    BY <1>4, <1>6
  <2> QED BY <1>2, <1>5, <1>6, <2>1, GoneIs
<1> HIDE DEF bare
<1>10. room'.areas = bare.areas /\ room'.pieces = P /\ room'.rules = room.rules /\ standing' = standing
  <2>1. room' = Naming(new, standing) /\ standing' = standing
    BY <1>1 DEF Done
  <2>2. bare \in RoomIn(Nat)
    BY <1>8 DEF Sound
  <2> HIDE DEF P
  <2> QED BY <1>8, <2>1, <2>2 DEF Naming, RoomIn
<1>11. \A g : g.id # f.id => (g \in P <=> g \in room.pieces)
  <2>1. \A g \in P : g \in room.pieces \/ g.id = f.id
    <3>1. [f EXCEPT !.position = RetiredPosition(@)].id = f.id
      BY <1>3 DEF PieceRow
    <3> QED BY <1>8, <3>1
  <2>2. \A g \in room.pieces : g.id # f.id => g \in P
    BY <1>8
  <2> QED BY <2>1, <2>2
<1> HIDE DEF P
<1>12. ASSUME NEW a \in room.areas, a \in room'.areas, a.piece # f.id
       PROVE  PieceOf(room', a) = PieceOf(room, a)
  <2>1. a.piece \in IdsOf(room.pieces) /\ a.piece \in IdsOf(room'.pieces)
    BY <1>2, <1>12 DEF Sound, SchemaHolds
  <2>2. PieceOf(room, a) \in room.pieces /\ PieceOf(room, a).id = a.piece
    BY <1>2, <2>1, PieceOfArea
  <2>3. PieceOf(room', a) \in room'.pieces /\ PieceOf(room', a).id = a.piece
    BY <1>2, <2>1, PieceOfArea
  <2>4. PieceOf(room', a) \in room.pieces
    BY <1>10, <1>11, <1>12, <2>3
  <2> QED BY <1>2, <2>2, <2>3, <2>4 DEF Sound, SchemaHolds
<1>13. ASSUME NEW a \in OnAFace(room') PROVE a \in OnAFace(room) /\ a \notin F /\ At(room', a) = At(room, a)
  <2>1. a \in room'.areas /\ a.position >= 0 /\ PieceOf(room', a).position >= 0 /\ a.position \in Int
    BY <1>2 DEF OnAFace, Sound, RoomIn, AreaRowIn
  <2>2. a \in room.areas /\ a \notin F
    BY <1>6, <1>9, <1>10, <2>1 DEF TakenOff
  <2>3. a.piece # f.id
    BY <1>4, <2>1, <2>2
  <2>4. PieceOf(room', a) = PieceOf(room, a)
    BY <1>12, <2>1, <2>2, <2>3
  <2> QED BY <2>1, <2>2, <2>4 DEF OnAFace, At
<1>14. ASSUME NEW a \in OnAFace(room), a \notin F PROVE a \in OnAFace(room')
  <2>1. a \in room.areas /\ a.position >= 0 /\ PieceOf(room, a).position >= 0
    BY DEF OnAFace
  <2>2. a \in room'.areas
    BY <1>6, <1>9, <1>10, <1>14, <2>1 DEF TakenOff
  <2>3. a.piece # f.id
    BY <1>4, <1>14, <2>1
  <2> QED BY <1>12, <2>1, <2>2, <2>3 DEF OnAFace
<1> QED BY <1>10, <1>13, <1>14 DEF F

LEMMA DropPieceFollows ==
  ASSUME IInv, IInv', NEW f \in room.pieces, DropPiece(f), JoinTheirRuns, walk.straight, NEW b \in Books
  PROVE  FollowsTheRules(b)
<1> DEFINE F == Planks(room, f.id)
           r == RangeOf[b]
<1>1. /\ OnAFace(room') = OnAFace(room) \ F
      /\ \A a \in OnAFace(room') : At(room', a) = At(room, a)
      /\ room'.rules = room.rules /\ standing' = standing
  BY PieceGone
<1>2. BooksOf(f) = {} /\ RulesOn(f) = {} /\ f.position >= 0
  BY DEF DropPiece
<1>3. /\ Sound(room, Nat) /\ Sound(room', Nat) /\ Straight(room, Survey(room)) /\ survey = Survey(room)
      /\ walk.belonging = Belonging(Survey(room)) /\ walk'.belonging = Belonging(Survey(room'))
  BY DEF IInv, AllStands, Stands, Walk
<1>4. F = {a \in room.areas : a.piece = f.id /\ a.position >= 0} /\ F \in SUBSET OnAFace(room)
  BY <1>2, <1>3, PlanksAre DEF Planks
<1> HIDE DEF F
<1>5. \A q \in Rules : EntryAreaOf(room', room'.rules[q]) = EntryAreaOf(room, room.rules[q])
  <2> SUFFICES ASSUME NEW q \in Rules PROVE EntryAreaOf(room', room.rules[q]) = EntryAreaOf(room, room.rules[q])
    BY <1>1
  <2> DEFINE place == room.rules[q]
  <2>1. \A a \in F : a.id # place.area /\ a.piece # place.piece
    BY <1>2, <1>4 DEF RulesOn
  <2> HIDE DEF place
  <2>2. OnAFace(room') = OnAFace(room) \ F
    BY <1>1
  <2>3. \A p : (\A a \in F : a.id # p.area /\ a.piece # p.piece) => EntryAreaOf(room', p) = EntryAreaOf(room, p)
    BY <2>2, EntryKept
  <2> QED BY <2>1, <2>3 DEF place
<1>6. F \cap Starting(room) = {}
  <2>1. SUFFICES ASSUME NEW a \in F, a \in Starting(room) PROVE FALSE
    OBVIOUS
  <2>2. a \in OnAFace(room) /\ a.piece = f.id
    BY <1>4
  <2>3. a \in GoneAreas
    BY <1>1, <1>3, <2>2, SamePlank DEF GoneAreas, IdsOf
  <2>4. JoinsItsRun(a)
    BY <2>3 DEF JoinTheirRuns
  <2>5. survey.starting = Starting(room)
    BY <1>3 DEF Survey, Surveyed
  <2>6. PICK q \in Ranges : a \in ToSet(survey.bands[q].run)
    BY <2>1, <2>4, <2>5 DEF JoinsItsRun
  <2>7. Survey(room).bands[q].open
    <3>1. survey.bands[q].run # <<>>
      BY <2>6 DEF ToSet
    <3> QED BY <1>3, <3>1, OpenIs
  <2>8. Level(room)
    BY <1>3, <2>7, StraightRises
  <2>9. /\ Opening(room, q) \in OnAFace(room) /\ Opening(room, q).id = EntryAreaOf(room, room.rules[q])
        /\ Enumerates(survey.bands[q].run, RunOf(room, Opening(room, q)))
    BY <1>3, <2>7, <2>8, RunIsOf
  <2>10. a \in RunOf(room, Opening(room, q))
    BY <2>6, <2>9 DEF Enumerates, ToSet
  <2>11. a = Opening(room, q)
    BY <1>3, <2>1, <2>8, <2>9, <2>10, StartsOnce
  <2>12. room.rules[q].area = a.id \/ room.rules[q].piece = a.piece
    BY <1>3, <2>2, <2>9, <2>11, EntryIsNamed
  <2>13. q \in Rules /\ a \in room.areas
    BY <1>4 DEF Rules
  <2> QED BY <1>2, <2>2, <2>12, <2>13 DEF RulesOn
<1>7. SUFFICES ASSUME walk'.belonging[b] # Nowhere, Owed(standing[b]) = walk.belonging[b]
               PROVE  walk'.belonging[b] = walk.belonging[b]
  BY <1>1 DEF FollowsTheRules
<1>8. r \in Ranges /\ Survey(room').bands[r].open /\ Key[b] \in Nat
  BY <1>3, <1>7, BelongsSomewhere
<1>9. /\ walk.belonging[b] = AreaOfKey(Survey(room).bands[r].run, Key[b])
      /\ walk'.belonging[b] = AreaOfKey(Survey(room').bands[r].run, Key[b])
  BY <1>3 DEF Belonging
<1>10. Owed(standing[b]) \notin IdsOf(F)
  <2>1. SUFFICES ASSUME Owed(standing[b]) \in IdsOf(F) PROVE FALSE
    OBVIOUS
  <2>2. Owed(standing[b]) \in IdsOf({a \in room.areas : a.piece = f.id})
    BY <1>4, <2>1 DEF IdsOf
  <2>3. b \in BooksOf(f)
    BY <2>2 DEF BooksOf, Owed
  <2> QED BY <1>2, <2>3
<1> HIDE DEF r
<1>11. \/ AreaOfKey(Survey(room').bands[r].run, Key[b]) = AreaOfKey(Survey(room).bands[r].run, Key[b])
       \/ AreaOfKey(Survey(room).bands[r].run, Key[b]) \in IdsOf(F)
  BY <1>1, <1>3, <1>4, <1>5, <1>6, <1>8, FewerPlanks
<1> QED BY <1>7, <1>9, <1>10, <1>11

\* The books of a run that is moved go with it.
LEMMA RelocateRunFollows ==
  ASSUME IInv, IInv', WalksAgree', NEW range, NEW to, RelocateRun(range, to), did'.what = "run moved",
         walk'.straight, NEW b \in Books, RangeOf[b] = did'.range
  PROVE  FollowsTheRules(b)
<1>1. PICK new, half, planned : Relocation(range, new, half, planned)
  BY DEF RelocateRun
<1> DEFINE answers == RuleAnswers(new, Survey(new), BooksOfRun(range))
           moved == [what |-> "run moved", range |-> range, planned |-> planned]
           stripped == [what |-> "half stripped", range |-> range]
<1>2. Done(new, AssignPlacements(answers, standing), moved) \/ Done(room, standing, stripped)
  BY <1>1 DEF Relocation
<1>3. Sound(room', Nat)
  BY DEF IInv, AllStands, Stands
<1>4. ~Done(room, standing, stripped)
  <2>1. SUFFICES ASSUME did' = stripped PROVE FALSE
    BY DEF Done
  <2>2. did'.what = "half stripped"
    BY <2>1
  <2> QED BY <2>2
<1>5. did' = moved
  BY <1>2, <1>4 DEF Done
<1>6. b \in BooksOfRun(range)
  BY <1>5 DEF BooksOfRun
<1> QED BY <1>2, <1>4, <1>6, AnsweredFollows

\* Books go with a plank that is taken out to the one that takes them.
LEMMA DropAreaFollows ==
  ASSUME IInv, IInv', NEW id, DropArea(id), JoinTheirRuns, walk.straight, NEW b \in Books, ~LeavingAnyway(b)
  PROVE  FollowsTheRules(b)
<1> DEFINE at == [ok |-> TRUE, room |-> room, where |-> standing]
           done == Dropped(at, id)
           said == [what |-> "area gone", area |-> id]
           area == Row(room, id)
           into == Absorbing(room, area)
           to == Without(room, id)
           where == Joining(room, standing, id)
           r == RangeOf[b]
<1>1. /\ Sound(room, Nat) /\ Sound(room', Nat) /\ Straight(room, Survey(room)) /\ survey = Survey(room)
      /\ walk.belonging = Belonging(Survey(room))
      /\ standing \in WhereIn(room.named \cup {Nowhere}) /\ AllStands(Nat)
  BY DEF IInv, AllStands, Stands, Walk
<1>2. done.ok /\ Done(done.room, done.where, said)
  BY DEF DropArea
<1>3. CanDrop(room, id) /\ done.where = where /\ done.room = Naming(to, where)
  BY <1>2 DEF Dropped
<1>4. Level(room)
  BY <1>1 DEF Straight, Level
<1>5. /\ Sound(to, Nat) /\ Level(to) /\ Closes(room, to, area, into)
      /\ area.id = id /\ id # Null
  BY <1>1, <1>3, <1>4, PlanksClose
<1>6. /\ IdsOf(OnAFace(to)) \subseteq IdsOf(OnAFace(room)) \ {id}
      /\ \A q \in Rules : to.rules[q] =
           IF room.rules[q].area = id THEN [area |-> Null, piece |-> area.piece] ELSE room.rules[q]
  BY <1>1, <1>3, WithoutSound, WithoutIs
<1> HIDE DEF at, done, said, where, to
<1>7. /\ standing' = where /\ OnAFace(room') = OnAFace(to)
      /\ walk'.belonging = Belonging(Survey(to))
  <2>1. /\ Survey(done.room) = survey' /\ walk'.belonging = Belonging(Survey(done.room))
        /\ OnAFace(done.room) = OnAFace(room') /\ standing' = done.where
    BY <1>1, <1>2, DoneIsRead
  <2>2. Sound(done.room, Nat)
    BY <1>1, <1>2, <1>3, TakingIs, DroppedTakes DEF Taking, at, done
  <2>3. SameFurniture(to, done.room)
    BY <1>3, <2>2, NamingReads
  <2>4. Survey(to) = Survey(done.room) /\ OnAFace(to) = OnAFace(done.room)
    BY <2>2, <2>3, SurveyReads, PlacesRead
  <2> QED BY <1>3, <2>1, <2>4
<1>8. /\ area \in OnAFace(room) /\ into \in OnAFace(room) /\ area.piece = into.piece /\ area # into
      /\ \A a \in OnAFace(room) \ {area} : Row(to, a.id) \in OnAFace(to) /\ Row(to, a.id).id = a.id
  BY <1>5 DEF Closes, Stayed
<1>9. Adjoins(room, area, into)
  <2>1. Len(Face(room, area.piece)) > 1
    BY <1>3 DEF CanDrop
  <2>2. \/ /\ into.position < area.position
           /\ \A x \in Planks(room, area.piece) : x.position <= into.position \/ area.position <= x.position
        \/ /\ area.position < into.position
           /\ \A x \in Planks(room, area.piece) : x = area \/ into.position <= x.position
    BY <1>1, <1>8, <2>1, AbsorbingNext
  <2>3. \A x \in OnAFace(room) : x.piece = area.piece => x \in Planks(room, area.piece)
    BY DEF Planks
  <2> HIDE DEF area, into
  <2> QED BY <2>2, <2>3 DEF Adjoins
<1>10. IdsOf(GoneAreas) = {id}
  <2>1. area \in GoneAreas
    BY <1>5, <1>6, <1>7, <1>8 DEF GoneAreas
  <2>2. \A a \in GoneAreas : a = area
    BY <1>7, <1>8 DEF GoneAreas, IdsOf
  <2> QED BY <1>5, <2>1, <2>2 DEF IdsOf
<1>11. Share(room, area, into)
  <2>1. area \in GoneAreas /\ Len(Face(room, area.piece)) > 1
    BY <1>3, <1>5, <1>6, <1>7, <1>8 DEF GoneAreas, CanDrop
  <2>2. Len(Face(room, area.piece)) \in Nat
    <3>1. Enumerates(Face(room, area.piece), Planks(room, area.piece))
      BY <1>1, <1>8, PlanksApart, AlongAscends DEF Face
    <3> QED BY <3>1 DEF Enumerates
  <2>3. JoinsItsRun(area)
    BY <2>1 DEF JoinTheirRuns
  <2>4. PICK q \in Ranges : {area, into} \subseteq ToSet(survey.bands[q].run)
    BY <2>1, <2>2, <2>3 DEF JoinsItsRun
  <2>5. Survey(room).bands[q].open
    <3>1. survey.bands[q].run # <<>>
      BY <2>4 DEF ToSet
    <3> QED BY <1>1, <3>1, OpenIs
  <2>6. Enumerates(survey.bands[q].run, RunOf(room, Opening(room, q)))
    BY <1>1, <1>4, <2>5, RunIsOf
  <2> HIDE DEF area, into
  <2>7. {area, into} \subseteq RunOf(room, Opening(room, q))
    BY <2>4, <2>6 DEF Enumerates, ToSet
  <2> QED BY <2>5, <2>7 DEF Share
<1> SUFFICES ASSUME ~LeftAlone(standing[b]), walk'.belonging[b] \notin {Nowhere, standing'[b].declined},
                    Owed(standing[b]) = walk.belonging[b]
             PROVE  Owed(standing'[b]) = walk'.belonging[b]
  BY DEF FollowsTheRules
<1>12. r \in Ranges /\ Survey(to).bands[r].open /\ Key[b] \in Nat
  BY <1>7, BelongsSomewhere
<1>13. /\ walk.belonging[b] = AreaOfKey(Survey(room).bands[r].run, Key[b])
       /\ walk'.belonging[b] = AreaOfKey(Survey(to).bands[r].run, Key[b])
  BY <1>1, <1>7 DEF Belonging
<1>14. into = Absorbing(room, area)
  OBVIOUS
<1> HIDE DEF r, area, into
<1>15. walk'.belonging[b] = IF walk.belonging[b] = id THEN into.id ELSE walk.belonging[b]
  BY <1>1, <1>4, <1>5, <1>6, <1>9, <1>11, <1>12, <1>13, <1>14, KeysClose
<1>16. standing[b] \in StandingIn(room.named \cup {Nowhere})
  BY <1>1 DEF WhereIn
<1> DEFINE s == standing[b]
           new == AssignmentFor(s, into.id)
<1>17. standing'[b] = IF id \in {s.area, s.assigned} /\ new # Nowhere
                      THEN AfterRow(s, [kind |-> "assigned", area |-> new]) ELSE s
  BY <1>7, <1>14 DEF Joining, where, area
<1>18. CASE walk.belonging[b] = id
  <2>1. id \in {s.area, s.assigned}
    BY <1>18 DEF Owed
  <2>2. standing'[b] = IF new = Nowhere THEN s ELSE AfterRow(s, [kind |-> "assigned", area |-> new])
    BY <1>17, <2>1
  <2>3. into.id \notin {Nowhere, standing'[b].declined}
    BY <1>15, <1>18
  <2>4. Owed(standing'[b]) = into.id
    BY <1>16, <2>2, <2>3, AssignedFollows
  <2> QED BY <1>15, <1>18, <2>4
<1>19. CASE walk.belonging[b] # id
  <2>1. s.area # id /\ s.assigned # id
    BY <1>5, <1>10, <1>19, ShelvesAssumption DEF Owed, LeavingAnyway
  <2>2. standing'[b] = s
    BY <1>17, <2>1
  <2> QED BY <1>15, <1>19, <2>2
<1> QED BY <1>18, <1>19

\* What a step said it did is what it did.
LEMMA SaidIs ==
  ASSUME Sound(room', Nat), NEW new, NEW where, NEW said, Done(new, where, said)
  PROVE  did'.what = said.what
BY DoneIsRead

LEMMA BooksFollowStep ==
  ASSUME IInv, IInv', WalksAgree', Next, NEW b \in Books, PlankLeaves(b), ~LeavingAnyway(b)
  PROVE  FollowsTheRules(b)
<1>1. Sound(room', Nat)
  BY DEF IInv, AllStands, Stands
<1>2. did'.what \in {"area gone", "piece gone", "run moved"}
  BY DEF PlankLeaves
<1>3. ASSUME NEW new, NEW where, NEW said, Done(new, where, said),
             said.what \notin {"area gone", "piece gone", "run moved"}
      PROVE  FALSE
  BY <1>1, <1>2, <1>3, SaidIs
<1>4. ASSUME NEW new, NEW said, Rearranged(new, said),
             said.what \notin {"area gone", "piece gone", "run moved"}
      PROVE  FALSE
  BY <1>3, <1>4 DEF Rearranged
<1>5. ASSUME NEW range, NEW new, NEW said, RunRearranged(range, new, said),
             said.what \notin {"area gone", "piece gone", "run moved"}
      PROVE  FALSE
  BY <1>3, <1>5 DEF RunRearranged
<1>6. Nothing.what = "nothing"
  BY DEF Nothing
<1>10. ASSUME NEW range, NEW at, NEW kind, Overflow(range, at, kind) PROVE FALSE
  <2>1. PICK new, said : RunRearranged(range, new, said) /\ said.what = "overflow"
    BY <1>10 DEF Overflow
  <2> QED BY <1>5, <2>1
<1>11. ASSUME NEW range, NEW key, NEW kind, CarryOn(range, key, kind) PROVE FALSE
  <2> DEFINE plan == CarryOnStep(range, PlankOfKey(survey, range, key), key, kind)
             said == [what |-> "carry on", range |-> range, key |-> key, to |-> plan.to]
  <2>1. RunRearranged(range, Applied(range, plan), said) /\ said.what = "carry on"
    BY <1>11 DEF CarryOn
  <2> HIDE DEF said, plan
  <2> QED BY <1>5, <2>1
<1>12. ASSUME NEW c, NEW way, MoveAcross(c, way) PROVE FALSE
  <2>1. PICK new, where, said : Done(new, where, said) /\ said.what = "crossing"
    BY <1>12 DEF MoveAcross
  <2> QED BY <1>3, <2>1
<1>13. ASSUME NEW c, Retract(c) \/ PutDown(c) \/ ClearMove(c) PROVE FALSE
  <2>1. CASE Retract(c)
    <3>1. PICK new, said : RunRearranged(RangeOf[c], new, said) /\ said.what = "retraction"
      BY <2>1 DEF Retract, TakeBack
    <3> QED BY <1>5, <3>1
  <2>2. CASE PutDown(c)
    <3>1. PICK where : Done(room, where, Nothing)
      BY <2>2 DEF PutDown
    <3> QED BY <1>3, <1>6, <3>1
  <2>3. CASE ClearMove(c)
    BY <1>2, <1>6, <2>3 DEF ClearMove
  <2> QED BY <1>13, <2>1, <2>2, <2>3
<1>14. ASSUME NEW position, AddPiece(position) PROVE FALSE
  BY <1>2, <1>6, <1>14 DEF AddPiece
<1>15. ASSUME NEW f, NEW position, Renumber(f, position) PROVE FALSE
  <2>1. PICK new, said : Rearranged(new, said) /\ said.what = "renumbering"
    BY <1>15 DEF Renumber
  <2> QED BY <1>4, <2>1
<1>16. ASSUME NEW f, NEW landing, NEW typed, NEW own, AddArea(f, landing, typed, own) PROVE FALSE
  <2> DEFINE said == [what |-> "area added", area |-> room.nextArea]
  <2>1. said.what = "area added"
    OBVIOUS
  <2>2. \E new : Rearranged(new, said)
    BY <1>16 DEF AddArea
  <2> HIDE DEF said
  <2> QED BY <1>4, <2>1, <2>2
<1>17. ASSUME NEW a, NEW landing, NEW startsAt, NEW own, EditArea(a, landing, startsAt, own) PROVE FALSE
  <2> DEFINE said == [what |-> "area edited", area |-> a.id]
  <2>1. said.what = "area edited"
    OBVIOUS
  <2>2. \E new : Rearranged(new, said)
    BY <1>17 DEF EditArea
  <2> HIDE DEF said
  <2> QED BY <1>4, <2>1, <2>2
<1>18. ASSUME NEW r, NEW place, RuleChange(r, place) PROVE FALSE
  <2> DEFINE said == [what |-> "rule changed", rule |-> r]
  <2>1. said.what = "rule changed"
    OBVIOUS
  <2>2. \E new, where : Done(new, where, said)
    BY <1>18 DEF RuleChange
  <2> HIDE DEF said
  <2> QED BY <1>3, <2>1, <2>2
<1>19. ASSUME NEW f \in room.pieces, DropPiece(f) PROVE FollowsTheRules(b)
  <2> DEFINE said == [what |-> "piece gone", piece |-> f.id]
  <2>1. said.what = "piece gone"
    OBVIOUS
  <2>2. \E new : Done(new, standing, said)
    BY <1>19 DEF DropPiece
  <2> HIDE DEF said
  <2>3. did'.what = "piece gone"
    BY <1>1, <2>1, <2>2, SaidIs
  <2>4. JoinTheirRuns /\ walk.straight
    BY <2>3 DEF PlankLeaves
  <2> QED BY <1>19, <2>4, DropPieceFollows
<1>20. ASSUME NEW id, DropArea(id) PROVE FollowsTheRules(b)
  <2> DEFINE said == [what |-> "area gone", area |-> id]
  <2>1. said.what = "area gone"
    OBVIOUS
  <2>2. \E new, where : Done(new, where, said)
    BY <1>20 DEF DropArea
  <2> HIDE DEF said
  <2>3. did'.what = "area gone"
    BY <1>1, <2>1, <2>2, SaidIs
  <2>4. JoinTheirRuns /\ walk.straight
    BY <2>3 DEF PlankLeaves
  <2> QED BY <1>20, <2>4, DropAreaFollows
<1>21. ASSUME NEW range, NEW to, RelocateRun(range, to) PROVE FollowsTheRules(b)
  <2>1. PICK new, half, planned : Relocation(range, new, half, planned)
    BY <1>21 DEF RelocateRun
  <2> DEFINE moved == [what |-> "run moved", range |-> range, planned |-> planned]
             stripped == [what |-> "half stripped", range |-> range]
  <2>2. did'.what = "run moved"
    <3>1. moved.what = "run moved" /\ stripped.what = "half stripped"
      OBVIOUS
    <3>2. (\E where : Done(new, where, moved)) \/ Done(room, standing, stripped)
      BY <2>1 DEF Relocation
    <3> HIDE DEF moved, stripped
    <3> QED BY <1>1, <1>2, <3>1, <3>2, SaidIs
  <2>3. RangeOf[b] = did'.range /\ walk'.straight
    BY <2>2 DEF PlankLeaves
  <2> QED BY <1>21, <2>2, <2>3, RelocateRunFollows
<1> QED BY <1>10, <1>11, <1>12, <1>13, <1>14, <1>15, <1>16, <1>17, <1>18, <1>19, <1>20, <1>21 DEF Next

\* When a plank is taken out or goes with its piece, in a straight room and out of a
\* run it does not begin alone, and when a run is moved, every book whose run puts it
\* elsewhere than before is owed the move there, if it was where its run had it or on
\* its way: the books of a plank that goes are sent after the one that takes them.
THEOREM BooksGoWithTheirPlanks == Spec => BooksFollowPlanks
<1>1. Init => IInv
  BY InitStands
<1>2. IInv /\ [Next]_vars => IInv'
  BY NextStands
<1>3. IInv => WalksAgree
  BY WalksOfARoom DEF IInv, AllStands, Stands
<1>4. IInv /\ IInv' /\ WalksAgree' /\ [Next]_vars
        => [\A b \in Books : PlankLeaves(b) => LeavingAnyway(b) \/ FollowsTheRules(b)]_vars
  BY BooksFollowStep
<1> QED BY <1>1, <1>2, <1>3, <1>4, PTL DEF Spec, BooksFollowPlanks
=============================================================================
