-------------------------- MODULE PhotographsProofs --------------------------
(***************************************************************************)
(* Proofs about Photographs, for any removals at once, any number of books *)
(* and of photographs.                                                     *)
(*                                                                         *)
(* PhotoInv says what each request in flight still knows: a save, that the *)
(* scan it read has the photograph it read while the scan is there; a      *)
(* sweep about to remove a file, that no living book names it; and every   *)
(* file on the disk has a claim: a living book, a sweep that has still to  *)
(* come to it, or the derive that is making it.                            *)
(***************************************************************************)
EXTENDS Photographs, WellFoundedInduction, TLAPS

-----------------------------------------------------------------------------
(* The names a book's photographs have *)

Photo == [file : Nat, hash : Nat, crop : Nat]
FilesIn(list) == {list[i].file : i \in DOMAIN list}
CropsIn(list) == {list[i].crop : i \in DOMAIN list}
Uses(b) == FilesIn(rows[b]) \cup CropsIn(rows[b])

\* The files there are or were: the names of photographs to come are not among them.
Stored == (1 .. taken) \cup {f \in Nat : f > MaxShots}

LEMMA LeastOfAll ==
  ASSUME NEW T, T \subseteq Nat, T # {}
  PROVE  \E x \in T : \A y \in T : x <= y
<1> DEFINE R == OpToRel(<, Nat)
<1>1. IsWellFoundedOn(R, Nat)
  BY NatLessThanWellFounded
<1>2. ASSUME NEW x \in Nat, NEW y \in Nat, <<x, y>> \notin R PROVE y <= x
  BY <1>2 DEF OpToRel
<1> HIDE DEF R
<1>3. PICK x \in T : \A y \in T : ~(<<y, x>> \in R)
  BY <1>1, WFMin
<1>4. ASSUME NEW y \in T PROVE x <= y
  BY <1>2, <1>3
<1> QED BY <1>4

LEMMA MinIsIn ==
  ASSUME NEW T, T \subseteq Nat, T # {}
  PROVE  Min(T) \in T
BY LeastOfAll DEF Min

LEMMA HeadAndTail ==
  ASSUME NEW s \in Seq(Nat), s # <<>>
  PROVE  /\ Head(s) \in ToSet(s) /\ Tail(s) \in Seq(Nat)
         /\ ToSet(s) = {Head(s)} \cup ToSet(Tail(s))
<1>1. Len(s) \in Nat \ {0} /\ DOMAIN s = 1 .. Len(s) /\ Head(s) = s[1]
  OBVIOUS
<1>2. Tail(s) \in Seq(Nat) /\ DOMAIN Tail(s) = 1 .. Len(s) - 1
  BY <1>1
<1>3. \A i \in 1 .. Len(s) - 1 : Tail(s)[i] = s[i + 1]
  BY <1>1
<1>4. ToSet(s) = {s[i] : i \in 1 .. Len(s)}
  BY <1>1 DEF ToSet
<1>5. ToSet(Tail(s)) = {Tail(s)[i] : i \in 1 .. Len(s) - 1}
  BY <1>2 DEF ToSet
<1>6. ASSUME NEW x \in ToSet(s) PROVE x = Head(s) \/ x \in ToSet(Tail(s))
  <2>1. PICK i \in 1 .. Len(s) : x = s[i]
    BY <1>4
  <2>2. CASE i = 1
    BY <1>1, <2>1, <2>2
  <2>3. CASE i # 1
    <3>1. i - 1 \in 1 .. Len(s) - 1 /\ (i - 1) + 1 = i
      BY <1>1, <2>3
    <3>2. Tail(s)[i - 1] = x
      BY <1>3, <2>1, <3>1
    <3> QED BY <1>5, <3>1, <3>2
  <2> QED BY <2>2, <2>3
<1>7. ASSUME NEW x \in ToSet(Tail(s)) PROVE x \in ToSet(s)
  <2>1. PICK i \in 1 .. Len(s) - 1 : x = Tail(s)[i]
    BY <1>5
  <2>2. x = s[i + 1] /\ i + 1 \in 1 .. Len(s)
    BY <1>1, <1>3, <2>1
  <2> QED BY <1>4, <2>2
<1>8. Head(s) \in ToSet(s)
  BY <1>1, <1>4
<1> QED BY <1>2, <1>6, <1>7, <1>8

LEMMA Appended ==
  ASSUME NEW list \in Seq(Photo), NEW one \in Photo
  PROVE  /\ Append(list, one) \in Seq(Photo) /\ Append(list, one) # <<>>
         /\ FilesIn(Append(list, one)) = FilesIn(list) \cup {one.file}
         /\ CropsIn(Append(list, one)) = CropsIn(list) \cup {one.crop}
<1> DEFINE more == Append(list, one)
           n == Len(list)
<1>1. n \in Nat /\ DOMAIN list = 1 .. n /\ more \in Seq(Photo) /\ DOMAIN more = 1 .. n + 1
  OBVIOUS
<1>2. more[n + 1] = one /\ \A i \in 1 .. n : more[i] = list[i]
  OBVIOUS
<1>3. 1 .. n + 1 = (1 .. n) \cup {n + 1}
  BY <1>1
<1> HIDE DEF more, n
<1>4. FilesIn(more) = FilesIn(list) \cup {one.file}
  BY <1>1, <1>2, <1>3 DEF FilesIn
<1>5. CropsIn(more) = CropsIn(list) \cup {one.crop}
  BY <1>1, <1>2, <1>3 DEF CropsIn
<1>6. more # <<>>
  <2>1. 1 \in DOMAIN more
    BY <1>1
  <2> QED BY <2>1
<1> QED BY <1>1, <1>4, <1>5, <1>6 DEF more

LEMMA OnlyOne ==
  ASSUME NEW one \in Photo
  PROVE  /\ <<one>> \in Seq(Photo) /\ <<one>> # <<>>
         /\ FilesIn(<<one>>) = {one.file} /\ CropsIn(<<one>>) = {one.crop}
BY DEF FilesIn, CropsIn

LEMMA NoneAtAll == FilesIn(<<>>) = {} /\ CropsIn(<<>>) = {}
BY DEF FilesIn, CropsIn

\* What recordHashes and recordCrop do to the list of the book.
LEMMA NewestHashed ==
  ASSUME NEW list \in Seq(Photo), list # <<>>, NEW value \in Nat,
         NEW more, more = [list EXCEPT ![Len(list)]["hash"] = value]
  PROVE  /\ more \in Seq(Photo) /\ more # <<>>
         /\ FilesIn(more) = FilesIn(list) /\ CropsIn(more) = CropsIn(list)
<1> DEFINE n == Len(list)
<1>1. n \in Nat \ {0} /\ DOMAIN list = 1 .. n
  OBVIOUS
<1>0. /\ DOMAIN more = 1 .. n /\ more[n] = [list[n] EXCEPT !["hash"] = value]
      /\ \A i \in 1 .. n : i # n => more[i] = list[i]
      /\ \A i \in 1 .. n : list[i] \in Photo
  BY <1>1
<1>2. DOMAIN more = 1 .. n /\ \A i \in 1 .. n : more[i] \in Photo
  BY <1>0, <1>1 DEF Photo
<1>3. \A i \in 1 .. n : more[i].file = list[i].file /\ more[i].crop = list[i].crop
  BY <1>0, <1>1 DEF Photo
<1>4. more \in Seq(Photo)
  BY <1>1, <1>2
<1> HIDE DEF n
<1>5. FilesIn(more) = FilesIn(list) /\ CropsIn(more) = CropsIn(list)
  BY <1>1, <1>2, <1>3 DEF FilesIn, CropsIn
<1>6. more # <<>>
  BY <1>1, <1>2
<1> QED BY <1>4, <1>5, <1>6

LEMMA NewestCropped ==
  ASSUME NEW list \in Seq(Photo), list # <<>>, NEW value \in Nat,
         NEW more, more = [list EXCEPT ![Len(list)]["crop"] = value]
  PROVE  /\ more \in Seq(Photo) /\ more # <<>>
         /\ FilesIn(more) = FilesIn(list)
         /\ value \in CropsIn(more)
         /\ CropsIn(more) \subseteq CropsIn(list) \cup {value}
         /\ CropsIn(list) \ {Last(list).crop} \subseteq CropsIn(more)
<1> DEFINE n == Len(list)
<1>1. n \in Nat \ {0} /\ DOMAIN list = 1 .. n
  OBVIOUS
<1>0. /\ DOMAIN more = 1 .. n /\ more[n] = [list[n] EXCEPT !["crop"] = value]
      /\ \A i \in 1 .. n : i # n => more[i] = list[i]
      /\ \A i \in 1 .. n : list[i] \in Photo
  BY <1>1
<1>2. DOMAIN more = 1 .. n /\ \A i \in 1 .. n : more[i] \in Photo
  BY <1>0, <1>1 DEF Photo
<1>3. /\ \A i \in 1 .. n : more[i].file = list[i].file
      /\ more[n].crop = value
      /\ \A i \in 1 .. n : i # n => more[i].crop = list[i].crop
  BY <1>0, <1>1 DEF Photo
<1>4. more \in Seq(Photo)
  BY <1>1, <1>2
<1>5. Last(list) = list[n]
  BY DEF Last
<1> HIDE DEF n
<1>6. FilesIn(more) = FilesIn(list)
  BY <1>1, <1>2, <1>3 DEF FilesIn
<1>7. value \in CropsIn(more)
  <2>1. n \in DOMAIN more
    BY <1>1, <1>2
  <2> QED BY <2>1, <1>3 DEF CropsIn
<1>8. CropsIn(more) \subseteq CropsIn(list) \cup {value}
  BY <1>1, <1>2, <1>3 DEF CropsIn
<1>9. CropsIn(list) \ {Last(list).crop} \subseteq CropsIn(more)
  BY <1>1, <1>2, <1>3, <1>5 DEF CropsIn
<1>10. more # <<>>
  BY <1>1, <1>2
<1> QED BY <1>4, <1>6, <1>7, <1>8, <1>9, <1>10

\* The newest photograph of a list
LEMMA NewestIsOne ==
  ASSUME NEW list \in Seq(Photo), list # <<>>
  PROVE  /\ Last(list) \in Photo /\ Last(list).file \in FilesIn(list)
         /\ Last(list).crop \in CropsIn(list)
<1>1. Len(list) \in DOMAIN list /\ list[Len(list)] \in Photo
  OBVIOUS
<1> QED BY <1>1 DEF Last, FilesIn, CropsIn
-----------------------------------------------------------------------------
(* filesOf, by induction over the list: the first place it fails at *)

Own(row) == IF row.crop = 0 THEN <<row.file>> ELSE <<row.file, row.crop>>
Listing(list, n, g) == g = [k \in 0 .. n |-> IF k = 0 THEN <<>> ELSE Own(list[k]) \o g[k - 1]]
FilesUpTo(list, k) ==
  {list[i].file : i \in 1 .. k} \cup ({list[i].crop : i \in 1 .. k} \ {0})

LEMMA Joined ==
  ASSUME NEW s \in Seq(Nat), NEW t \in Seq(Nat)
  PROVE  s \o t \in Seq(Nat) /\ ToSet(s \o t) = ToSet(s) \cup ToSet(t)
<1>1. /\ Len(s) \in Nat /\ Len(t) \in Nat /\ DOMAIN s = 1 .. Len(s) /\ DOMAIN t = 1 .. Len(t)
      /\ s \o t \in Seq(Nat) /\ DOMAIN (s \o t) = 1 .. Len(s) + Len(t)
  OBVIOUS
<1>2. /\ \A i \in 1 .. Len(s) : (s \o t)[i] = s[i]
      /\ \A i \in 1 .. Len(t) : (s \o t)[Len(s) + i] = t[i]
  BY <1>1
<1>3. ASSUME NEW x \in ToSet(s) PROVE x \in ToSet(s \o t)
  <2>1. PICK i \in 1 .. Len(s) : x = s[i]
    BY <1>1 DEF ToSet
  <2>2. i \in 1 .. Len(s) + Len(t) /\ x = (s \o t)[i]
    BY <1>1, <1>2, <2>1
  <2> QED BY <1>1, <2>2 DEF ToSet
<1>4. ASSUME NEW x \in ToSet(t) PROVE x \in ToSet(s \o t)
  <2>1. PICK i \in 1 .. Len(t) : x = t[i]
    BY <1>1 DEF ToSet
  <2>2. Len(s) + i \in 1 .. Len(s) + Len(t) /\ x = (s \o t)[Len(s) + i]
    BY <1>1, <1>2, <2>1
  <2> QED BY <1>1, <2>2 DEF ToSet
<1>5. ASSUME NEW x \in ToSet(s \o t) PROVE x \in ToSet(s) \cup ToSet(t)
  <2>1. PICK i \in 1 .. Len(s) + Len(t) : x = (s \o t)[i]
    BY <1>1 DEF ToSet
  <2>2. CASE i <= Len(s)
    <3>1. i \in 1 .. Len(s) /\ x = s[i]
      BY <1>1, <1>2, <2>1, <2>2
    <3> QED BY <1>1, <3>1 DEF ToSet
  <2>3. CASE i > Len(s)
    <3>1. i - Len(s) \in 1 .. Len(t) /\ Len(s) + (i - Len(s)) = i
      BY <1>1, <2>3
    <3>2. x = t[i - Len(s)]
      BY <1>2, <2>1, <3>1
    <3> QED BY <1>1, <3>1, <3>2 DEF ToSet
  <2> QED BY <1>1, <2>1, <2>2, <2>3
<1> QED BY <1>1, <1>3, <1>4, <1>5

LEMMA OwnNames ==
  ASSUME NEW row \in Photo
  PROVE  Own(row) \in Seq(Nat) /\ ToSet(Own(row)) = {row.file} \cup ({row.crop} \ {0})
<1>1. row.file \in Nat /\ row.crop \in Nat
  BY DEF Photo
<1>2. CASE row.crop = 0
  BY <1>1, <1>2 DEF Own, ToSet
<1>3. CASE row.crop # 0
  <2>1. Own(row) = <<row.file, row.crop>> /\ DOMAIN <<row.file, row.crop>> = {1, 2}
    BY <1>3 DEF Own
  <2>2. ToSet(<<row.file, row.crop>>) = {row.file, row.crop}
    BY <2>1 DEF ToSet
  <2> QED BY <1>1, <1>3, <2>1, <2>2
<1> QED BY <1>2, <1>3

LEMMA ListingExists ==
  ASSUME NEW list, NEW n \in Nat
  PROVE  \E g : Listing(list, n, g)
<1> DEFINE T == {k \in Nat : ~ \E g : Listing(list, k, g)}
<1>1. T = {} => \E g : Listing(list, n, g)
  OBVIOUS
<1>2. SUFFICES ASSUME T # {} PROVE FALSE
  BY <1>1
<1>3. PICK k \in T : \A j \in T : k <= j
  BY <1>2, LeastOfAll
<1>4. k # 0
  <2>1. Listing(list, 0, [i \in 0 .. 0 |-> <<>>])
    BY DEF Listing
  <2> QED BY <1>3, <2>1
<1>5. k \in Nat /\ k - 1 \in Nat /\ k - 1 \notin T
  <2>1. k \in Nat /\ k - 1 \in Nat
    BY <1>3, <1>4
  <2> HIDE DEF T
  <2> QED BY <1>3, <2>1
<1>6. PICK g : Listing(list, k - 1, g)
  BY <1>5
<1> DEFINE h == [i \in 0 .. k |-> IF i = k THEN Own(list[k]) \o g[k - 1] ELSE g[i]]
<1>7. ASSUME NEW i \in 0 .. k
      PROVE  h[i] = IF i = 0 THEN <<>> ELSE Own(list[i]) \o h[i - 1]
  <2>1. g = [j \in 0 .. k - 1 |-> IF j = 0 THEN <<>> ELSE Own(list[j]) \o g[j - 1]]
    BY <1>6 DEF Listing
  <2>6. k \in Nat
    BY <1>3
  <2>7. \A j \in 0 .. k - 1 : j \in 0 .. k /\ j # k
    BY <2>6
  <2>2. \A j \in 0 .. k - 1 : h[j] = g[j]
    BY <2>7
  <2>8. k \in 0 .. k
    BY <2>6
  <2>3. h[k] = Own(list[k]) \o g[k - 1]
    BY <2>8, Zenon
  <2> HIDE DEF h
  <2>4. CASE i = k
    <3>1. k - 1 \in 0 .. k - 1
      BY <1>5
    <3> QED BY <1>4, <2>2, <2>3, <2>4, <3>1
  <2>5. CASE i # k
    <3>1. i \in 0 .. k - 1
      BY <1>5, <2>5
    <3>2. h[i] = IF i = 0 THEN <<>> ELSE Own(list[i]) \o g[i - 1]
      BY <2>1, <2>2, <3>1
    <3>3. i # 0 => i - 1 \in 0 .. k - 1
      BY <3>1, <1>5
    <3> QED BY <2>2, <3>2, <3>3
  <2> QED BY <2>4, <2>5
<1>8. Listing(list, k, h)
  <2>1. h = [i \in 0 .. k |-> h[i]]
    OBVIOUS
  <2> HIDE DEF h
  <2> QED BY <1>7, <2>1 DEF Listing
<1> QED BY <1>3, <1>8

LEMMA ListingLists ==
  ASSUME NEW list \in Seq(Photo), NEW n \in Nat, n = Len(list), NEW g, Listing(list, n, g),
         NEW last \in 0 .. n
  PROVE  g[last] \in Seq(Nat) /\ ToSet(g[last]) = FilesUpTo(list, last)
<1> DEFINE Holds(k) == g[k] \in Seq(Nat) /\ ToSet(g[k]) = FilesUpTo(list, k)
           T == {k \in 0 .. n : ~Holds(k)}
<1>0. g = [k \in 0 .. n |-> IF k = 0 THEN <<>> ELSE Own(list[k]) \o g[k - 1]]
  BY DEF Listing
<1>1. T = {} => Holds(last)
  OBVIOUS
<1>2. SUFFICES ASSUME T # {} PROVE FALSE
  BY <1>1
<1>3. PICK k \in T : \A j \in T : k <= j
  <2>1. T \subseteq Nat
    OBVIOUS
  <2> HIDE DEF T
  <2> QED BY <1>2, <2>1, LeastOfAll
<1>4. k \in 0 .. n /\ ~Holds(k)
  BY <1>3
<1>5. k # 0
  <2>1. g[0] = <<>> /\ 1 .. 0 = {}
    BY <1>0
  <2>2. <<>> \in Seq(Nat) /\ ToSet(<<>>) = {}
    BY DEF ToSet
  <2>3. FilesUpTo(list, 0) = {}
    BY <2>1 DEF FilesUpTo
  <2>4. Holds(0)
    BY <2>1, <2>2, <2>3
  <2> HIDE DEF Holds
  <2> QED BY <1>4, <2>4
<1>6. k - 1 \in 0 .. n /\ Holds(k - 1)
  <2>1. k - 1 \in 0 .. n /\ ~(k <= k - 1)
    BY <1>4, <1>5
  <2>2. k - 1 \notin T
    <3> HIDE DEF T
    <3> QED BY <1>3, <2>1
  <2> HIDE DEF Holds
  <2> QED BY <2>1, <2>2
<1>7. list[k] \in Photo /\ k \in 1 .. n
  BY <1>4, <1>5
<1>8. g[k] = Own(list[k]) \o g[k - 1]
  BY <1>0, <1>4, <1>5
<1>9. /\ g[k] \in Seq(Nat)
      /\ ToSet(g[k]) = {list[k].file} \cup ({list[k].crop} \ {0}) \cup FilesUpTo(list, k - 1)
  BY <1>6, <1>7, <1>8, OwnNames, Joined
<1>10. 1 .. k = (1 .. k - 1) \cup {k}
  BY <1>7
<1>11. FilesUpTo(list, k) = {list[k].file} \cup ({list[k].crop} \ {0}) \cup FilesUpTo(list, k - 1)
  BY <1>10 DEF FilesUpTo
<1> QED BY <1>4, <1>9, <1>11

LEMMA FilesOfIsAll ==
  ASSUME NEW b, rows[b] \in Seq(Photo), 0 \notin FilesIn(rows[b])
  PROVE  FilesOf(b) \in Seq(Nat) /\ ToSet(FilesOf(b)) = Uses(b) \ {0}
<1> DEFINE list == rows[b]
           n == Len(list)
           g == CHOOSE f : f = [k \in 0 .. n |->
                  IF k = 0 THEN <<>>
                  ELSE (IF list[k].crop = 0 THEN <<list[k].file>>
                        ELSE <<list[k].file, list[k].crop>>) \o f[k - 1]]
<1>1. FilesOf(b) = g[n]
  BY DEF FilesOf
<1>2. n \in Nat /\ n \in 0 .. n /\ DOMAIN list = 1 .. n
  OBVIOUS
<1>3. Listing(list, n, g)
  <2>1. \E f : f = [k \in 0 .. n |->
                  IF k = 0 THEN <<>>
                  ELSE (IF list[k].crop = 0 THEN <<list[k].file>>
                        ELSE <<list[k].file, list[k].crop>>) \o f[k - 1]]
    <3>1. PICK f : Listing(list, n, f)
      BY <1>2, ListingExists
    <3> QED BY <3>1 DEF Listing, Own
  <2> QED BY <2>1 DEF Listing, Own
<1> HIDE DEF g
<1>4. g[n] \in Seq(Nat) /\ ToSet(g[n]) = FilesUpTo(list, n)
  BY <1>2, <1>3, ListingLists
<1>5. FilesUpTo(list, n) = Uses(b) \ {0}
  BY <1>2 DEF FilesUpTo, Uses, FilesIn, CropsIn
<1> QED BY <1>1, <1>4, <1>5
-----------------------------------------------------------------------------
(* The inductive invariant *)

States == {"none", "queued", "shelved", "discarded", "deleted"}
InUse(f) == \E b \in Living : f \in Uses(b)

PhotoTyped ==
  /\ taken \in 0 .. MaxShots
  /\ disk \subseteq Stored
  /\ book \in [Books -> States]
  /\ rows \in [Books -> Seq(Photo)]
  /\ removal = [r \in Sweepers |-> removal[r]]
  /\ \A b \in Books : /\ FilesIn(rows[b]) \subseteq 1 .. taken
                      /\ CropsIn(rows[b]) \subseteq {0} \cup Stored
                      /\ b \in There <=> rows[b] # <<>>

\* The scan being saved has the photograph it had when it was read.
SavingInv ==
  \/ saving = Rest
  \/ /\ saving.stage = "saving" /\ saving.scan \in Books /\ saving.file \in 1 .. taken
     /\ book[saving.scan] # "none"
     /\ saving.scan \in There => saving.file \in FilesIn(rows[saving.scan])

Begun(r) ==
  /\ r \in Removals /\ removal[r].stage = "read"
  /\ removal[r].book \in Books /\ book[removal[r].book] # "none"
  /\ removal[r].names \in Seq(Nat) /\ ToSet(removal[r].names) \subseteq Stored

\* No living book names what is being removed, as a photograph.
Underway(r) ==
  /\ removal[r] \in [stage : {"sweeping", "removing"}, left : Seq(Nat)]
  /\ removal[r].left # <<>> /\ ToSet(removal[r].left) \subseteq Stored
  /\ removal[r].stage = "removing" =>
       \/ Head(removal[r].left) \in late
       \/ \A b \in Living : Head(removal[r].left) \notin FilesIn(rows[b])

RemovalOf(r) == removal[r] = Rest \/ removal[r] = Over(r) \/ Begun(r) \/ Underway(r)

\* A book being cropped by the background was saved, and stays so or is deleted; a
\* crop that was recorded stays recorded.
DeriveInv ==
  \/ derive = Rest
  \/ /\ derive \in [stage : {"hashing", "cropping", "recording", "checking"}, book : Books,
                    file : 1 .. taken, cropped : BOOLEAN, worker : BOOLEAN]
     /\ book[derive.book] # "none"
     /\ ~derive.worker => book[derive.book] \in {"shelved", "deleted"}
     /\ derive.stage = "checking" =>
          derive.worker /\ (derive.book \in There => CropName(derive.file) \in Uses(derive.book))
     /\ removal[Worker] = Rest

Named == \A b \in Living : FilesIn(rows[b]) \subseteq disk \cup late

Swept(f) ==
  \E r \in Sweepers :
    removal[r].stage \in {"sweeping", "removing"} /\ f \in ToSet(removal[r].left)
Made(f) ==
  /\ derive # Rest /\ f = CropName(derive.file)
  /\ \/ derive.stage = "recording"
     \/ derive.stage = "checking" /\ book[derive.book] = "discarded"
Claimed(f) == InUse(f) \/ Swept(f) \/ Made(f)
Kept == \A f \in disk \ missed : Claimed(f)

PhotoInv ==
  /\ PhotoTyped /\ SavingInv /\ (\A r \in Sweepers : RemovalOf(r)) /\ DeriveInv /\ Named /\ Kept

\* What every step leaves of the books: none begins again, and what a living book
\* comes to name is new, or saved too late, or what a living book named before.
Steady ==
  /\ \A b \in Books : book[b] # "none" => book'[b] # "none"
  /\ \A b \in Books : book[b] \in {"shelved", "deleted"} => book'[b] \in {"shelved", "deleted"}
  /\ \A b \in Books : book[b] # "none" /\ b \in There' =>
       b \in There /\ FilesIn(rows[b]) \subseteq FilesIn(rows'[b])
  /\ \A b \in Living' : \A f \in FilesIn(rows'[b]) :
       \/ f \notin Stored /\ f \in disk'
       \/ f \in late'
       \/ \E c \in Living : f \in FilesIn(rows[c])
  /\ late \subseteq late' /\ taken <= taken' /\ taken \in Nat /\ taken' \in Nat
UsesStay ==
  \A b \in Books : book[b] # "none" /\ b \in There' => Uses(b) \subseteq Uses(b)'

LEMMA InUseIsNaming == \A f : ImageInUse(f) <=> InUse(f)
BY DEF ImageInUse, InUse, Names, Uses, FilesIn, CropsIn

LEMMA StoredGrows == ASSUME Steady PROVE Stored \subseteq Stored'
BY DEF Steady, Stored

LEMMA NothingMoves ==
  ASSUME PhotoTyped, UNCHANGED <<book, rows, taken, late>>
  PROVE  Steady /\ UsesStay
BY DEF PhotoTyped, Steady, UsesStay, Living, There, Uses

LEMMA TypesStay ==
  ASSUME PhotoTyped, UNCHANGED <<book, rows, taken>>, disk' \subseteq Stored,
         removal' = [r \in Sweepers |-> removal'[r]]
  PROVE  PhotoTyped'
BY DEF PhotoTyped, Stored, There

LEMMA SavingStays ==
  ASSUME SavingInv, Steady, saving' = saving
  PROVE  SavingInv'
<1>1. 1 .. taken \subseteq 1 .. taken'
  BY DEF Steady
<1> QED BY <1>1 DEF SavingInv, Steady

LEMMA RemovalStays ==
  ASSUME NEW r \in Sweepers, RemovalOf(r), Steady, removal'[r] = removal[r]
  PROVE  RemovalOf(r)'
<1>1. Stored \subseteq Stored'
  BY StoredGrows
<1>2. CASE removal[r] = Rest
  BY <1>2 DEF RemovalOf, Rest
<1>3. CASE removal[r] = Over(r)
  BY <1>3 DEF RemovalOf, Over, Rest
<1>4. CASE Begun(r)
  BY <1>1, <1>4 DEF RemovalOf, Begun, Steady
<1>5. CASE Underway(r)
  <2>1. ASSUME removal[r].stage = "removing"
        PROVE  \/ Head(removal[r].left) \in late'
               \/ \A b \in Living' : Head(removal[r].left) \notin FilesIn(rows'[b])
    <3>1. Head(removal[r].left) \in Stored
      <4>1. removal[r].left \in Seq(Nat) /\ removal[r].left # <<>>
        BY <1>5 DEF Underway
      <4>2. Head(removal[r].left) \in ToSet(removal[r].left)
        BY <4>1, HeadAndTail
      <4> QED BY <4>2, <1>5 DEF Underway
    <3>2. \/ Head(removal[r].left) \in late
          \/ \A b \in Living : Head(removal[r].left) \notin FilesIn(rows[b])
      BY <1>5, <2>1 DEF Underway
    <3> QED BY <3>1, <3>2 DEF Steady
  <2>2. Underway(r)'
    BY <1>1, <1>5, <2>1 DEF Underway
  <2> QED BY <2>2 DEF RemovalOf
<1> QED BY <1>2, <1>3, <1>4, <1>5 DEF RemovalOf

LEMMA DeriveStays ==
  ASSUME DeriveInv, Steady, UsesStay, derive' = derive, removal'[Worker] = removal[Worker]
  PROVE  DeriveInv'
<1>1. CASE derive = Rest
  BY <1>1 DEF DeriveInv, Rest
<1>2. CASE derive # Rest
  <2>1. /\ derive \in [stage : {"hashing", "cropping", "recording", "checking"}, book : Books,
                       file : 1 .. taken, cropped : BOOLEAN, worker : BOOLEAN]
        /\ book[derive.book] # "none"
        /\ ~derive.worker => book[derive.book] \in {"shelved", "deleted"}
        /\ derive.stage = "checking" =>
             derive.worker /\ (derive.book \in There => CropName(derive.file) \in Uses(derive.book))
        /\ removal[Worker] = Rest
    BY <1>2 DEF DeriveInv
  <2>2. derive.book \in Books
    BY <2>1
  <2>3. 1 .. taken \subseteq 1 .. taken'
    BY DEF Steady
  <2>4. derive \in [stage : {"hashing", "cropping", "recording", "checking"}, book : Books,
                    file : 1 .. taken', cropped : BOOLEAN, worker : BOOLEAN]
    BY <2>1, <2>3
  <2>5. book'[derive.book] # "none" /\ (~derive.worker => book'[derive.book] \in {"shelved", "deleted"})
    BY <2>1, <2>2 DEF Steady
  <2>6. ASSUME derive.stage = "checking", derive.book \in There'
        PROVE  CropName(derive.file) \in Uses(derive.book)'
    <3>1. derive.book \in There
      BY <2>1, <2>2, <2>6 DEF Steady
    <3>2. PICK b \in Books : b = derive.book
      BY <2>2
    <3>3. Uses(b) \subseteq Uses(b)'
      BY <2>1, <2>6, <3>2 DEF UsesStay
    <3>4. Uses(derive.book)' = Uses(b)'
      BY <3>2 DEF Uses
    <3> QED BY <2>1, <2>6, <3>1, <3>2, <3>3, <3>4
  <2>7. CropName(derive.file)' = CropName(derive.file)
    BY DEF CropName
  <2> QED BY <2>1, <2>4, <2>5, <2>6, <2>7 DEF DeriveInv
<1> QED BY <1>1, <1>2

LEMMA NamedStays ==
  ASSUME Named, Steady, disk \subseteq disk'
  PROVE  Named'
BY DEF Named, Steady
-----------------------------------------------------------------------------
(* The shutter *)

LEMMA BooksNumbered == Books \subseteq Nat /\ (Unused # {} => Min(Unused) \in Unused)
<1>1. Books \subseteq Nat /\ Unused \subseteq Nat
  BY PhotographsAssumption DEF Books, Unused
<1> QED BY <1>1, MinIsIn

\* The file a photograph arrives in is new.
LEMMA NewShot ==
  ASSUME PhotoTyped, Room(taken + 1)
  PROVE  /\ taken \in Nat /\ taken' = taken + 1 /\ taken' \in 0 .. MaxShots
         /\ taken + 1 \notin Stored /\ Stored' = Stored \cup {taken + 1}
         /\ Row(taken + 1) \in Photo
         /\ Row(taken + 1).file = taken + 1 /\ Row(taken + 1).crop = 0
<1>1. taken \in Nat /\ MaxShots \in Nat /\ taken' = taken + 1 /\ taken + 1 <= MaxShots
  BY PhotographsAssumption DEF PhotoTyped, Room
<1>2. Stored' = Stored \cup {taken + 1}
  BY <1>1 DEF Stored
<1>3. taken + 1 \notin Stored
  BY <1>1 DEF Stored
<1>4. taken' \in 0 .. MaxShots
  BY <1>1
<1> QED BY <1>1, <1>2, <1>3, <1>4 DEF Row, Photo

LEMMA Attaches ==
  ASSUME PhotoInv, NEW b \in Books, AttachOnto(b)
  PROVE  PhotoInv'
<1>1. PICK f : f = taken + 1
  OBVIOUS
<1>2. /\ b \in There /\ disk' = disk \cup {f}
      /\ rows' = [rows EXCEPT ![b] = Append(@, Row(f))]
      /\ missed' = IF b \in Living THEN missed ELSE missed \cup {f}
      /\ UNCHANGED <<book, removal, saving, derive, late>>
  BY <1>1 DEF AttachOnto
<1>3. /\ taken \in Nat /\ taken' = taken + 1 /\ taken' \in 0 .. MaxShots
      /\ f \notin Stored /\ Stored' = Stored \cup {f}
      /\ Row(f) \in Photo /\ Row(f).file = f /\ Row(f).crop = 0
  BY <1>1, NewShot DEF AttachOnto, PhotoInv
<1>4. /\ rows \in [Books -> Seq(Photo)]
      /\ rows'[b] = Append(rows[b], Row(f)) /\ \A c \in Books \ {b} : rows'[c] = rows[c]
  BY <1>2 DEF PhotoInv, PhotoTyped
<1>5. /\ rows'[b] \in Seq(Photo) /\ rows'[b] # <<>>
      /\ FilesIn(rows'[b]) = FilesIn(rows[b]) \cup {f}
      /\ CropsIn(rows'[b]) = CropsIn(rows[b]) \cup {0}
  BY <1>3, <1>4, Appended
<1>6. There' = There /\ Living' = Living
  BY <1>2 DEF There, Living
<1>7. PhotoTyped'
  <2>1. rows' \in [Books -> Seq(Photo)]
    BY <1>2, <1>4, <1>5
  <2>2. \A c \in Books : /\ FilesIn(rows'[c]) \subseteq 1 .. taken'
                         /\ CropsIn(rows'[c]) \subseteq {0} \cup Stored'
                         /\ c \in There' <=> rows'[c] # <<>>
    <3> SUFFICES ASSUME NEW c \in Books
                 PROVE  /\ FilesIn(rows'[c]) \subseteq 1 .. taken'
                        /\ CropsIn(rows'[c]) \subseteq {0} \cup Stored'
                        /\ c \in There' <=> rows'[c] # <<>>
      OBVIOUS
    <3>1. /\ FilesIn(rows[c]) \subseteq 1 .. taken /\ CropsIn(rows[c]) \subseteq {0} \cup Stored
          /\ c \in There <=> rows[c] # <<>>
      BY DEF PhotoInv, PhotoTyped
    <3>2. 1 .. taken' = (1 .. taken) \cup {f}
      BY <1>1, <1>3
    <3> QED BY <1>2, <1>3, <1>4, <1>5, <1>6, <3>1, <3>2
  <2>3. disk' \subseteq Stored'
    BY <1>2, <1>3 DEF PhotoInv, PhotoTyped
  <2> QED BY <1>2, <1>3, <2>1, <2>2, <2>3 DEF PhotoInv, PhotoTyped
<1>8. Steady /\ UsesStay
  <2>1. \A c \in Books : FilesIn(rows[c]) \subseteq FilesIn(rows'[c])
                         /\ FilesIn(rows'[c]) \subseteq FilesIn(rows[c]) \cup {f}
    BY <1>4, <1>5
  <2>2. \A c \in Books : Uses(c) \subseteq Uses(c)'
    BY <1>4, <1>5 DEF Uses
  <2>3. Living \subseteq Books
    BY DEF Living
  <2>4. \A c \in Living' : \A g \in FilesIn(rows'[c]) :
          (g \notin Stored /\ g \in disk') \/ \E d \in Living : g \in FilesIn(rows[d])
    <3>1. f \in disk'
      BY <1>2
    <3> QED BY <1>3, <1>6, <2>1, <2>3, <3>1
  <2>5. UsesStay
    BY <2>2 DEF UsesStay
  <2>6. late \subseteq late' /\ taken <= taken' /\ taken \in Nat /\ taken' \in Nat /\ book' = book
    BY <1>2, <1>3
  <2> QED BY <1>6, <2>1, <2>4, <2>5, <2>6 DEF Steady
<1>9. SavingInv' /\ DeriveInv' /\ Named' /\ \A r \in Sweepers : RemovalOf(r)'
  BY <1>2, <1>8, SavingStays, DeriveStays, RemovalStays, NamedStays DEF PhotoInv
<1>10. Kept'
  <2>1. \A g : InUse(g) => InUse(g)'
    <3>1. \A c \in Living : Uses(c) \subseteq Uses(c)'
      <4>1. \A c \in Living : c \in Books
        BY DEF Living
      <4> QED BY <4>1, <1>4, <1>5 DEF Uses
    <3> QED BY <1>6, <3>1 DEF InUse
  <2>2. \A g : (Swept(g) => Swept(g)') /\ (Made(g) => Made(g)')
    BY <1>2 DEF Swept, Made, CropName
  <2>3. b \in Living => InUse(f)'
    BY <1>5, <1>6 DEF InUse, Uses
  <2> QED BY <1>2, <2>1, <2>2, <2>3 DEF PhotoInv, Kept, Claimed
<1> QED BY <1>7, <1>9, <1>10 DEF PhotoInv

\* A book begins, with one photograph.
LEMMA Opened ==
  ASSUME PhotoTyped, NEW b, b \in Unused, NEW f \in Nat, NEW state \in {"queued", "shelved"},
         book' = [book EXCEPT ![b] = state],
         rows' = [rows EXCEPT ![b] = <<Row(f)>>]
  PROVE  /\ b \in Books /\ There' = There \cup {b} /\ Living' = Living \cup {b}
         /\ b \notin There /\ b \notin Living
         /\ book' \in [Books -> States] /\ rows' \in [Books -> Seq(Photo)] /\ rows'[b] # <<>>
         /\ FilesIn(rows'[b]) = {f} /\ CropsIn(rows'[b]) = {0}
         /\ book[b] = "none" /\ book'[b] = state
         /\ \A c \in Books \ {b} : rows'[c] = rows[c] /\ book'[c] = book[c]
<1>1. b \in Books /\ book[b] = "none"
  BY DEF Unused
<1>2. /\ book \in [Books -> States] /\ rows \in [Books -> Seq(Photo)]
  BY DEF PhotoTyped
<1>3. Row(f) \in Photo /\ Row(f).file = f /\ Row(f).crop = 0
  BY DEF Row, Photo
<1>4. /\ book'[b] = state /\ rows'[b] = <<Row(f)>>
      /\ \A c \in Books \ {b} : rows'[c] = rows[c] /\ book'[c] = book[c]
  BY <1>1, <1>2
<1>5. /\ rows'[b] \in Seq(Photo) /\ rows'[b] # <<>>
      /\ FilesIn(rows'[b]) = {f} /\ CropsIn(rows'[b]) = {0}
  BY <1>3, <1>4, OnlyOne
<1>6. rows' \in [Books -> Seq(Photo)]
  BY <1>2, <1>4, <1>5
<1>7. book' \in [Books -> States]
  BY <1>2, <1>4 DEF States
<1>8. There' = There \cup {b} /\ b \notin There
  BY <1>1, <1>2, <1>4 DEF There
<1>9. Living' = Living \cup {b} /\ b \notin Living
  BY <1>1, <1>2, <1>4 DEF Living
<1> QED BY <1>1, <1>4, <1>5, <1>6, <1>7, <1>8, <1>9

LEMMA Begins ==
  ASSUME PhotoInv, AttachNew
  PROVE  PhotoInv'
<1>1. PICK f : f = taken + 1
  OBVIOUS
<1>2. PICK b : b = Min(Unused)
  OBVIOUS
<1>3. /\ disk' = disk \cup {f}
      /\ book' = [book EXCEPT ![b] = "queued"]
      /\ rows' = [rows EXCEPT ![b] = <<Row(f)>>]
      /\ UNCHANGED <<removal, saving, derive, late, missed>>
  BY <1>1, <1>2 DEF AttachNew
<1>4. /\ taken \in Nat /\ taken' = taken + 1 /\ taken' \in 0 .. MaxShots
      /\ f \notin Stored /\ Stored' = Stored \cup {f} /\ f \in Nat
  BY <1>1, NewShot DEF AttachNew, PhotoInv
<1>5. b \in Unused
  BY <1>2, BooksNumbered DEF AttachNew
<1>6. /\ b \in Books /\ There' = There \cup {b} /\ Living' = Living \cup {b}
      /\ b \notin There /\ b \notin Living
      /\ book' \in [Books -> States] /\ rows' \in [Books -> Seq(Photo)] /\ rows'[b] # <<>>
      /\ FilesIn(rows'[b]) = {f} /\ CropsIn(rows'[b]) = {0}
      /\ book[b] = "none" /\ book'[b] = "queued"
      /\ \A c \in Books \ {b} : rows'[c] = rows[c] /\ book'[c] = book[c]
  BY <1>3, <1>4, <1>5, Opened DEF PhotoInv
<1>7. PhotoTyped'
  <2>1. ASSUME NEW c \in Books
        PROVE  /\ FilesIn(rows'[c]) \subseteq 1 .. taken'
               /\ CropsIn(rows'[c]) \subseteq {0} \cup Stored'
               /\ c \in There' <=> rows'[c] # <<>>
    <3>1. /\ FilesIn(rows[c]) \subseteq 1 .. taken /\ CropsIn(rows[c]) \subseteq {0} \cup Stored
          /\ c \in There <=> rows[c] # <<>>
      BY DEF PhotoInv, PhotoTyped
    <3>2. 1 .. taken' = (1 .. taken) \cup {f}
      BY <1>1, <1>4
    <3> QED BY <1>4, <1>6, <3>1, <3>2
  <2>2. disk' \subseteq Stored'
    BY <1>3, <1>4 DEF PhotoInv, PhotoTyped
  <2> QED BY <1>3, <1>4, <1>6, <2>1, <2>2 DEF PhotoInv, PhotoTyped
<1>8. Steady /\ UsesStay
  <2>1. \A c \in Books : book[c] # "none" => rows'[c] = rows[c] /\ book'[c] = book[c]
    BY <1>6
  <2>2. \A c \in Books : book[c] # "none" => Uses(c)' = Uses(c)
    BY <2>1 DEF Uses
  <2>3. Living \subseteq Books /\ \A c \in Living : rows'[c] = rows[c]
    BY <1>6 DEF Living
  <2>4. \A c \in Books : book[c] # "none" /\ c \in There' => c \in There
    BY <1>6
  <2>5. \A c \in Living' : \A g \in FilesIn(rows'[c]) :
          (g \notin Stored /\ g \in disk') \/ \E d \in Living : g \in FilesIn(rows[d])
    <3>1. f \in disk'
      BY <1>3
    <3> QED BY <1>4, <1>6, <2>3, <3>1
  <2>6. \A c \in Books : book[c] \in {"shelved", "deleted"} => book'[c] = book[c]
    BY <2>1
  <2>7. UsesStay
    BY <2>2 DEF UsesStay
  <2>8. late \subseteq late' /\ taken <= taken' /\ taken \in Nat /\ taken' \in Nat
    BY <1>3, <1>4
  <2> QED BY <2>1, <2>4, <2>5, <2>6, <2>7, <2>8 DEF Steady
<1>9. SavingInv' /\ DeriveInv' /\ Named' /\ \A r \in Sweepers : RemovalOf(r)'
  BY <1>3, <1>8, SavingStays, DeriveStays, RemovalStays, NamedStays DEF PhotoInv
<1>10. Kept'
  <2>1. \A g : InUse(g) => InUse(g)'
    <3>1. \A c \in Living : Uses(c)' = Uses(c)
      BY <1>6 DEF Living, Uses
    <3> QED BY <1>6, <3>1 DEF InUse
  <2>2. \A g : Swept(g) => Swept(g)'
    BY <1>3 DEF Swept
  <2>3. \A g : Made(g) => Made(g)'
    <3>1. book[derive.book] = "discarded" => book'[derive.book] = "discarded" \/ derive = Rest
      BY <1>6 DEF PhotoInv, DeriveInv
    <3> QED BY <1>3, <3>1 DEF Made, CropName
  <2>4. InUse(f)'
    BY <1>6 DEF InUse, Uses
  <2> QED BY <1>3, <2>1, <2>2, <2>3, <2>4 DEF PhotoInv, Kept, Claimed
<1> QED BY <1>7, <1>9, <1>10 DEF PhotoInv

LEMMA FailsToAttach ==
  ASSUME PhotoInv, AttachFails
  PROVE  PhotoInv'
<1>1. PICK f : f = taken + 1
  OBVIOUS
<1>2. /\ disk' = disk \cup {f} /\ missed' = missed \cup {f}
      /\ UNCHANGED <<book, rows, removal, saving, derive, late>>
  BY <1>1 DEF AttachFails
<1>3. /\ taken \in Nat /\ taken' = taken + 1 /\ taken' \in 0 .. MaxShots
      /\ Stored' = Stored \cup {f}
  BY <1>1, NewShot DEF AttachFails, PhotoInv
<1>4. There' = There /\ Living' = Living /\ \A c : Uses(c)' = Uses(c)
  BY <1>2 DEF There, Living, Uses
<1>5. PhotoTyped'
  <2>1. 1 .. taken \subseteq 1 .. taken'
    BY <1>3
  <2> QED BY <1>2, <1>3, <1>4, <2>1 DEF PhotoInv, PhotoTyped
<1>6. Steady /\ UsesStay
  BY <1>2, <1>3, <1>4 DEF Steady, UsesStay
<1>7. SavingInv' /\ DeriveInv' /\ Named' /\ \A r \in Sweepers : RemovalOf(r)'
  BY <1>2, <1>6, SavingStays, DeriveStays, RemovalStays, NamedStays DEF PhotoInv
<1>8. Kept'
  <2>1. \A g : Claimed(g) => Claimed(g)'
    BY <1>2, <1>4 DEF Claimed, InUse, Swept, Made, CropName
  <2> QED BY <1>2, <2>1 DEF PhotoInv, Kept
<1> QED BY <1>5, <1>7, <1>8 DEF PhotoInv
-----------------------------------------------------------------------------
(* Saving *)

LEMMA ReadsScan ==
  ASSUME PhotoInv, NEW b \in Books, ReadScan(b)
  PROVE  PhotoInv'
<1>1. /\ b \in There /\ saving' = [stage |-> "saving", scan |-> b, file |-> Last(rows[b]).file]
      /\ UNCHANGED <<book, rows, disk, taken, removal, derive, late, missed>>
  BY DEF ReadScan
<1>2. Steady /\ UsesStay
  BY <1>1, NothingMoves DEF PhotoInv
<1>3. PhotoTyped'
  BY <1>1, TypesStay DEF PhotoInv, PhotoTyped
<1>4. SavingInv'
  <2>1. rows[b] \in Seq(Photo) /\ rows[b] # <<>> /\ FilesIn(rows[b]) \subseteq 1 .. taken
    BY <1>1 DEF PhotoInv, PhotoTyped
  <2>2. Last(rows[b]).file \in FilesIn(rows[b])
    BY <2>1, NewestIsOne
  <2>3. book[b] # "none"
    BY <1>1 DEF There
  <2> QED BY <1>1, <2>1, <2>2, <2>3 DEF SavingInv
<1>5. DeriveInv' /\ Named' /\ \A r \in Sweepers : RemovalOf(r)'
  BY <1>1, <1>2, DeriveStays, RemovalStays, NamedStays DEF PhotoInv
<1>6. Kept'
  BY <1>1 DEF PhotoInv, Kept, Claimed, InUse, Uses, Living, Swept, Made, CropName
<1> QED BY <1>3, <1>4, <1>5, <1>6 DEF PhotoInv

LEMMA SavesQueued ==
  ASSUME PhotoInv, SaveQueued
  PROVE  PhotoInv'
<1>1. PICK b : b = saving.scan
  OBVIOUS
<1>2. /\ saving # Rest /\ book[b] = "queued" /\ book' = [book EXCEPT ![b] = "shelved"]
      /\ saving' = Rest
      /\ UNCHANGED <<rows, disk, taken, removal, derive, late, missed>>
  BY <1>1 DEF SaveQueued
<1>3. b \in Books
  BY <1>1, <1>2 DEF PhotoInv, SavingInv
<1>4. /\ book' \in [Books -> States] /\ book'[b] = "shelved"
      /\ \A c \in Books \ {b} : book'[c] = book[c]
  BY <1>2, <1>3 DEF PhotoInv, PhotoTyped, States
<1>5. There' = There /\ Living' = Living
  BY <1>2, <1>3, <1>4 DEF There, Living
<1>6. PhotoTyped'
  BY <1>2, <1>4, <1>5 DEF PhotoInv, PhotoTyped, Stored
<1>7. Steady /\ UsesStay
  <2>1. Living \subseteq Books
    BY DEF Living
  <2>2. taken \in Nat
    BY DEF PhotoInv, PhotoTyped
  <2> QED BY <1>2, <1>3, <1>4, <1>5, <2>1, <2>2 DEF Steady, UsesStay, Uses
<1>8. SavingInv'
  BY <1>2 DEF SavingInv, Rest
<1>9. DeriveInv' /\ Named' /\ \A r \in Sweepers : RemovalOf(r)'
  BY <1>2, <1>7, DeriveStays, RemovalStays, NamedStays DEF PhotoInv
<1>10. Kept'
  <2>1. \A g : InUse(g) => InUse(g)'
    BY <1>2, <1>5 DEF InUse, Uses
  <2>2. \A g : Swept(g) => Swept(g)'
    BY <1>2 DEF Swept
  <2>3. \A g : Made(g) => Made(g)'
    <3>1. derive # Rest => derive.book \in Books
      BY DEF PhotoInv, DeriveInv
    <3> QED BY <1>2, <1>4, <3>1 DEF Made, CropName
  <2> QED BY <1>2, <2>1, <2>2, <2>3 DEF PhotoInv, Kept, Claimed
<1> QED BY <1>6, <1>8, <1>9, <1>10 DEF PhotoInv

\* The new book names what the scan does, unless the scan has gone.
LEMMA SavesCopy ==
  ASSUME PhotoInv, SaveCopy
  PROVE  PhotoInv'
<1>1. PICK b : b = Min(Unused)
  OBVIOUS
<1>2. PICK f : f = saving.file
  OBVIOUS
<1>3. PICK scan : scan = saving.scan
  OBVIOUS
<1>4. /\ saving # Rest /\ Unused # {}
      /\ book' = [book EXCEPT ![b] = "shelved"]
      /\ rows' = [rows EXCEPT ![b] = <<Row(f)>>]
      /\ late' = IF scan \in Living THEN late ELSE late \cup {f}
      /\ saving' = Rest
      /\ UNCHANGED <<disk, taken, removal, derive, missed>>
  BY <1>1, <1>2, <1>3 DEF SaveCopy
<1>5. /\ scan \in Books /\ f \in 1 .. taken /\ (scan \in There => f \in FilesIn(rows[scan]))
  BY <1>2, <1>3, <1>4 DEF PhotoInv, SavingInv
<1>6. taken \in Nat /\ f \in Nat
  BY <1>5 DEF PhotoInv, PhotoTyped
<1>7. b \in Unused
  BY <1>1, <1>4, BooksNumbered
<1>8. /\ b \in Books /\ There' = There \cup {b} /\ Living' = Living \cup {b}
      /\ b \notin There /\ b \notin Living
      /\ book' \in [Books -> States] /\ rows' \in [Books -> Seq(Photo)] /\ rows'[b] # <<>>
      /\ FilesIn(rows'[b]) = {f} /\ CropsIn(rows'[b]) = {0}
      /\ book[b] = "none" /\ book'[b] = "shelved"
      /\ \A c \in Books \ {b} : rows'[c] = rows[c] /\ book'[c] = book[c]
  BY <1>4, <1>6, <1>7, Opened DEF PhotoInv
<1>9. PhotoTyped'
  <2>1. Stored' = Stored
    BY <1>4 DEF Stored
  <2>2. ASSUME NEW c \in Books
        PROVE  /\ FilesIn(rows'[c]) \subseteq 1 .. taken'
               /\ CropsIn(rows'[c]) \subseteq {0} \cup Stored'
               /\ c \in There' <=> rows'[c] # <<>>
    <3>1. /\ FilesIn(rows[c]) \subseteq 1 .. taken /\ CropsIn(rows[c]) \subseteq {0} \cup Stored
          /\ c \in There <=> rows[c] # <<>>
      BY DEF PhotoInv, PhotoTyped
    <3> QED BY <1>4, <1>5, <1>8, <2>1, <3>1
  <2> QED BY <1>4, <1>8, <2>1, <2>2 DEF PhotoInv, PhotoTyped
<1>10. Steady /\ UsesStay
  <2>1. \A c \in Books : book[c] # "none" => rows'[c] = rows[c] /\ book'[c] = book[c]
    BY <1>8
  <2>2. \A c \in Books : book[c] # "none" => Uses(c)' = Uses(c)
    BY <2>1 DEF Uses
  <2>3. Living \subseteq Books /\ \A c \in Living : rows'[c] = rows[c]
    BY <1>8 DEF Living
  <2>4. \A c \in Books : book[c] # "none" /\ c \in There' => c \in There
    BY <1>8
  <2>5. \A c \in Living' : \A g \in FilesIn(rows'[c]) :
          g \in late' \/ \E d \in Living : g \in FilesIn(rows[d])
    <3>1. f \in late' \/ \E d \in Living : f \in FilesIn(rows[d])
      <4>1. CASE scan \in Living
        <5>1. scan \in There
          BY <4>1 DEF Living, There
        <5> QED BY <4>1, <5>1, <1>5
      <4>2. CASE scan \notin Living
        BY <4>2, <1>4
      <4> QED BY <4>1, <4>2
    <3> QED BY <1>8, <2>3, <3>1
  <2>6. \A c \in Books : book[c] \in {"shelved", "deleted"} => book'[c] = book[c]
    BY <2>1
  <2>7. UsesStay
    BY <2>2 DEF UsesStay
  <2>8. late \subseteq late' /\ taken <= taken' /\ taken \in Nat /\ taken' \in Nat
    BY <1>4, <1>6
  <2> QED BY <2>1, <2>4, <2>5, <2>6, <2>7, <2>8 DEF Steady
<1>11. SavingInv'
  BY <1>4 DEF SavingInv, Rest
<1>12. DeriveInv' /\ Named' /\ \A r \in Sweepers : RemovalOf(r)'
  BY <1>4, <1>10, DeriveStays, RemovalStays, NamedStays DEF PhotoInv
<1>13. Kept'
  <2>1. \A g : InUse(g) => InUse(g)'
    <3>1. \A c \in Living : Uses(c)' = Uses(c)
      BY <1>8 DEF Living, Uses
    <3> QED BY <1>8, <3>1 DEF InUse
  <2>2. \A g : Swept(g) => Swept(g)'
    BY <1>4 DEF Swept
  <2>3. \A g : Made(g) => Made(g)'
    <3>1. derive # Rest => derive.book \in Books \ {b}
      BY <1>8 DEF PhotoInv, DeriveInv
    <3> QED BY <1>4, <1>8, <3>1 DEF Made, CropName
  <2> QED BY <1>4, <2>1, <2>2, <2>3 DEF PhotoInv, Kept, Claimed
<1> QED BY <1>9, <1>11, <1>12, <1>13 DEF PhotoInv

-----------------------------------------------------------------------------
(* Discarding and deleting *)

LEMMA SweepingOf ==
  ASSUME NEW r \in Sweepers, NEW names \in Seq(Nat), ToSet(names) \subseteq Stored',
         removal'[r] = Sweeping(r, names)
  PROVE  RemovalOf(r)' /\ \A f \in ToSet(names) : Swept(f)'
<1>1. CASE names = <<>>
  <2>1. ToSet(names) = {}
    BY <1>1 DEF ToSet
  <2>2. removal'[r] = Over(r) /\ Over(r)' = Over(r)
    BY <1>1 DEF Sweeping, Over, Rest
  <2> QED BY <2>1, <2>2 DEF RemovalOf
<1>2. CASE names # <<>>
  <2>1. removal'[r] = [stage |-> "sweeping", left |-> names]
    BY <1>2 DEF Sweeping
  <2>2. Underway(r)'
    BY <1>2, <2>1 DEF Underway
  <2>3. \A f \in ToSet(names) : Swept(f)'
    BY <2>1 DEF Swept
  <2> QED BY <2>2, <2>3 DEF RemovalOf
<1> QED BY <1>1, <1>2

LEMMA ListedFiles ==
  ASSUME PhotoTyped, NEW b \in Books
  PROVE  /\ FilesOf(b) \in Seq(Nat) /\ ToSet(FilesOf(b)) = Uses(b) \ {0}
         /\ ToSet(FilesOf(b)) \subseteq Stored
<1>1. /\ rows[b] \in Seq(Photo) /\ FilesIn(rows[b]) \subseteq 1 .. taken
      /\ CropsIn(rows[b]) \subseteq {0} \cup Stored /\ taken \in Nat
  BY DEF PhotoTyped
<1>2. 0 \notin FilesIn(rows[b]) /\ FilesIn(rows[b]) \subseteq Stored
  BY <1>1 DEF Stored
<1>3. FilesOf(b) \in Seq(Nat) /\ ToSet(FilesOf(b)) = Uses(b) \ {0}
  BY <1>1, <1>2, FilesOfIsAll
<1> QED BY <1>1, <1>2, <1>3 DEF Uses

LEMMA ReadsFiles ==
  ASSUME PhotoInv, NEW r \in Removals, NEW b \in Books, NEW way, ReadFiles(r, b, way)
  PROVE  PhotoInv'
<1>1. PICK names : names = FilesOf(b)
  OBVIOUS
<1>2. /\ removal[r] = Rest /\ b \in There
      /\ removal' = [removal EXCEPT ![r] = [stage |-> "read", book |-> b, way |-> way, names |-> names]]
      /\ UNCHANGED <<book, rows, disk, taken, saving, derive, late, missed>>
  BY <1>1 DEF ReadFiles
<1>3. r \in Sweepers /\ r # Worker
  BY PhotographsAssumption DEF Sweepers
<1>4. /\ removal'[r] = [stage |-> "read", book |-> b, way |-> way, names |-> names]
      /\ \A q \in Sweepers \ {r} : removal'[q] = removal[q]
      /\ removal' = [q \in Sweepers |-> removal'[q]]
  BY <1>2, <1>3 DEF PhotoInv, PhotoTyped
<1>5. Steady /\ UsesStay
  BY <1>2, NothingMoves DEF PhotoInv
<1>6. PhotoTyped'
  BY <1>2, <1>4, TypesStay DEF PhotoInv, PhotoTyped
<1>7. RemovalOf(r)'
  <2>1. names \in Seq(Nat) /\ ToSet(names) \subseteq Stored' /\ book[b] # "none"
    <3>1. Stored \subseteq Stored'
      BY <1>5, StoredGrows
    <3> QED BY <1>1, <1>2, <3>1, ListedFiles DEF PhotoInv, There
  <2>2. Begun(r)'
    BY <1>2, <1>4, <2>1 DEF Begun
  <2> QED BY <2>2 DEF RemovalOf
<1>8. \A q \in Sweepers : RemovalOf(q)'
  BY <1>4, <1>5, <1>7, RemovalStays DEF PhotoInv
<1>9. Worker \in Sweepers /\ removal'[Worker] = removal[Worker]
  BY <1>3, <1>4 DEF Sweepers
<1>10. SavingInv' /\ DeriveInv' /\ Named'
  BY <1>2, <1>5, <1>9, SavingStays, DeriveStays, NamedStays DEF PhotoInv
<1>11. Kept'
  <2>1. \A g : Swept(g) => Swept(g)'
    BY <1>2, <1>4 DEF Swept, Rest
  <2>2. \A g : (InUse(g) => InUse(g)') /\ (Made(g) => Made(g)')
    BY <1>2 DEF InUse, Living, Uses, Made, CropName
  <2> QED BY <1>2, <2>1, <2>2 DEF PhotoInv, Kept, Claimed
<1> QED BY <1>6, <1>8, <1>10, <1>11 DEF PhotoInv
\* The book leaves the shelf or the queue, or was gone already, and what it named and
\* the request had not listed is missed.
LEMMA TakesOff ==
  ASSUME PhotoInv, NEW r \in Removals, removal[r].stage = "read",
         NEW b, b = removal[r].book, NEW names, names = removal[r].names,
         NEW state \in {"discarded", "deleted"},
         b \in There, state = "discarded" => book[b] \in {"queued", "discarded"},
         book' = [book EXCEPT ![b] = state],
         IF state = "deleted" THEN rows' = [rows EXCEPT ![b] = <<>>] ELSE rows' = rows,
         missed' = missed \cup (ToSet(FilesOf(b)) \ ToSet(names)),
         removal' = [removal EXCEPT ![r] = Sweeping(r, names)],
         UNCHANGED <<disk, taken, saving, derive, late>>
  PROVE  PhotoInv'
<1>1. r \in Sweepers /\ r # Worker /\ Worker \in Sweepers
  BY PhotographsAssumption DEF Sweepers
<1>2. Begun(r)
  BY <1>1 DEF PhotoInv, RemovalOf, Begun, Underway, Over, Rest
<1>3. b \in Books /\ names \in Seq(Nat) /\ ToSet(names) \subseteq Stored
  BY <1>2 DEF Begun
<1>4. /\ removal'[r] = Sweeping(r, names)
      /\ \A q \in Sweepers \ {r} : removal'[q] = removal[q]
      /\ removal' = [q \in Sweepers |-> removal'[q]]
  BY <1>1 DEF PhotoInv, PhotoTyped
<1>5. /\ book \in [Books -> States] /\ rows \in [Books -> Seq(Photo)] /\ taken \in Nat
  BY DEF PhotoInv, PhotoTyped
<1>6. /\ book'[b] = state /\ \A c \in Books \ {b} : book'[c] = book[c]
      /\ \A c \in Books \ {b} : rows'[c] = rows[c]
      /\ IF state = "deleted" THEN rows'[b] = <<>> ELSE rows'[b] = rows[b]
      /\ rows' \in [Books -> Seq(Photo)] /\ book' \in [Books -> States]
  <2>1. book'[b] = state /\ (\A c \in Books \ {b} : book'[c] = book[c]) /\ book' \in [Books -> States]
    BY <1>3, <1>5 DEF States
  <2>2. CASE state = "deleted"
    <3>1. <<>> \in Seq(Photo) /\ rows' = [rows EXCEPT ![b] = <<>>]
      BY <2>2
    <3>2. rows'[b] = <<>> /\ (\A c \in Books \ {b} : rows'[c] = rows[c]) /\ rows' \in [Books -> Seq(Photo)]
      BY <3>1, <1>3, <1>5
    <3> QED BY <2>1, <2>2, <3>2
  <2>3. CASE state # "deleted"
    BY <2>1, <2>3, <1>5
  <2> QED BY <2>2, <2>3
<1>7. There' = IF state = "deleted" THEN There \ {b} ELSE There
  BY <1>3, <1>6 DEF There
<1>8. Living' = Living \ {b}
  BY <1>3, <1>6 DEF Living
<1>9. Stored' = Stored
  BY DEF Stored
<1>10. PhotoTyped'
  <2>1. ASSUME NEW c \in Books
        PROVE  /\ FilesIn(rows'[c]) \subseteq 1 .. taken'
               /\ CropsIn(rows'[c]) \subseteq {0} \cup Stored'
               /\ c \in There' <=> rows'[c] # <<>>
    <3>1. /\ FilesIn(rows[c]) \subseteq 1 .. taken /\ CropsIn(rows[c]) \subseteq {0} \cup Stored
          /\ c \in There <=> rows[c] # <<>>
      BY DEF PhotoInv, PhotoTyped
    <3>2. FilesIn(<<>>) = {} /\ CropsIn(<<>>) = {}
      BY NoneAtAll
    <3> QED BY <1>6, <1>7, <1>9, <3>1, <3>2
  <2> QED BY <1>4, <1>6, <1>9, <2>1 DEF PhotoInv, PhotoTyped
<1>11. Steady /\ UsesStay
  <2>1. \A c \in There' : c \in There /\ (c \in Books => rows'[c] = rows[c])
    BY <1>6, <1>7
  <2>2. \A c \in Living' : c \in Living /\ c \in Books /\ rows'[c] = rows[c]
    BY <1>6, <1>8 DEF Living
  <2>3. \A c \in Books : book[c] # "none" => book'[c] # "none"
    BY <1>6
  <2>4. \A c \in Books : book[c] \in {"shelved", "deleted"} => book'[c] \in {"shelved", "deleted"}
    BY <1>6
  <2>5. UsesStay
    BY <2>1 DEF UsesStay, Uses
  <2> QED BY <1>5, <2>1, <2>2, <2>3, <2>4, <2>5 DEF Steady
<1>12. RemovalOf(r)' /\ \A f \in ToSet(names) : Swept(f)'
  BY <1>1, <1>3, <1>4, <1>9, SweepingOf
<1>13. \A q \in Sweepers : RemovalOf(q)'
  BY <1>4, <1>11, <1>12, RemovalStays DEF PhotoInv
<1>14. SavingInv' /\ DeriveInv' /\ Named'
  BY <1>1, <1>4, <1>11, SavingStays, DeriveStays, NamedStays DEF PhotoInv
<1>15. \A g \in Uses(b) \ {0} : g \in missed' \/ Swept(g)'
  BY <1>3, <1>12, ListedFiles DEF PhotoInv
<1>16. Kept'
  <2>1. ASSUME NEW g \in disk, g \notin missed' PROVE Claimed(g)'
    <3>1. g # 0 /\ Claimed(g)
      <4>1. g \in Stored /\ MaxShots \in Nat
        BY <2>1, PhotographsAssumption DEF PhotoInv, PhotoTyped
      <4>2. g # 0
        BY <4>1, <1>5 DEF Stored
      <4> QED BY <2>1, <4>2 DEF PhotoInv, Kept
    <3>2. CASE InUse(g)
      <4>1. PICK c \in Living : g \in Uses(c)
        BY <3>2 DEF InUse
      <4>2. CASE c = b
        BY <2>1, <3>1, <4>1, <4>2, <1>15 DEF Claimed
      <4>3. CASE c # b
        <5>1. c \in Living' /\ Uses(c)' = Uses(c)
          BY <4>1, <4>3, <1>6, <1>8 DEF Uses, Living
        <5> QED BY <4>1, <5>1 DEF Claimed, InUse
      <4> QED BY <4>2, <4>3
    <3>3. CASE Swept(g)
      <4>1. PICK q \in Sweepers : removal[q].stage \in {"sweeping", "removing"}
                                  /\ g \in ToSet(removal[q].left)
        BY <3>3 DEF Swept
      <4>2. q # r
        BY <4>1
      <4> QED BY <4>1, <4>2, <1>4 DEF Claimed, Swept
    <3>4. CASE Made(g)
      <4>1. derive # Rest /\ derive.book \in Books /\ CropName(derive.file) = g
        BY <3>4 DEF Made, PhotoInv, DeriveInv
      <4>2. CASE derive.stage = "recording" \/ derive.book # b \/ state = "discarded"
        <5>1. Made(g)'
          BY <3>4, <4>1, <4>2, <1>6 DEF Made, CropName
        <5> QED BY <5>1 DEF Claimed
      <4>3. CASE derive.stage = "checking" /\ derive.book = b
        <5>1. g \in Uses(b)
          BY <4>1, <4>3 DEF PhotoInv, DeriveInv
        <5> QED BY <2>1, <3>1, <5>1, <1>15 DEF Claimed
      <4> QED BY <3>4, <4>2, <4>3 DEF Made
    <3> QED BY <3>1, <3>2, <3>3, <3>4 DEF Claimed
  <2> QED BY <2>1 DEF Kept
<1> QED BY <1>10, <1>13, <1>14, <1>16 DEF PhotoInv

\* The request has nothing to do.
LEMMA GivesUp ==
  ASSUME PhotoInv, NEW r \in Removals, removal[r].stage = "read",
         removal' = [removal EXCEPT ![r] = Over(r)],
         UNCHANGED <<book, rows, disk, taken, saving, derive, late, missed>>
  PROVE  PhotoInv'
<1>1. r \in Sweepers /\ r # Worker /\ Worker \in Sweepers
  BY PhotographsAssumption DEF Sweepers
<1>2. /\ removal'[r] = Over(r)
      /\ \A q \in Sweepers \ {r} : removal'[q] = removal[q]
      /\ removal' = [q \in Sweepers |-> removal'[q]]
  BY <1>1 DEF PhotoInv, PhotoTyped
<1>3. Steady /\ UsesStay
  BY NothingMoves DEF PhotoInv
<1>4. PhotoTyped'
  BY <1>2, TypesStay DEF PhotoInv, PhotoTyped
<1>5. RemovalOf(r)'
  BY <1>2 DEF RemovalOf, Over, Rest
<1>6. \A q \in Sweepers : RemovalOf(q)'
  BY <1>2, <1>3, <1>5, RemovalStays DEF PhotoInv
<1>7. SavingInv' /\ DeriveInv' /\ Named'
  BY <1>1, <1>2, <1>3, SavingStays, DeriveStays, NamedStays DEF PhotoInv
<1>8. Kept'
  <2>1. \A g : Swept(g) => Swept(g)'
    BY <1>2 DEF Swept
  <2>2. \A g : (InUse(g) => InUse(g)') /\ (Made(g) => Made(g)')
    BY DEF InUse, Living, Uses, Made, CropName
  <2> QED BY <2>1, <2>2 DEF PhotoInv, Kept, Claimed
<1> QED BY <1>4, <1>6, <1>7, <1>8 DEF PhotoInv

LEMMA Discards ==
  ASSUME PhotoInv, NEW r \in Removals, Discard(r)
  PROVE  PhotoInv'
<1>1. PICK b : b = removal[r].book
  OBVIOUS
<1>2. removal[r].stage = "read" /\ UNCHANGED <<rows, disk, taken, saving, derive, late>>
  BY DEF Discard
<1>3. CASE book[b] \in {"queued", "discarded"}
  <2>1. /\ book' = [book EXCEPT ![b] = "discarded"]
        /\ missed' = missed \cup (ToSet(FilesOf(b)) \ ToSet(removal[r].names))
        /\ removal' = [removal EXCEPT ![r] = Sweeping(r, removal[r].names)]
    BY <1>1, <1>3 DEF Discard
  <2>2. b \in There
    <3>1. Begun(r)
      BY <1>2 DEF PhotoInv, Sweepers, RemovalOf, Begun, Underway, Over, Rest
    <3> QED BY <1>1, <1>3, <3>1 DEF Begun, There
  <2>3. IF "discarded" = "deleted" THEN rows' = [rows EXCEPT ![b] = <<>>] ELSE rows' = rows
    BY <1>2
  <2> QED BY <1>1, <1>2, <1>3, <2>1, <2>2, <2>3, TakesOff
<1>4. CASE book[b] \notin {"queued", "discarded"}
  <2>1. removal' = [removal EXCEPT ![r] = Over(r)] /\ UNCHANGED <<book, missed>>
    BY <1>1, <1>4 DEF Discard
  <2> QED BY <1>2, <2>1, GivesUp
<1> QED BY <1>3, <1>4

LEMMA Deletes ==
  ASSUME PhotoInv, NEW r \in Removals, DeleteBook(r)
  PROVE  PhotoInv'
<1>1. PICK b : b = removal[r].book
  OBVIOUS
<1>2. removal[r].stage = "read" /\ UNCHANGED <<disk, taken, saving, derive, late>>
  BY DEF DeleteBook
<1>3. CASE b \in There
  <2>1. /\ book' = [book EXCEPT ![b] = "deleted"]
        /\ rows' = [rows EXCEPT ![b] = <<>>]
        /\ missed' = missed \cup (ToSet(FilesOf(b)) \ ToSet(removal[r].names))
        /\ removal' = [removal EXCEPT ![r] = Sweeping(r, removal[r].names)]
    BY <1>1, <1>3 DEF DeleteBook
  <2>2. IF "deleted" = "deleted" THEN rows' = [rows EXCEPT ![b] = <<>>] ELSE rows' = rows
    BY <2>1
  <2> QED BY <1>1, <1>2, <1>3, <2>1, <2>2, TakesOff
<1>4. CASE b \notin There
  <2>1. removal' = [removal EXCEPT ![r] = Over(r)] /\ UNCHANGED <<book, rows, missed>>
    BY <1>1, <1>4 DEF DeleteBook
  <2> QED BY <1>2, <2>1, GivesUp
<1> QED BY <1>3, <1>4

\* A name that is in use is passed over; one that is not is removed next.
LEMMA LooksForUse ==
  ASSUME PhotoInv, NEW r \in Sweepers, LookForUse(r)
  PROVE  PhotoInv'
<1>1. PICK left : left = removal[r].left
  OBVIOUS
<1>2. /\ removal[r].stage = "sweeping"
      /\ UNCHANGED <<book, rows, disk, taken, saving, derive, late, missed>>
  BY DEF LookForUse
<1>3. /\ removal[r] = [stage |-> "sweeping", left |-> left]
      /\ left \in Seq(Nat) /\ left # <<>> /\ ToSet(left) \subseteq Stored
  <2>1. Underway(r)
    BY <1>2 DEF PhotoInv, RemovalOf, Begun, Over, Rest
  <2> QED BY <1>1, <1>2, <2>1 DEF Underway
<1>4. removal' = [removal EXCEPT ![r] = IF ImageInUse(Head(left)) THEN Sweeping(r, Tail(left))
                                        ELSE [stage |-> "removing", left |-> left]]
  <2>1. [removal[r] EXCEPT !.stage = "removing"] = [stage |-> "removing", left |-> left]
    BY <1>3
  <2>2. removal' = [removal EXCEPT ![r] = IF ImageInUse(Head(removal[r].left))
                                          THEN Sweeping(r, Tail(removal[r].left))
                                          ELSE [removal[r] EXCEPT !.stage = "removing"]]
    BY DEF LookForUse
  <2> QED BY <2>1, <2>2, <1>1, Zenon
<1>5. /\ removal'[r] = IF ImageInUse(Head(left)) THEN Sweeping(r, Tail(left))
                       ELSE [stage |-> "removing", left |-> left]
      /\ \A q \in Sweepers \ {r} : removal'[q] = removal[q]
      /\ removal' = [q \in Sweepers |-> removal'[q]]
  BY <1>4 DEF PhotoInv, PhotoTyped
<1>6. /\ Head(left) \in ToSet(left) /\ Tail(left) \in Seq(Nat)
      /\ ToSet(left) = {Head(left)} \cup ToSet(Tail(left))
  BY <1>3, HeadAndTail
<1>7. Steady /\ UsesStay
  BY <1>2, NothingMoves DEF PhotoInv
<1>8. PhotoTyped'
  BY <1>2, <1>5, TypesStay DEF PhotoInv, PhotoTyped
<1>9. Stored' = Stored /\ (\A g : InUse(g)' <=> InUse(g)) /\ Living' = Living
  BY <1>2 DEF Stored, InUse, Living, Uses
<1>10. RemovalOf(r)' /\ \A g \in ToSet(left) : Swept(g)' \/ InUse(g)'
  <2>1. CASE ImageInUse(Head(left))
    <3>1. RemovalOf(r)' /\ \A g \in ToSet(Tail(left)) : Swept(g)'
      BY <2>1, <1>3, <1>5, <1>6, <1>9, SweepingOf
    <3>2. InUse(Head(left))'
      <4>1. PICK g : g = Head(left)
        OBVIOUS
      <4>2. InUse(g)
        BY <2>1, <4>1, InUseIsNaming
      <4> QED BY <4>1, <4>2, <1>9
    <3> QED BY <3>1, <3>2, <1>6
  <2>2. CASE ~ImageInUse(Head(left))
    <3>1. removal'[r] = [stage |-> "removing", left |-> left]
      BY <2>2, <1>5
    <3>2. \A b \in Living' : Head(left) \notin FilesIn(rows'[b])
      <4>1. ~InUse(Head(left))
        BY <2>2, InUseIsNaming
      <4> QED BY <4>1, <1>2, <1>9 DEF InUse, Uses
    <3>3. Underway(r)'
      BY <3>1, <3>2, <1>3, <1>9 DEF Underway
    <3>4. \A g \in ToSet(left) : Swept(g)'
      BY <3>1 DEF Swept
    <3> QED BY <3>3, <3>4 DEF RemovalOf
  <2> QED BY <2>1, <2>2
<1>11. \A q \in Sweepers : RemovalOf(q)'
  BY <1>5, <1>7, <1>10, RemovalStays DEF PhotoInv
<1>12. DeriveInv'
  <2>1. CASE derive = Rest
    BY <2>1, <1>2 DEF DeriveInv, Rest
  <2>2. CASE derive # Rest
    <3>1. removal[Worker] = Rest
      BY <2>2 DEF PhotoInv, DeriveInv
    <3>2. r # Worker /\ Worker \in Sweepers
      BY <3>1, <1>2 DEF Rest, Sweepers
    <3> QED BY <3>2, <1>2, <1>5, <1>7, DeriveStays DEF PhotoInv
  <2> QED BY <2>1, <2>2
<1>13. SavingInv' /\ Named'
  BY <1>2, <1>7, SavingStays, NamedStays DEF PhotoInv
<1>14. Kept'
  <2>1. \A g : Swept(g) => Swept(g)' \/ InUse(g)'
    <3> SUFFICES ASSUME NEW g, Swept(g) PROVE Swept(g)' \/ InUse(g)'
      OBVIOUS
    <3>1. PICK q \in Sweepers : removal[q].stage \in {"sweeping", "removing"}
                                /\ g \in ToSet(removal[q].left)
      BY DEF Swept
    <3>2. CASE q = r
      BY <3>1, <3>2, <1>1, <1>10
    <3>3. CASE q # r
      BY <3>1, <3>3, <1>5 DEF Swept
    <3> QED BY <3>2, <3>3
  <2>2. \A g : Made(g) => Made(g)'
    BY <1>2 DEF Made, CropName
  <2> QED BY <1>2, <1>9, <2>1, <2>2 DEF PhotoInv, Kept, Claimed
<1> QED BY <1>8, <1>11, <1>12, <1>13, <1>14 DEF PhotoInv

\* No living book names the file that goes, but for one saved too late.
LEMMA RemovesFile ==
  ASSUME PhotoInv, NEW r \in Sweepers, RemoveFile(r)
  PROVE  PhotoInv'
<1>1. PICK left : left = removal[r].left
  OBVIOUS
<1>2. /\ removal[r].stage = "removing" /\ disk' = disk \ {Head(left)}
      /\ removal' = [removal EXCEPT ![r] = Sweeping(r, Tail(left))]
      /\ UNCHANGED <<book, rows, taken, saving, derive, late, missed>>
  BY <1>1 DEF RemoveFile
<1>3. Underway(r)
  BY <1>2 DEF PhotoInv, RemovalOf, Begun, Over, Rest
<1>4. left \in Seq(Nat) /\ left # <<>> /\ ToSet(left) \subseteq Stored
  BY <1>1, <1>3 DEF Underway
<1>5. /\ Head(left) \in ToSet(left) /\ Tail(left) \in Seq(Nat)
      /\ ToSet(left) = {Head(left)} \cup ToSet(Tail(left))
  BY <1>4, HeadAndTail
<1>6. /\ removal'[r] = Sweeping(r, Tail(left))
      /\ \A q \in Sweepers \ {r} : removal'[q] = removal[q]
      /\ removal' = [q \in Sweepers |-> removal'[q]]
  BY <1>2 DEF PhotoInv, PhotoTyped
<1>7. Steady /\ UsesStay
  BY <1>2, NothingMoves DEF PhotoInv
<1>8. PhotoTyped'
  BY <1>2, <1>6, TypesStay DEF PhotoInv, PhotoTyped
<1>9. Stored' = Stored /\ (\A g : InUse(g)' <=> InUse(g)) /\ Living' = Living
  BY <1>2 DEF Stored, InUse, Living, Uses
<1>10. RemovalOf(r)' /\ \A g \in ToSet(Tail(left)) : Swept(g)'
  BY <1>4, <1>5, <1>6, <1>9, SweepingOf
<1>11. \A q \in Sweepers : RemovalOf(q)'
  BY <1>6, <1>7, <1>10, RemovalStays DEF PhotoInv
<1>12. DeriveInv'
  <2>1. CASE derive = Rest
    BY <2>1, <1>2 DEF DeriveInv, Rest
  <2>2. CASE derive # Rest
    <3>1. removal[Worker] = Rest
      BY <2>2 DEF PhotoInv, DeriveInv
    <3>2. r # Worker /\ Worker \in Sweepers
      BY <3>1, <1>2 DEF Rest, Sweepers
    <3> QED BY <3>2, <1>2, <1>6, <1>7, DeriveStays DEF PhotoInv
  <2> QED BY <2>1, <2>2
<1>13. SavingInv'
  BY <1>2, <1>7, SavingStays DEF PhotoInv
<1>14. Named'
  <2>1. Head(left) \in late \/ \A b \in Living : Head(left) \notin FilesIn(rows[b])
    BY <1>1, <1>2, <1>3 DEF Underway
  <2> QED BY <1>2, <1>9, <2>1 DEF PhotoInv, Named
<1>15. Kept'
  <2>1. ASSUME NEW g \in disk', g \notin missed PROVE Claimed(g)'
    <3>1. g # Head(left) /\ Claimed(g)
      BY <2>1, <1>2 DEF PhotoInv, Kept
    <3>2. CASE InUse(g)
      BY <3>2, <1>9 DEF Claimed
    <3>3. CASE Swept(g)
      <4>1. PICK q \in Sweepers : removal[q].stage \in {"sweeping", "removing"}
                                  /\ g \in ToSet(removal[q].left)
        BY <3>3 DEF Swept
      <4>2. CASE q = r
        BY <3>1, <4>1, <4>2, <1>1, <1>5, <1>10 DEF Claimed
      <4>3. CASE q # r
        BY <4>1, <4>3, <1>6 DEF Claimed, Swept
      <4> QED BY <4>2, <4>3
    <3>4. CASE Made(g)
      BY <3>4, <1>2 DEF Claimed, Made, CropName
    <3> QED BY <3>1, <3>2, <3>3, <3>4 DEF Claimed
  <2> QED BY <2>1, <1>2 DEF Kept
<1> QED BY <1>8, <1>11, <1>12, <1>13, <1>14, <1>15 DEF PhotoInv
-----------------------------------------------------------------------------
(* Hashing and cropping *)

LEMMA Deriving ==
  ASSUME PhotoInv, derive # Rest
  PROVE  /\ derive = [stage |-> derive.stage, book |-> derive.book, file |-> derive.file,
                      cropped |-> derive.cropped, worker |-> derive.worker]
         /\ derive.book \in Books /\ derive.file \in 1 .. taken
         /\ derive.cropped \in BOOLEAN /\ derive.worker \in BOOLEAN
         /\ book[derive.book] # "none"
         /\ ~derive.worker => book[derive.book] \in {"shelved", "deleted"}
         /\ derive.stage = "checking" =>
              derive.worker /\ (derive.book \in There => CropName(derive.file) \in Uses(derive.book))
         /\ removal[Worker] = Rest
         /\ CropName(derive.file) \in Nat /\ CropName(derive.file) \in Stored
         /\ CropName(derive.file) # 0
<1>1. /\ derive \in [stage : {"hashing", "cropping", "recording", "checking"}, book : Books,
                     file : 1 .. taken, cropped : BOOLEAN, worker : BOOLEAN]
      /\ book[derive.book] # "none"
      /\ ~derive.worker => book[derive.book] \in {"shelved", "deleted"}
      /\ derive.stage = "checking" =>
           derive.worker /\ (derive.book \in There => CropName(derive.file) \in Uses(derive.book))
      /\ removal[Worker] = Rest
  BY DEF PhotoInv, DeriveInv
<1>2. derive.file \in 1 .. taken /\ taken \in Nat /\ MaxShots \in Nat
  BY <1>1, PhotographsAssumption DEF PhotoInv, PhotoTyped
<1>3. CropName(derive.file) \in Nat /\ CropName(derive.file) > MaxShots /\ CropName(derive.file) # 0
  BY <1>2 DEF CropName
<1>4. CropName(derive.file) \in Stored
  BY <1>3 DEF Stored
<1> QED BY <1>1, <1>3, <1>4

LEMMA StartsDeriving ==
  ASSUME PhotoInv, NEW b \in Books, StartDerive(b)
  PROVE  PhotoInv'
<1>1. /\ derive = Rest /\ removal[Worker] = Rest /\ b \in Living
      /\ UNCHANGED <<book, rows, disk, taken, removal, saving, late, missed>>
      /\ derive' = [stage |-> IF Last(rows[b]).hash = 0 THEN "hashing" ELSE "cropping",
                    book |-> b, file |-> Last(rows[b]).file, cropped |-> Last(rows[b]).crop # 0,
                    worker |-> book[b] = "queued"]
  BY DEF StartDerive
<1>2. Steady /\ UsesStay
  BY <1>1, NothingMoves DEF PhotoInv
<1>3. PhotoTyped'
  BY <1>1, TypesStay DEF PhotoInv, PhotoTyped
<1>4. DeriveInv'
  <2>1. b \in There /\ book[b] \in {"queued", "shelved"}
    BY <1>1 DEF Living, There
  <2>2. rows[b] \in Seq(Photo) /\ rows[b] # <<>> /\ FilesIn(rows[b]) \subseteq 1 .. taken
    BY <2>1 DEF PhotoInv, PhotoTyped
  <2>3. Last(rows[b]).file \in 1 .. taken
    BY <2>2, NewestIsOne
  <2>4. derive' \in [stage : {"hashing", "cropping", "recording", "checking"}, book : Books,
                     file : 1 .. taken, cropped : BOOLEAN, worker : BOOLEAN]
    BY <1>1, <2>3
  <2>5. derive'.stage # "checking" /\ derive'.book = b /\ derive'.worker = (book[b] = "queued")
    BY <1>1
  <2> QED BY <1>1, <2>1, <2>4, <2>5 DEF DeriveInv, Rest
<1>5. SavingInv' /\ Named' /\ \A r \in Sweepers : RemovalOf(r)'
  BY <1>1, <1>2, SavingStays, RemovalStays, NamedStays DEF PhotoInv
<1>6. Kept'
  <2>1. \A g : (InUse(g) => InUse(g)') /\ (Swept(g) => Swept(g)') /\ ~Made(g)
    BY <1>1 DEF InUse, Living, Uses, Swept, Made
  <2> QED BY <1>1, <2>1 DEF PhotoInv, Kept, Claimed
<1> QED BY <1>3, <1>4, <1>5, <1>6 DEF PhotoInv

LEMMA Hashes ==
  ASSUME PhotoInv, Hash
  PROVE  PhotoInv'
<1>1. PICK b : b = derive.book
  OBVIOUS
<1>2. /\ derive.stage = "hashing" /\ rows' = OnNewest(b, "hash", derive.file)
      /\ derive' = IF derive.cropped THEN Rest ELSE [derive EXCEPT !.stage = "cropping"]
      /\ UNCHANGED <<book, disk, taken, removal, saving, late, missed>>
  BY <1>1 DEF Hash
<1>3. derive # Rest
  BY <1>2 DEF Rest
<1>4. /\ derive = [stage |-> derive.stage, book |-> derive.book, file |-> derive.file,
                   cropped |-> derive.cropped, worker |-> derive.worker]
      /\ b \in Books /\ derive.file \in 1 .. taken
      /\ derive.cropped \in BOOLEAN /\ derive.worker \in BOOLEAN
      /\ book[b] # "none" /\ (~derive.worker => book[b] \in {"shelved", "deleted"})
      /\ removal[Worker] = Rest
  BY <1>1, <1>3, Deriving
<1>5. rows \in [Books -> Seq(Photo)] /\ taken \in Nat /\ derive.file \in Nat
  BY <1>4 DEF PhotoInv, PhotoTyped
<1>6. /\ rows' \in [Books -> Seq(Photo)]
      /\ \A c \in Books : /\ FilesIn(rows'[c]) = FilesIn(rows[c])
                          /\ CropsIn(rows'[c]) = CropsIn(rows[c])
                          /\ rows'[c] = <<>> <=> rows[c] = <<>>
  <2>1. CASE rows[b] = <<>>
    BY <1>2, <1>5, <2>1 DEF OnNewest
  <2>2. CASE rows[b] # <<>>
    <3>1. PICK more : more = [rows[b] EXCEPT ![Len(rows[b])]["hash"] = derive.file]
      OBVIOUS
    <3>2. rows' = [rows EXCEPT ![b] = more]
      BY <1>2, <2>2, <3>1 DEF OnNewest
    <3>3. /\ more \in Seq(Photo) /\ more # <<>>
          /\ FilesIn(more) = FilesIn(rows[b]) /\ CropsIn(more) = CropsIn(rows[b])
      <4>1. rows[b] \in Seq(Photo) /\ derive.file \in Nat
        BY <1>4, <1>5
      <4> QED BY <2>2, <3>1, <4>1, NewestHashed
    <3>4. rows'[b] = more /\ \A c \in Books \ {b} : rows'[c] = rows[c]
      BY <1>4, <1>5, <3>2
    <3>5. rows' \in [Books -> Seq(Photo)]
      BY <1>5, <3>2, <3>3
    <3> QED BY <2>2, <3>3, <3>4, <3>5
  <2> QED BY <2>1, <2>2
<1>7. There' = There /\ Living' = Living /\ Stored' = Stored
  BY <1>2 DEF There, Living, Stored
<1>8. \A c \in Books : Uses(c)' = Uses(c)
  BY <1>6 DEF Uses
<1>9. PhotoTyped'
  BY <1>2, <1>6, <1>7 DEF PhotoInv, PhotoTyped
<1>10. Living \subseteq Books
  BY DEF Living
<1>11. Steady /\ UsesStay
  BY <1>2, <1>5, <1>6, <1>7, <1>8, <1>10 DEF Steady, UsesStay
<1>12. DeriveInv'
  <2>1. CASE derive.cropped
    BY <1>2, <2>1 DEF DeriveInv, Rest
  <2>2. CASE ~derive.cropped
    <3>1. derive' = [stage |-> "cropping", book |-> b, file |-> derive.file,
                     cropped |-> derive.cropped, worker |-> derive.worker]
      BY <1>1, <1>2, <1>4, <2>2
    <3> QED BY <1>2, <1>4, <3>1 DEF DeriveInv, Rest
  <2> QED BY <2>1, <2>2
<1>13. SavingInv' /\ Named' /\ \A r \in Sweepers : RemovalOf(r)'
  BY <1>2, <1>11, SavingStays, RemovalStays, NamedStays DEF PhotoInv
<1>14. Kept'
  <2>1. \A g : (InUse(g) => InUse(g)') /\ (Swept(g) => Swept(g)') /\ ~Made(g)
    BY <1>2, <1>7, <1>8, <1>10 DEF InUse, Swept, Made
  <2> QED BY <1>2, <2>1 DEF PhotoInv, Kept, Claimed
<1> QED BY <1>9, <1>12, <1>13, <1>14 DEF PhotoInv

LEMMA WritesCrop ==
  ASSUME PhotoInv, WriteCrop
  PROVE  PhotoInv'
<1>1. /\ derive.stage = "cropping" /\ UNCHANGED <<book, rows, taken, removal, saving, late, missed>>
  BY DEF WriteCrop
<1>2. derive # Rest
  BY <1>1 DEF Rest
<1>3. Steady /\ UsesStay
  BY <1>1, NothingMoves DEF PhotoInv
<1>4. \A g : (InUse(g) => InUse(g)') /\ (Swept(g) => Swept(g)') /\ ~Made(g)
  BY <1>1 DEF InUse, Living, Uses, Swept, Made
<1>5. CASE derive.file \in disk
  <2>1. disk' = disk \cup {CropName(derive.file)} /\ derive' = [derive EXCEPT !.stage = "recording"]
    BY <1>5 DEF WriteCrop
  <2>2. derive' = [stage |-> "recording", book |-> derive.book, file |-> derive.file,
                   cropped |-> derive.cropped, worker |-> derive.worker]
    BY <1>2, <2>1, Deriving
  <2>3. disk' \subseteq Stored
    BY <1>2, <2>1, Deriving DEF PhotoInv, PhotoTyped
  <2>4. PhotoTyped'
    BY <1>1, <2>3, TypesStay DEF PhotoInv, PhotoTyped
  <2>5. DeriveInv'
    <3>1. derive.book \in Books /\ derive.file \in 1 .. taken
          /\ derive.cropped \in BOOLEAN /\ derive.worker \in BOOLEAN
      BY <1>2, Deriving
    <3>2. derive' \in [stage : {"hashing", "cropping", "recording", "checking"}, book : Books,
                       file : 1 .. taken, cropped : BOOLEAN, worker : BOOLEAN]
      BY <2>2, <3>1
    <3> QED BY <1>1, <1>2, <2>2, <3>2, Deriving DEF DeriveInv, Rest
  <2>6. SavingInv' /\ Named' /\ \A r \in Sweepers : RemovalOf(r)'
    BY <1>1, <1>3, <2>1, SavingStays, RemovalStays, NamedStays DEF PhotoInv
  <2>7. Kept'
    <3>1. PICK g : g = CropName(derive.file)
      OBVIOUS
    <3>2. Made(g)'
      <4>1. derive'.file = derive.file /\ derive'.stage = "recording" /\ derive' # Rest
        BY <2>2 DEF Rest
      <4> QED BY <3>1, <4>1 DEF Made, CropName
    <3> QED BY <1>1, <1>4, <2>1, <3>1, <3>2 DEF PhotoInv, Kept, Claimed
  <2> QED BY <2>4, <2>5, <2>6, <2>7 DEF PhotoInv
<1>6. CASE derive.file \notin disk
  <2>1. disk' = disk /\ derive' = Rest
    BY <1>6 DEF WriteCrop
  <2>2. PhotoTyped'
    BY <1>1, <2>1, TypesStay DEF PhotoInv, PhotoTyped
  <2>3. DeriveInv'
    BY <2>1 DEF DeriveInv, Rest
  <2>4. SavingInv' /\ Named' /\ \A r \in Sweepers : RemovalOf(r)'
    BY <1>1, <1>3, <2>1, SavingStays, RemovalStays, NamedStays DEF PhotoInv
  <2>5. Kept'
    BY <1>1, <1>4, <2>1 DEF PhotoInv, Kept, Claimed
  <2> QED BY <2>2, <2>3, <2>4, <2>5 DEF PhotoInv
<1> QED BY <1>5, <1>6

\* The crop takes the place of another, or has no row to go on, or is named by the
\* book; if that has been discarded meanwhile, the worker looks again.
LEMMA RecordsCrop ==
  ASSUME PhotoInv, RecordCrop
  PROVE  PhotoInv'
<1>1. PICK b : b = derive.book
  OBVIOUS
<1>2. PICK crop : crop = CropName(derive.file)
  OBVIOUS
<1>3. /\ derive.stage = "recording" /\ rows' = OnNewest(b, "crop", crop)
      /\ missed' = missed \cup IF b \in There THEN {Last(rows[b]).crop} \ {0, crop} ELSE {crop}
      /\ derive' = IF derive.worker THEN [derive EXCEPT !.stage = "checking"] ELSE Rest
      /\ UNCHANGED <<book, disk, taken, removal, saving, late>>
  BY <1>1, <1>2 DEF RecordCrop
<1>4. derive # Rest
  BY <1>3 DEF Rest
<1>5. /\ derive = [stage |-> derive.stage, book |-> derive.book, file |-> derive.file,
                   cropped |-> derive.cropped, worker |-> derive.worker]
      /\ b \in Books /\ derive.file \in 1 .. taken
      /\ derive.cropped \in BOOLEAN /\ derive.worker \in BOOLEAN
      /\ book[b] # "none" /\ (~derive.worker => book[b] \in {"shelved", "deleted"})
      /\ removal[Worker] = Rest
      /\ crop \in Nat /\ crop \in Stored /\ crop # 0
  BY <1>1, <1>2, <1>4, Deriving
<1>6. rows \in [Books -> Seq(Photo)] /\ taken \in Nat /\ (b \in There <=> rows[b] # <<>>)
  BY <1>5 DEF PhotoInv, PhotoTyped
<1>7. /\ rows' \in [Books -> Seq(Photo)]
      /\ \A c \in Books : /\ FilesIn(rows'[c]) = FilesIn(rows[c])
                          /\ CropsIn(rows'[c]) \subseteq CropsIn(rows[c]) \cup {crop}
                          /\ rows'[c] = <<>> <=> rows[c] = <<>>
      /\ \A c \in Books \ {b} : rows'[c] = rows[c]
      /\ b \in There => /\ crop \in CropsIn(rows'[b])
                        /\ CropsIn(rows[b]) \ {Last(rows[b]).crop} \subseteq CropsIn(rows'[b])
  <2>1. CASE rows[b] = <<>>
    BY <1>3, <1>6, <2>1 DEF OnNewest
  <2>2. CASE rows[b] # <<>>
    <3>1. PICK more : more = [rows[b] EXCEPT ![Len(rows[b])]["crop"] = crop]
      OBVIOUS
    <3>2. rows' = [rows EXCEPT ![b] = more]
      BY <1>3, <2>2, <3>1 DEF OnNewest
    <3>3. /\ more \in Seq(Photo) /\ more # <<>>
          /\ FilesIn(more) = FilesIn(rows[b])
          /\ crop \in CropsIn(more)
          /\ CropsIn(more) \subseteq CropsIn(rows[b]) \cup {crop}
          /\ CropsIn(rows[b]) \ {Last(rows[b]).crop} \subseteq CropsIn(more)
      <4>1. rows[b] \in Seq(Photo) /\ crop \in Nat
        BY <1>5, <1>6
      <4> QED BY <2>2, <3>1, <4>1, NewestCropped
    <3>4. rows'[b] = more /\ \A c \in Books \ {b} : rows'[c] = rows[c]
      BY <1>5, <1>6, <3>2
    <3>5. rows' \in [Books -> Seq(Photo)]
      BY <1>6, <3>2, <3>3
    <3> QED BY <2>2, <3>3, <3>4, <3>5
  <2> QED BY <2>1, <2>2
<1>8. There' = There /\ Living' = Living /\ Stored' = Stored
  BY <1>3 DEF There, Living, Stored
<1>9. PhotoTyped'
  BY <1>3, <1>5, <1>7, <1>8 DEF PhotoInv, PhotoTyped
<1>10. Living \subseteq Books
  BY DEF Living
<1>11. Steady
  BY <1>3, <1>6, <1>7, <1>8, <1>10 DEF Steady
<1>12. b \in There => crop \in Uses(b)'
  BY <1>7 DEF Uses
<1>13. DeriveInv'
  <2>1. CASE ~derive.worker
    BY <1>3, <2>1 DEF DeriveInv, Rest
  <2>2. CASE derive.worker
    <3>1. derive' = [stage |-> "checking", book |-> b, file |-> derive.file,
                     cropped |-> derive.cropped, worker |-> derive.worker]
      BY <1>1, <1>3, <1>5, <2>2
    <3>2. derive' \in [stage : {"hashing", "cropping", "recording", "checking"}, book : Books,
                       file : 1 .. taken, cropped : BOOLEAN, worker : BOOLEAN]
      BY <1>5, <3>1
    <3>3. derive'.book = b /\ derive'.worker /\ CropName(derive'.file) = crop
      BY <1>2, <2>2, <3>1
    <3>4. Uses(derive.book)' = Uses(b)'
      BY <3>3 DEF Uses
    <3>5. CropName(derive.file)' = crop
      BY <3>3 DEF CropName
    <3> QED BY <1>3, <1>5, <1>8, <1>12, <3>2, <3>3, <3>4, <3>5 DEF DeriveInv, Rest
  <2> QED BY <1>5, <2>1, <2>2
<1>14. SavingInv' /\ Named' /\ \A r \in Sweepers : RemovalOf(r)'
  BY <1>3, <1>11, SavingStays, RemovalStays, NamedStays DEF PhotoInv
<1>15. Kept'
  <2>1. ASSUME NEW g \in disk, g \notin missed' PROVE Claimed(g)'
    <3>1. Claimed(g)
      BY <2>1, <1>3 DEF PhotoInv, Kept
    <3>2. g # 0
      <4>1. g \in Stored /\ MaxShots \in Nat
        BY <2>1, PhotographsAssumption DEF PhotoInv, PhotoTyped
      <4> QED BY <4>1, <1>6 DEF Stored
    <3>3. CASE InUse(g)
      <4>1. PICK c \in Living : g \in Uses(c)
        BY <3>3 DEF InUse
      <4>2. g \in Uses(c)'
        <5>1. CASE c # b
          BY <4>1, <5>1, <1>7, <1>10 DEF Uses
        <5>2. CASE c = b /\ g \in FilesIn(rows[b])
          BY <5>2, <1>5, <1>7 DEF Uses
        <5>3. CASE c = b /\ g \in CropsIn(rows[b])
          <6>1. b \in There
            BY <4>1, <5>3 DEF Living, There
          <6>2. g = Last(rows[b]).crop => g = crop
            BY <2>1, <3>2, <6>1, <1>3
          <6> QED BY <5>3, <6>1, <6>2, <1>7 DEF Uses
        <5> QED BY <4>1, <5>1, <5>2, <5>3 DEF Uses
      <4> QED BY <4>1, <4>2, <1>8 DEF Claimed, InUse
    <3>4. CASE Swept(g)
      BY <3>4, <1>3 DEF Claimed, Swept
    <3>5. CASE Made(g)
      <4>1. g = crop
        BY <3>5, <1>2 DEF Made
      <4>2. b \in There
        BY <2>1, <4>1, <1>3
      <4>3. CASE b \in Living
        BY <4>1, <4>2, <4>3, <1>8, <1>12 DEF Claimed, InUse
      <4>4. CASE b \notin Living
        <5>1. book[b] = "discarded"
          BY <4>2, <4>4, <1>5 DEF There, Living, PhotoInv, PhotoTyped, States
        <5>2. derive.worker
          BY <5>1, <1>5
        <5>3. derive' = [stage |-> "checking", book |-> b, file |-> derive.file,
                         cropped |-> derive.cropped, worker |-> derive.worker]
          BY <1>1, <1>3, <1>5, <5>2
        <5>4. /\ derive' # Rest /\ CropName(derive.file)' = crop
              /\ derive'.stage = "checking" /\ derive'.book = b
          BY <5>3, <1>2 DEF Rest, CropName
        <5> QED BY <4>1, <5>1, <5>4, <1>3 DEF Claimed, Made
      <4> QED BY <4>3, <4>4
    <3> QED BY <3>1, <3>3, <3>4, <3>5 DEF Claimed
  <2> QED BY <2>1, <1>3 DEF Kept
<1> QED BY <1>9, <1>13, <1>14, <1>15 DEF PhotoInv

LEMMA LooksAgain ==
  ASSUME PhotoInv, CheckDiscarded
  PROVE  PhotoInv'
<1>1. PICK crop : crop = CropName(derive.file)
  OBVIOUS
<1>2. /\ derive.stage = "checking" /\ derive' = Rest
      /\ removal' = IF book[derive.book] = "discarded"
                    THEN [removal EXCEPT ![Worker] = Sweeping(Worker, <<crop>>)] ELSE removal
      /\ UNCHANGED <<book, rows, disk, taken, saving, late, missed>>
  BY <1>1 DEF CheckDiscarded
<1>3. derive # Rest
  BY <1>2 DEF Rest
<1>4. removal[Worker] = Rest /\ crop \in Nat /\ crop \in Stored
  BY <1>1, <1>3, Deriving
<1>5. Worker \in Sweepers
  BY DEF Sweepers
<1>6. /\ \A q \in Sweepers \ {Worker} : removal'[q] = removal[q]
      /\ removal' = [q \in Sweepers |-> removal'[q]]
      /\ IF book[derive.book] = "discarded" THEN removal'[Worker] = Sweeping(Worker, <<crop>>)
         ELSE removal'[Worker] = removal[Worker]
  BY <1>2, <1>5 DEF PhotoInv, PhotoTyped
<1>7. Steady /\ UsesStay
  BY <1>2, NothingMoves DEF PhotoInv
<1>8. PhotoTyped'
  BY <1>2, <1>6, TypesStay DEF PhotoInv, PhotoTyped
<1>9. DeriveInv'
  BY <1>2 DEF DeriveInv, Rest
<1>10. RemovalOf(Worker)' /\ (book[derive.book] = "discarded" => Swept(crop)')
  <2>1. CASE book[derive.book] = "discarded"
    <3>1. <<crop>> \in Seq(Nat) /\ ToSet(<<crop>>) = {crop}
      BY <1>4 DEF ToSet
    <3>2. Stored \subseteq Stored'
      BY <1>7, StoredGrows
    <3> QED BY <1>4, <1>5, <1>6, <2>1, <3>1, <3>2, SweepingOf
  <2>2. CASE book[derive.book] # "discarded"
    BY <1>5, <1>6, <1>7, <2>2, RemovalStays DEF PhotoInv
  <2> QED BY <2>1, <2>2
<1>11. \A q \in Sweepers : RemovalOf(q)'
  BY <1>6, <1>7, <1>10, RemovalStays DEF PhotoInv
<1>12. SavingInv' /\ Named'
  BY <1>2, <1>7, SavingStays, NamedStays DEF PhotoInv
<1>13. Kept'
  <2>1. \A g : InUse(g) => InUse(g)'
    BY <1>2 DEF InUse, Living, Uses
  <2>2. \A g : Swept(g) => Swept(g)'
    BY <1>4, <1>6 DEF Swept, Rest
  <2>3. \A g : Made(g) => Swept(g)'
    BY <1>1, <1>2, <1>10 DEF Made
  <2> QED BY <1>2, <2>1, <2>2, <2>3 DEF PhotoInv, Kept, Claimed
<1> QED BY <1>8, <1>9, <1>11, <1>12, <1>13 DEF PhotoInv

-----------------------------------------------------------------------------

LEMMA Restarts ==
  ASSUME PhotoInv, Restart
  PROVE  PhotoInv'
<1>1. /\ removal' = [r \in Sweepers |-> IF removal[r] = Rest THEN Rest ELSE Over(r)]
      /\ derive' = Rest /\ saving' = Rest /\ missed' = missed \cup Unfinished
      /\ UNCHANGED <<book, rows, disk, taken, late>>
  BY DEF Restart
<1>2. Steady /\ UsesStay
  BY <1>1, NothingMoves DEF PhotoInv
<1>3. PhotoTyped'
  BY <1>1, TypesStay DEF PhotoInv, PhotoTyped
<1>4. SavingInv' /\ DeriveInv'
  BY <1>1 DEF SavingInv, DeriveInv, Rest
<1>5. \A r \in Sweepers : RemovalOf(r)'
  BY <1>1 DEF RemovalOf, Over, Rest
<1>6. Named'
  BY <1>1, <1>2, NamedStays DEF PhotoInv
<1>7. Kept'
  <2>1. \A g : Swept(g) => g \in Unfinished
    BY DEF Swept, Unfinished
  <2>2. ASSUME NEW g, Made(g) PROVE g \in Unfinished
    <3>1. derive # Rest /\ g = CropName(derive.file)
      BY <2>2 DEF Made
    <3>2. \A S : g \in S \cup IF derive = Rest THEN {} ELSE {CropName(derive.file)}
      BY <3>1
    <3> DEFINE left == UNION {ToSet(removal[r].left) :
                               r \in {q \in Sweepers : removal[q].stage \in {"sweeping", "removing"}}}
    <3>3. Unfinished = left \cup IF derive = Rest THEN {} ELSE {CropName(derive.file)}
      BY DEF Unfinished
    <3> HIDE DEF left
    <3> QED BY <3>2, <3>3
  <2>3. \A g : InUse(g) => InUse(g)'
    BY <1>1 DEF InUse, Living, Uses
  <2> QED BY <1>1, <2>1, <2>2, <2>3 DEF PhotoInv, Kept, Claimed
<1> QED BY <1>3, <1>4, <1>5, <1>6, <1>7 DEF PhotoInv

LEMMA PhotosStart == PhotoInit => PhotoInv
<1> SUFFICES ASSUME PhotoInit PROVE PhotoInv
  OBVIOUS
<1>1. /\ book = [b \in Books |-> "none"] /\ rows = [b \in Books |-> <<>>]
      /\ disk = {} /\ taken = 0 /\ removal = [r \in Sweepers |-> Rest]
      /\ saving = Rest /\ derive = Rest
  BY DEF PhotoInit
<1>2. There = {} /\ Living = {}
  BY <1>1 DEF There, Living
<1>3. PhotoTyped
  <2>1. <<>> \in Seq(Photo) /\ 0 \in 0 .. MaxShots
    BY PhotographsAssumption
  <2> QED BY <1>1, <1>2, <2>1, NoneAtAll DEF PhotoTyped, States
<1>4. SavingInv /\ DeriveInv /\ \A r \in Sweepers : RemovalOf(r)
  BY <1>1 DEF SavingInv, DeriveInv, RemovalOf
<1>5. Named /\ Kept
  BY <1>1, <1>2 DEF Named, Kept
<1> QED BY <1>3, <1>4, <1>5 DEF PhotoInv

LEMMA PhotosStay == PhotoInv /\ UNCHANGED photoVars => PhotoInv'
<1> SUFFICES ASSUME PhotoInv, UNCHANGED photoVars PROVE PhotoInv'
  OBVIOUS
<1>1. UNCHANGED <<book, rows, disk, taken, removal, saving, derive, late, missed>>
  BY DEF photoVars
<1>2. Steady /\ UsesStay
  BY <1>1, NothingMoves DEF PhotoInv
<1>3. PhotoTyped'
  BY <1>1, TypesStay DEF PhotoInv, PhotoTyped
<1>4. SavingInv' /\ DeriveInv' /\ Named' /\ \A r \in Sweepers : RemovalOf(r)'
  BY <1>1, <1>2, SavingStays, DeriveStays, RemovalStays, NamedStays DEF PhotoInv
<1>5. Kept'
  BY <1>1 DEF PhotoInv, Kept, Claimed, InUse, Living, Uses, Swept, Made, CropName
<1> QED BY <1>3, <1>4, <1>5 DEF PhotoInv

LEMMA PhotosAlways == PhotoSpec => []PhotoInv
<1>1. PhotoInv /\ [PhotoNext]_photoVars => PhotoInv'
  <2> SUFFICES ASSUME PhotoInv, [PhotoNext]_photoVars PROVE PhotoInv'
    OBVIOUS
  <2>1. ASSUME NEW b \in Books, AttachOnto(b) PROVE PhotoInv'
    BY <2>1, Attaches
  <2>2. ASSUME NEW b \in Books, ReadScan(b) PROVE PhotoInv'
    BY <2>2, ReadsScan
  <2>3. ASSUME AttachNew \/ AttachFails PROVE PhotoInv'
    BY <2>3, Begins, FailsToAttach
  <2>4. ASSUME SaveQueued \/ SaveCopy PROVE PhotoInv'
    BY <2>4, SavesQueued, SavesCopy
  <2>5. ASSUME NEW r \in Removals, NEW b \in Books, NEW way, ReadFiles(r, b, way) PROVE PhotoInv'
    BY <2>5, ReadsFiles
  <2>6. ASSUME NEW r \in Removals, Discard(r) \/ DeleteBook(r) PROVE PhotoInv'
    BY <2>6, Discards, Deletes
  <2>7. ASSUME NEW r \in Sweepers, LookForUse(r) \/ RemoveFile(r) PROVE PhotoInv'
    BY <2>7, LooksForUse, RemovesFile
  <2>8. ASSUME NEW b \in Books, StartDerive(b) PROVE PhotoInv'
    BY <2>8, StartsDeriving
  <2>9. ASSUME Hash \/ WriteCrop \/ RecordCrop \/ CheckDiscarded PROVE PhotoInv'
    BY <2>9, Hashes, WritesCrop, RecordsCrop, LooksAgain
  <2>10. CASE Restart
    BY <2>10, Restarts
  <2>11. CASE UNCHANGED photoVars
    BY <2>11, PhotosStay
  <2> QED BY <2>1, <2>2, <2>3, <2>4, <2>5, <2>6, <2>7, <2>8, <2>9, <2>10, <2>11 DEF PhotoNext
<1> QED BY <1>1, PhotosStart, PTL DEF PhotoSpec

\* No photograph a living book names is deleted, whatever discards, deletes and saves
\* overlap, unless it was saved after its scan had been thrown away: what
\* deleteOrphanedImages asks about and then removes, and the save that reads its scan
\* before its transaction, for any number of each.
THEOREM NamedPhotographsAreKept == PhotoSpec => []NamedIsKept
<1>1. PhotoInv => NamedIsKept
  <2> SUFFICES ASSUME PhotoInv, NEW b \in Living, NEW row \in ToSet(rows[b])
               PROVE  row.file \in disk \cup late
    BY DEF NamedIsKept
  <2>1. row.file \in FilesIn(rows[b])
    BY DEF ToSet, FilesIn
  <2> QED BY <2>1 DEF PhotoInv, Named
<1> QED BY <1>1, PhotosAlways, PTL

\* When nothing is in flight, every file on the disk is named by a living book, but
\* for the files known to be missed: the sweeps after a discard, a delete and a
\* derive leave nothing else.
THEOREM NoOtherFileStays == PhotoSpec => []NothingLeft
<1>1. PhotoInv => NothingLeft
  <2> SUFFICES ASSUME PhotoInv, derive = Rest,
                      \A r \in Sweepers : removal[r].stage \in {"idle", "over"},
                      NEW f \in disk \ missed
               PROVE  ImageInUse(f)
    BY DEF NothingLeft
  <2>1. Claimed(f) /\ ~Made(f) /\ ~Swept(f)
    BY DEF PhotoInv, Kept, Made, Swept
  <2> QED BY <2>1, InUseIsNaming DEF Claimed
<1> QED BY <1>1, PhotosAlways, PTL
=============================================================================
