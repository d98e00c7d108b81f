------------------------ MODULE PlacementLedgerProofs ------------------------
(***************************************************************************)
(* Proofs about the two folds of Standing, for every set of rows with ids, *)
(* and about PlacementLedger, for any finite set of books, any areas and   *)
(* any requests at once.                                                   *)
(*                                                                         *)
(* StandingOf folds the rows in the order of their ids.  It is shown by    *)
(* least counterexample: a set of naturals that is not empty has a least   *)
(* member, so what fails for some number of rows fails first for one, and  *)
(* holds for the rows before the last.  StandingByRow is the step, and     *)
(* FoldsOfOneLedger what follows from it.                                  *)
(*                                                                         *)
(* TypeInv says that the rows of a book differ in their ids and that a     *)
(* request has at each statement what the statement needs; TableInv that   *)
(* who holds the table is alone with it.  LendingInv ties the rows of      *)
(* Circulation to books.state: a request that goes out or comes back       *)
(* holds the row of its book from the compare-and-set to the commit, so    *)
(* the turn before is committed.  AloneInv follows a request with no       *)
(* other beside it from row to fold to UPDATE, and AskInv a change of the  *)
(* rules, whoever is beside it, from what it read to the rows it owes; the *)
(* rows of others behind them are met one by one.                          *)
(***************************************************************************)
EXTENDS PlacementLedger, TLAPS, WellFoundedInduction, FiniteSetTheorems

-----------------------------------------------------------------------------
(* The two folds *)

LEMMA LeastNat ==
  ASSUME NEW T, T \subseteq Nat, T # {}
  PROVE  \E x \in T : \A y \in T : x <= y
<1> DEFINE R == OpToRel(<, Nat)
<1>1. IsWellFoundedOn(R, Nat)
  BY NatLessThanWellFounded
<1>2. ASSUME NEW x \in Nat, NEW y \in Nat, <<x, y>> \notin R PROVE y <= x
  BY <1>2 DEF OpToRel
<1> HIDE DEF R
<1>3. PICK x \in T : \A y \in T : ~(<<y, x>> \in R)
  BY <1>1, WFMin
<1>4. ASSUME NEW y \in T PROVE x <= y
  BY <1>2, <1>3
<1> QED BY <1>4

LEMMA MaxOfInterval ==
  ASSUME NEW k \in Nat, NEW s \in SUBSET (1 .. k + 1)
  PROVE  /\ k + 1 \in s => Max(s) = k + 1
         /\ k + 1 \notin s => s \in SUBSET (1 .. k)
<1>1. ASSUME k + 1 \in s PROVE Max(s) = k + 1
  <2>1. \A y \in s : k + 1 >= y
    OBVIOUS
  <2>2. \A x \in s : (\A y \in s : x >= y) => x = k + 1
    BY <1>1
  <2> QED BY <1>1, <2>1, <2>2 DEF Max
<1> QED BY <1>1

LEMMA FoldExists ==
  ASSUME NEW n \in Nat, NEW seq
  PROVE  \E g : g = [s \in SUBSET (1 .. n) |->
             IF s = {} THEN NowhereAtAll ELSE AfterRow(g[s \ {Max(s)}], seq[Max(s)])]
<1> DEFINE Runs(k, g) == g = [s \in SUBSET (1 .. k) |->
             IF s = {} THEN NowhereAtAll ELSE AfterRow(g[s \ {Max(s)}], seq[Max(s)])]
<1> DEFINE T == {k \in Nat : ~ \E g : Runs(k, g)}
<1>1. T = {} => \E g : Runs(n, g)
  OBVIOUS
<1>2. SUFFICES ASSUME T # {} PROVE FALSE
  BY <1>1
<1>3. PICK k \in T : \A j \in T : k <= j
  BY <1>2, LeastNat
<1>4. k # 0
  <2>1. Runs(0, [s \in {{}} |-> NowhereAtAll])
    OBVIOUS
  <2> QED BY <1>3, <2>1
<1>5. k - 1 \in Nat /\ k - 1 \notin T
  <2>1. k \in Nat /\ k - 1 \in Nat
    BY <1>3, <1>4
  <2> HIDE DEF T
  <2> QED BY <1>3, <2>1
<1>6. PICK g : Runs(k - 1, g)
  BY <1>5
<1> DEFINE h == [s \in SUBSET (1 .. k) |->
                  IF k \in s THEN AfterRow(g[s \ {k}], seq[k]) ELSE g[s]]
<1>7. ASSUME NEW s \in SUBSET (1 .. k)
      PROVE  h[s] = IF s = {} THEN NowhereAtAll ELSE AfterRow(h[s \ {Max(s)}], seq[Max(s)])
  <2>1. CASE k \in s
    <3>1. Max(s) = k
      BY <2>1, <1>5, MaxOfInterval
    <3>2. s \ {k} \in SUBSET (1 .. k) /\ k \notin s \ {k} /\ s # {}
      BY <2>1
    <3>3. h[s] = AfterRow(g[s \ {k}], seq[k]) /\ h[s \ {k}] = g[s \ {k}]
      BY <2>1, <3>2
    <3> HIDE DEF h
    <3> QED BY <3>1, <3>2, <3>3
  <2>2. CASE k \notin s
    <3>1. s \in SUBSET (1 .. k - 1)
      BY <2>2, <1>5, MaxOfInterval
    <3>2. h[s] = g[s]
      BY <2>2
    <3>3. CASE s = {}
      BY <3>1, <3>2, <3>3, <1>6
    <3>4. CASE s # {}
      <4>1. g[s] = AfterRow(g[s \ {Max(s)}], seq[Max(s)])
        BY <3>1, <3>4, <1>6
      <4>2. h[s \ {Max(s)}] = g[s \ {Max(s)}]
        BY <2>2
      <4> HIDE DEF h
      <4> QED BY <3>2, <3>4, <4>1, <4>2
    <3> QED BY <3>3, <3>4
  <2> QED BY <2>1, <2>2
<1>8. Runs(k, h)
  <2>1. h = [s \in SUBSET (1 .. k) |-> h[s]]
    OBVIOUS
  <2> HIDE DEF h
  <2> QED BY <1>7, <2>1
<1> QED BY <1>3, <1>8

LEMMA FoldRuns ==
  ASSUME NEW n \in Nat, NEW seq, DOMAIN seq = 1 .. n
  PROVE  \E run : /\ run[0] = NowhereAtAll
                  /\ \A k \in 1 .. n : run[k] = AfterRow(run[k - 1], seq[k])
                  /\ FoldLeft(AfterRow, NowhereAtAll, seq) = run[n]
<1> DEFINE iter == CHOOSE g : g = [s \in SUBSET (1 .. n) |->
             IF s = {} THEN NowhereAtAll ELSE AfterRow(g[s \ {Max(s)}], seq[Max(s)])]
<1>1. iter = [s \in SUBSET (1 .. n) |->
             IF s = {} THEN NowhereAtAll ELSE AfterRow(iter[s \ {Max(s)}], seq[Max(s)])]
  BY FoldExists
<1>2. FoldLeft(AfterRow, NowhereAtAll, seq) = iter[1 .. n]
  BY DEF FoldLeft, MapThenFoldSet
<1> HIDE DEF iter
<1> DEFINE run == [k \in 0 .. n |-> iter[1 .. k]]
<1>3. run[0] = NowhereAtAll
  <2>1. 1 .. 0 = {} /\ 1 .. 0 \in SUBSET (1 .. n)
    OBVIOUS
  <2> QED BY <1>1, <2>1
<1>4. ASSUME NEW k \in 1 .. n
      PROVE  run[k] = AfterRow(run[k - 1], seq[k])
  <2>1. Max(1 .. k) = k
    <3>1. k - 1 \in Nat /\ k = (k - 1) + 1 /\ 1 .. k \in SUBSET (1 .. (k - 1) + 1) /\ k \in 1 .. k
      OBVIOUS
    <3> QED BY <3>1, MaxOfInterval
  <2>2. (1 .. k) \ {k} = 1 .. k - 1 /\ 1 .. k # {} /\ 1 .. k \in SUBSET (1 .. n)
    OBVIOUS
  <2>3. run[k] = iter[1 .. k] /\ run[k - 1] = iter[1 .. k - 1]
    OBVIOUS
  <2> HIDE DEF run
  <2> QED BY <1>1, <2>1, <2>2, <2>3
<1>5. FoldLeft(AfterRow, NowhereAtAll, seq) = run[n]
  BY <1>2
<1> HIDE DEF run
<1> QED BY <1>3, <1>4, <1>5
-----------------------------------------------------------------------------
(* The rows of a book, by their ids *)

Ledger(set) ==
  /\ IsFiniteSet(set)
  /\ \A r \in set : r.id \in Nat
  /\ \A r, s \in set : r.id = s.id => r = s

Prior(set, r) == {s \in set : s.id < r.id}
Rank(set, r) == Cardinality(Prior(set, r))

LEMMA SomeRows ==
  ASSUME NEW set, Ledger(set), NEW some \in SUBSET set
  PROVE  Ledger(some)
BY FS_Subset DEF Ledger

LEMMA RanksGrow ==
  ASSUME NEW set, Ledger(set), NEW r \in set
  PROVE  /\ Rank(set, r) \in Nat
         /\ \A s \in set : s.id < r.id => Rank(set, s) < Rank(set, r)
         /\ \A s \in set : Rank(set, s) = Rank(set, r) => s = r
<1>1. ASSUME NEW s \in set
      PROVE  IsFiniteSet(Prior(set, s)) /\ Rank(set, s) \in Nat
  BY FS_Subset, FS_CardinalityType DEF Ledger, Prior, Rank
<1>2. ASSUME NEW s \in set, NEW q \in set, s.id < q.id
      PROVE  Rank(set, s) < Rank(set, q)
  <2>1. s.id \in Nat /\ q.id \in Nat
    BY DEF Ledger
  <2>2. s \notin Prior(set, s) /\ Prior(set, s) \cup {s} \in SUBSET Prior(set, q)
    BY <1>2, <2>1 DEF Prior, Ledger
  <2>3. Cardinality(Prior(set, s) \cup {s}) = Rank(set, s) + 1
    BY <1>1, <2>2, FS_AddElement DEF Rank
  <2>4. Cardinality(Prior(set, s) \cup {s}) <= Rank(set, q)
    BY <1>1, <2>2, FS_Subset DEF Rank
  <2> QED BY <1>1, <2>3, <2>4
<1>3. ASSUME NEW s \in set, Rank(set, s) = Rank(set, r) PROVE s = r
  <2>1. ~(s.id < r.id) /\ ~(r.id < s.id)
    BY <1>1, <1>2, <1>3
  <2> QED BY <2>1 DEF Ledger
<1> QED BY <1>1, <1>2, <1>3

\* A ledger with a row has a last one, and Latest is it.
LEMMA LatestExists ==
  ASSUME NEW set, Ledger(set), set # {}
  PROVE  Latest(set) \in set /\ \A s \in set : s.id <= Latest(set).id
<1>1. Cardinality(set) \in Nat /\ IsFiniteSet(set)
  BY FS_CardinalityType DEF Ledger
<1>2. ASSUME NEW r \in set PROVE Rank(set, r) \in Nat /\ Rank(set, r) <= Cardinality(set)
  <2>1. Prior(set, r) \in SUBSET set
    BY DEF Prior
  <2> QED BY <1>1, <2>1, FS_Subset, RanksGrow DEF Rank
<1> DEFINE T == {Cardinality(set) - Rank(set, r) : r \in set}
<1>3. T \subseteq Nat /\ T # {}
  BY <1>1, <1>2
<1>4. PICK least \in T : \A other \in T : least <= other
  BY <1>3, LeastNat
<1>5. PICK r \in set : least = Cardinality(set) - Rank(set, r)
  BY <1>4
<1>6. ASSUME NEW s \in set PROVE s.id <= r.id
  <2>1. Cardinality(set) - Rank(set, r) <= Cardinality(set) - Rank(set, s)
    BY <1>4, <1>5
  <2>2. ~(Rank(set, r) < Rank(set, s))
    BY <1>1, <1>2, <2>1
  <2>3. ~(r.id < s.id)
    BY <2>2, RanksGrow
  <2> QED BY <2>3 DEF Ledger
<1> QED BY <1>6 DEF Latest

LEMMA LatestIs ==
  ASSUME NEW set, Ledger(set), NEW r \in set, \A s \in set : s.id <= r.id
  PROVE  Latest(set) = r
<1>1. Latest(set) \in set /\ r.id <= Latest(set).id
  BY LatestExists
<1>2. Latest(set).id <= r.id /\ Latest(set).id \in Nat /\ r.id \in Nat
  BY <1>1 DEF Ledger
<1>3. Latest(set).id = r.id
  BY <1>1, <1>2
<1> QED BY <1>1, <1>3 DEF Ledger

\* Without its last row a ledger is one shorter, and each other row has the rank it had.
LEMMA WithoutLatest ==
  ASSUME NEW set, Ledger(set), set # {}
  PROVE  /\ Ledger(set \ {Latest(set)})
         /\ Cardinality(set) \in Nat \ {0}
         /\ Cardinality(set \ {Latest(set)}) = Cardinality(set) - 1
         /\ Rank(set, Latest(set)) = Cardinality(set) - 1
         /\ \A r \in set \ {Latest(set)} : Rank(set \ {Latest(set)}, r) = Rank(set, r)
<1> DEFINE last == Latest(set)
<1>1. last \in set /\ \A s \in set : s.id <= last.id
  BY LatestExists
<1> HIDE DEF last
<1>2. Ledger(set \ {last}) /\ IsFiniteSet(set)
  BY SomeRows DEF Ledger
<1>3. Cardinality(set) \in Nat \ {0} /\ Cardinality(set \ {last}) = Cardinality(set) - 1
  BY <1>1, <1>2, FS_CardinalityType, FS_EmptySet, FS_RemoveElement
<1>4. Prior(set, last) = set \ {last}
  <2>1. \A s \in set : s.id < last.id <=> s # last
    BY <1>1 DEF Ledger
  <2> QED BY <2>1 DEF Prior
<1>5. ASSUME NEW r \in set \ {last} PROVE Prior(set \ {last}, r) = Prior(set, r)
  <2>1. ~(last.id < r.id)
    BY <1>1 DEF Ledger
  <2> QED BY <2>1 DEF Prior
<1> QED BY <1>2, <1>3, <1>4, <1>5 DEF Rank, last

LEMMA RanksFill ==
  ASSUME NEW set, Ledger(set)
  PROVE  /\ Cardinality(set) \in Nat
         /\ \A i \in 1 .. Cardinality(set) : \E r \in set : Rank(set, r) = i - 1
<1> DEFINE Fills(some) == \A i \in 1 .. Cardinality(some) : \E r \in some : Rank(some, r) = i - 1
<1> DEFINE T == {n \in Nat : \E some \in SUBSET set : Cardinality(some) = n /\ ~Fills(some)}
<1>1. ASSUME NEW some \in SUBSET set PROVE Ledger(some) /\ Cardinality(some) \in Nat
  BY SomeRows, FS_CardinalityType DEF Ledger
<1>2. T = {} => Fills(set)
  BY <1>1
<1>3. SUFFICES ASSUME T # {} PROVE FALSE
  BY <1>1, <1>2
<1>4. PICK n \in T : \A m \in T : n <= m
  BY <1>3, LeastNat
<1>5. PICK some \in SUBSET set : Cardinality(some) = n /\ ~Fills(some)
  BY <1>4
<1>6. some # {}
  <2>1. Cardinality({}) = 0
    BY FS_EmptySet
  <2>2. Fills({})
    BY <2>1
  <2> HIDE DEF Fills
  <2> QED BY <1>5, <2>2
<1> DEFINE last == Latest(some)
<1> DEFINE rest == some \ {last}
<1>7. /\ n \in Nat \ {0} /\ Cardinality(rest) = n - 1 /\ last \in some
      /\ Rank(some, last) = n - 1
      /\ \A r \in rest : Rank(rest, r) = Rank(some, r)
  BY <1>1, <1>5, <1>6, WithoutLatest, LatestExists
<1> HIDE DEF last
<1>8. Fills(rest)
  <2>1. n - 1 \in Nat /\ ~(n <= n - 1)
    BY <1>7
  <2>2. n - 1 \notin T
    <3> HIDE DEF T
    <3> QED BY <1>4, <2>1
  <2> HIDE DEF Fills
  <2> QED BY <1>7, <2>1, <2>2
<1>9. ASSUME NEW i \in 1 .. n PROVE \E r \in some : Rank(some, r) = i - 1
  <2>1. CASE i = n
    BY <1>7, <2>1
  <2>2. CASE i # n
    <3>1. i \in 1 .. n - 1
      BY <2>2, <1>7
    <3>2. PICK r \in rest : Rank(rest, r) = i - 1
      BY <3>1, <1>7, <1>8
    <3> QED BY <3>2, <1>7
  <2> QED BY <2>1, <2>2
<1> QED BY <1>5, <1>9

LEMMA RowInOrder ==
  ASSUME NEW set, Ledger(set), NEW i \in 1 .. Cardinality(set)
  PROVE  InOrder(set)[i] \in set /\ Rank(set, InOrder(set)[i]) = i - 1
<1>1. \E r \in set : Rank(set, r) = i - 1
  BY RanksFill
<1>2. InOrder(set)[i] = CHOOSE r \in set : Rank(set, r) = i - 1
  BY DEF InOrder, Rank, Prior
<1> QED BY <1>1, <1>2

LEMMA OrderWithoutLatest ==
  ASSUME NEW set, Ledger(set), set # {}
  PROVE  /\ InOrder(set)[Cardinality(set)] = Latest(set)
         /\ \A i \in 1 .. Cardinality(set) - 1 :
              InOrder(set)[i] = InOrder(set \ {Latest(set)})[i]
<1> DEFINE n == Cardinality(set)
<1> DEFINE last == Latest(set)
<1> DEFINE rest == set \ {last}
<1>1. /\ Ledger(rest) /\ n \in Nat \ {0} /\ Cardinality(rest) = n - 1
      /\ last \in set /\ Rank(set, last) = n - 1
      /\ \A r \in rest : Rank(rest, r) = Rank(set, r)
  BY WithoutLatest, LatestExists
<1> HIDE DEF last
<1>2. InOrder(set)[n] = last
  <2>1. n \in 1 .. n
    BY <1>1
  <2>2. InOrder(set)[n] \in set /\ Rank(set, InOrder(set)[n]) = n - 1
    BY <2>1, RowInOrder
  <2> QED BY <1>1, <2>2, RanksGrow
<1>3. ASSUME NEW i \in 1 .. n - 1 PROVE InOrder(set)[i] = InOrder(rest)[i]
  <2>1. i \in 1 .. n
    BY <1>1
  <2>2. InOrder(set)[i] \in set /\ Rank(set, InOrder(set)[i]) = i - 1
    BY <2>1, RowInOrder
  <2>3. InOrder(rest)[i] \in rest /\ Rank(rest, InOrder(rest)[i]) = i - 1
    BY <1>1, RowInOrder
  <2>4. Rank(set, InOrder(rest)[i]) = i - 1
    BY <1>1, <2>3
  <2> QED BY <2>2, <2>3, <2>4, RanksGrow
<1> QED BY <1>2, <1>3 DEF last

\* The fold, one row at a time: what a ledger says is what its last row makes of
\* what the rest says.
LEMMA StandingByRow ==
  ASSUME NEW set, Ledger(set)
  PROVE  StandingOf(set) = IF set = {} THEN NowhereAtAll
                           ELSE AfterRow(StandingOf(set \ {Latest(set)}), Latest(set))
<1>1. CASE set = {}
  <2>1. Cardinality(set) = 0 /\ 0 \in Nat /\ DOMAIN InOrder(set) = 1 .. 0
    BY <1>1, FS_EmptySet DEF InOrder
  <2>2. StandingOf(set) = NowhereAtAll
    BY <2>1, FoldRuns DEF StandingOf
  <2> QED BY <1>1, <2>2
<1>2. CASE set # {}
  <2> DEFINE n == Cardinality(set)
  <2> DEFINE last == Latest(set)
  <2> DEFINE rest == set \ {last}
  <2>1. Ledger(rest) /\ n \in Nat \ {0} /\ Cardinality(rest) = n - 1
    BY <1>2, WithoutLatest
  <2>2. InOrder(set)[n] = last /\ \A i \in 1 .. n - 1 : InOrder(set)[i] = InOrder(rest)[i]
    BY <1>2, OrderWithoutLatest
  <2> HIDE DEF last
  <2>3. DOMAIN InOrder(set) = 1 .. n /\ DOMAIN InOrder(rest) = 1 .. n - 1 /\ n - 1 \in Nat
    BY <2>1 DEF InOrder
  <2> HIDE DEF rest, n
  <2>4. PICK run : /\ run[0] = NowhereAtAll
                   /\ \A k \in 1 .. n : run[k] = AfterRow(run[k - 1], InOrder(set)[k])
                   /\ StandingOf(set) = run[n]
    BY <2>1, <2>3, FoldRuns DEF StandingOf
  <2>5. PICK ran : /\ ran[0] = NowhereAtAll
                   /\ \A k \in 1 .. n - 1 : ran[k] = AfterRow(ran[k - 1], InOrder(rest)[k])
                   /\ StandingOf(rest) = ran[n - 1]
    BY <2>1, <2>3, FoldRuns DEF StandingOf
  <2>6. run[n - 1] = ran[n - 1]
    <3> DEFINE T == {k \in Nat : k <= n - 1 /\ run[k] # ran[k]}
    <3>1. SUFFICES ASSUME T # {} PROVE FALSE
      BY <2>3
    <3>2. PICK k \in T : \A j \in T : k <= j
      BY <3>1, LeastNat
    <3>3. k # 0 /\ k \in 1 .. n - 1 /\ k \in 1 .. n
      BY <2>1, <2>4, <2>5, <3>2
    <3>4. k - 1 \in Nat /\ k - 1 <= n - 1 /\ ~(k <= k - 1)
      BY <2>1, <3>3
    <3>5. run[k - 1] = ran[k - 1]
      <4>1. k - 1 \notin T
        <5> HIDE DEF T
        <5> QED BY <3>2, <3>4
      <4> QED BY <3>4, <4>1
    <3>6. run[k] = ran[k]
      BY <2>2, <2>4, <2>5, <3>3, <3>5
    <3> QED BY <3>2, <3>6
  <2>7. StandingOf(set) = AfterRow(StandingOf(rest), last)
    <3>1. n \in 1 .. n
      BY <2>1
    <3> QED BY <2>2, <2>4, <2>5, <2>6, <3>1
  <2> QED BY <1>2, <2>7 DEF rest, last
<1> QED BY <1>1, <1>2
-----------------------------------------------------------------------------
(* What a ledger can say *)

Says(at) == [area : at, assigned : at, declined : at,
             pinned : BOOLEAN, out : BOOLEAN, withdrawn : BOOLEAN]

RowsAt(set, at) ==
  \A r \in set : r.kind \in PlacementKinds /\ r.area \in at

Outing(set, r) ==
  /\ r.kind = "checked_out"
  /\ \A s \in set : s.id > r.id => s.kind \in KindsAboutTheAnswer

LEMMA RowByRow ==
  ASSUME NEW at, Nowhere \in at, NEW said \in Says(at), NEW row,
         row.kind \in PlacementKinds, row.area \in at
  PROVE  /\ AfterRow(said, row) \in Says(at)
         /\ AfterRow(said, row).area =
              IF row.kind \in KindsAboutTheAnswer THEN said.area
              ELSE IF row.kind \in {"placed", "pinned"} THEN row.area ELSE Nowhere
         /\ AfterRow(said, row).out <=>
              IF row.kind \in KindsAboutTheAnswer THEN said.out ELSE row.kind = "checked_out"
<1>0. NowhereAtAll \in Says(at) /\ NowhereAtAll.area = Nowhere /\ NowhereAtAll.out = FALSE
  BY DEF NowhereAtAll, Says
<1>1. CASE row.kind = "assigned"
  BY <1>1 DEF AfterRow, Refused, Says, KindsAboutTheAnswer
<1>2. CASE row.kind = "released"
  BY <1>2 DEF AfterRow, Refused, Says, KindsAboutTheAnswer
<1>3. CASE row.kind = "placed"
  BY <1>3 DEF AfterRow, Refused, Says, KindsAboutTheAnswer
<1>4. CASE row.kind \in {"pinned", "checked_out", "checked_in", "withdrawn"}
  BY <1>4 DEF AfterRow, Refused, Says, KindsAboutTheAnswer, NowhereAtAll
<1> QED BY <1>1, <1>2, <1>3, <1>4 DEF PlacementKinds

\* Whatever rows a book has, in whatever order they came: the fold in TypeScript and
\* the fold in SQL give the same area, and only a checkout with nothing after it
\* but answers says that the book is out.
LEMMA FoldsOfOneLedger ==
  ASSUME NEW set, Ledger(set), NEW at, Nowhere \in at, RowsAt(set, at)
  PROVE  /\ StandingOf(set) \in Says(at)
         /\ FoldedArea(set) = StandingOf(set).area
         /\ StandingOf(set).out => \E r \in set : Outing(set, r)
<1> DEFINE Holds(some) == /\ StandingOf(some) \in Says(at)
                          /\ FoldedArea(some) = StandingOf(some).area
                          /\ StandingOf(some).out => \E r \in some : Outing(some, r)
<1> DEFINE T == {n \in Nat : \E some \in SUBSET set : Cardinality(some) = n /\ ~Holds(some)}
<1>1. ASSUME NEW some \in SUBSET set
      PROVE  Ledger(some) /\ Cardinality(some) \in Nat /\ RowsAt(some, at)
  BY SomeRows, FS_CardinalityType DEF Ledger, RowsAt
<1>2. T = {} => Holds(set)
  <2> HIDE DEF Holds
  <2> QED BY <1>1
<1>3. SUFFICES ASSUME T # {} PROVE FALSE
  BY <1>2
<1>4. PICK n \in T : \A m \in T : n <= m
  BY <1>3, LeastNat
<1>5. PICK some \in SUBSET set : Cardinality(some) = n /\ ~Holds(some)
  <2> HIDE DEF Holds
  <2> QED BY <1>4
<1>6. some # {}
  <2>1. SUFFICES ASSUME some = {} PROVE Holds(some)
    BY <1>5
  <2>2. StandingOf(some) = NowhereAtAll
    BY <1>1, <2>1, StandingByRow
  <2>3. FoldedArea(some) = Nowhere
    BY <2>1 DEF FoldedArea
  <2> QED BY <2>2, <2>3 DEF NowhereAtAll, Says
<1> DEFINE last == Latest(some)
<1> DEFINE rest == some \ {last}
<1>7. /\ n \in Nat \ {0} /\ Cardinality(rest) = n - 1
      /\ last \in some /\ \A s \in some : s.id <= last.id
      /\ StandingOf(some) = AfterRow(StandingOf(rest), last)
  BY <1>1, <1>5, <1>6, WithoutLatest, LatestExists, StandingByRow
<1> HIDE DEF last
<1>8. Holds(rest)
  <2>1. n - 1 \in Nat /\ ~(n <= n - 1)
    BY <1>7
  <2>2. n - 1 \notin T
    <3> HIDE DEF T
    <3> QED BY <1>4, <2>1
  <2> HIDE DEF Holds
  <2> QED BY <1>7, <2>1, <2>2
<1>9. /\ last.kind \in PlacementKinds /\ last.area \in at
      /\ \A s \in some : last.id \in Nat /\ s.id \in Nat
  BY <1>1, <1>7 DEF RowsAt, Ledger
<1>10. StandingOf(some) \in Says(at)
  BY <1>7, <1>8, <1>9, RowByRow
<1>11. FoldedArea(some) = StandingOf(some).area
  <2> DEFINE Placing(given) == {r \in given : r.kind \notin KindsAboutTheAnswer}
  <2>1. CASE last.kind \in KindsAboutTheAnswer
    <3>1. Placing(some) = Placing(rest)
      BY <2>1
    <3>2. FoldedArea(some) = FoldedArea(rest)
      BY <3>1 DEF FoldedArea
    <3> QED BY <2>1, <3>2, <1>7, <1>8, <1>9, RowByRow
  <2>2. CASE last.kind \notin KindsAboutTheAnswer
    <3>1. Placing(some) # {} /\ Latest(Placing(some)) = last
      <4>1. last \in Placing(some) /\ Placing(some) \in SUBSET some
        BY <2>2, <1>7
      <4>2. Ledger(Placing(some)) /\ \A s \in Placing(some) : s.id <= last.id
        BY <4>1, <1>1, <1>7, SomeRows
      <4> HIDE DEF Placing
      <4> QED BY <4>1, <4>2, LatestIs
    <3>2. FoldedArea(some) = IF last.kind \in {"placed", "pinned"} THEN last.area ELSE Nowhere
      BY <3>1 DEF FoldedArea
    <3> QED BY <2>2, <3>2, <1>7, <1>8, <1>9, RowByRow
  <2> QED BY <2>1, <2>2
<1>12. ASSUME StandingOf(some).out PROVE \E r \in some : Outing(some, r)
  <2>1. CASE last.kind \in KindsAboutTheAnswer
    <3>1. StandingOf(rest).out
      BY <2>1, <1>7, <1>8, <1>9, <1>12, RowByRow
    <3>2. PICK r \in rest : Outing(rest, r)
      BY <1>8, <3>1
    <3>3. Outing(some, r)
      BY <2>1, <3>2 DEF Outing
    <3> QED BY <3>3
  <2>2. CASE last.kind \notin KindsAboutTheAnswer
    <3>1. last.kind = "checked_out"
      BY <2>2, <1>7, <1>8, <1>9, <1>12, RowByRow
    <3>2. \A s \in some : ~(s.id > last.id)
      BY <1>7, <1>9
    <3>3. Outing(some, last)
      BY <3>1, <3>2 DEF Outing
    <3> QED BY <1>7, <3>3
  <2> QED BY <2>1, <2>2
<1> QED BY <1>5, <1>10, <1>11, <1>12

-----------------------------------------------------------------------------
(* What a request does *)

\* What a request does, but for the answers its rows are read from.
Turn(op) == IF op = "out" THEN "checked_out" ELSE "checked_in"
Turns == {"out", "in"}
Lending == {"checked_out", "checked_in"}

Marks(t) ==
  \/ \E b \in Books, op \in Turns :
       Mark(t, op, b, "insert", Nowhere, {NewRow(b, Turn(op), Nowhere)})
  \/ \E b \in Books, area \in MaybeAreas : Mark(t, "save", b, "land", area, {})

RulesAsk(t, area, todo) ==
  /\ todo = {NewRow(b, "assigned", area) : b \in
               {c \in Books : Catalogued(c) /\ AssignmentFor(SaysNow(c), area) # Nowhere}}
  /\ read' = [read EXCEPT ![t] = [books |-> {b \in Books : Catalogued(b)}, rows |-> Committed]]

ListsRows(t) ==
  \E op \in {"rules", "leave", "restore"}, area \in MaybeAreas, todo \in SUBSET NewRows :
    /\ Lists(t, op, area, todo)
    /\ \A new \in todo : new.kind \in KindsAboutTheAnswer
    /\ IF op = "rules" THEN RulesAsk(t, area, todo) ELSE UNCHANGED read

Steps(t) ==
  \/ Marks(t) \/ ListsRows(t) \/ (\E b \in Books, area \in Areas : Place(t, b, area))
  \/ Unplace(t) \/ Erase(t) \/ Rebuild(t)
  \/ Insert(t) \/ Fold(t) \/ (\E b \in Books : Write(t, b)) \/ Came(t) \/ Land(t)
  \/ Commit(t) \/ StatementFails(t)

-----------------------------------------------------------------------------
(* What is where *)

\* A request has what it needs when it gets there, and nothing when it is over.
Prepared(t) ==
  /\ tx[t].op \in {"place", "out", "in", "save"} => tx[t].of \in Books
  /\ tx[t].at = "came" => tx[t].op = "in"
  /\ tx[t].at = "land" => tx[t].op = "save"
  /\ tx[t].at = "fold" /\ tx[t].op \notin {"erase", "unplace"} => mine[t] # {}
Over(t) ==
  Free(t) => /\ mine[t] = {} /\ tx[t].at = "none"
             /\ table # t
             /\ \A b \in Books : lockedBy[b] # t

\* Every row has its own id, and was recorded by at most one open transaction.
RowsInv ==
  /\ Ledger(rows)
  /\ \A r \in rows : r.id < nextId
  /\ \A t \in Txs : mine[t] \subseteq rows
  /\ \A t, u \in Txs : t # u => mine[t] \cap mine[u] = {}

TypeInv ==
  /\ TypeOK
  /\ RowsInv
  /\ \A t \in Txs : Ledger(seen[t]) /\ Prepared(t) /\ Over(t)

LEMMA LedgerOfMany ==
  ASSUME NEW set, Ledger(set), NEW set2, Ledger(set2), \A r \in set, s \in set2 : r.id # s.id
  PROVE  Ledger(set \cup set2)
BY FS_Union DEF Ledger

LEMMA LedgerOfOne ==
  ASSUME NEW row, row.id \in Nat
  PROVE  Ledger({row})
BY FS_Singleton DEF Ledger

LEMMA RowsStand ==
  ASSUME NEW set \in SUBSET Rows
  PROVE  RowsAt(set, MaybeAreas)
BY DEF RowsAt, Rows

LEMMA WhatItSays ==
  ASSUME NEW set \in SUBSET Rows, Ledger(set)
  PROVE  /\ StandingOf(set) \in Says(MaybeAreas)
         /\ FoldedArea(set) \in MaybeAreas
         /\ FoldedArea(set) = StandingOf(set).area
         /\ StandingOf(set).out => \E r \in set : Outing(set, r)
<1>1. Nowhere \in MaybeAreas /\ RowsAt(set, MaybeAreas)
  BY RowsStand DEF MaybeAreas
<1>2. StandingOf(set) \in Says(MaybeAreas) /\ FoldedArea(set) = StandingOf(set).area
  BY <1>1, FoldsOfOneLedger
<1>3. StandingOf(set).area \in MaybeAreas
  BY <1>2 DEF Says
<1> QED BY <1>1, <1>2, <1>3, FoldsOfOneLedger

LEMMA CommittedRows ==
  ASSUME TypeInv
  PROVE  /\ Committed \in SUBSET rows
         /\ \A set \in SUBSET rows : set \in SUBSET Rows /\ Ledger(set)
<1>1. Committed \in SUBSET rows
  BY DEF Committed
<1>2. \A set \in SUBSET rows : set \in SUBSET Rows /\ Ledger(set)
  BY SomeRows DEF TypeInv, RowsInv, TypeOK
<1> QED BY <1>1, <1>2

LEMMA PartsOfTheLedger ==
  ASSUME TypeInv, NEW t \in Txs
  PROVE  /\ Sees(t) \in SUBSET rows /\ Committed \in SUBSET rows
         /\ mine[t] \in SUBSET Rows /\ Ledger(mine[t])
         /\ \A set \in SUBSET rows : set \in SUBSET Rows /\ Ledger(set)
<1>1. Sees(t) \in SUBSET rows /\ Committed \in SUBSET rows
  BY DEF TypeInv, RowsInv, Sees, Committed
<1>2. \A set \in SUBSET rows : set \in SUBSET Rows /\ Ledger(set)
  BY SomeRows DEF TypeInv, RowsInv, TypeOK
<1> QED BY <1>1, <1>2 DEF TypeInv, RowsInv

LEMMA LedgerOfNone == Ledger({})
BY FS_EmptySet DEF Ledger

LEMMA TypesAtFirst == Init => TypeInv
<1> SUFFICES ASSUME Init PROVE TypeInv
  OBVIOUS
<1>1. PICK b \in Books : rows \in Histories(b)
  BY DEF Init
<1>2. rows \in SUBSET Rows /\ Ledger(rows) /\ \A r \in rows : r.id < 3
  <2>1. CASE rows = {}
    BY <2>1, LedgerOfNone
  <2>2. ASSUME NEW area \in Areas, rows = {Seeded(1, b, "pinned", area)}
        PROVE  rows \in SUBSET Rows /\ Ledger(rows) /\ \A r \in rows : r.id < 3
    <3>1. Seeded(1, b, "pinned", area) \in Rows /\ Seeded(1, b, "pinned", area).id = 1
      BY LedgerAssumption DEF Seeded, Rows, PlacementKinds, KindsAtAPlace, MaybeAreas
    <3> QED BY <2>2, <3>1, LedgerOfOne
  <2>3. ASSUME NEW from \in Areas, NEW to \in Areas,
               rows = {Seeded(1, b, "placed", from), Seeded(2, b, "assigned", to)}
        PROVE  rows \in SUBSET Rows /\ Ledger(rows) /\ \A r \in rows : r.id < 3
    <3> DEFINE r1 == Seeded(1, b, "placed", from)
    <3> DEFINE r2 == Seeded(2, b, "assigned", to)
    <3>1. r1 \in Rows /\ r1.id = 1
      BY LedgerAssumption DEF Seeded, Rows, PlacementKinds, KindsAtAPlace, MaybeAreas
    <3>2. r2 \in Rows /\ r2.id = 2
      BY LedgerAssumption DEF Seeded, Rows, PlacementKinds, KindsAtAPlace, MaybeAreas
    <3> HIDE DEF r1, r2
    <3>3. Ledger({r1} \cup {r2})
      <4>1. Ledger({r1}) /\ Ledger({r2}) /\ \A r \in {r1}, s \in {r2} : r.id # s.id
        BY <3>1, <3>2, LedgerOfOne
      <4> QED BY <4>1, LedgerOfMany
    <3>4. rows = {r1} \cup {r2}
      BY <2>3 DEF r1, r2
    <3> QED BY <3>1, <3>2, <3>3, <3>4
  <2> QED BY <1>1, <2>1, <2>2, <2>3 DEF Histories
<1>3. ASSUME NEW c \in Books PROVE FoldedArea(About(c, rows)) \in MaybeAreas
  <2>1. About(c, rows) \in SUBSET Rows /\ About(c, rows) \in SUBSET rows
    BY <1>2 DEF About
  <2> QED BY <1>2, <2>1, SomeRows, WhatItSays
<1>4. book \in [Books -> Versions] /\ draft \in [Books -> Versions]
  <2>1. PICK states \in [Books -> States \ {"checked_out"}] :
          book = [c \in Books |-> [state |-> IF About(c, rows) = {} THEN states[c] ELSE "shelved",
                                   area |-> FoldedArea(About(c, rows))]]
    BY DEF Init
  <2> QED BY <1>3, <2>1 DEF Init, Versions, States
<1>5. Idle \in Requests
  BY DEF Idle, Requests, Ops, Ats, MaybeAreas
<1>6. tx = [t \in Txs |-> Idle] /\ mine = [t \in Txs |-> {}] /\ seen = [t \in Txs |-> {}]
      /\ lockedBy = [c \in Books |-> Nobody] /\ table = Nobody /\ alone = [t \in Txs |-> FALSE]
      /\ nextId = 3 /\ wanted \in MaybeAreas /\ read = [t \in Txs |-> Nothing]
  BY DEF Init
<1>7. TypeOK
  <2>1. read \in [Txs -> Readings]
    BY <1>6 DEF Nothing, Readings
  <2> QED BY <1>2, <1>4, <1>5, <1>6, <2>1, LedgerAssumption DEF TypeOK
<1>8. \A t \in Txs : Prepared(t) /\ Over(t)
  BY <1>6, LedgerAssumption DEF Prepared, Over, Idle
<1> QED BY <1>2, <1>6, <1>7, <1>8, LedgerOfNone DEF TypeInv, RowsInv
LEMMA StepsTaken ==
  ASSUME TypeInv, Next
  PROVE  \E t \in Txs : Steps(t)
<1>1. PICK t \in Txs : Handle(t) \/ Statement(t)
  BY DEF Next
<1>2. ASSUME NEW b \in Books, CheckOut(t, b) \/ CheckIn(t, b) PROVE Marks(t)
  <2>1. CASE CheckOut(t, b)
    BY <2>1 DEF CheckOut, Marks, Turns, Turn
  <2>2. CASE CheckIn(t, b)
    BY <2>2 DEF CheckIn, Marks, Turns, Turn
  <2> QED BY <1>2, <2>1, <2>2
<1>3. ASSUME NEW b \in Books, NEW area \in MaybeAreas, Save(t, b, area) PROVE Marks(t)
  BY <1>3 DEF Save, Marks
<1>4. ASSUME NEW area \in MaybeAreas, Rules(t, area) PROVE ListsRows(t)
  <2> DEFINE due == {c \in Books : Catalogued(c) /\ AssignmentFor(SaysNow(c), area) # Nowhere}
  <2> DEFINE todo == {NewRow(b, "assigned", area) : b \in due}
  <2>1. Lists(t, "rules", area, todo)
    BY <1>4 DEF Rules
  <2>2. ASSUME NEW new \in todo
        PROVE  new \in NewRows /\ new.kind = "assigned"
    <3>1. PICK b \in due : new = NewRow(b, "assigned", area)
      OBVIOUS
    <3>2. area # Nowhere
      BY <3>1 DEF AssignmentFor
    <3> QED BY <3>1, <3>2 DEF NewRow, NewRows, PlacementKinds, KindsAtAPlace
  <2>3. RulesAsk(t, area, todo)
    BY <1>4 DEF Rules, RulesAsk
  <2> HIDE DEF todo
  <2> QED BY <2>1, <2>2, <2>3 DEF ListsRows, KindsAboutTheAnswer
<1>5. ASSUME Leave(t) PROVE ListsRows(t)
  <2>1. PICK chosen \in Trips({b \in Books : Catalogued(b) /\ Answered(b) /\ Withdrawable(SaysNow(b))}) :
          Lists(t, "leave", Nowhere, {NewRow(b, "released", Nowhere) : b \in chosen}) /\ UNCHANGED read
    BY <1>5 DEF Leave
  <2>2. chosen \in SUBSET Books
    BY DEF Trips
  <2> DEFINE todo == {NewRow(b, "released", Nowhere) : b \in chosen}
  <2>3. \A new \in todo : new \in NewRows /\ new.kind = "released"
    BY <2>2 DEF NewRow, NewRows, PlacementKinds, KindsAtAPlace, MaybeAreas
  <2>4. Nowhere \in MaybeAreas
    BY DEF MaybeAreas
  <2> HIDE DEF todo
  <2> QED BY <2>1, <2>3, <2>4 DEF ListsRows, KindsAboutTheAnswer, todo
<1>6. ASSUME Restore(t) PROVE ListsRows(t)
  <2> DEFINE asked == {b \in Books : Catalogued(b) /\ Answered(b) /\ Restorable(SaysNow(b))}
  <2>1. PICK chosen \in Trips(asked) :
          /\ Lists(t, "restore", Nowhere, {NewRow(b, "assigned", SaysNow(b).declined) : b \in chosen})
          /\ UNCHANGED read
    BY <1>6 DEF Restore
  <2>2. chosen \in SUBSET asked
    BY DEF Trips
  <2> DEFINE todo == {NewRow(b, "assigned", SaysNow(b).declined) : b \in chosen}
  <2>3. ASSUME NEW new \in todo PROVE new \in NewRows /\ new.kind = "assigned"
    <3>1. PICK b \in chosen : new = NewRow(b, "assigned", SaysNow(b).declined)
      OBVIOUS
    <3>2. b \in Books /\ Restorable(SaysNow(b))
      BY <2>2
    <3>3. About(b, Committed) \in SUBSET rows
      BY PartsOfTheLedger DEF About
    <3>4. SaysNow(b) \in Says(MaybeAreas)
      BY <3>3, PartsOfTheLedger, WhatItSays DEF SaysNow
    <3>5. SaysNow(b).declined \in MaybeAreas /\ SaysNow(b).declined # Nowhere
      <4>1. SaysNow(b).declined # Nowhere
        BY <3>2 DEF Restorable
      <4> QED BY <3>4, <4>1 DEF Says
    <3> QED BY <3>1, <3>2, <3>5 DEF NewRow, NewRows, PlacementKinds, KindsAtAPlace
  <2>4. Nowhere \in MaybeAreas
    BY DEF MaybeAreas
  <2> HIDE DEF todo
  <2> QED BY <2>1, <2>3, <2>4 DEF ListsRows, KindsAboutTheAnswer, todo
<1>7. CASE Handle(t)
  BY <1>1, <1>2, <1>3, <1>4, <1>5, <1>6, <1>7 DEF Handle, Steps
<1>8. CASE Statement(t)
  BY <1>1, <1>8 DEF Statement, Steps
<1> QED BY <1>1, <1>7, <1>8
LEMMA Recorded ==
  ASSUME TypeInv, NEW t \in Txs, NEW new \in NewRows, Record(t, new)
  PROVE  \E row \in Rows :
           /\ row.id = nextId /\ row.book = new.book /\ row.kind = new.kind /\ row.area = new.area
           /\ row.reset = FALSE
           /\ \A r \in rows : r.id < row.id
           /\ row \notin rows
           /\ rows' = rows \cup {row}
           /\ mine' = [mine EXCEPT ![t] = @ \cup {row}]
           /\ nextId' = nextId + 1 /\ table \in {Nobody, t}
           /\ rows' \in SUBSET Rows /\ nextId' \in 1 .. MaxRows + 1
           /\ mine' \in [Txs -> SUBSET Rows]
           /\ RowsInv'
<1> DEFINE row == [id |-> nextId, book |-> new.book, kind |-> new.kind,
                   area |-> new.area, reset |-> FALSE]
<1>1. /\ rows' = rows \cup {row} /\ mine' = [mine EXCEPT ![t] = @ \cup {row}]
      /\ nextId' = nextId + 1 /\ nextId <= MaxRows /\ table \in {Nobody, t}
  BY DEF Record
<1>2. nextId \in 1 .. MaxRows /\ MaxRows \in Nat
  BY <1>1, LedgerAssumption DEF TypeInv, TypeOK
<1>3. row \in Rows
  BY <1>2 DEF NewRows, Rows
<1>4. /\ row.id = nextId /\ row.book = new.book /\ row.kind = new.kind /\ row.area = new.area
      /\ row.reset = FALSE
  OBVIOUS
<1> HIDE DEF row
<1>5. (\A r \in rows : r.id < row.id) /\ \A r \in rows : r.id \in Nat
  BY <1>4 DEF TypeInv, RowsInv, Ledger
<1>6. row \notin rows
  BY <1>5
<1>7. /\ rows' \in SUBSET Rows /\ nextId' \in 1 .. MaxRows + 1
      /\ mine' \in [Txs -> SUBSET Rows]
  BY <1>1, <1>2, <1>3 DEF TypeInv, TypeOK
<1>8. Ledger(rows')
  <2>1. Ledger(rows) /\ Ledger({row})
    BY <1>2, <1>4, LedgerOfOne DEF TypeInv, RowsInv
  <2>2. \A r \in rows, s \in {row} : r.id # s.id
    BY <1>2, <1>4, <1>5
  <2> QED BY <1>1, <2>1, <2>2, LedgerOfMany
<1>9. \A r \in rows' : r.id < nextId'
  BY <1>1, <1>2, <1>4, <1>5
<1>10. \A u \in Txs : mine'[u] \subseteq rows'
  BY <1>1 DEF TypeInv, TypeOK, RowsInv
<1>11. ASSUME NEW u \in Txs, NEW v \in Txs, u # v PROVE mine'[u] \cap mine'[v] = {}
  BY <1>1, <1>6, <1>11 DEF TypeInv, TypeOK, RowsInv
<1>12. RowsInv'
  BY <1>8, <1>9, <1>10, <1>11 DEF RowsInv, Ledger
<1> QED BY <1>1, <1>3, <1>4, <1>5, <1>6, <1>7, <1>12

LEMMA TheOthers ==
  ASSUME TypeInv, NEW u \in Txs, tx'[u] = tx[u], mine'[u] = mine[u], table' = u => table = u,
         \A b \in Books : lockedBy'[b] = u => lockedBy[b] = u
  PROVE  Prepared(u)' /\ Over(u)'
BY DEF TypeInv, Prepared, Over, Free

LEMMA SameRows ==
  ASSUME TypeInv, UNCHANGED <<rows, nextId, mine>>
  PROVE  RowsInv'
BY DEF TypeInv, RowsInv, Ledger

LEMMA TypesMark ==
  ASSUME TypeInv, NEW t \in Txs, Marks(t)
  PROVE  TypeInv'
<1>1. PICK b \in Books, op \in Turns \cup {"save"}, at \in {"insert", "land"}, area \in MaybeAreas,
           todo \in SUBSET NewRows : Mark(t, op, b, at, area, todo) /\ (at = "land" => op = "save")
  <2>1. CASE \E b \in Books, op \in Turns :
               Mark(t, op, b, "insert", Nowhere, {NewRow(b, Turn(op), Nowhere)})
    <3>1. PICK b \in Books, op \in Turns :
               Mark(t, op, b, "insert", Nowhere, {NewRow(b, Turn(op), Nowhere)})
      BY <2>1
    <3>2. {NewRow(b, Turn(op), Nowhere)} \in SUBSET NewRows /\ Nowhere \in MaybeAreas
      BY DEF NewRow, NewRows, Turn, PlacementKinds, KindsAtAPlace, MaybeAreas
    <3> QED BY <3>1, <3>2
  <2>2. CASE \E b \in Books, area \in MaybeAreas : Mark(t, "save", b, "land", area, {})
    BY <2>2
  <2> QED BY <2>1, <2>2 DEF Marks
<1>2. /\ UNCHANGED <<rows, nextId, book, wanted, table, mine, seen, read>>
      /\ draft' = [draft EXCEPT ![b].state = MovedTo(op)]
      /\ lockedBy' = [lockedBy EXCEPT ![b] = t]
      /\ tx' = [tx EXCEPT ![t] = Request(op, at, b, area, todo)]
      /\ alone' = [u \in Txs |-> u = t /\ \A v \in Txs : Free(v)]
  BY <1>1 DEF Mark, Begins
<1>3. Request(op, at, b, area, todo) \in Requests
  BY <1>1 DEF Request, Requests, Ops, Ats, Turns
<1>4. TypeOK'
  <2>1. draft' \in [Books -> Versions]
    <3>1. draft[b] \in Versions /\ MovedTo(op) \in States
      BY DEF TypeInv, TypeOK, MovedTo, States
    <3> QED BY <1>2, <3>1 DEF TypeInv, TypeOK, Versions
  <2>2. tx' \in [Txs -> Requests] /\ lockedBy' \in [Books -> Txs \cup {Nobody}]
        /\ alone' \in [Txs -> BOOLEAN]
    BY <1>2, <1>3 DEF TypeInv, TypeOK
  <2> QED BY <1>2, <2>1, <2>2 DEF TypeInv, TypeOK
<1>5. ASSUME NEW u \in Txs PROVE Prepared(u)' /\ Over(u)'
  <2>1. CASE u = t
    <3>1. tx'[t].op = op /\ tx'[t].at = at /\ tx'[t].of = b
      BY <1>2 DEF TypeInv, TypeOK, Request
    <3> QED BY <1>1, <2>1, <3>1 DEF Prepared, Over, Free, Turns
  <2>2. CASE u # t
    BY <1>2, <2>2, TheOthers DEF TypeInv, TypeOK
  <2> QED BY <2>1, <2>2
<1>6. \A u \in Txs : Ledger(seen[u])'
  BY <1>2 DEF TypeInv, Ledger
<1> QED BY <1>2, <1>4, <1>5, <1>6, SameRows DEF TypeInv

LEMMA TypesLists ==
  ASSUME TypeInv, NEW t \in Txs, ListsRows(t)
  PROVE  TypeInv'
<1>1. PICK op \in {"rules", "leave", "restore"}, area \in MaybeAreas, todo \in SUBSET NewRows :
        Lists(t, op, area, todo) /\ IF op = "rules" THEN RulesAsk(t, area, todo) ELSE UNCHANGED read
  BY DEF ListsRows
<1> DEFINE at == IF todo = {} THEN "commit" ELSE "insert"
<1>2. /\ UNCHANGED <<rows, nextId, book, draft, lockedBy, wanted, table, mine, seen>>
      /\ tx' = [tx EXCEPT ![t] = Request(op, at, Nobody, area, todo)]
      /\ alone' = [u \in Txs |-> u = t /\ \A v \in Txs : Free(v)]
  BY <1>1 DEF Lists, Begins
<1>3. Request(op, at, Nobody, area, todo) \in Requests
  BY <1>1 DEF Request, Requests, Ops, Ats
<1>4. TypeOK'
  <2>1. [books |-> {b \in Books : Catalogued(b)}, rows |-> Committed] \in Readings
    BY PartsOfTheLedger DEF Readings
  <2>2. read' \in [Txs -> Readings]
    BY <1>1, <2>1 DEF RulesAsk, TypeInv, TypeOK
  <2> QED BY <1>2, <1>3, <2>2 DEF TypeInv, TypeOK
<1>5. ASSUME NEW u \in Txs PROVE Prepared(u)' /\ Over(u)'
  <2>1. CASE u = t
    <3>1. tx'[t].op = op /\ tx'[t].at \in {"commit", "insert"}
      BY <1>2 DEF TypeInv, TypeOK, Request
    <3> QED BY <1>1, <2>1, <3>1 DEF Prepared, Over, Free
  <2>2. CASE u # t
    BY <1>2, <2>2, TheOthers DEF TypeInv, TypeOK
  <2> QED BY <2>1, <2>2
<1>6. \A u \in Txs : Ledger(seen[u])'
  BY <1>2 DEF TypeInv, Ledger
<1> QED BY <1>2, <1>4, <1>5, <1>6, SameRows DEF TypeInv

LEMMA TypesPlace ==
  ASSUME TypeInv, NEW t \in Txs, NEW b \in Books, NEW area \in Areas, Place(t, b, area)
  PROVE  TypeInv'
<1>1. NewRow(b, "placed", area) \in NewRows
  BY LedgerAssumption DEF NewRow, NewRows, PlacementKinds, KindsAtAPlace, MaybeAreas
<1>2. /\ UNCHANGED <<book, draft, lockedBy, wanted, table, seen, read>>
      /\ tx' = [tx EXCEPT ![t] = Request("place", "fold", b, Nowhere, {})]
      /\ alone' = [u \in Txs |-> u = t /\ \A v \in Txs : Free(v)]
      /\ Record(t, NewRow(b, "placed", area))
  BY DEF Place, Begins
<1>3. PICK row \in Rows :
        /\ mine' = [mine EXCEPT ![t] = @ \cup {row}]
        /\ rows' \in SUBSET Rows /\ nextId' \in 1 .. MaxRows + 1
        /\ mine' \in [Txs -> SUBSET Rows]
        /\ RowsInv'
  BY <1>1, <1>2, Recorded
<1>4. Request("place", "fold", b, Nowhere, {}) \in Requests
  BY DEF Request, Requests, Ops, Ats, MaybeAreas
<1>5. TypeOK'
  BY <1>2, <1>3, <1>4 DEF TypeInv, TypeOK
<1>6. ASSUME NEW u \in Txs PROVE Prepared(u)' /\ Over(u)'
  <2>1. CASE u = t
    <3>1. /\ tx'[t].op = "place" /\ tx'[t].at = "fold" /\ tx'[t].of = b
          /\ row \in mine'[t]
      BY <1>2, <1>3 DEF TypeInv, TypeOK, Request
    <3> QED BY <2>1, <3>1 DEF Prepared, Over, Free
  <2>2. CASE u # t
    BY <1>2, <1>3, <2>2, TheOthers DEF TypeInv, TypeOK
  <2> QED BY <2>1, <2>2
<1>7. \A u \in Txs : Ledger(seen[u])'
  BY <1>2 DEF TypeInv, Ledger
<1> QED BY <1>3, <1>5, <1>6, <1>7 DEF TypeInv
\* The rows of a reset: one for each book that is still somewhere.
LEMMA Unplaced ==
  ASSUME TypeInv, NEW t \in Txs, Unplace(t)
  PROVE  \E new \in SUBSET Rows :
           /\ mine' = [mine EXCEPT ![t] = new]
           /\ rows' = rows \cup new
           /\ \A r \in new : /\ r.kind = "checked_in" /\ r.reset = TRUE /\ r \notin rows
                             /\ \A s \in rows : s.id < r.id
           /\ \A r, s \in new : r.book = s.book => r = s
           /\ (new = {}) <=> (StillSomewhere = {})
           /\ rows' \in SUBSET Rows /\ nextId' \in 1 .. MaxRows + 1
           /\ mine' \in [Txs -> SUBSET Rows]
           /\ RowsInv'
<1> DEFINE due == StillSomewhere
<1> DEFINE last == nextId + Cardinality(due) - 1
<1>1. due \in SUBSET Books
  BY DEF StillSomewhere
<1> HIDE DEF due
<1>2. IsFiniteSet(due) /\ Cardinality(due) \in Nat
  BY <1>1, LedgerAssumption, FS_Subset, FS_CardinalityType
<1>3. last <= MaxRows /\ nextId' = last + 1
  BY DEF Unplace, due
<1>4. nextId \in Nat \ {0} /\ MaxRows \in Nat /\ last \in Int /\ nextId <= last + 1
  BY <1>2, LedgerAssumption DEF TypeInv, TypeOK
<1>5. PICK id \in [due -> nextId .. last] :
        /\ \A b, c \in due : id[b] = id[c] => b = c
        /\ mine' = [mine EXCEPT ![t] =
             {[id |-> id[b], book |-> b, kind |-> "checked_in", area |-> Nowhere, reset |-> TRUE] :
                b \in due}]
  BY DEF Unplace, due
<1> HIDE DEF last
<1> DEFINE rowOf(b) == [id |-> id[b], book |-> b, kind |-> "checked_in", area |-> Nowhere, reset |-> TRUE]
<1> DEFINE new == {rowOf(b) : b \in due}
<1>6. mine' = [mine EXCEPT ![t] = new]
  BY <1>5
<1>7. rows' = rows \cup new
  BY <1>6 DEF Unplace, TypeInv, TypeOK
<1>8. ASSUME NEW r \in new
      PROVE  /\ r \in Rows /\ r.kind = "checked_in" /\ r.reset = TRUE /\ r.book \in due
             /\ r.id = id[r.book]
             /\ r.id \in Nat /\ nextId <= r.id /\ r.id <= last
  <2>1. PICK b \in due : r = rowOf(b)
    OBVIOUS
  <2>2. id[b] \in nextId .. last /\ b \in Books
    BY <1>1, <1>5
  <2>3. id[b] \in 1 .. MaxRows
    BY <1>3, <1>4, <2>2
  <2> QED BY <1>4, <2>1, <2>2, <2>3 DEF Rows, PlacementKinds, KindsAtAPlace, MaybeAreas
<1>20. \A r \in new : r = rowOf(r.book)
  OBVIOUS
<1>9. (new = {}) <=> (due = {})
  OBVIOUS
<1>10. IsFiniteSet(new)
  <2> DEFINE f == [b \in due |-> rowOf(b)]
  <2>1. {f[b] : b \in due} = new
    OBVIOUS
  <2>2. f \in Surjection(due, new)
    BY DEF Surjection
  <2> HIDE DEF f
  <2> QED BY <1>2, <2>2, FS_Surjection
<1> HIDE DEF new, rowOf
<1>11. ASSUME NEW r \in new PROVE (\A s \in rows : s.id < r.id) /\ r \notin rows
  <2>1. \A s \in rows : s.id < nextId /\ s.id \in Nat
    BY DEF TypeInv, RowsInv, Ledger
  <2>2. r.id \in Nat /\ nextId <= r.id /\ nextId \in Nat
    BY <1>4, <1>8
  <2>3. \A s \in rows : s.id < r.id
    BY <2>1, <2>2
  <2> QED BY <2>2, <2>3
<1>12. ASSUME NEW r \in new, NEW s \in new, r.book = s.book \/ r.id = s.id PROVE r = s
  <2>1. r.book \in due /\ s.book \in due /\ id[r.book] = r.id /\ id[s.book] = s.id
    BY <1>8
  <2>2. \A b, c \in due : id[b] = id[c] => b = c
    BY <1>5
  <2>3. r.book = s.book
    <3>1. CASE r.book = s.book
      BY <3>1
    <3>2. CASE r.id = s.id
      <4>1. id[r.book] = id[s.book]
        BY <2>1, <3>2
      <4> QED BY <2>1, <2>2, <4>1
    <3> QED BY <1>12, <3>1, <3>2
  <2> QED BY <1>20, <2>3
<1>13. Ledger(rows')
  <2>1. Ledger(new)
    BY <1>8, <1>10, <1>12 DEF Ledger
  <2>2. Ledger(rows) /\ \A r \in rows, s \in new : r.id # s.id
    <3>1. \A s \in rows : s.id \in Nat
      BY DEF TypeInv, RowsInv, Ledger
    <3> QED BY <1>8, <1>11, <3>1 DEF TypeInv, RowsInv
  <2> QED BY <1>7, <2>1, <2>2, LedgerOfMany
<1>14. \A r \in rows' : r.id < nextId'
  <2>1. \A s \in rows : s.id < nextId /\ s.id \in Nat
    BY DEF TypeInv, RowsInv, Ledger
  <2>2. ASSUME NEW r \in new PROVE r.id < nextId'
    <3>1. r.id \in Nat /\ r.id <= last
      BY <1>8
    <3> QED BY <1>3, <1>4, <3>1
  <2>3. ASSUME NEW r \in rows PROVE r.id < nextId'
    <3>1. r.id \in Nat /\ r.id < nextId
      BY <2>1
    <3> QED BY <1>3, <1>4, <3>1
  <2> QED BY <1>7, <2>2, <2>3
<1>15. /\ rows' \in SUBSET Rows /\ nextId' \in 1 .. MaxRows + 1 /\ new \in SUBSET Rows
       /\ mine' \in [Txs -> SUBSET Rows]
  <2>1. new \in SUBSET Rows
    BY <1>8
  <2>2. nextId' \in 1 .. MaxRows + 1
    BY <1>3, <1>4
  <2> QED BY <1>6, <1>7, <2>1, <2>2 DEF TypeInv, TypeOK
<1>16. \A u \in Txs : mine'[u] \subseteq rows'
  BY <1>6, <1>7 DEF TypeInv, TypeOK, RowsInv
<1>17. ASSUME NEW u \in Txs, NEW v \in Txs, u # v PROVE mine'[u] \cap mine'[v] = {}
  BY <1>6, <1>11, <1>17 DEF TypeInv, TypeOK, RowsInv
<1>18. RowsInv'
  BY <1>13, <1>14, <1>16, <1>17 DEF RowsInv, Ledger
<1> QED BY <1>6, <1>7, <1>8, <1>9, <1>11, <1>12, <1>15, <1>18 DEF due

LEMMA TypesUnplace ==
  ASSUME TypeInv, NEW t \in Txs, Unplace(t)
  PROVE  TypeInv'
<1>1. PICK new \in SUBSET Rows :
        /\ mine' = [mine EXCEPT ![t] = new]
        /\ rows' \in SUBSET Rows /\ nextId' \in 1 .. MaxRows + 1
        /\ mine' \in [Txs -> SUBSET Rows]
        /\ RowsInv'
  BY Unplaced
<1> DEFINE at == IF StillSomewhere = {} THEN "commit" ELSE "fold"
<1>2. /\ UNCHANGED <<book, draft, lockedBy, wanted, seen, read>>
      /\ tx' = [tx EXCEPT ![t] = Request("unplace", at, Nobody, Nowhere, {})]
      /\ alone' = [u \in Txs |-> u = t /\ \A v \in Txs : Free(v)]
      /\ table' = t
  BY DEF Unplace, LocksTable, Begins
<1>3. Request("unplace", at, Nobody, Nowhere, {}) \in Requests
  BY DEF Request, Requests, Ops, Ats, MaybeAreas
<1>4. TypeOK'
  BY <1>1, <1>2, <1>3 DEF TypeInv, TypeOK
<1>5. ASSUME NEW u \in Txs PROVE Prepared(u)' /\ Over(u)'
  <2>1. CASE u = t
    <3>1. tx'[t].op = "unplace" /\ tx'[t].at \in {"commit", "fold"}
      BY <1>2 DEF TypeInv, TypeOK, Request
    <3> QED BY <2>1, <3>1 DEF Prepared, Over, Free
  <2>2. CASE u # t
    BY <1>1, <1>2, <2>2, TheOthers DEF TypeInv, TypeOK
  <2> QED BY <2>1, <2>2
<1>6. \A u \in Txs : Ledger(seen[u])'
  BY <1>2 DEF TypeInv, Ledger
<1> QED BY <1>1, <1>4, <1>5, <1>6 DEF TypeInv

LEMMA TypesErase ==
  ASSUME TypeInv, NEW t \in Txs, Erase(t)
  PROVE  TypeInv'
<1>1. /\ UNCHANGED <<rows, nextId, book, draft, lockedBy, wanted, mine, seen, read>>
      /\ tx' = [tx EXCEPT ![t] = Request("erase", "fold", Nobody, Nowhere, {})]
      /\ alone' = [u \in Txs |-> u = t /\ \A v \in Txs : Free(v)]
      /\ table' = t
  BY DEF Erase, LocksTable, Begins
<1>2. Request("erase", "fold", Nobody, Nowhere, {}) \in Requests
  BY DEF Request, Requests, Ops, Ats, MaybeAreas
<1>3. TypeOK'
  BY <1>1, <1>2 DEF TypeInv, TypeOK
<1>4. ASSUME NEW u \in Txs PROVE Prepared(u)' /\ Over(u)'
  <2>1. CASE u = t
    <3>1. tx'[t].op = "erase" /\ tx'[t].at = "fold"
      BY <1>1 DEF TypeInv, TypeOK, Request
    <3> QED BY <2>1, <3>1 DEF Prepared, Over, Free
  <2>2. CASE u # t
    BY <1>1, <2>2, TheOthers DEF TypeInv, TypeOK
  <2> QED BY <2>1, <2>2
<1>5. \A u \in Txs : Ledger(seen[u])'
  BY <1>1 DEF TypeInv, Ledger
<1> QED BY <1>1, <1>3, <1>4, <1>5, SameRows DEF TypeInv

LEMMA TypesRebuild ==
  ASSUME TypeInv, NEW t \in Txs, Rebuild(t)
  PROVE  TypeInv'
<1>1. PICK wrong \in SUBSET Books :
      /\ UNCHANGED <<rows, nextId, book, draft, lockedBy, wanted, table, mine, read>>
      /\ tx' = [tx EXCEPT ![t] = [Request("rebuild", "write", Nobody, Nowhere, {}) EXCEPT !.writes = wrong]]
      /\ alone' = [u \in Txs |-> u = t /\ \A v \in Txs : Free(v)]
      /\ seen' = [seen EXCEPT ![t] = Committed]
  BY DEF Rebuild, Begins
<1>2. [Request("rebuild", "write", Nobody, Nowhere, {}) EXCEPT !.writes = wrong] \in Requests
  BY DEF Request, Requests, Ops, Ats, MaybeAreas
<1>3. Committed \in SUBSET Rows /\ Ledger(Committed)
  BY PartsOfTheLedger
<1>4. TypeOK'
  BY <1>1, <1>2, <1>3 DEF TypeInv, TypeOK
<1>5. ASSUME NEW u \in Txs PROVE Prepared(u)' /\ Over(u)'
  <2>1. CASE u = t
    <3>1. tx'[t].op = "rebuild" /\ tx'[t].at = "write"
      BY <1>1 DEF TypeInv, TypeOK, Request
    <3> QED BY <2>1, <3>1 DEF Prepared, Over, Free
  <2>2. CASE u # t
    BY <1>1, <2>2, TheOthers DEF TypeInv, TypeOK
  <2> QED BY <2>1, <2>2
<1>6. \A u \in Txs : Ledger(seen'[u])
  BY <1>1, <1>3 DEF TypeInv, TypeOK
<1>7. (\A u \in Txs : Ledger(seen[u]))'
  BY <1>6 DEF Ledger
<1> QED BY <1>1, <1>4, <1>5, <1>7, SameRows DEF TypeInv
LEMMA TypesInsert ==
  ASSUME TypeInv, NEW t \in Txs, Insert(t)
  PROVE  TypeInv'
<1>1. PICK new \in tx[t].todo : Record(t, new) /\ Do(t, "fold", tx[t].todo \ {new})
  BY DEF Insert
<1>2. tx[t] \in Requests /\ new \in NewRows
  BY <1>1 DEF TypeInv, TypeOK, Requests
<1>3. UNCHANGED <<book, draft, lockedBy, wanted, table, seen, alone, read>> /\ tx[t].at = "insert"
  BY DEF Insert
<1> DEFINE next == [tx[t] EXCEPT !.at = "fold", !.todo = tx[t].todo \ {new}]
<1>4. tx' = [tx EXCEPT ![t] = next]
  BY <1>1 DEF Do, TypeInv, TypeOK
<1>5. next \in Requests /\ next.op = tx[t].op /\ next.of = tx[t].of /\ next.at = "fold"
  BY <1>2 DEF Requests, Ats
<1> HIDE DEF next
<1>6. PICK row \in Rows :
        /\ mine' = [mine EXCEPT ![t] = @ \cup {row}]
        /\ rows' \in SUBSET Rows /\ nextId' \in 1 .. MaxRows + 1
        /\ mine' \in [Txs -> SUBSET Rows]
        /\ RowsInv'
  BY <1>1, <1>2, Recorded
<1>7. TypeOK'
  BY <1>3, <1>4, <1>5, <1>6 DEF TypeInv, TypeOK
<1>8. ASSUME NEW u \in Txs PROVE Prepared(u)' /\ Over(u)'
  <2>1. CASE u = t
    <3>1. /\ tx'[t].op = tx[t].op /\ tx'[t].of = tx[t].of /\ tx'[t].at = "fold"
          /\ row \in mine'[t]
      BY <1>4, <1>5, <1>6 DEF TypeInv, TypeOK
    <3>2. Prepared(t) /\ Over(t)
      BY DEF TypeInv
    <3>3. tx[t].op # "none"
      BY <1>3, <3>2 DEF Over, Free
    <3> QED BY <2>1, <3>1, <3>2, <3>3 DEF Prepared, Over, Free
  <2>2. CASE u # t
    <3>1. tx'[u] = tx[u] /\ mine'[u] = mine[u]
      BY <1>4, <1>6, <2>2 DEF TypeInv, TypeOK
    <3> QED BY <1>3, <3>1, TheOthers
  <2> QED BY <2>1, <2>2
<1>9. \A u \in Txs : Ledger(seen[u])'
  BY <1>3 DEF TypeInv, Ledger
<1> QED BY <1>6, <1>7, <1>8, <1>9 DEF TypeInv

LEMMA BooksWritten ==
  ASSUME TypeInv, NEW t \in Txs, tx[t].at = "fold"
  PROVE  BooksToWrite(t) \in SUBSET Books
<1>1. mine[t] \in SUBSET Rows /\ Ledger(mine[t])
  BY PartsOfTheLedger
<1>2. CASE tx[t].op \in {"erase", "unplace"}
  BY <1>1, <1>2 DEF BooksToWrite, Rows
<1>3. CASE tx[t].op \notin {"erase", "unplace"}
  <2>1. Latest(mine[t]) \in mine[t]
    BY <1>1, <1>3, LatestExists DEF TypeInv, Prepared
  <2>2. Latest(mine[t]).book \in Books
    BY <1>1, <2>1 DEF Rows
  <2> QED BY <1>3, <2>2 DEF BooksToWrite
<1> QED BY <1>2, <1>3

LEMMA TypesFold ==
  ASSUME TypeInv, NEW t \in Txs, Fold(t)
  PROVE  TypeInv'
<1> DEFINE next == [tx[t] EXCEPT !.writes = BooksToWrite(t),
                                 !.at = IF BooksToWrite(t) = {} THEN "commit" ELSE "write"]
<1>1. /\ UNCHANGED <<rows, nextId, book, draft, lockedBy, wanted, table, mine, alone, read>>
      /\ seen' = [seen EXCEPT ![t] = Sees(t)]
      /\ tx' = [tx EXCEPT ![t] = next] /\ tx[t].at = "fold"
  BY DEF Fold, TypeInv, TypeOK
<1>2. tx[t] \in Requests /\ BooksToWrite(t) \in SUBSET Books
  BY <1>1, BooksWritten DEF TypeInv, TypeOK
<1>3. next \in Requests /\ next.op = tx[t].op /\ next.of = tx[t].of /\ next.at \in {"commit", "write"}
  BY <1>2 DEF Requests, Ats
<1> HIDE DEF next
<1>4. Sees(t) \in SUBSET Rows /\ Ledger(Sees(t))
  BY PartsOfTheLedger
<1>5. TypeOK'
  BY <1>1, <1>3, <1>4 DEF TypeInv, TypeOK
<1>6. ASSUME NEW u \in Txs PROVE Prepared(u)' /\ Over(u)'
  <2>1. CASE u = t
    <3>1. tx'[t].op = tx[t].op /\ tx'[t].of = tx[t].of /\ tx'[t].at \in {"commit", "write"}
      BY <1>1, <1>3 DEF TypeInv, TypeOK
    <3>2. Prepared(t) /\ Over(t)
      BY DEF TypeInv
    <3> QED BY <1>1, <2>1, <3>1, <3>2 DEF Prepared, Over, Free
  <2>2. CASE u # t
    BY <1>1, <2>2, TheOthers DEF TypeInv, TypeOK
  <2> QED BY <2>1, <2>2
<1>7. \A u \in Txs : Ledger(seen'[u])
  BY <1>1, <1>4 DEF TypeInv, TypeOK
<1>8. (\A u \in Txs : Ledger(seen[u]))'
  BY <1>7 DEF Ledger
<1> QED BY <1>1, <1>5, <1>6, <1>8, SameRows DEF TypeInv

\* What an UPDATE does to the row of a book.
Folded(t, b) ==
  IF tx[t].op \in {"unplace", "erase"} THEN Nowhere ELSE FoldedArea(About(b, seen[t]))

LEMMA Written ==
  ASSUME TypeInv, NEW t \in Txs, NEW b \in Books, Write(t, b)
  PROVE  /\ UNCHANGED <<rows, nextId, book, wanted, table, mine, alone, read>>
         /\ tx[t].at = "write" /\ b \in tx[t].writes /\ lockedBy[b] \in {Nobody, t}
         /\ Folded(t, b) \in MaybeAreas
         /\ draft' = [draft EXCEPT ![b].area = Folded(t, b)]
         /\ lockedBy' = [lockedBy EXCEPT ![b] = t]
         /\ tx'[t].op = tx[t].op /\ tx'[t].of = tx[t].of /\ tx'[t].todo = tx[t].todo
         /\ tx'[t].to = tx[t].to
         /\ tx'[t].writes = tx[t].writes \ {b}
         /\ tx'[t].at = IF tx[t].writes \ {b} = {} THEN AfterWriting(t) ELSE "write"
         /\ \A u \in Txs \ {t} : tx'[u] = tx[u] /\ seen'[u] = seen[u]
         /\ tx' \in [Txs -> Requests]
         /\ seen'[t] = IF tx[t].writes \ {b} = {} THEN {} ELSE seen[t]
         /\ seen' \in [Txs -> SUBSET Rows]
<1> DEFINE left == tx[t].writes \ {b}
<1> DEFINE next == [tx[t] EXCEPT !.writes = left, !.at = IF left = {} THEN AfterWriting(t) ELSE @]
<1>1. /\ UNCHANGED <<rows, nextId, book, wanted, table, mine, alone, read>>
      /\ tx[t].at = "write" /\ b \in tx[t].writes /\ lockedBy[b] \in {Nobody, t}
      /\ draft' = [draft EXCEPT ![b].area = Folded(t, b)]
      /\ lockedBy' = [lockedBy EXCEPT ![b] = t]
      /\ seen' = IF left = {} THEN [seen EXCEPT ![t] = {}] ELSE seen
  BY DEF Write, Folded, MayWrite
<1>2. tx' = [tx EXCEPT ![t] = next]
  BY DEF Write, TypeInv, TypeOK
<1>3. tx[t] \in Requests
  BY DEF TypeInv, TypeOK
<1>4. AfterWriting(t) \in Ats
  BY DEF AfterWriting, Ats
<1>5. /\ next \in Requests /\ next.op = tx[t].op /\ next.of = tx[t].of /\ next.todo = tx[t].todo
      /\ next.to = tx[t].to
      /\ next.writes = left /\ next.at = IF left = {} THEN AfterWriting(t) ELSE "write"
  BY <1>1, <1>3, <1>4 DEF Requests
<1> HIDE DEF next
<1>6. Folded(t, b) \in MaybeAreas
  <2>1. About(b, seen[t]) \in SUBSET seen[t] /\ seen[t] \in SUBSET Rows /\ Ledger(seen[t])
    BY DEF About, TypeInv, TypeOK
  <2>2. FoldedArea(About(b, seen[t])) \in MaybeAreas
    BY <2>1, SomeRows, WhatItSays
  <2> QED BY <2>2 DEF Folded, MaybeAreas
<1>7. /\ tx'[t] = next /\ \A u \in Txs \ {t} : tx'[u] = tx[u] /\ seen'[u] = seen[u]
      /\ tx' \in [Txs -> Requests]
      /\ seen'[t] = IF left = {} THEN {} ELSE seen[t]
      /\ seen' \in [Txs -> SUBSET Rows]
  BY <1>1, <1>2, <1>5 DEF TypeInv, TypeOK
<1> QED BY <1>1, <1>5, <1>6, <1>7

LEMMA TypesWrite ==
  ASSUME TypeInv, NEW t \in Txs, NEW b \in Books, Write(t, b)
  PROVE  TypeInv'
<1>1. /\ UNCHANGED <<rows, nextId, book, wanted, table, mine, alone, read>>
      /\ tx[t].at = "write"
      /\ Folded(t, b) \in MaybeAreas
      /\ draft' = [draft EXCEPT ![b].area = Folded(t, b)]
      /\ lockedBy' = [lockedBy EXCEPT ![b] = t]
      /\ tx'[t].op = tx[t].op /\ tx'[t].of = tx[t].of
      /\ tx'[t].at = IF tx[t].writes \ {b} = {} THEN AfterWriting(t) ELSE "write"
      /\ \A u \in Txs \ {t} : tx'[u] = tx[u] /\ seen'[u] = seen[u]
      /\ tx' \in [Txs -> Requests]
      /\ seen'[t] = IF tx[t].writes \ {b} = {} THEN {} ELSE seen[t]
      /\ seen' \in [Txs -> SUBSET Rows]
  BY Written
<1> HIDE DEF Folded
<1>2. draft' \in [Books -> Versions]
  BY <1>1 DEF TypeInv, TypeOK, Versions
<1>3. TypeOK'
  BY <1>1, <1>2 DEF TypeInv, TypeOK
<1>4. ASSUME NEW u \in Txs PROVE Prepared(u)' /\ Over(u)'
  <2>1. CASE u = t
    <3>1. Prepared(t) /\ Over(t)
      BY DEF TypeInv
    <3>2. tx[t].op # "none"
      BY <1>1, <3>1 DEF Over, Free
    <3> QED BY <1>1, <2>1, <3>1, <3>2 DEF Prepared, Over, Free, AfterWriting
  <2>2. CASE u # t
    BY <1>1, <2>2, TheOthers DEF TypeInv, TypeOK
  <2> QED BY <2>1, <2>2
<1>5. \A u \in Txs : Ledger(seen'[u])
  BY <1>1, LedgerOfNone DEF TypeInv, TypeOK
<1>6. (\A u \in Txs : Ledger(seen[u]))'
  BY <1>5 DEF Ledger
<1> QED BY <1>1, <1>3, <1>4, <1>6, SameRows DEF TypeInv
LEMMA TypesDo ==
  ASSUME TypeInv, NEW t \in Txs, Came(t) \/ Land(t)
  PROVE  TypeInv'
<1>1. \E at \in {"commit", "insert"}, todo \in SUBSET NewRows :
        tx' = [tx EXCEPT ![t] = [tx[t] EXCEPT !.at = at, !.todo = todo]]
  <2>1. tx[t] \in Requests
    BY DEF TypeInv, TypeOK
  <2>2. ASSUME Goto(t, "commit")
        PROVE  tx' = [tx EXCEPT ![t] = [tx[t] EXCEPT !.at = "commit", !.todo = tx[t].todo]]
    <3>1. [tx[t] EXCEPT !.at = "commit"] = [tx[t] EXCEPT !.at = "commit", !.todo = tx[t].todo]
      BY <2>1 DEF Requests
    <3> QED BY <2>2, <3>1 DEF Goto, TypeInv, TypeOK
  <2>3. tx[t].todo \in SUBSET NewRows
    BY <2>1 DEF Requests
  <2>4. ASSUME NEW area \in Areas, Do(t, "insert", {NewRow(tx[t].of, "placed", area)}), tx[t].of \in Books
        PROVE  \E todo \in SUBSET NewRows :
                 tx' = [tx EXCEPT ![t] = [tx[t] EXCEPT !.at = "insert", !.todo = todo]]
    <3>1. {NewRow(tx[t].of, "placed", area)} \in SUBSET NewRows
      BY <2>4, LedgerAssumption DEF NewRow, NewRows, PlacementKinds, KindsAtAPlace, MaybeAreas
    <3>2. tx' = [tx EXCEPT ![t] = [tx[t] EXCEPT !.at = "insert", !.todo = {NewRow(tx[t].of, "placed", area)}]]
      BY <2>4 DEF Do, TypeInv, TypeOK
    <3> QED BY <3>1, <3>2
  <2>5. CASE Came(t)
    <3> DEFINE been == {r \in About(tx[t].of, Sees(t)) : r.kind \in {"placed", "pinned"}}
    <3>1. tx[t].of \in Books
      BY <2>5 DEF Came, TypeInv, Prepared
    <3>2. CASE been = {}
      BY <2>2, <2>3, <2>5, <3>2 DEF Came
    <3>3. CASE been # {}
      <4>1. Do(t, "insert", {NewRow(tx[t].of, "placed", Latest(been).area)})
        BY <2>5, <3>3 DEF Came
      <4>2. been \in SUBSET rows
        BY PartsOfTheLedger DEF About
      <4>3. Ledger(been) /\ been \in SUBSET Rows
        BY <4>2, PartsOfTheLedger
      <4>4. Latest(been) \in been
        BY <3>3, <4>3, LatestExists
      <4>5. Latest(been) \in Rows /\ Latest(been).kind \in {"placed", "pinned"}
        BY <4>3, <4>4
      <4>6. Latest(been).area \in Areas
        BY <4>5 DEF Rows, KindsAtAPlace, MaybeAreas
      <4> HIDE DEF been
      <4> QED BY <2>4, <3>1, <4>1, <4>6
    <3> QED BY <3>2, <3>3
  <2>6. CASE Land(t)
    <3> DEFINE area == IF tx[t].to # Nowhere THEN tx[t].to ELSE wanted
    <3>1. tx[t].of \in Books
      BY <2>6 DEF Land, TypeInv, Prepared
    <3>2. area \in MaybeAreas
      BY <2>1 DEF Requests, TypeInv, TypeOK
    <3>3. CASE area = Nowhere
      BY <2>2, <2>3, <2>6, <3>3 DEF Land
    <3>4. CASE area # Nowhere
      <4>1. Do(t, "insert", {NewRow(tx[t].of, "placed", area)})
        BY <2>6, <3>4 DEF Land
      <4>2. area \in Areas
        BY <3>2, <3>4 DEF MaybeAreas
      <4> HIDE DEF area
      <4> QED BY <2>4, <3>1, <4>1, <4>2
    <3> QED BY <3>3, <3>4
  <2> QED BY <2>5, <2>6
<1>2. PICK at \in {"commit", "insert"}, todo \in SUBSET NewRows :
        tx' = [tx EXCEPT ![t] = [tx[t] EXCEPT !.at = at, !.todo = todo]]
  BY <1>1
<1>3. UNCHANGED <<rows, nextId, book, draft, lockedBy, wanted, table, mine, seen, alone, read>>
      /\ tx[t].at \in {"came", "land"}
  BY DEF Came, Land
<1> DEFINE next == [tx[t] EXCEPT !.at = at, !.todo = todo]
<1>4. next \in Requests /\ next.op = tx[t].op /\ next.of = tx[t].of /\ next.at = at
  BY DEF Requests, Ats, TypeInv, TypeOK
<1>5. tx' = [tx EXCEPT ![t] = next]
  BY <1>2
<1> HIDE DEF next
<1>6. TypeOK'
  BY <1>3, <1>4, <1>5 DEF TypeInv, TypeOK
<1>7. ASSUME NEW u \in Txs PROVE Prepared(u)' /\ Over(u)'
  <2>1. CASE u = t
    <3>1. tx'[t].op = tx[t].op /\ tx'[t].of = tx[t].of /\ tx'[t].at \in {"commit", "insert"}
      BY <1>4, <1>5 DEF TypeInv, TypeOK
    <3>2. Prepared(t) /\ Over(t)
      BY DEF TypeInv
    <3> QED BY <1>3, <2>1, <3>1, <3>2 DEF Prepared, Over, Free
  <2>2. CASE u # t
    BY <1>3, <1>5, <2>2, TheOthers DEF TypeInv, TypeOK
  <2> QED BY <2>1, <2>2
<1>8. \A u \in Txs : Ledger(seen[u])'
  BY <1>3 DEF TypeInv, Ledger
<1> QED BY <1>3, <1>6, <1>7, <1>8, SameRows DEF TypeInv

\* Both ends of a transaction.
LEMMA TypesEnd ==
  ASSUME TypeInv, NEW t \in Txs, Unlocked(t), rows' \in SUBSET rows,
         \A u \in Txs \ {t} : mine[u] \subseteq rows',
         NEW next \in Requests, tx' = [tx EXCEPT ![t] = next],
         next = Idle \/ (next.op \in {"leave", "restore"} /\ next.at = "insert"),
         book' \in [Books -> Versions], draft' \in [Books -> Versions], wanted' \in MaybeAreas
  PROVE  TypeInv'
<1>1. /\ lockedBy' = [b \in Books |-> IF lockedBy[b] = t THEN Nobody ELSE lockedBy[b]]
      /\ table' = IF table = t THEN Nobody ELSE table
      /\ mine' = [mine EXCEPT ![t] = {}] /\ seen' = [seen EXCEPT ![t] = {}]
      /\ alone' = [alone EXCEPT ![t] = FALSE] /\ nextId' = nextId
      /\ read' = [read EXCEPT ![t] = Nothing]
  BY DEF Unlocked
<1>2. TypeOK'
  <2>1. read' \in [Txs -> Readings]
    BY <1>1 DEF Nothing, Readings, TypeInv, TypeOK
  <2> QED BY <1>1, <2>1 DEF TypeInv, TypeOK
<1>3. RowsInv'
  <2>1. Ledger(rows')
    BY PartsOfTheLedger
  <2>2. \A r \in rows' : r.id < nextId'
    BY <1>1 DEF TypeInv, RowsInv
  <2>3. \A u \in Txs : mine'[u] \subseteq rows'
    BY <1>1 DEF TypeInv, TypeOK
  <2>4. \A u, v \in Txs : u # v => mine'[u] \cap mine'[v] = {}
    BY <1>1 DEF TypeInv, TypeOK, RowsInv
  <2> QED BY <2>1, <2>2, <2>3, <2>4 DEF RowsInv, Ledger
<1>4. ASSUME NEW u \in Txs PROVE Prepared(u)' /\ Over(u)'
  <2>1. CASE u = t
    <3>1. tx'[t] = next /\ mine'[t] = {} /\ table' # t /\ \A b \in Books : lockedBy'[b] # t
      BY <1>1, LedgerAssumption DEF TypeInv, TypeOK
    <3> QED BY <2>1, <3>1 DEF Prepared, Over, Free, Idle
  <2>2. CASE u # t
    BY <1>1, <2>2, TheOthers, LedgerAssumption DEF TypeInv, TypeOK
  <2> QED BY <2>1, <2>2
<1>5. \A u \in Txs : Ledger(seen'[u])
  BY <1>1, LedgerOfNone DEF TypeInv, TypeOK
<1>6. (\A u \in Txs : Ledger(seen[u]))'
  BY <1>5 DEF Ledger
<1> QED BY <1>2, <1>3, <1>4, <1>6 DEF TypeInv

LEMMA IdleIsRequest == Idle \in Requests
BY DEF Idle, Requests, Ops, Ats, MaybeAreas
\* LOCK TABLE: nobody has a row open beside the request that holds it.
TableInv ==
  \A t \in Txs :
    /\ table = t => \A u \in Txs \ {t} : mine[u] = {}
    /\ tx[t].op \in {"erase", "unplace"} => table = t

LEMMA TypesCommit ==
  ASSUME TypeInv, TableInv, NEW t \in Txs, Commit(t)
  PROVE  TypeInv'
<1>1. book' = [b \in Books |-> IF lockedBy[b] = t THEN draft[b] ELSE book[b]]
      /\ UNCHANGED draft /\ Unlocked(t)
      /\ rows' = (IF tx[t].op = "erase" THEN {} ELSE rows)
      /\ wanted' = IF tx[t].op = "rules" THEN tx[t].to ELSE wanted
  BY DEF Commit
<1>2. book' \in [Books -> Versions] /\ draft' \in [Books -> Versions] /\ wanted' \in MaybeAreas
  BY <1>1 DEF TypeInv, TypeOK, Requests
<1>3. rows' \in SUBSET rows /\ \A u \in Txs \ {t} : mine[u] \subseteq rows'
  BY <1>1 DEF TableInv, TypeInv, RowsInv
<1> DEFINE next == IF GoesOn(t) THEN [tx[t] EXCEPT !.at = "insert"] ELSE Idle
<1>4. tx' = [tx EXCEPT ![t] = next]
  BY DEF Commit, TypeInv, TypeOK
<1>5. next \in Requests /\ (next = Idle \/ (next.op \in {"leave", "restore"} /\ next.at = "insert"))
  <2>1. CASE GoesOn(t)
    BY <2>1 DEF GoesOn, Requests, Ats, TypeInv, TypeOK
  <2>2. CASE ~GoesOn(t)
    BY <2>2, IdleIsRequest
  <2> QED BY <2>1, <2>2
<1> HIDE DEF next
<1> QED BY <1>1, <1>2, <1>3, <1>4, <1>5, TypesEnd

LEMMA TypesFail ==
  ASSUME TypeInv, NEW t \in Txs, StatementFails(t)
  PROVE  TypeInv'
<1>1. draft' = [b \in Books |-> IF lockedBy[b] = t THEN book[b] ELSE draft[b]]
      /\ UNCHANGED <<book, wanted>> /\ Unlocked(t) /\ rows' = rows \ mine[t]
      /\ tx' = [tx EXCEPT ![t] = Idle]
  BY DEF StatementFails
<1>2. book' \in [Books -> Versions] /\ draft' \in [Books -> Versions] /\ wanted' \in MaybeAreas
  BY <1>1 DEF TypeInv, TypeOK
<1>3. rows' \in SUBSET rows /\ \A u \in Txs \ {t} : mine[u] \subseteq rows'
  BY <1>1 DEF TypeInv, RowsInv
<1> QED BY <1>1, <1>2, <1>3, TypesEnd, IdleIsRequest

LEMMA TypesStep ==
  ASSUME TypeInv, TableInv, NEW t \in Txs, Steps(t)
  PROVE  TypeInv'
BY TypesMark, TypesLists, TypesPlace, TypesUnplace, TypesErase, TypesRebuild, TypesInsert,
   TypesFold, TypesWrite, TypesDo, TypesCommit, TypesFail DEF Steps

LEMMA SameTable ==
  ASSUME TypeInv, TableInv, NEW t \in Txs, UNCHANGED <<table, mine>>,
         tx'[t].op \in {"erase", "unplace"} => table = t,
         \A u \in Txs \ {t} : tx'[u] = tx[u]
  PROVE  TableInv'
BY DEF TableInv

LEMMA TableRecords ==
  ASSUME TypeInv, TableInv, NEW t \in Txs, UNCHANGED table, table \in {Nobody, t},
         NEW row, mine' = [mine EXCEPT ![t] = @ \cup {row}],
         tx'[t].op \in {"erase", "unplace"} => table = t,
         \A u \in Txs \ {t} : tx'[u] = tx[u]
  PROVE  TableInv'
<1>1. \A u \in Txs \ {t} : mine'[u] = mine[u]
  BY DEF TypeInv, TypeOK
<1> QED BY <1>1, LedgerAssumption DEF TableInv

LEMMA TableEnds ==
  ASSUME TypeInv, TableInv, NEW t \in Txs, Unlocked(t),
         tx'[t].op \notin {"erase", "unplace"},
         \A u \in Txs \ {t} : tx'[u] = tx[u]
  PROVE  TableInv'
<1>1. table' = (IF table = t THEN Nobody ELSE table) /\ mine' = [mine EXCEPT ![t] = {}]
  BY DEF Unlocked
<1>2. mine'[t] = {} /\ \A u \in Txs \ {t} : mine'[u] = mine[u]
  BY <1>1 DEF TypeInv, TypeOK
<1> QED BY <1>1, <1>2, LedgerAssumption DEF TableInv

\* What the steps leave alone: the requests of others, and the request itself.
LEMMA OtherRequests ==
  ASSUME TypeInv, NEW t \in Txs, Steps(t)
  PROVE  \A u \in Txs \ {t} : tx'[u] = tx[u]
<1>1. ASSUME Marks(t) \/ ListsRows(t) \/ (\E b \in Books, area \in Areas : Place(t, b, area))
      PROVE  \A u \in Txs \ {t} : tx'[u] = tx[u]
  BY <1>1 DEF Marks, ListsRows, Place, Mark, Lists, TypeInv, TypeOK
<1>2. ASSUME Unplace(t) \/ Erase(t) \/ Rebuild(t)
      PROVE  \A u \in Txs \ {t} : tx'[u] = tx[u]
  BY <1>2 DEF Unplace, Erase, Rebuild, TypeInv, TypeOK
<1>3. ASSUME Insert(t) \/ Fold(t) \/ Came(t) \/ Land(t)
      PROVE  \A u \in Txs \ {t} : tx'[u] = tx[u]
  BY <1>3 DEF Insert, Fold, Came, Land, Goto, Do, TypeInv, TypeOK
<1>4. ASSUME Commit(t) \/ StatementFails(t) \/ (\E b \in Books : Write(t, b))
      PROVE  \A u \in Txs \ {t} : tx'[u] = tx[u]
  BY <1>4, Written DEF Commit, StatementFails, TypeInv, TypeOK
<1> QED BY <1>1, <1>2, <1>3, <1>4 DEF Steps

LEMMA TableStep ==
  ASSUME TypeInv, TableInv, NEW t \in Txs, Steps(t)
  PROVE  TableInv'
<1>1. \A u \in Txs \ {t} : tx'[u] = tx[u]
  BY OtherRequests
<1>2. tx[t].op \in {"erase", "unplace"} => table = t
  BY DEF TableInv
<1>3. tx \in [Txs -> Requests]
  BY DEF TypeInv, TypeOK
<1>4. CASE Marks(t)
  <2>1. UNCHANGED <<table, mine>> /\ tx'[t].op \in Turns \cup {"save"}
    BY <1>3, <1>4 DEF Marks, Mark, Request
  <2> QED BY <1>1, <2>1, SameTable DEF Turns
<1>5. CASE ListsRows(t)
  <2>1. UNCHANGED <<table, mine>> /\ tx'[t].op \in {"rules", "leave", "restore"}
    BY <1>3, <1>5 DEF ListsRows, Lists, Request
  <2> QED BY <1>1, <2>1, SameTable
<1>6. ASSUME NEW b \in Books, NEW area \in Areas, Place(t, b, area)
      PROVE  TableInv'
  <2>1. UNCHANGED table /\ tx'[t].op = "place"
    BY <1>3, <1>6 DEF Place, Request
  <2>2. NewRow(b, "placed", area) \in NewRows
    BY LedgerAssumption DEF NewRow, NewRows, PlacementKinds, KindsAtAPlace, MaybeAreas
  <2>3. PICK row \in Rows : mine' = [mine EXCEPT ![t] = @ \cup {row}] /\ table \in {Nobody, t}
    BY <1>6, <2>2, Recorded DEF Place
  <2> QED BY <1>1, <2>1, <2>3, TableRecords
<1>7. CASE Unplace(t) \/ Erase(t)
  <2>1. (\A u \in Txs \ {t} : mine[u] = {}) /\ table' = t
    BY <1>7 DEF Unplace, Erase, LocksTable
  <2>2. \A u \in Txs \ {t} : mine'[u] = mine[u]
    <3>1. CASE Unplace(t)
      <4>1. \E new \in SUBSET Rows : mine' = [mine EXCEPT ![t] = new]
        BY <3>1, Unplaced
      <4> QED BY <4>1 DEF TypeInv, TypeOK
    <3>2. CASE Erase(t)
      BY <3>2 DEF Erase
    <3> QED BY <1>7, <3>1, <3>2
  <2>3. \A u \in Txs \ {t} : tx[u].op \notin {"erase", "unplace"}
    BY <1>7, LedgerAssumption DEF Unplace, Erase, LocksTable, TableInv
  <2> QED BY <1>1, <2>1, <2>2, <2>3 DEF TableInv
<1>8. CASE Rebuild(t)
  <2>1. UNCHANGED <<table, mine>> /\ tx'[t].op = "rebuild"
    BY <1>3, <1>8 DEF Rebuild, Request
  <2> QED BY <1>1, <2>1, SameTable
<1>9. CASE Insert(t)
  <2>1. PICK new \in tx[t].todo : Record(t, new) /\ Do(t, "fold", tx[t].todo \ {new})
    BY <1>9 DEF Insert
  <2>2. UNCHANGED table /\ tx'[t].op = tx[t].op /\ new \in NewRows
    BY <1>3, <1>9, <2>1 DEF Insert, Do, Requests
  <2>3. PICK row \in Rows : mine' = [mine EXCEPT ![t] = @ \cup {row}] /\ table \in {Nobody, t}
    BY <2>1, <2>2, Recorded
  <2> QED BY <1>1, <1>2, <2>2, <2>3, TableRecords
<1>10. CASE Fold(t) \/ Came(t) \/ Land(t)
  <2>1. UNCHANGED <<table, mine>> /\ tx'[t].op = tx[t].op
    BY <1>3, <1>10 DEF Fold, Came, Land, Goto, Do, Requests
  <2> QED BY <1>1, <1>2, <2>1, SameTable
<1>11. CASE \E b \in Books : Write(t, b)
  <2>1. UNCHANGED <<table, mine>> /\ tx'[t].op = tx[t].op
    BY <1>11, Written
  <2> QED BY <1>1, <1>2, <2>1, SameTable
<1>12. CASE Commit(t) \/ StatementFails(t)
  <2>1. Unlocked(t)
    BY <1>12 DEF Commit, StatementFails
  <2>2. tx'[t].op \in {"none", "leave", "restore"}
    BY <1>3, <1>12 DEF Commit, StatementFails, GoesOn, Idle, Requests
  <2> QED BY <1>1, <2>1, <2>2, TableEnds
<1> QED BY <1>4, <1>5, <1>6, <1>7, <1>8, <1>9, <1>10, <1>11, <1>12 DEF Steps

LEMMA TypesStutter ==
  ASSUME TypeInv, TableInv, UNCHANGED ledgerVars
  PROVE  TypeInv' /\ TableInv'
<1>1. UNCHANGED <<rows, nextId, book, draft, lockedBy, wanted, table, tx, mine, seen, alone, read>>
  BY DEF ledgerVars
<1>2. \A u \in Txs : Prepared(u)' /\ Over(u)'
  BY <1>1, TheOthers
<1>3. (\A u \in Txs : Ledger(seen[u]))'
  BY <1>1 DEF TypeInv, Ledger
<1>4. TypeOK' /\ TableInv'
  BY <1>1 DEF TypeInv, TypeOK, TableInv
<1> QED BY <1>1, <1>2, <1>3, <1>4, SameRows DEF TypeInv

LEMMA TypesAlways == Spec => [](TypeInv /\ TableInv)
<1>1. Init => TypeInv /\ TableInv
  <2>1. Init => TableInv
    BY LedgerAssumption DEF Init, TableInv, Idle
  <2> QED BY <2>1, TypesAtFirst
<1>2. TypeInv /\ TableInv /\ [Next]_ledgerVars => TypeInv' /\ TableInv'
  BY StepsTaken, TypesStep, TableStep, TypesStutter
<1> QED BY <1>1, <1>2, PTL DEF Spec

\* The model's variables keep to their types: the rows that are recorded, the area
\* that is folded from what an UPDATE saw, and the rows that an answer asks for.
THEOREM LedgerIsTyped == Spec => []TypeOK
<1>1. TypeInv => TypeOK
  BY DEF TypeInv
<1> QED BY <1>1, TypesAlways, PTL

LEMMA FoldsAgreeHere == TypeInv => FoldsAgree
<1> SUFFICES ASSUME TypeInv, NEW b \in Books
             PROVE  FoldedArea(About(b, Committed)) = SaysNow(b).area
  BY DEF FoldsAgree
<1>1. About(b, Committed) \in SUBSET rows
  BY CommittedRows DEF About
<1> QED BY <1>1, CommittedRows, WhatItSays DEF SaysNow

\* Whatever the requests write, the fold in SQL and the fold in domain/placement
\* give every book the same area.
THEOREM OneDefinitionTwice == Spec => []FoldsAgree
BY FoldsAgreeHere, TypesAlways, PTL
-----------------------------------------------------------------------------
(* Out and back *)

\* The rows of Circulation that are committed.
Settled(b) == {r \in Committed : r.book = b /\ r.kind \in Lending /\ ~r.reset}
Lends(t, b) == tx[t].op \in Turns /\ tx[t].of = b
Moving(t, b) == tx[t].op \in Turns \cup {"save"} /\ tx[t].of = b

\* Who writes the row of a book has the only other version of it, and of its state
\* only what a compare-and-set put there.
RowLocks ==
  /\ \A b \in Books : lockedBy[b] = Nobody => draft[b] = book[b]
  /\ \A t \in Txs, b \in Books :
       /\ Moving(t, b) => /\ lockedBy[b] = t
                          /\ draft[b].state = MovedTo(tx[t].op)
                          /\ Moves(tx[t].op, book[b].state)
       /\ lockedBy[b] = t /\ ~Moving(t, b) => draft[b].state = book[b].state

\* The last committed row says what the state says.
SaysTheState(b) ==
  Settled(b) # {} =>
    \E r \in Settled(b) : /\ \A s \in Settled(b) : s.id <= r.id
                          /\ r.kind = "checked_out" <=> book[b].state = "checked_out"

\* Of the rows that are open, one turn at most for each request that lends.
OneTurn(t) ==
  /\ \A r \in mine[t] : r.kind \in Lending /\ ~r.reset =>
       /\ Lends(t, r.book) /\ r.kind = Turn(tx[t].op)
       /\ \A s \in Settled(r.book) : s.id < r.id
       /\ \A s \in mine[t] : s.kind \in Lending /\ ~s.reset => s = r
  /\ \/ /\ tx[t].op \in Turns /\ mine[t] = {} /\ tx[t].at = "insert"
        /\ tx[t].todo = {NewRow(tx[t].of, Turn(tx[t].op), Nowhere)}
     \/ /\ \A new \in tx[t].todo : new.kind \notin Lending
        /\ tx[t].op \in Turns => \E r \in mine[t] : r.kind \in Lending /\ ~r.reset

LendingInv ==
  /\ RowLocks
  /\ \A b \in Books : SaysTheState(b)
  /\ \A t \in Txs : OneTurn(t)
  /\ \A r \in rows : r.reset => r.kind = "checked_in"
  /\ CirculationAlternates

LEMMA SameLocks ==
  ASSUME TypeInv, RowLocks, NEW t \in Txs, UNCHANGED <<book, draft, lockedBy>>,
         \A u \in Txs \ {t} : tx'[u] = tx[u],
         \/ tx'[t].op = tx[t].op /\ tx'[t].of = tx[t].of
         \/ Free(t) /\ tx'[t].op \notin Turns \cup {"save"}
  PROVE  RowLocks'
<1>1. ASSUME NEW u \in Txs, NEW b \in Books
      PROVE  /\ Moving(u, b)' => Moving(u, b) /\ tx'[u].op = tx[u].op
             /\ lockedBy[b] = u /\ ~Moving(u, b)' => ~Moving(u, b)
  <2>1. CASE Free(t)
    <3>1. ~Moving(t, b) /\ lockedBy[b] # t
      BY <2>1 DEF Free, Moving, Turns, TypeInv, Over
    <3> QED BY <2>1, <3>1 DEF Moving, Free, Turns
  <2>2. CASE tx'[t].op = tx[t].op /\ tx'[t].of = tx[t].of
    BY <2>2 DEF Moving
  <2> QED BY <2>1, <2>2
<1> QED BY <1>1 DEF RowLocks

LEMMA SameTurn ==
  ASSUME TypeInv, NEW u \in Txs, OneTurn(u), tx'[u] = tx[u], mine'[u] = mine[u],
         \A r \in mine[u] : r.kind \in Lending /\ ~r.reset => Settled(r.book)' \subseteq Settled(r.book)
  PROVE  OneTurn(u)'
BY DEF OneTurn, Lends

\* A step that commits no row and takes none back, but may record one or lose those
\* that were open.
Uncommitting == Committed' = Committed

LEMMA SameSettled ==
  ASSUME Uncommitting
  PROVE  \A b : Settled(b)' = Settled(b)
BY DEF Uncommitting, Settled

LEMMA SameState ==
  ASSUME NEW b \in Books, SaysTheState(b), Settled(b)' = Settled(b),
         book'[b].state = "checked_out" <=> book[b].state = "checked_out"
  PROVE  SaysTheState(b)'
BY DEF SaysTheState

LEMMA SameCommitted ==
  ASSUME UNCHANGED <<rows, mine>>
  PROVE  Uncommitting
BY DEF Uncommitting, Committed

LEMMA RecordedOnly ==
  ASSUME TypeInv, NEW t \in Txs, NEW new, new \cap rows = {},
         rows' = rows \cup new, mine' = [mine EXCEPT ![t] = @ \cup new]
  PROVE  Uncommitting
<1>1. UNION {mine'[u] : u \in Txs} = new \cup UNION {mine[u] : u \in Txs}
  <2>1. mine'[t] = mine[t] \cup new /\ \A u \in Txs \ {t} : mine'[u] = mine[u]
    BY DEF TypeInv, TypeOK
  <2>2. \A r : (\E u \in Txs : r \in mine'[u]) <=> r \in new \/ \E u \in Txs : r \in mine[u]
    BY <2>1
  <2> QED BY <2>2
<1>2. \A u \in Txs : mine[u] \subseteq rows
  BY DEF TypeInv, RowsInv
<1>3. rows' \ UNION {mine'[u] : u \in Txs} = rows \ UNION {mine[u] : u \in Txs}
  BY <1>1
<1> QED BY <1>3 DEF Uncommitting, Committed

LEMMA RolledBack ==
  ASSUME TypeInv, NEW t \in Txs, rows' = rows \ mine[t], mine' = [mine EXCEPT ![t] = {}]
  PROVE  Uncommitting
<1>1. mine'[t] = {} /\ \A u \in Txs \ {t} : mine'[u] = mine[u]
  BY DEF TypeInv, TypeOK
<1>2. ASSUME NEW r
      PROVE  r \in rows' /\ (\A u \in Txs : r \notin mine'[u])
             <=> r \in rows /\ (\A u \in Txs : r \notin mine[u])
  BY <1>1
<1>3. \A r : (r \in Committed' <=> r \in Committed)
  BY <1>2 DEF Committed
<1> QED BY <1>3 DEF Uncommitting, Committed

\* Every row that goes out or comes back is settled, or the turn of a request that
\* holds the row of its book.
LEMMA CirculationIs ==
  ASSUME TypeInv, LendingInv, NEW b \in Books, NEW r \in Circulation(b)
  PROVE  r \in Settled(b) \/ \E t \in Txs : r \in mine[t] /\ Lends(t, b) /\ lockedBy[b] = t
<1>1. r \in rows /\ r.book = b /\ r.kind \in Lending /\ ~r.reset
  BY DEF Circulation, About, Lending
<1>2. CASE r \in Committed
  BY <1>1, <1>2 DEF Settled
<1>3. CASE r \notin Committed
  <2>1. PICK t \in Txs : r \in mine[t]
    BY <1>1, <1>3 DEF Committed
  <2>2. Lends(t, b)
    BY <1>1, <2>1 DEF LendingInv, OneTurn
  <2>3. lockedBy[b] = t
    BY <2>2 DEF LendingInv, RowLocks, Lends, Moving
  <2> QED BY <2>1, <2>2, <2>3
<1> QED BY <1>2, <1>3

LEMMA SettledCirculates ==
  ASSUME TypeInv, NEW b \in Books
  PROVE  Settled(b) \subseteq Circulation(b)
BY CommittedRows DEF Settled, Circulation, About, Lending

\* Rows that are no turn change nothing here.
LEMMA OtherRowsRecorded ==
  ASSUME TypeInv, LendingInv, NEW t \in Txs, NEW new, new \cap rows = {},
         rows' = rows \cup new, mine' = [mine EXCEPT ![t] = @ \cup new],
         \A r \in new : (r.kind \notin Lending \/ r.reset) /\ (r.reset => r.kind = "checked_in"),
         UNCHANGED <<book, draft, lockedBy>>,
         \A u \in Txs \ {t} : tx'[u] = tx[u],
         \/ tx'[t].op = tx[t].op /\ tx'[t].of = tx[t].of
         \/ Free(t) /\ tx'[t].op \notin Turns \cup {"save"},
         tx'[t].op \in Turns => mine[t] # {} \/ tx[t].at # "insert" \/ tx[t].todo # {NewRow(tx[t].of, Turn(tx[t].op), Nowhere)},
         \A row \in tx'[t].todo : row.kind \notin Lending
  PROVE  LendingInv'
<1>1. RowLocks'
  BY SameLocks DEF LendingInv
<1>2. \A b : Settled(b)' = Settled(b)
  BY RecordedOnly, SameSettled
<1>3. \A b \in Books : SaysTheState(b)'
  BY <1>2, SameState DEF LendingInv
<1>4. ASSUME NEW u \in Txs PROVE OneTurn(u)'
  <2>1. CASE u # t
    <3>1. mine'[u] = mine[u] /\ tx'[u] = tx[u]
      BY <2>1 DEF TypeInv, TypeOK
    <3> QED BY <1>2, <3>1, SameTurn DEF LendingInv
  <2>2. CASE u = t
    <3>1. mine'[t] = mine[t] \cup new /\ OneTurn(t)
      BY DEF TypeInv, TypeOK, LendingInv
    <3>2. \A r \in mine'[t] : r.kind \in Lending /\ ~r.reset => r \in mine[t]
      BY <3>1
    <3>3. CASE Free(t)
      <4>1. mine[t] = {}
        BY <3>3 DEF TypeInv, Over
      <4>2. tx'[t].op \notin Turns
        BY <3>3 DEF Free, Turns
      <4> QED BY <2>2, <3>2, <4>1, <4>2 DEF OneTurn
    <3>4. CASE tx'[t].op = tx[t].op /\ tx'[t].of = tx[t].of
      <4>1. tx'[t].op \in Turns => \E r \in mine[t] : r.kind \in Lending /\ ~r.reset
        BY <3>1, <3>4 DEF OneTurn
      <4>2. tx'[t].op \in Turns => \E r \in mine'[t] : r.kind \in Lending /\ ~r.reset
        BY <3>1, <4>1
      <4>3. ASSUME NEW r \in mine'[t], r.kind \in Lending /\ ~r.reset
            PROVE  /\ Lends(t, r.book)' /\ r.kind = Turn(tx'[t].op)
                   /\ \A s \in Settled(r.book)' : s.id < r.id
                   /\ \A s \in mine'[t] : s.kind \in Lending /\ ~s.reset => s = r
        BY <1>2, <3>1, <3>2, <3>4, <4>3 DEF OneTurn, Lends
      <4> QED BY <2>2, <4>2, <4>3 DEF OneTurn
    <3> QED BY <3>3, <3>4
  <2> QED BY <2>1, <2>2
<1>5. \A r \in rows' : r.reset => r.kind = "checked_in"
  BY DEF LendingInv
<1>6. CirculationAlternates'
  <2>1. \A b \in Books : Circulation(b)' = Circulation(b)
    BY DEF Circulation, About, Lending
  <2> QED BY <2>1 DEF LendingInv, CirculationAlternates
<1> QED BY <1>1, <1>3, <1>4, <1>5, <1>6 DEF LendingInv
LEMMA LendingQuiet ==
  ASSUME TypeInv, LendingInv, NEW t \in Txs,
         ListsRows(t) \/ Erase(t) \/ Rebuild(t) \/ Fold(t) \/ Came(t) \/ Land(t)
  PROVE  LendingInv'
<1>1. UNCHANGED <<rows, mine, book, draft, lockedBy>>
  BY DEF ListsRows, Lists, Erase, Rebuild, Fold, Came, Land
<1>2. rows' = rows \cup {} /\ mine' = [mine EXCEPT ![t] = @ \cup {}]
  BY <1>1 DEF TypeInv, TypeOK
<1>3. \A u \in Txs \ {t} : tx'[u] = tx[u]
  BY OtherRequests DEF Steps
<1>4. tx \in [Txs -> Requests]
  BY DEF TypeInv, TypeOK
<1>5. /\ \/ tx'[t].op = tx[t].op /\ tx'[t].of = tx[t].of /\ tx[t].at # "insert"
         \/ Free(t) /\ tx'[t].op \notin Turns \cup {"save"}
      /\ \A row \in tx'[t].todo : row.kind \notin Lending
  <2>1. CASE ListsRows(t)
    <3>1. PICK op \in {"rules", "leave", "restore"}, area \in MaybeAreas, todo \in SUBSET NewRows :
            Lists(t, op, area, todo) /\ \A new \in todo : new.kind \in KindsAboutTheAnswer
      BY <2>1 DEF ListsRows
    <3>2. tx'[t].op = op /\ tx'[t].todo = todo /\ Free(t)
      BY <1>4, <3>1 DEF Lists, Begins, Request
    <3> QED BY <3>1, <3>2 DEF Turns, KindsAboutTheAnswer, Lending
  <2>2. CASE Erase(t) \/ Rebuild(t)
    BY <1>4, <2>2 DEF Erase, Rebuild, LocksTable, Begins, Request, Turns
  <2>3. CASE Fold(t)
    <3>1. tx[t].at = "fold" /\ tx'[t].op = tx[t].op /\ tx'[t].of = tx[t].of /\ tx'[t].todo = tx[t].todo
      BY <1>4, <2>3 DEF Fold, Requests
    <3>2. \A row \in tx[t].todo : row.kind \notin Lending
      BY <3>1 DEF LendingInv, OneTurn
    <3> QED BY <3>1, <3>2
  <2>4. CASE Came(t) \/ Land(t)
    <3>1. tx[t].at \in {"came", "land"}
      BY <2>4 DEF Came, Land
    <3>2. \A row \in tx[t].todo : row.kind \notin Lending
      BY <3>1 DEF LendingInv, OneTurn
    <3>3. tx'[t].op = tx[t].op /\ tx'[t].of = tx[t].of
      BY <1>4, <2>4 DEF Came, Land, Goto, Do, Requests
    <3>4. \/ tx'[t].todo = tx[t].todo
          \/ \E area : tx'[t].todo = {NewRow(tx[t].of, "placed", area)}
      BY <1>4, <2>4 DEF Came, Land, Goto, Do, Requests
    <3>5. \A area : NewRow(tx[t].of, "placed", area).kind \notin Lending
      BY DEF NewRow, Lending
    <3> QED BY <3>1, <3>2, <3>3, <3>4, <3>5
  <2> QED BY <2>1, <2>2, <2>3, <2>4
<1>6. tx'[t].op \in Turns => tx[t].at # "insert"
  BY <1>5
<1>7. {} \cap rows = {}
      /\ \A r \in {} : (r.kind \notin Lending \/ r.reset) /\ (r.reset => r.kind = "checked_in")
  OBVIOUS
<1> QED BY <1>1, <1>2, <1>3, <1>5, <1>6, <1>7, OtherRowsRecorded

LEMMA LendingPlace ==
  ASSUME TypeInv, LendingInv, NEW t \in Txs, NEW b \in Books, NEW area \in Areas, Place(t, b, area)
  PROVE  LendingInv'
<1>1. NewRow(b, "placed", area) \in NewRows /\ NewRow(b, "placed", area).kind = "placed"
  BY LedgerAssumption DEF NewRow, NewRows, PlacementKinds, KindsAtAPlace, MaybeAreas
<1>2. PICK row \in Rows :
        /\ row.kind = NewRow(b, "placed", area).kind /\ row.reset = FALSE /\ row \notin rows
        /\ rows' = rows \cup {row} /\ mine' = [mine EXCEPT ![t] = @ \cup {row}]
  <2>1. Record(t, NewRow(b, "placed", area))
    BY DEF Place
  <2> QED BY <1>1, <2>1, Recorded
<1>3. UNCHANGED <<book, draft, lockedBy>> /\ Free(t)
  BY DEF Place, Begins
<1>4. tx'[t].op = "place" /\ tx'[t].todo = {}
  BY DEF Place, Request, TypeInv, TypeOK
<1>5. \A u \in Txs \ {t} : tx'[u] = tx[u]
  BY OtherRequests DEF Steps
<1>6. {row} \cap rows = {}
      /\ \A r \in {row} : (r.kind \notin Lending \/ r.reset) /\ (r.reset => r.kind = "checked_in")
  BY <1>1, <1>2 DEF Lending
<1> QED BY <1>2, <1>3, <1>4, <1>5, <1>6, OtherRowsRecorded DEF Turns

LEMMA LendingUnplace ==
  ASSUME TypeInv, LendingInv, NEW t \in Txs, Unplace(t)
  PROVE  LendingInv'
<1>1. Free(t) /\ mine[t] = {}
  BY DEF Unplace, LocksTable, Begins, TypeInv, Over
<1>2. PICK new \in SUBSET Rows :
        /\ mine' = [mine EXCEPT ![t] = new] /\ rows' = rows \cup new
        /\ \A r \in new : r.kind = "checked_in" /\ r.reset = TRUE /\ r \notin rows
  BY Unplaced
<1>3. mine' = [mine EXCEPT ![t] = @ \cup new]
  BY <1>1, <1>2 DEF TypeInv, TypeOK
<1>4. UNCHANGED <<book, draft, lockedBy>>
  BY DEF Unplace
<1>5. tx'[t].op = "unplace" /\ tx'[t].todo = {}
  BY DEF Unplace, Request, TypeInv, TypeOK
<1>6. \A u \in Txs \ {t} : tx'[u] = tx[u]
  BY OtherRequests DEF Steps
<1>7. new \cap rows = {} /\ \A r \in new : (r.kind \notin Lending \/ r.reset) /\ (r.reset => r.kind = "checked_in")
  BY <1>2
<1> QED BY <1>1, <1>2, <1>3, <1>4, <1>5, <1>6, <1>7, OtherRowsRecorded DEF Turns

LEMMA LendingMark ==
  ASSUME TypeInv, LendingInv, NEW t \in Txs, Marks(t)
  PROVE  LendingInv'
<1>0. PICK b \in Books, op \in Turns \cup {"save"} : \E at, area, todo :
        /\ Mark(t, op, b, at, area, todo)
        /\ op \in Turns => at = "insert" /\ todo = {NewRow(b, Turn(op), Nowhere)}
        /\ op = "save" => todo = {}
  BY DEF Marks, Turns
<1>1. PICK at, area, todo :
        /\ Mark(t, op, b, at, area, todo)
        /\ op \in Turns => at = "insert" /\ todo = {NewRow(b, Turn(op), Nowhere)}
        /\ op = "save" => todo = {}
  BY <1>0
<1>2. /\ UNCHANGED <<rows, mine, book>>
      /\ Free(t) /\ lockedBy[b] \in {Nobody, t} /\ Moves(op, book[b].state)
      /\ draft' = [draft EXCEPT ![b].state = MovedTo(op)]
      /\ lockedBy' = [lockedBy EXCEPT ![b] = t]
      /\ tx' = [tx EXCEPT ![t] = Request(op, at, b, area, todo)]
  BY <1>1 DEF Mark, Begins, MayWrite
<1>3. /\ tx'[t].op = op /\ tx'[t].of = b /\ tx'[t].at = at /\ tx'[t].todo = todo
      /\ \A u \in Txs \ {t} : tx'[u] = tx[u]
  BY <1>2 DEF Request, TypeInv, TypeOK
<1>4. mine[t] = {} /\ lockedBy[b] = Nobody /\ \A c \in Books : lockedBy[c] # t
  BY <1>2 DEF TypeInv, Over
<1>5. RowLocks'
  <2>1. /\ lockedBy'[b] = t /\ draft'[b].state = MovedTo(op)
        /\ \A c \in Books \ {b} : lockedBy'[c] = lockedBy[c] /\ draft'[c] = draft[c]
    BY <1>2 DEF TypeInv, TypeOK, Versions
  <2>2. Moving(t, b)' /\ \A c \in Books \ {b} : ~Moving(t, c)'
    BY <1>3 DEF Moving
  <2>3. \A u \in Txs \ {t}, c \in Books : Moving(u, c)' <=> Moving(u, c)
    BY <1>3 DEF Moving
  <2>4. ASSUME NEW c \in Books, lockedBy'[c] = Nobody PROVE draft'[c] = book'[c]
    <3>1. c # b
      BY <2>1, <2>4, LedgerAssumption
    <3> QED BY <1>2, <2>1, <2>4, <3>1 DEF LendingInv, RowLocks
  <2>5. ASSUME NEW u \in Txs, NEW c \in Books, Moving(u, c)'
        PROVE  lockedBy'[c] = u /\ draft'[c].state = MovedTo(tx'[u].op) /\ Moves(tx'[u].op, book'[c].state)
    <3>1. CASE u = t
      BY <1>2, <1>3, <2>1, <2>2, <2>5, <3>1
    <3>2. CASE u # t
      <4>1. Moving(u, c) /\ lockedBy[c] = u /\ c # b
        BY <1>4, <2>3, <2>5, <3>2, LedgerAssumption DEF LendingInv, RowLocks
      <4> QED BY <1>2, <1>3, <2>1, <3>2, <4>1 DEF LendingInv, RowLocks
    <3> QED BY <3>1, <3>2
  <2>6. ASSUME NEW u \in Txs, NEW c \in Books, lockedBy'[c] = u, ~Moving(u, c)'
        PROVE  draft'[c].state = book'[c].state
    <3>1. c # b
      BY <2>1, <2>2, <2>6
    <3>2. u # t /\ lockedBy[c] = u
      BY <1>4, <2>1, <2>6, <3>1
    <3> QED BY <1>2, <2>1, <2>3, <2>6, <3>1, <3>2 DEF LendingInv, RowLocks
  <2> QED BY <2>4, <2>5, <2>6 DEF RowLocks
<1>6. \A c : Settled(c)' = Settled(c)
  BY <1>2, SameCommitted, SameSettled
<1>7. \A c \in Books : SaysTheState(c)'
  BY <1>2, <1>6, SameState DEF LendingInv
<1>8. ASSUME NEW u \in Txs PROVE OneTurn(u)'
  <2>1. CASE u # t
    BY <1>2, <1>3, <1>6, <2>1, SameTurn DEF LendingInv
  <2>2. CASE u = t
    <3>1. mine'[t] = {}
      BY <1>2, <1>4
    <3> QED BY <1>1, <1>3, <2>2, <3>1 DEF OneTurn, Turns
  <2> QED BY <2>1, <2>2
<1>9. (\A r \in rows' : r.reset => r.kind = "checked_in") /\ CirculationAlternates'
  BY <1>2 DEF LendingInv, CirculationAlternates, Circulation, About
<1> QED BY <1>5, <1>7, <1>8, <1>9 DEF LendingInv

LEMMA LendingWrite ==
  ASSUME TypeInv, LendingInv, NEW t \in Txs, NEW b \in Books, Write(t, b)
  PROVE  LendingInv'
<1>1. /\ UNCHANGED <<rows, book, mine>>
      /\ tx[t].at = "write" /\ lockedBy[b] \in {Nobody, t}
      /\ draft' = [draft EXCEPT ![b].area = Folded(t, b)]
      /\ lockedBy' = [lockedBy EXCEPT ![b] = t]
      /\ tx'[t].op = tx[t].op /\ tx'[t].of = tx[t].of /\ tx'[t].todo = tx[t].todo
      /\ \A u \in Txs \ {t} : tx'[u] = tx[u]
  BY Written
<1>2. /\ lockedBy'[b] = t /\ draft'[b].state = draft[b].state
      /\ \A c \in Books \ {b} : lockedBy'[c] = lockedBy[c] /\ draft'[c] = draft[c]
  BY <1>1 DEF TypeInv, TypeOK, Versions
<1>3. \A u \in Txs, c \in Books : Moving(u, c)' <=> Moving(u, c)
  BY <1>1 DEF Moving
<1>4. RowLocks'
  <2>1. ASSUME NEW c \in Books, lockedBy'[c] = Nobody PROVE draft'[c] = book'[c]
    <3>1. c # b
      BY <1>2, <2>1, LedgerAssumption
    <3> QED BY <1>1, <1>2, <2>1, <3>1 DEF LendingInv, RowLocks
  <2>2. ASSUME NEW u \in Txs, NEW c \in Books, Moving(u, c)'
        PROVE  lockedBy'[c] = u /\ draft'[c].state = MovedTo(tx'[u].op) /\ Moves(tx'[u].op, book'[c].state)
    <3>1. Moving(u, c) /\ lockedBy[c] = u
      BY <1>3, <2>2 DEF LendingInv, RowLocks
    <3>2. lockedBy'[c] = u /\ draft'[c].state = draft[c].state
      BY <1>1, <1>2, <3>1, LedgerAssumption
    <3>3. tx'[u].op = tx[u].op
      BY <1>1
    <3> QED BY <1>1, <3>1, <3>2, <3>3 DEF LendingInv, RowLocks
  <2>3. ASSUME NEW u \in Txs, NEW c \in Books, lockedBy'[c] = u, ~Moving(u, c)'
        PROVE  draft'[c].state = book'[c].state
    <3>1. ~Moving(u, c)
      BY <1>3, <2>3
    <3>2. CASE c # b
      BY <1>1, <1>2, <2>3, <3>1, <3>2 DEF LendingInv, RowLocks
    <3>3. CASE c = b
      <4>1. u = t
        BY <1>2, <2>3, <3>3
      <4>2. draft[b].state = book[b].state
        BY <1>1, <3>1, <3>3, <4>1 DEF LendingInv, RowLocks
      <4> QED BY <1>1, <1>2, <3>3, <4>2
    <3> QED BY <3>2, <3>3
  <2> QED BY <2>1, <2>2, <2>3 DEF RowLocks
<1>5. \A c : Settled(c)' = Settled(c)
  BY <1>1, SameCommitted, SameSettled
<1>6. \A c \in Books : SaysTheState(c)'
  BY <1>1, <1>5, SameState DEF LendingInv
<1>7. ASSUME NEW u \in Txs PROVE OneTurn(u)'
  <2>1. CASE u # t
    BY <1>1, <1>5, <2>1, SameTurn DEF LendingInv
  <2>2. CASE u = t
    BY <1>1, <1>5, <2>2 DEF LendingInv, OneTurn, Lends
  <2> QED BY <2>1, <2>2
<1>8. (\A r \in rows' : r.reset => r.kind = "checked_in") /\ CirculationAlternates'
  BY <1>1 DEF LendingInv, CirculationAlternates, Circulation, About
<1> QED BY <1>4, <1>6, <1>7, <1>8 DEF LendingInv
LEMMA LendingInsert ==
  ASSUME TypeInv, LendingInv, NEW t \in Txs, Insert(t)
  PROVE  LendingInv'
<1>1. PICK new \in tx[t].todo : Record(t, new) /\ Do(t, "fold", tx[t].todo \ {new})
  BY DEF Insert
<1>2. new \in NewRows /\ UNCHANGED <<book, draft, lockedBy>> /\ tx[t].at = "insert"
  BY <1>1 DEF Insert, TypeInv, TypeOK, Requests
<1>3. PICK row \in Rows :
        /\ row.id = nextId /\ row.book = new.book /\ row.kind = new.kind /\ row.reset = FALSE
        /\ \A r \in rows : r.id < row.id
        /\ row \notin rows /\ rows' = rows \cup {row}
        /\ mine' = [mine EXCEPT ![t] = @ \cup {row}]
  BY <1>1, <1>2, Recorded
<1>4. tx'[t].op = tx[t].op /\ tx'[t].of = tx[t].of /\ tx'[t].at = "fold" /\ tx'[t].todo = tx[t].todo \ {new}
  BY <1>1 DEF Do, TypeInv, TypeOK, Requests
<1>5. \A u \in Txs \ {t} : tx'[u] = tx[u]
  BY OtherRequests DEF Steps
<1>6. OneTurn(t)
  BY DEF LendingInv
<1>7. CASE new.kind \notin Lending
  <2>1. tx[t].todo # {NewRow(tx[t].of, Turn(tx[t].op), Nowhere)}
    BY <1>1, <1>7 DEF NewRow, Turn, Lending
  <2>2. \A r \in tx'[t].todo : r.kind \notin Lending
    BY <1>4, <1>6, <2>1 DEF OneTurn
  <2>3. {row} \cap rows = {}
        /\ \A r \in {row} : (r.kind \notin Lending \/ r.reset) /\ (r.reset => r.kind = "checked_in")
    BY <1>3, <1>7
  <2> QED BY <1>2, <1>3, <1>4, <1>5, <2>1, <2>2, <2>3, OtherRowsRecorded
<1>8. CASE new.kind \in Lending
  <2>1. /\ tx[t].op \in Turns /\ mine[t] = {}
        /\ tx[t].todo = {NewRow(tx[t].of, Turn(tx[t].op), Nowhere)}
    BY <1>1, <1>6, <1>8 DEF OneTurn
  <2>2. PICK b \in Books : b = tx[t].of
    BY <2>1 DEF Turns, TypeInv, Prepared
  <2>3. /\ row.book = b /\ row.kind = Turn(tx[t].op) /\ row.kind \in Lending
        /\ tx'[t].todo = {} /\ mine'[t] = {row} /\ \A u \in Txs \ {t} : mine'[u] = mine[u]
    BY <1>1, <1>3, <1>4, <1>8, <2>1, <2>2 DEF NewRow, TypeInv, TypeOK
  <2>4. lockedBy[b] = t /\ Moves(tx[t].op, book[b].state)
    BY <2>1, <2>2 DEF LendingInv, RowLocks, Moving
  <2>5. RowLocks'
    BY <1>2, <1>4, <1>5, SameLocks DEF LendingInv
  <2>6. \A c : Settled(c)' = Settled(c)
    <3>1. {row} \cap rows = {}
      BY <1>3
    <3> QED BY <1>3, <3>1, RecordedOnly, SameSettled
  <2>7. \A c \in Books : SaysTheState(c)'
    BY <1>2, <2>6, SameState DEF LendingInv
  <2>8. ASSUME NEW u \in Txs PROVE OneTurn(u)'
    <3>1. CASE u # t
      BY <1>5, <2>3, <2>6, <3>1, SameTurn DEF LendingInv
    <3>2. CASE u = t
      <4>1. \A s \in Settled(b)' : s.id < row.id
        BY <1>3, <2>6, CommittedRows DEF Settled
      <4>2. Lends(t, b)'
        BY <1>4, <2>1, <2>2 DEF Lends
      <4>3. \A r \in mine'[t] : r = row
        BY <2>3
      <4> QED BY <1>3, <1>4, <2>1, <2>3, <3>2, <4>1, <4>2, <4>3 DEF OneTurn
    <3> QED BY <3>1, <3>2
  <2>9. \A r \in rows' : r.reset => r.kind = "checked_in"
    BY <1>3 DEF LendingInv
  <2>10. ASSUME NEW c \in Books
         PROVE  Circulation(c)' = Circulation(c) \cup (IF c = b THEN {row} ELSE {})
    BY <1>3, <2>3 DEF Circulation, About, Lending
  <2>11. Circulation(b) \subseteq Settled(b)
    BY <2>1, <2>4, CirculationIs
  <2>12. ASSUME NEW c \in Books, NEW r \in Circulation(c)', NEW s \in Circulation(c)',
                r.id < s.id, r.kind = s.kind
         PROVE  \E between \in Circulation(c)' : r.id < between.id /\ between.id < s.id
    <3>1. CASE r \in Circulation(c) /\ s \in Circulation(c)
      BY <2>10, <2>12, <3>1 DEF LendingInv, CirculationAlternates
    <3>2. CASE r \notin Circulation(c)
      <4>1. r = row
        BY <2>10, <3>2
      <4>2. s = row \/ s.id < row.id
        BY <1>3, <2>10 DEF Circulation, About
      <4>3. row.id \in Nat /\ (s \in rows => s.id \in Nat)
        BY <1>3 DEF Rows, TypeInv, RowsInv, Ledger
      <4>4. s = row \/ s \in rows
        BY <2>10 DEF Circulation, About
      <4> QED BY <2>12, <4>1, <4>2, <4>3, <4>4
    <3>3. CASE r \in Circulation(c) /\ s \notin Circulation(c)
      <4>1. s = row /\ c = b /\ r \in Settled(b)
        BY <2>10, <2>11, <3>3
      <4>2. PICK q \in Settled(b) : /\ \A p \in Settled(b) : p.id <= q.id
                                    /\ q.kind = "checked_out" <=> book[b].state = "checked_out"
        BY <4>1 DEF LendingInv, SaysTheState
      <4>3. q.kind \in Lending
        BY DEF Settled
      <4>4. q.kind # row.kind
        BY <2>1, <2>3, <2>4, <4>2, <4>3 DEF Turns, Turn, Lending, Moves
      <4>5. q # r
        BY <2>12, <4>1, <4>4
      <4>6. q \in rows /\ r \in rows
        BY <4>1, CommittedRows DEF Settled
      <4>7. r.id < q.id /\ q.id < row.id
        <5>1. r.id # q.id /\ r.id \in Nat /\ q.id \in Nat
          BY <4>5, <4>6 DEF TypeInv, RowsInv, Ledger
        <5> QED BY <1>3, <4>1, <4>2, <4>6, <5>1
      <4>8. q \in Circulation(c)'
        BY <2>10, <4>1, SettledCirculates
      <4> QED BY <4>1, <4>7, <4>8
    <3> QED BY <3>1, <3>2, <3>3
  <2>13. CirculationAlternates'
    BY <2>12 DEF CirculationAlternates
  <2> QED BY <2>5, <2>7, <2>8, <2>9, <2>13 DEF LendingInv
<1> QED BY <1>7, <1>8

LEMMA LocksEnd ==
  ASSUME TypeInv, RowLocks, NEW t \in Txs, Unlocked(t),
         \A b \in Books : \/ lockedBy[b] = t /\ draft'[b] = book'[b]
                          \/ lockedBy[b] # t /\ draft'[b] = draft[b] /\ book'[b] = book[b],
         tx'[t].op \notin Turns \cup {"save"},
         \A u \in Txs \ {t} : tx'[u] = tx[u]
  PROVE  RowLocks'
<1>1. lockedBy' = [b \in Books |-> IF lockedBy[b] = t THEN Nobody ELSE lockedBy[b]]
  BY DEF Unlocked
<1>2. \A u \in Txs, b \in Books : Moving(u, b)' => u # t /\ Moving(u, b)
  BY DEF Moving
<1>3. ASSUME NEW b \in Books, lockedBy'[b] = Nobody PROVE draft'[b] = book'[b]
  BY <1>1, <1>3 DEF RowLocks
<1>4. ASSUME NEW u \in Txs, NEW b \in Books, Moving(u, b)'
      PROVE  lockedBy'[b] = u /\ draft'[b].state = MovedTo(tx'[u].op) /\ Moves(tx'[u].op, book'[b].state)
  <2>1. u # t /\ Moving(u, b) /\ lockedBy[b] = u
    BY <1>2, <1>4 DEF RowLocks
  <2> QED BY <1>1, <2>1 DEF RowLocks
<1>5. ASSUME NEW u \in Txs, NEW b \in Books, lockedBy'[b] = u, ~Moving(u, b)'
      PROVE  draft'[b].state = book'[b].state
  <2>1. u # t /\ lockedBy[b] = u
    BY <1>1, <1>5, LedgerAssumption
  <2>2. ~Moving(u, b)
    BY <1>5, <2>1 DEF Moving
  <2> QED BY <2>1, <2>2 DEF RowLocks
<1> QED BY <1>3, <1>4, <1>5 DEF RowLocks

LEMMA LendingFail ==
  ASSUME TypeInv, LendingInv, NEW t \in Txs, StatementFails(t)
  PROVE  LendingInv'
<1>1. /\ draft' = [b \in Books |-> IF lockedBy[b] = t THEN book[b] ELSE draft[b]]
      /\ UNCHANGED book /\ Unlocked(t) /\ rows' = rows \ mine[t]
      /\ tx' = [tx EXCEPT ![t] = Idle] /\ mine' = [mine EXCEPT ![t] = {}]
  BY DEF StatementFails, Unlocked
<1>2. tx'[t] = Idle /\ mine'[t] = {} /\ \A u \in Txs \ {t} : tx'[u] = tx[u] /\ mine'[u] = mine[u]
  BY <1>1 DEF TypeInv, TypeOK
<1>3. RowLocks'
  <2>1. tx'[t].op \notin Turns \cup {"save"}
    BY <1>2 DEF Idle, Turns
  <2> QED BY <1>1, <1>2, <2>1, LocksEnd DEF LendingInv
<1>4. \A b : Settled(b)' = Settled(b)
  BY <1>1, RolledBack, SameSettled
<1>5. \A b \in Books : SaysTheState(b)'
  BY <1>1, <1>4, SameState DEF LendingInv
<1>6. ASSUME NEW u \in Txs PROVE OneTurn(u)'
  <2>1. CASE u # t
    BY <1>2, <1>4, <2>1, SameTurn DEF LendingInv
  <2>2. CASE u = t
    BY <1>2, <2>2 DEF OneTurn, Idle, Turns
  <2> QED BY <2>1, <2>2
<1>7. \A r \in rows' : r.reset => r.kind = "checked_in"
  BY <1>1 DEF LendingInv
<1>8. ASSUME NEW b \in Books, NEW r \in Circulation(b)', NEW s \in Circulation(b)',
             r.id < s.id, r.kind = s.kind
      PROVE  \E between \in Circulation(b)' : r.id < between.id /\ between.id < s.id
  <2>1. Circulation(b)' = Circulation(b) \ mine[t]
    BY <1>1 DEF Circulation, About
  <2>2. PICK q \in Circulation(b) : r.id < q.id /\ q.id < s.id
    BY <1>8, <2>1 DEF LendingInv, CirculationAlternates
  <2>3. q \notin mine[t]
    <3>1. SUFFICES ASSUME q \in mine[t] PROVE FALSE
      OBVIOUS
    <3>2. q.kind \in Lending /\ ~q.reset /\ q.book = b /\ q \in rows
      BY DEF Circulation, About, Lending
    <3>3. Lends(t, b) /\ \A p \in Settled(b) : p.id < q.id
      BY <3>1, <3>2 DEF LendingInv, OneTurn
    <3>4. lockedBy[b] = t
      BY <3>3 DEF LendingInv, RowLocks, Lends, Moving
    <3>5. s \in Settled(b)
      BY <2>1, <3>4, CirculationIs
    <3>6. s \in rows /\ s.id \in Nat /\ q.id \in Nat
      BY <3>2, <3>5, CommittedRows DEF Settled, TypeInv, RowsInv, Ledger
    <3> QED BY <2>2, <3>3, <3>5, <3>6
  <2> QED BY <2>1, <2>2, <2>3
<1>9. CirculationAlternates'
  BY <1>8 DEF CirculationAlternates
<1> QED BY <1>3, <1>5, <1>6, <1>7, <1>9 DEF LendingInv
LEMMA CommitAdds ==
  ASSUME TypeInv, NEW t \in Txs, UNCHANGED rows, mine' = [mine EXCEPT ![t] = {}]
  PROVE  Committed' = Committed \cup mine[t]
<1>1. mine'[t] = {} /\ \A u \in Txs \ {t} : mine'[u] = mine[u]
  BY DEF TypeInv, TypeOK
<1>2. ASSUME NEW r
      PROVE  r \in rows /\ (\A u \in Txs : r \notin mine'[u])
             <=> (r \in rows /\ (\A u \in Txs : r \notin mine[u])) \/ r \in mine[t]
  <2>1. r \in mine[t] => r \in rows /\ \A u \in Txs \ {t} : r \notin mine[u]
    BY DEF TypeInv, RowsInv
  <2> QED BY <1>1, <2>1
<1>3. \A r : r \in Committed' <=> r \in Committed \/ r \in mine[t]
  BY <1>2 DEF Committed
<1> QED BY <1>3

LEMMA LendingCommit ==
  ASSUME TypeInv, TableInv, LendingInv, NEW t \in Txs, Commit(t)
  PROVE  LendingInv'
<1>1. /\ book' = [b \in Books |-> IF lockedBy[b] = t THEN draft[b] ELSE book[b]]
      /\ UNCHANGED draft /\ Unlocked(t) /\ tx[t].at = "commit"
      /\ rows' = (IF tx[t].op = "erase" THEN {} ELSE rows)
      /\ mine' = [mine EXCEPT ![t] = {}]
  BY DEF Commit, Unlocked
<1>2. mine'[t] = {} /\ \A u \in Txs \ {t} : tx'[u] = tx[u] /\ mine'[u] = mine[u]
  BY <1>1, OtherRequests DEF Steps, TypeInv, TypeOK
<1>3. tx'[t].op \in {"none", "leave", "restore"} /\ tx'[t].todo \in {{}, tx[t].todo}
  BY DEF Commit, GoesOn, Idle, TypeInv, TypeOK, Requests
<1>4. \A new \in tx[t].todo : new.kind \notin Lending
  BY <1>1 DEF LendingInv, OneTurn
<1>5. RowLocks'
  <2>1. tx'[t].op \notin Turns \cup {"save"}
    BY <1>3 DEF Turns
  <2> QED BY <1>1, <1>2, <2>1, LocksEnd DEF LendingInv
<1>6. OneTurn(t)'
  BY <1>2, <1>3, <1>4 DEF OneTurn, Turns
<1>7. \A r \in rows' : r.reset => r.kind = "checked_in"
  BY <1>1 DEF LendingInv
<1>8. CirculationAlternates'
  BY <1>1 DEF LendingInv, CirculationAlternates, Circulation, About
<1>9. CASE tx[t].op = "erase"
  <2>1. \A u \in Txs \ {t} : mine[u] = {}
    BY <1>9 DEF TableInv
  <2>2. \A b : Settled(b)' = {}
    BY <1>1, <1>9 DEF Settled, Committed
  <2>3. \A b \in Books : SaysTheState(b)'
    BY <2>2 DEF SaysTheState
  <2>4. \A u \in Txs \ {t} : OneTurn(u)'
    BY <1>2, <2>1, SameTurn DEF LendingInv
  <2> QED BY <1>5, <1>6, <1>7, <1>8, <2>3, <2>4 DEF LendingInv
<1>10. CASE tx[t].op # "erase"
  <2>1. Committed' = Committed \cup mine[t]
    BY <1>1, <1>10, CommitAdds
  <2>2. ASSUME NEW r \in mine[t], r.kind \in Lending, ~r.reset
        PROVE  Lends(t, r.book) /\ lockedBy[r.book] = t /\ r.book \in Books
    <3>1. Lends(t, r.book)
      BY <2>2 DEF LendingInv, OneTurn
    <3>2. r.book \in Books
      BY <3>1 DEF Lends, Turns, TypeInv, Prepared
    <3> QED BY <3>1, <3>2 DEF LendingInv, RowLocks, Lends, Moving
  <2>3. ASSUME NEW u \in Txs \ {t} PROVE OneTurn(u)'
    <3>1. ASSUME NEW r \in mine[u], r.kind \in Lending, ~r.reset
          PROVE  Settled(r.book)' \subseteq Settled(r.book)
      <4>1. Lends(u, r.book)
        BY <3>1 DEF LendingInv, OneTurn
      <4>2. r.book \in Books
        BY <4>1 DEF Lends, Turns, TypeInv, Prepared
      <4>3. lockedBy[r.book] = u
        BY <4>1, <4>2 DEF LendingInv, RowLocks, Lends, Moving
      <4> QED BY <2>1, <2>2, <4>3 DEF Settled
    <3> QED BY <1>2, <3>1, SameTurn DEF LendingInv
  <2>4. ASSUME NEW b \in Books PROVE SaysTheState(b)'
    <3>1. CASE \E r \in mine[t] : r.kind \in Lending /\ ~r.reset /\ r.book = b
      <4>1. PICK r \in mine[t] : r.kind \in Lending /\ ~r.reset /\ r.book = b
        BY <3>1
      <4>2. /\ Lends(t, b) /\ r.kind = Turn(tx[t].op) /\ \A s \in Settled(b) : s.id < r.id
            /\ \A s \in mine[t] : s.kind \in Lending /\ ~s.reset => s = r
        BY <4>1 DEF LendingInv, OneTurn
      <4>3. r.id \in Nat /\ \A s \in Settled(b) : s.id \in Nat
        BY CommittedRows DEF Settled, TypeInv, RowsInv, Ledger
      <4>4. r \in Settled(b)' /\ \A s \in Settled(b)' : s = r \/ s \in Settled(b)
        BY <2>1, <4>1, <4>2 DEF Settled
      <4>5. \A s \in Settled(b)' : s.id <= r.id
        BY <4>2, <4>3, <4>4
      <4>6. lockedBy[b] = t /\ draft[b].state = MovedTo(tx[t].op) /\ tx[t].op \in Turns
        BY <4>2 DEF LendingInv, RowLocks, Lends, Moving
      <4>7. book'[b].state = MovedTo(tx[t].op)
        BY <1>1, <4>6
      <4>8. r.kind = "checked_out" <=> book'[b].state = "checked_out"
        BY <4>2, <4>6, <4>7 DEF Turns, Turn, MovedTo
      <4> QED BY <4>4, <4>5, <4>8 DEF SaysTheState
    <3>2. CASE ~\E r \in mine[t] : r.kind \in Lending /\ ~r.reset /\ r.book = b
      <4>1. Settled(b)' = Settled(b)
        BY <2>1, <3>2 DEF Settled
      <4>2. ~Lends(t, b)
        <5>1. SUFFICES ASSUME Lends(t, b) PROVE FALSE
          OBVIOUS
        <5>2. PICK r \in mine[t] : r.kind \in Lending /\ ~r.reset
          BY <1>1, <5>1 DEF LendingInv, OneTurn, Lends
        <5>3. r.book = b
          BY <5>1, <5>2 DEF LendingInv, OneTurn, Lends
        <5> QED BY <3>2, <5>2, <5>3
      <4>3. book'[b].state = "checked_out" <=> book[b].state = "checked_out"
        <5>1. CASE lockedBy[b] # t
          BY <1>1, <5>1
        <5>2. CASE lockedBy[b] = t /\ ~Moving(t, b)
          BY <1>1, <5>2 DEF LendingInv, RowLocks
        <5>3. CASE Moving(t, b)
          <6>1. tx[t].op = "save"
            BY <4>2, <5>3 DEF Lends, Moving
          <6> QED BY <1>1, <5>3, <6>1 DEF LendingInv, RowLocks, Moves, MovedTo
        <5> QED BY <5>1, <5>2, <5>3
      <4> QED BY <4>1, <4>3, SameState DEF LendingInv
    <3> QED BY <3>1, <3>2
  <2> QED BY <1>5, <1>6, <1>7, <1>8, <2>3, <2>4 DEF LendingInv
<1> QED BY <1>9, <1>10

LEMMA LendingStep ==
  ASSUME TypeInv, TableInv, LendingInv, NEW t \in Txs, Steps(t)
  PROVE  LendingInv'
BY LendingMark, LendingQuiet, LendingPlace, LendingUnplace, LendingInsert, LendingWrite,
   LendingCommit, LendingFail DEF Steps

LEMMA LendingStutter ==
  ASSUME LendingInv, UNCHANGED ledgerVars
  PROVE  LendingInv'
<1>1. UNCHANGED <<rows, nextId, book, draft, lockedBy, wanted, table, tx, mine, seen, alone, read>>
  BY DEF ledgerVars
<1>2. \A b : Settled(b)' = Settled(b)
  BY <1>1, SameCommitted, SameSettled
<1>3. RowLocks'
  BY <1>1 DEF LendingInv, RowLocks, Moving
<1>4. \A b \in Books : SaysTheState(b)'
  BY <1>1, <1>2 DEF LendingInv, SaysTheState
<1>5. \A t \in Txs : OneTurn(t)'
  BY <1>1, <1>2 DEF LendingInv, OneTurn, Lends
<1>6. (\A r \in rows' : r.reset => r.kind = "checked_in") /\ CirculationAlternates'
  BY <1>1 DEF LendingInv, CirculationAlternates, Circulation, About
<1> QED BY <1>3, <1>4, <1>5, <1>6 DEF LendingInv

LEMMA LendingAtFirst == Init => LendingInv
<1> SUFFICES ASSUME Init PROVE LendingInv
  OBVIOUS
<1>1. PICK b \in Books : rows \in Histories(b)
  BY DEF Init
<1>2. \A r \in rows : r.kind \notin Lending /\ ~r.reset
  BY <1>1 DEF Histories, Seeded, Lending
<1>3. draft = book /\ tx = [t \in Txs |-> Idle] /\ mine = [t \in Txs |-> {}]
      /\ lockedBy = [c \in Books |-> Nobody]
  BY DEF Init
<1>4. RowLocks
  BY <1>3, LedgerAssumption DEF RowLocks, Moving, Idle, Turns
<1>5. \A c \in Books : SaysTheState(c)
  BY <1>2 DEF SaysTheState, Settled, Committed
<1>6. \A t \in Txs : OneTurn(t)
  BY <1>3 DEF OneTurn, Idle, Turns
<1>7. CirculationAlternates
  BY <1>2 DEF CirculationAlternates, Circulation, About, Lending
<1> QED BY <1>2, <1>4, <1>5, <1>6, <1>7 DEF LendingInv

LEMMA LendingAlways == Spec => []LendingInv
<1>1. TypeInv /\ TableInv /\ LendingInv /\ [Next]_ledgerVars => LendingInv'
  BY StepsTaken, LendingStep, LendingStutter
<1> QED BY <1>1, LendingAtFirst, TypesAlways, PTL DEF Spec

\* However checkouts and returns of a book meet, its rows go out and come back by
\* turns: the compare-and-set on books.state lets one of two through, and the row
\* of the one before is committed by then.
THEOREM OutAndBackByTurns == Spec => []CirculationAlternates
<1>1. LendingInv => CirculationAlternates
  BY DEF LendingInv
<1> QED BY <1>1, LendingAlways, PTL

LEMMA OutIsOutHere == TypeInv /\ LendingInv => OutIsOut
<1> SUFFICES ASSUME TypeInv, LendingInv, NEW b \in Books, SaysNow(b).out
             PROVE  book[b].state = "checked_out"
  BY DEF OutIsOut
<1>1. About(b, Committed) \in SUBSET rows
  BY CommittedRows DEF About
<1>2. PICK r \in About(b, Committed) : Outing(About(b, Committed), r)
  BY <1>1, CommittedRows, WhatItSays DEF SaysNow
<1>3. r.kind = "checked_out" /\ r \in rows /\ r \in Committed /\ r.book = b
  BY <1>1, <1>2 DEF Outing, About
<1>4. r \in Settled(b)
  BY <1>3 DEF Settled, Lending, LendingInv
<1>5. PICK q \in Settled(b) : /\ \A s \in Settled(b) : s.id <= q.id
                              /\ q.kind = "checked_out" <=> book[b].state = "checked_out"
  BY <1>4 DEF LendingInv, SaysTheState
<1>6. q \in About(b, Committed) /\ q.kind \in Lending /\ q \in rows
  BY <1>1 DEF Settled, About
<1>7. ~(q.id > r.id)
  BY <1>2, <1>6 DEF Outing, Lending, KindsAboutTheAnswer
<1>8. q.id = r.id
  BY <1>3, <1>4, <1>5, <1>6, <1>7 DEF TypeInv, RowsInv, Ledger
<1>9. q = r
  BY <1>3, <1>6, <1>8 DEF TypeInv, RowsInv, Ledger
<1> QED BY <1>3, <1>5, <1>9

\* A book whose rows say it is out has the state of one that is out.
THEOREM RowsAndStateAgree == Spec => []OutIsOut
BY OutIsOutHere, TypesAlways, LendingAlways, PTL
-----------------------------------------------------------------------------
(* Alone *)

\* The row of the book is written, with what all its rows come to.
Right(t, b) == lockedBy[b] = t /\ draft[b].area = FoldedArea(About(b, rows))

RecordsRight(t) ==
  /\ tx[t].at = "write" => seen[t] = rows
  /\ \A r \in mine[t] :
       \/ Right(t, r.book)
       \/ tx[t].at = "fold" /\ Latest(mine[t]).book = r.book
       \/ tx[t].at = "write" /\ r.book \in tx[t].writes

UnplacesRight(t) ==
  \A r \in mine[t] :
    /\ r.kind = "checked_in" /\ \A s \in rows : s.book = r.book => s.id <= r.id
    /\ \/ lockedBy[r.book] = t /\ draft[r.book].area = Nowhere
       \/ tx[t].at = "fold"
       \/ tx[t].at = "write" /\ r.book \in tx[t].writes

RebuildsRight(t) ==
  /\ tx[t].at \in {"write", "commit"} /\ (tx[t].at = "write" => seen[t] = rows)
  /\ \A b \in Books :
       \/ Right(t, b)
       \/ lockedBy[b] = Nobody /\ book[b].area = FoldedArea(About(b, rows))
       \/ tx[t].at = "write" /\ b \in tx[t].writes

AllRight(t) ==
  /\ tx[t].op \in {"erase", "unplace", "rebuild"} => tx[t].todo = {}
  /\ tx[t].op \in {"erase", "rebuild"} => mine[t] = {}
  /\ tx[t].op = "rebuild" => RebuildsRight(t)
  /\ tx[t].op = "unplace" => UnplacesRight(t)
  /\ tx[t].op \notin {"erase", "unplace", "rebuild"} => RecordsRight(t)

Solo(t) == \A u \in Txs \ {t} : Free(u)
AloneInv == \A t \in Txs : alone[t] => Solo(t) /\ AllRight(t)

Beginning(t) ==
  \/ Marks(t) \/ ListsRows(t) \/ (\E b \in Books, area \in Areas : Place(t, b, area))
  \/ Unplace(t) \/ Erase(t) \/ Rebuild(t)
Going(t) ==
  Insert(t) \/ Fold(t) \/ (\E b \in Books : Write(t, b)) \/ Came(t) \/ Land(t)

\* Nobody else moves a request that stays alone, and it alone has rows and locks.
LEMMA OnlyItself ==
  ASSUME TypeInv, AloneInv, NEW u \in Txs, Steps(u), NEW t \in Txs, alone'[t]
  PROVE  /\ u = t /\ Solo(t) /\ Solo(t)'
         /\ Beginning(t) \/ (Going(t) /\ alone[t])
         /\ Beginning(t) => Free(t)
<1>1. CASE Beginning(u)
  <2>1. Free(u) /\ alone' = [w \in Txs |-> w = u /\ \A v \in Txs : Free(v)]
    BY <1>1 DEF Beginning, Marks, ListsRows, Mark, Lists, Place, Unplace, Erase, Rebuild, LocksTable, Begins
  <2>2. u = t /\ \A v \in Txs : Free(v)
    BY <2>1
  <2>3. \A v \in Txs \ {u} : tx'[v] = tx[v]
    BY OtherRequests
  <2> QED BY <1>1, <2>1, <2>2, <2>3 DEF Solo, Free
<1>2. CASE Going(u)
  <2>1. alone' = alone
    BY <1>2, Written DEF Going, Insert, Fold, Came, Land
  <2>2. Solo(t)
    BY <2>1 DEF AloneInv
  <2>3. tx[u].at # "none"
    BY <1>2, Written DEF Going, Insert, Fold, Came, Land
  <2>4. ~Free(u)
    BY <2>3 DEF TypeInv, Over
  <2>5. u = t
    BY <2>2, <2>4 DEF Solo
  <2>6. \A v \in Txs \ {u} : tx'[v] = tx[v]
    BY OtherRequests
  <2>7. ~Beginning(t)
    BY <2>4, <2>5 DEF Beginning, Marks, ListsRows, Mark, Lists, Place, Unplace, Erase, Rebuild, LocksTable, Begins
  <2> QED BY <1>2, <2>1, <2>2, <2>5, <2>6, <2>7 DEF Solo, Free
<1>3. CASE Commit(u) \/ StatementFails(u)
  <2>1. alone' = [alone EXCEPT ![u] = FALSE]
    BY <1>3 DEF Commit, StatementFails, Unlocked
  <2>2. u # t /\ alone[t]
    BY <2>1 DEF TypeInv, TypeOK
  <2>3. Free(u)
    BY <2>2 DEF AloneInv, Solo
  <2>4. tx[u].at = "none"
    BY <2>3 DEF TypeInv, Over
  <2> QED BY <1>3, <2>3, <2>4 DEF Commit, StatementFails
<1> QED BY <1>1, <1>2, <1>3 DEF Steps, Beginning, Going

LEMMA SoloRows ==
  ASSUME TypeInv, NEW t \in Txs, Solo(t)
  PROVE  /\ Sees(t) = rows /\ Committed = rows \ mine[t]
         /\ \A b \in Books : lockedBy[b] \in {Nobody, t}
<1>1. \A u \in Txs \ {t} : mine[u] = {} /\ \A b \in Books : lockedBy[b] # u
  BY DEF Solo, TypeInv, Over
<1>2. Committed = rows \ mine[t]
  BY <1>1 DEF Committed
<1>3. mine[t] \subseteq rows
  BY DEF TypeInv, RowsInv
<1>4. Sees(t) = rows
  BY <1>2, <1>3 DEF Sees
<1> QED BY <1>1, <1>2, <1>4 DEF TypeInv, TypeOK

LEMMA RightBegins ==
  ASSUME TypeInv, NEW t \in Txs, Solo(t), Free(t), Beginning(t)
  PROVE  AllRight(t)'
<1>1. tx \in [Txs -> Requests] /\ mine[t] = {} /\ \A b \in Books : lockedBy[b] = Nobody
  BY SoloRows DEF TypeInv, TypeOK, Over
<1>2. CASE Marks(t)
  <2>1. mine'[t] = {} /\ tx'[t].op \in Turns \cup {"save"} /\ tx'[t].at \in {"insert", "land"}
    BY <1>1, <1>2 DEF Marks, Mark, Request
  <2> QED BY <2>1 DEF AllRight, RecordsRight, Turns
<1>3. CASE ListsRows(t)
  <2>1. mine'[t] = {} /\ tx'[t].op \in {"rules", "leave", "restore"} /\ tx'[t].at \in {"insert", "commit"}
    BY <1>1, <1>3 DEF ListsRows, Lists, Request
  <2> QED BY <2>1 DEF AllRight, RecordsRight
<1>4. ASSUME NEW b \in Books, NEW area \in Areas, Place(t, b, area)
      PROVE  AllRight(t)'
  <2>1. NewRow(b, "placed", area) \in NewRows /\ Record(t, NewRow(b, "placed", area))
    BY <1>4, LedgerAssumption DEF Place, NewRow, NewRows, PlacementKinds, KindsAtAPlace, MaybeAreas
  <2>2. PICK row \in Rows : mine' = [mine EXCEPT ![t] = @ \cup {row}]
    BY <2>1, Recorded
  <2>3. mine'[t] = {row}
    BY <1>1, <2>2 DEF TypeInv, TypeOK
  <2>4. tx'[t].op = "place" /\ tx'[t].at = "fold"
    BY <1>1, <1>4 DEF Place, Request
  <2>5. Latest({row}) = row
    <3>1. Ledger({row}) /\ row.id <= row.id
      BY LedgerOfOne DEF Rows
    <3> QED BY <3>1, LatestIs
  <2> QED BY <2>3, <2>4, <2>5 DEF AllRight, RecordsRight
<1>5. CASE Unplace(t)
  <2>1. PICK new \in SUBSET Rows :
          /\ mine' = [mine EXCEPT ![t] = new] /\ rows' = rows \cup new
          /\ \A r \in new : r.kind = "checked_in" /\ \A s \in rows : s.id < r.id
          /\ \A r, s \in new : r.book = s.book => r = s
          /\ (new = {}) <=> (StillSomewhere = {})
    BY <1>5, Unplaced
  <2>2. mine'[t] = new
    BY <2>1 DEF TypeInv, TypeOK
  <2>3. /\ tx'[t].op = "unplace" /\ tx'[t].todo = {}
        /\ tx'[t].at = IF StillSomewhere = {} THEN "commit" ELSE "fold"
    BY <1>1, <1>5 DEF Unplace, Request
  <2>4. ASSUME NEW r \in new, NEW s \in rows', s.book = r.book PROVE s.id <= r.id
    <3>1. r.id \in Nat
      BY DEF Rows
    <3>2. CASE s \in rows
      <4>1. s.id < r.id /\ s.id \in Nat
        BY <2>1, <3>2 DEF TypeInv, RowsInv, Ledger
      <4> QED BY <3>1, <4>1
    <3>3. CASE s \in new
      BY <2>1, <2>4, <3>1, <3>3
    <3> QED BY <2>1, <3>2, <3>3
  <2>5. UnplacesRight(t)'
    BY <2>1, <2>2, <2>3, <2>4 DEF UnplacesRight
  <2> QED BY <2>3, <2>5 DEF AllRight
<1>6. CASE Erase(t)
  <2>1. mine'[t] = {} /\ tx'[t].op = "erase" /\ tx'[t].todo = {}
    BY <1>1, <1>6 DEF Erase, Request
  <2> QED BY <2>1 DEF AllRight
<1>7. CASE Rebuild(t)
  <2> DEFINE wrong == {b \in Books : book[b].area # FoldedArea(About(b, Committed))}
  <2>1. /\ UNCHANGED <<rows, book, lockedBy, mine>>
        /\ seen' = [seen EXCEPT ![t] = Committed]
        /\ tx' = [tx EXCEPT ![t] = [Request("rebuild", "write", Nobody, Nowhere, {}) EXCEPT !.writes = wrong]]
    BY <1>7 DEF Rebuild
  <2>2. Committed = rows
    BY <1>1, SoloRows
  <2>3. /\ mine'[t] = {} /\ tx'[t].op = "rebuild" /\ tx'[t].todo = {} /\ tx'[t].at = "write"
        /\ tx'[t].writes = wrong /\ seen'[t] = rows
    BY <1>1, <2>1, <2>2 DEF Request, TypeInv, TypeOK
  <2>4. RebuildsRight(t)'
    BY <1>1, <2>1, <2>2, <2>3 DEF RebuildsRight, About
  <2> QED BY <2>3, <2>4 DEF AllRight
<1> QED BY <1>2, <1>3, <1>4, <1>5, <1>6, <1>7 DEF Beginning
\* A book whose rows, lock and draft a step leaves alone stays right.
LEMMA StaysRight ==
  ASSUME NEW t, NEW b, Right(t, b), lockedBy'[b] = lockedBy[b], draft'[b] = draft[b],
         About(b, rows)' = About(b, rows)
  PROVE  Right(t, b)'
BY DEF Right

LEMMA RightInsert ==
  ASSUME TypeInv, NEW t \in Txs, Solo(t), AllRight(t), Insert(t)
  PROVE  AllRight(t)'
<1>1. PICK new \in tx[t].todo : Record(t, new) /\ Do(t, "fold", tx[t].todo \ {new})
  BY DEF Insert
<1>2. new \in NewRows /\ UNCHANGED <<book, draft, lockedBy>> /\ tx[t].at = "insert"
  BY <1>1 DEF Insert, TypeInv, TypeOK, Requests
<1>3. PICK row \in Rows :
        /\ row.id = nextId /\ \A r \in rows : r.id < row.id
        /\ rows' = rows \cup {row}
        /\ mine' = [mine EXCEPT ![t] = @ \cup {row}]
        /\ RowsInv'
  BY <1>1, <1>2, Recorded
<1>4. tx'[t].op = tx[t].op /\ tx'[t].at = "fold" /\ mine'[t] = mine[t] \cup {row}
  BY <1>1, <1>3 DEF Do, TypeInv, TypeOK, Requests
<1>5. tx[t].op \notin {"erase", "unplace", "rebuild"}
  BY <1>1 DEF AllRight
<1>6. Latest(mine'[t]) = row
  <2>1. Ledger(rows') /\ mine'[t] \in SUBSET rows'
    <3>1. Ledger(rows)' /\ (mine[t] \subseteq rows)'
      BY <1>3 DEF RowsInv
    <3> QED BY <3>1 DEF Ledger
  <2>2. \A s \in mine'[t] : s.id <= row.id
    <3>1. \A s \in mine'[t] : s.id \in Nat /\ (s = row \/ s.id < row.id)
      BY <1>3, <1>4, <2>1 DEF TypeInv, RowsInv, Ledger
    <3>2. row.id \in Nat
      BY DEF Rows
    <3> QED BY <3>1, <3>2
  <2>3. Ledger(mine'[t]) /\ row \in mine'[t]
    BY <1>4, <2>1, SomeRows
  <2> QED BY <2>2, <2>3, LatestIs
<1>7. ASSUME NEW r \in mine'[t]
      PROVE  Right(t, r.book)' \/ Latest(mine'[t]).book = r.book
  <2>1. CASE r.book = row.book
    BY <1>6, <2>1
  <2>2. CASE r.book # row.book
    <3>1. r \in mine[t] /\ About(r.book, rows)' = About(r.book, rows)
      BY <1>3, <1>4, <2>2 DEF About
    <3>2. Right(t, r.book)
      BY <1>2, <1>5, <3>1 DEF AllRight, RecordsRight
    <3> QED BY <1>2, <3>1, <3>2, StaysRight
  <2> QED BY <2>1, <2>2
<1> QED BY <1>4, <1>5, <1>7 DEF AllRight, RecordsRight

LEMMA RightFold ==
  ASSUME TypeInv, NEW t \in Txs, Solo(t), AllRight(t), Fold(t)
  PROVE  AllRight(t)'
<1>1. /\ UNCHANGED <<rows, book, draft, lockedBy, mine>> /\ tx[t].at = "fold"
      /\ seen'[t] = rows
      /\ tx'[t].op = tx[t].op /\ tx'[t].todo = tx[t].todo /\ tx'[t].writes = BooksToWrite(t)
      /\ tx'[t].at = IF BooksToWrite(t) = {} THEN "commit" ELSE "write"
  BY SoloRows DEF Fold, TypeInv, TypeOK, Requests
<1>2. tx[t].op # "rebuild"
  BY <1>1 DEF AllRight, RebuildsRight
<1>3. CASE tx[t].op = "erase"
  BY <1>1, <1>3 DEF AllRight
<1>4. CASE tx[t].op = "unplace"
  <2>1. BooksToWrite(t) = {r.book : r \in mine[t]}
    BY <1>4 DEF BooksToWrite
  <2>2. UnplacesRight(t)'
    BY <1>1, <1>4, <2>1 DEF AllRight, UnplacesRight
  <2> QED BY <1>1, <1>4, <2>2 DEF AllRight
<1>5. CASE tx[t].op \notin {"erase", "unplace", "rebuild"}
  <2>1. BooksToWrite(t) = {Latest(mine[t]).book}
    BY <1>5 DEF BooksToWrite
  <2>2. \A b : Right(t, b) => Right(t, b)'
    BY <1>1 DEF Right, About
  <2>3. RecordsRight(t)'
    BY <1>1, <1>5, <2>1, <2>2 DEF AllRight, RecordsRight
  <2> QED BY <1>1, <1>5, <2>3 DEF AllRight
<1> QED BY <1>2, <1>3, <1>4, <1>5

LEMMA RightWrite ==
  ASSUME TypeInv, NEW t \in Txs, Solo(t), AllRight(t), NEW b \in Books, Write(t, b)
  PROVE  AllRight(t)'
<1> DEFINE left == tx[t].writes \ {b}
<1>1. /\ UNCHANGED <<rows, book, mine>>
      /\ tx[t].at = "write"
      /\ draft' = [draft EXCEPT ![b].area = Folded(t, b)]
      /\ lockedBy' = [lockedBy EXCEPT ![b] = t]
      /\ tx'[t].op = tx[t].op /\ tx'[t].todo = tx[t].todo /\ tx'[t].writes = left
      /\ tx'[t].at = IF left = {} THEN AfterWriting(t) ELSE "write"
      /\ seen'[t] = IF left = {} THEN {} ELSE seen[t]
  BY Written
<1>2. /\ lockedBy'[b] = t /\ draft'[b].area = Folded(t, b)
      /\ \A c \in Books \ {b} : lockedBy'[c] = lockedBy[c] /\ draft'[c] = draft[c]
  BY <1>1 DEF TypeInv, TypeOK, Versions
<1>3. AfterWriting(t) \in {"came", "insert", "commit"}
      /\ (tx[t].op \notin {"in", "rules"} => AfterWriting(t) = "commit")
  BY DEF AfterWriting
<1>4. \A r \in mine[t] : r.book \in Books
  BY DEF TypeInv, TypeOK, Rows
<1>5. CASE tx[t].op = "erase"
  BY <1>1, <1>5 DEF AllRight
<1>6. CASE tx[t].op = "unplace"
  <2>1. draft'[b].area = Nowhere
    BY <1>2, <1>6 DEF Folded
  <2>2. ASSUME NEW r \in mine[t]
        PROVE  \/ lockedBy'[r.book] = t /\ draft'[r.book].area = Nowhere
               \/ tx'[t].at = "write" /\ r.book \in tx'[t].writes
    <3>1. CASE r.book = b
      BY <1>2, <2>1, <3>1
    <3>2. CASE r.book # b
      <4>1. \/ lockedBy[r.book] = t /\ draft[r.book].area = Nowhere
            \/ r.book \in left
        BY <1>1, <1>6, <3>2 DEF AllRight, UnplacesRight
      <4> QED BY <1>1, <1>2, <1>4, <3>2, <4>1
    <3> QED BY <3>1, <3>2
  <2>3. UnplacesRight(t)'
    BY <1>1, <1>6, <2>2 DEF AllRight, UnplacesRight
  <2> QED BY <1>1, <1>6, <2>3 DEF AllRight
<1>7. CASE tx[t].op \notin {"erase", "unplace"}
  <2>1. seen[t] = rows
    BY <1>1, <1>7 DEF AllRight, RecordsRight, RebuildsRight
  <2>2. Right(t, b)'
    BY <1>1, <1>2, <1>7, <2>1 DEF Right, Folded, About
  <2>3. ASSUME NEW c \in Books \ {b}, Right(t, c) PROVE Right(t, c)'
    BY <1>1, <1>2, <2>3 DEF Right, About
  <2>4. CASE tx[t].op = "rebuild"
    <3>1. ASSUME NEW c \in Books
          PROVE  \/ Right(t, c)'
                 \/ lockedBy'[c] = Nobody /\ book'[c].area = FoldedArea(About(c, rows'))
                 \/ tx'[t].at = "write" /\ c \in tx'[t].writes
      <4>1. CASE c = b
        BY <2>2, <4>1
      <4>2. CASE c # b
        <5>1. \/ Right(t, c)
              \/ lockedBy[c] = Nobody /\ book[c].area = FoldedArea(About(c, rows))
              \/ c \in left
          BY <1>1, <2>4, <4>2 DEF AllRight, RebuildsRight
        <5> QED BY <1>1, <1>2, <2>3, <4>2, <5>1
      <4> QED BY <4>1, <4>2
    <3>2. tx'[t].at \in {"write", "commit"} /\ (tx'[t].at = "write" => seen'[t] = rows')
      BY <1>1, <1>3, <2>1, <2>4
    <3>3. (\A c \in Books : \/ Right(t, c)
                            \/ lockedBy[c] = Nobody /\ book[c].area = FoldedArea(About(c, rows))
                            \/ tx[t].at = "write" /\ c \in tx[t].writes)'
      BY <3>1 DEF About
    <3>4. RebuildsRight(t)'
      BY <3>2, <3>3 DEF RebuildsRight
    <3> QED BY <1>1, <2>4, <3>4 DEF AllRight
  <2>5. CASE tx[t].op # "rebuild"
    <3>1. ASSUME NEW r \in mine[t]
          PROVE  Right(t, r.book)' \/ (tx'[t].at = "write" /\ r.book \in tx'[t].writes)
      <4>1. CASE r.book = b
        BY <2>2, <4>1
      <4>2. CASE r.book # b
        <5>1. Right(t, r.book) \/ r.book \in left
          BY <1>1, <1>7, <2>5, <4>2 DEF AllRight, RecordsRight
        <5> QED BY <1>1, <1>4, <2>3, <4>2, <5>1
      <4> QED BY <4>1, <4>2
    <3>2. tx'[t].at = "write" => seen'[t] = rows'
      BY <1>1, <1>3, <2>1
    <3>3. (\A r \in mine[t] : Right(t, r.book) \/ (tx[t].at = "write" /\ r.book \in tx[t].writes))'
      BY <1>1, <3>1
    <3>4. RecordsRight(t)'
      BY <3>2, <3>3 DEF RecordsRight
    <3> QED BY <1>1, <1>7, <2>5, <3>4 DEF AllRight
  <2> QED BY <2>4, <2>5
<1> QED BY <1>5, <1>6, <1>7

LEMMA RightDo ==
  ASSUME TypeInv, NEW t \in Txs, Solo(t), AllRight(t), Came(t) \/ Land(t)
  PROVE  AllRight(t)'
<1>1. /\ UNCHANGED <<rows, book, draft, lockedBy, mine>> /\ tx[t].at \in {"came", "land"}
      /\ tx'[t].op = tx[t].op /\ tx'[t].at \in {"commit", "insert"}
  BY DEF Came, Land, Goto, Do, TypeInv, TypeOK, Requests
<1>2. tx[t].op \in {"in", "save"}
  BY <1>1 DEF TypeInv, Prepared
<1>3. \A b : Right(t, b) => Right(t, b)'
  BY <1>1 DEF Right, About
<1>4. RecordsRight(t)'
  BY <1>1, <1>2, <1>3 DEF AllRight, RecordsRight
<1> QED BY <1>1, <1>2, <1>4 DEF AllRight

LEMMA AloneStep ==
  ASSUME TypeInv, AloneInv, NEW u \in Txs, Steps(u)
  PROVE  AloneInv'
<1> SUFFICES ASSUME NEW t \in Txs, alone'[t] PROVE Solo(t)' /\ AllRight(t)'
  BY DEF AloneInv
<1>1. /\ u = t /\ Solo(t) /\ Solo(t)'
      /\ Beginning(t) \/ (Going(t) /\ alone[t])
      /\ Beginning(t) => Free(t)
  BY OnlyItself
<1>2. CASE Beginning(t)
  BY <1>1, <1>2, RightBegins
<1>3. CASE Going(t) /\ alone[t]
  <2>1. AllRight(t)
    BY <1>3 DEF AloneInv
  <2> QED BY <1>1, <1>3, <2>1, RightInsert, RightFold, RightWrite, RightDo DEF Going
<1> QED BY <1>1, <1>2, <1>3

LEMMA AloneAlways == Spec => []AloneInv
<1>1. Init => AloneInv
  BY DEF Init, AloneInv
<1>2. ASSUME TypeInv, AloneInv, [Next]_ledgerVars PROVE AloneInv'
  <2>1. CASE Next
    BY <1>2, <2>1, StepsTaken, AloneStep
  <2>2. CASE UNCHANGED ledgerVars
    <3>1. UNCHANGED <<rows, nextId, book, draft, lockedBy, wanted, table, tx, mine, seen, alone, read>>
      BY <2>2 DEF ledgerVars
    <3> QED BY <1>2, <3>1 DEF AloneInv, Solo, Free, AllRight, RebuildsRight, UnplacesRight, RecordsRight, Right, About
  <2> QED BY <1>2, <2>1, <2>2
<1> QED BY <1>1, <1>2, TypesAlways, PTL DEF Spec

LEMMA CommitHeals ==
  ASSUME TypeInv, AloneInv, NEW t \in Txs, Commit(t), alone[t],
         NEW b \in IF tx[t].op = "rebuild" THEN Books ELSE {r.book : r \in mine[t]}
  PROVE  book'[b].area = FoldedArea(About(b, rows'))
<1>1. /\ book' = [c \in Books |-> IF lockedBy[c] = t THEN draft[c] ELSE book[c]]
      /\ rows' = (IF tx[t].op = "erase" THEN {} ELSE rows) /\ tx[t].at = "commit"
  BY DEF Commit
<1>2. AllRight(t)
  BY DEF AloneInv
<1>3. b \in Books
  BY DEF TypeInv, TypeOK, Rows
<1>4. CASE tx[t].op = "rebuild"
  <2>1. Right(t, b) \/ (lockedBy[b] = Nobody /\ book[b].area = FoldedArea(About(b, rows)))
    BY <1>1, <1>2, <1>3, <1>4 DEF AllRight, RebuildsRight
  <2> QED BY <1>1, <1>3, <1>4, <2>1, LedgerAssumption DEF Right
<1>5. CASE tx[t].op # "rebuild"
  <2>1. PICK r \in mine[t] : r.book = b
    BY <1>5
  <2>2. tx[t].op # "erase"
    BY <1>2, <2>1 DEF AllRight
  <2>3. CASE tx[t].op = "unplace"
    <3>1. /\ r.kind = "checked_in" /\ \A s \in rows : s.book = b => s.id <= r.id
          /\ lockedBy[b] = t /\ draft[b].area = Nowhere
      BY <1>1, <1>2, <2>1, <2>3 DEF AllRight, UnplacesRight
    <3> DEFINE moves == {s \in About(b, rows) : s.kind \notin KindsAboutTheAnswer}
    <3>2. moves \in SUBSET rows /\ r \in moves /\ \A s \in moves : s.id <= r.id
      BY <2>1, <3>1 DEF About, KindsAboutTheAnswer, TypeInv, RowsInv
    <3>3. Latest(moves) = r
      <4>1. Ledger(moves)
        BY <3>2, CommittedRows
      <4> HIDE DEF moves
      <4> QED BY <3>2, <4>1, LatestIs
    <3>4. FoldedArea(About(b, rows)) = Nowhere
      BY <3>1, <3>3 DEF FoldedArea
    <3> QED BY <1>1, <1>3, <2>2, <3>1, <3>4
  <2>4. CASE tx[t].op # "unplace"
    <3>1. Right(t, b)
      BY <1>1, <1>2, <1>5, <2>1, <2>2, <2>4 DEF AllRight, RecordsRight
    <3> QED BY <1>1, <1>3, <2>2, <3>1 DEF Right
  <2> QED BY <2>3, <2>4
<1> QED BY <1>4, <1>5

\* A request with no other beside it leaves the column of every book it recorded a
\* row of as the fold of all its rows, and a rebuild that of every book: the UPDATE
\* reads the whole ledger of a book and not the row just written.
THEOREM AloneItHeals == Spec => SoleWriterHeals
<1>1. TypeInv /\ AloneInv /\ [Next]_ledgerVars =>
        [\A t \in Txs : Commit(t) /\ alone[t] =>
           \A b \in IF tx[t].op = "rebuild" THEN Books ELSE {r.book : r \in mine[t]} :
             book'[b].area = FoldedArea(About(b, rows'))]_ledgerVars
  BY CommitHeals
<1> QED BY <1>1, TypesAlways, AloneAlways, PTL DEF Spec, SoleWriterHeals

-----------------------------------------------------------------------------
(* The next answer *)

\* Asked for, so that a later refusal keeps it.
Asked(standing, area) ==
  \/ LeftAlone(standing) \/ area = Owed(standing)
  \/ area = standing.declined /\ standing.assigned = Nowhere

LEMMA AskedByRow ==
  ASSUME NEW said \in Says(MaybeAreas), NEW area, area # Nowhere, NEW row,
         \/ row.kind = "assigned" /\ row.area = area
         \/ row.kind \in {"released", "checked_out"} /\ Asked(said, area)
  PROVE  Asked(AfterRow(said, row), area)
<1>1. CASE row.kind = "assigned"
  BY <1>1 DEF AfterRow, Says, Asked, Owed
<1>2. CASE row.kind = "checked_out"
  BY <1>2 DEF AfterRow, Asked, LeftAlone, NowhereAtAll
<1>3. CASE row.kind = "released"
  <2>1. /\ AfterRow(said, row).assigned = Nowhere /\ AfterRow(said, row).area = said.area
        /\ AfterRow(said, row).declined = Refused(said)
        /\ LeftAlone(AfterRow(said, row)) <=> LeftAlone(said)
    BY <1>3 DEF AfterRow, Says, LeftAlone
  <2>2. Asked(said, area)
    BY <1>3
  <2> QED BY <2>1, <2>2 DEF Asked, Owed, Refused
<1> QED BY <1>1, <1>2, <1>3

\* Behind the rows that were read come refusals, a checkout, and the row of the
\* change itself if it needs one: least counterexample in the ids.
LEMMA AskedBehind ==
  ASSUME NEW base, NEW tail, base \cup tail \in SUBSET Rows, Ledger(base \cup tail),
         NEW area, area # Nowhere,
         \A r \in tail : /\ \A s \in base : s.id < r.id
                         /\ \/ r.kind \in {"released", "checked_out"}
                            \/ r.kind = "assigned" /\ r.area = area,
         Asked(StandingOf(base), area) \/ \E r \in tail : r.kind = "assigned"
  PROVE  Asked(StandingOf(base \cup tail), area)
<1> DEFINE Upto(k) == base \cup {r \in tail : r.id <= k}
<1> DEFINE Holds(k) == \/ Asked(StandingOf(Upto(k)), area)
                       \/ \E r \in tail : r.kind = "assigned" /\ k < r.id
<1> DEFINE T == {k \in Nat : ~Holds(k)}
<1>1. /\ MaxRows \in Nat /\ \A r \in base \cup tail : r.id \in Nat /\ 0 < r.id /\ r.id <= MaxRows
      /\ \A r, s \in base \cup tail : r.id = s.id => r = s
  BY LedgerAssumption DEF Rows, Ledger
<1>2. T = {} => Asked(StandingOf(base \cup tail), area)
  <2>1. Upto(MaxRows) = base \cup tail /\ ~ \E r \in tail : MaxRows < r.id
    BY <1>1
  <2> QED BY <1>1, <2>1
<1>3. SUFFICES ASSUME T # {} PROVE FALSE
  BY <1>2
<1>4. PICK k \in T : \A j \in T : k <= j
  BY <1>3, LeastNat
<1>5. k # 0
  <2>1. Upto(0) = base /\ \A r \in tail : 0 < r.id
    BY <1>1
  <2> QED BY <1>4, <2>1
<1>6. k \in Nat /\ k - 1 \in Nat /\ Holds(k - 1)
  <2>1. k \in Nat /\ k - 1 \in Nat /\ ~(k <= k - 1)
    BY <1>4, <1>5
  <2>2. k - 1 \notin T
    <3> HIDE DEF T
    <3> QED BY <1>4, <2>1
  <2> HIDE DEF Holds
  <2> QED BY <2>1, <2>2
<1>7. CASE \E r \in tail : r.id = k
  <2>1. PICK r \in tail : r.id = k
    BY <1>7
  <2>2. Upto(k) = Upto(k - 1) \cup {r} /\ r \notin Upto(k - 1) /\ \A s \in Upto(k) : s.id <= r.id
    BY <1>1, <1>6, <2>1
  <2>3. Upto(k) \in SUBSET (base \cup tail) /\ Upto(k - 1) \in SUBSET (base \cup tail) /\ r \in Upto(k)
    BY <2>2
  <2> HIDE DEF Upto
  <2>4. Ledger(Upto(k)) /\ Ledger(Upto(k - 1)) /\ Upto(k - 1) \in SUBSET Rows
    BY <2>3, SomeRows
  <2>5. Latest(Upto(k)) = r /\ Upto(k) \ {r} = Upto(k - 1)
    BY <2>2, <2>3, <2>4, LatestIs
  <2>6. StandingOf(Upto(k)) = AfterRow(StandingOf(Upto(k - 1)), r)
    BY <2>3, <2>4, <2>5, StandingByRow
  <2>7. StandingOf(Upto(k - 1)) \in Says(MaybeAreas)
    BY <2>4, WhatItSays
  <2>8. CASE r.kind = "assigned"
    BY <1>4, <2>6, <2>7, <2>8, AskedByRow
  <2>9. CASE r.kind \in {"released", "checked_out"}
    <3>1. ASSUME NEW s \in tail, s.kind = "assigned", k - 1 < s.id PROVE k < s.id
      BY <1>1, <1>6, <2>1, <2>9, <3>1
    <3>2. Asked(StandingOf(Upto(k - 1)), area)
      BY <1>4, <1>6, <3>1
    <3> QED BY <1>4, <2>6, <2>7, <2>9, <3>2, AskedByRow
  <2> QED BY <2>8, <2>9
<1>8. CASE ~ \E r \in tail : r.id = k
  <2>1. \A r \in tail : (r.id <= k <=> r.id <= k - 1) /\ (k - 1 < r.id => k < r.id)
    BY <1>1, <1>6, <1>8
  <2>2. Upto(k) = Upto(k - 1)
    BY <2>1
  <2> HIDE DEF Upto
  <2> QED BY <1>4, <1>6, <2>1, <2>2
<1> QED BY <1>7, <1>8

\* A change of the rules has recorded, or has still to record, a row for every book
\* that needed one by what it read; nextId was past all it read.
Asking(t) ==
  /\ \A r \in read[t].rows : r.id < nextId
  /\ \A r \in mine[t] : /\ r.kind = "assigned" /\ r.area = tx[t].to
                        /\ \A s \in read[t].rows : s.id < r.id
  /\ \A new \in tx[t].todo : new.kind = "assigned" /\ new.area = tx[t].to
  /\ \A b \in read[t].books : AssignmentFor(StandingOf(ReadOf(t, b)), tx[t].to) # Nowhere =>
       (\E new \in tx[t].todo : new.book = b) \/ \E r \in mine[t] : r.book = b
  /\ tx[t].at = "commit" => tx[t].todo = {}
AskInv == \A t \in Txs : tx[t].op = "rules" => Asking(t)

LEMMA SameAsking ==
  ASSUME TypeInv, NEW t \in Txs, Asking(t), read'[t] = read[t], mine'[t] = mine[t], tx'[t] = tx[t],
         nextId' \in Nat, nextId <= nextId'
  PROVE  Asking(t)'
<1>1. \A r \in read[t].rows : r.id \in Nat
  BY DEF TypeInv, TypeOK, Readings, Rows
<1>2. \A r \in read'[t].rows : r.id < nextId'
  BY <1>1 DEF Asking, TypeInv, TypeOK
<1> QED BY <1>2 DEF Asking, ReadOf, About

\* Nobody takes a row from another's request, or what it read, and ids only grow.
LEMMA OthersAsk ==
  ASSUME TypeInv, TableInv, NEW t \in Txs, Steps(t)
  PROVE  /\ nextId' \in Nat /\ nextId <= nextId'
         /\ \A u \in Txs \ {t} : mine'[u] = mine[u] /\ read'[u] = read[u]
<1>0. TypeInv' /\ nextId \in Nat /\ read \in [Txs -> Readings] /\ mine \in [Txs -> SUBSET Rows]
  BY TypesStep, LedgerAssumption DEF TypeInv, TypeOK
<1>1. nextId' \in Nat
  BY <1>0, LedgerAssumption DEF TypeInv, TypeOK
<1>2. CASE Marks(t) \/ Erase(t) \/ Rebuild(t) \/ Fold(t) \/ (\E b \in Books : Write(t, b))
           \/ Came(t) \/ Land(t)
  <2>1. UNCHANGED <<nextId, mine, read>>
    <3>1. CASE Marks(t)
      BY <3>1 DEF Marks, Mark
    <3>2. CASE Erase(t) \/ Rebuild(t) \/ Fold(t)
      BY <3>2 DEF Erase, Rebuild, Fold
    <3>3. CASE Came(t) \/ Land(t)
      BY <3>3 DEF Came, Land
    <3>4. CASE \E b \in Books : Write(t, b)
      BY <3>4 DEF Write
    <3> QED BY <1>2, <3>1, <3>2, <3>3, <3>4
  <2> QED BY <1>0, <1>1, <2>1
<1>3. CASE ListsRows(t)
  BY <1>0, <1>3 DEF ListsRows, Lists, RulesAsk
<1>4. CASE Unplace(t)
  <2>1. IsFiniteSet(StillSomewhere)
    BY LedgerAssumption, FS_Subset DEF StillSomewhere
  <2>2. Cardinality(StillSomewhere) \in Nat /\ nextId' = nextId + Cardinality(StillSomewhere) - 1 + 1
    BY <1>4, <2>1, FS_CardinalityType DEF Unplace
  <2>3. PICK new \in SUBSET Rows : mine' = [mine EXCEPT ![t] = new]
    BY <1>4, Unplaced
  <2> QED BY <1>0, <1>1, <1>4, <2>2, <2>3 DEF Unplace
<1>5. CASE Insert(t) \/ \E b \in Books, area \in Areas : Place(t, b, area)
  <2>1. PICK new : Record(t, new) /\ UNCHANGED read
    BY <1>5 DEF Insert, Place
  <2> QED BY <1>0, <1>1, <2>1 DEF Record
<1>6. CASE Commit(t) \/ StatementFails(t)
  <2>1. Unlocked(t)
    BY <1>6 DEF Commit, StatementFails
  <2> QED BY <1>0, <2>1 DEF Unlocked
<1> QED BY <1>1, <1>2, <1>3, <1>4, <1>5, <1>6 DEF Steps

LEMMA AsksAtFirst ==
  ASSUME TypeInv, NEW t \in Txs, ListsRows(t), tx'[t].op = "rules"
  PROVE  Asking(t)'
<1>1. PICK area \in MaybeAreas, todo \in SUBSET NewRows :
        Lists(t, "rules", area, todo) /\ RulesAsk(t, area, todo)
  <2>1. PICK op \in {"rules", "leave", "restore"}, area \in MaybeAreas, todo \in SUBSET NewRows :
          Lists(t, op, area, todo) /\ IF op = "rules" THEN RulesAsk(t, area, todo) ELSE UNCHANGED read
    BY DEF ListsRows
  <2>2. tx'[t].op = op
    BY <2>1 DEF Lists, Request, TypeInv, TypeOK
  <2> QED BY <2>1, <2>2
<1>2. /\ tx'[t].todo = todo /\ tx'[t].to = area
      /\ tx'[t].at = IF todo = {} THEN "commit" ELSE "insert"
      /\ mine'[t] = {} /\ UNCHANGED nextId
  BY <1>1 DEF Lists, Request, Begins, TypeInv, TypeOK, Over
<1>3. read'[t].books = {b \in Books : Catalogued(b)} /\ read'[t].rows = Committed
  BY <1>1 DEF RulesAsk, TypeInv, TypeOK
<1>4. ASSUME NEW new \in todo PROVE new.kind = "assigned" /\ new.area = area
  BY <1>1, <1>4 DEF RulesAsk, NewRow
<1>5. ASSUME NEW b \in read'[t].books, AssignmentFor(StandingOf(About(b, Committed)), area) # Nowhere
      PROVE  \E new \in todo : new.book = b
  <2>1. NewRow(b, "assigned", area) \in todo
    BY <1>1, <1>3, <1>5 DEF RulesAsk, SaysNow
  <2> QED BY <2>1 DEF NewRow
<1>6. \A r \in Committed : r.id < nextId
  BY DEF Committed, TypeInv, RowsInv
<1>7. \A b : ReadOf(t, b)' = About(b, Committed)
  BY <1>3 DEF ReadOf, About
<1> QED BY <1>2, <1>3, <1>4, <1>5, <1>6, <1>7 DEF Asking

LEMMA AsksGoing ==
  ASSUME TypeInv, NEW t \in Txs, tx[t].op = "rules", Asking(t), Going(t)
  PROVE  Asking(t)'
<1>1. tx \in [Txs -> Requests] /\ read \in [Txs -> Readings] /\ mine \in [Txs -> SUBSET Rows]
      /\ nextId \in Nat
  BY DEF TypeInv, TypeOK
<1>2. CASE Insert(t)
  <2>1. PICK new \in tx[t].todo : Record(t, new) /\ Do(t, "fold", tx[t].todo \ {new})
    BY <1>2 DEF Insert
  <2>2. new \in NewRows
    BY <1>1, <2>1 DEF Requests
  <2>3. PICK row : /\ row.id = nextId /\ row.book = new.book /\ row.kind = new.kind /\ row.area = new.area
                   /\ mine' = [mine EXCEPT ![t] = @ \cup {row}] /\ nextId' = nextId + 1
    BY <2>1, <2>2, Recorded
  <2>4. /\ mine'[t] = mine[t] \cup {row} /\ UNCHANGED read
        /\ tx'[t].todo = tx[t].todo \ {new} /\ tx'[t].to = tx[t].to /\ tx'[t].at = "fold"
    BY <1>1, <1>2, <2>1, <2>3 DEF Insert, Do, Requests
  <2>5. \A r \in read[t].rows : r.id \in Nat /\ r.id < nextId
    BY <1>1 DEF Asking, Readings, Rows
  <2>6. \A r \in read[t].rows : r.id < row.id /\ r.id < nextId'
    BY <1>1, <2>3, <2>5
  <2>7. \A r \in mine'[t] : /\ r.kind = "assigned" /\ r.area = tx'[t].to
                            /\ \A s \in read[t].rows : s.id < r.id
    BY <2>1, <2>3, <2>4, <2>6 DEF Asking
  <2>8. ASSUME NEW b \in read[t].books, AssignmentFor(StandingOf(ReadOf(t, b)), tx[t].to) # Nowhere
        PROVE  (\E other \in tx'[t].todo : other.book = b) \/ \E r \in mine'[t] : r.book = b
    BY <2>3, <2>4, <2>8 DEF Asking
  <2> QED BY <2>4, <2>6, <2>7, <2>8 DEF Asking, ReadOf, About
<1>3. CASE Fold(t)
  <2>1. /\ UNCHANGED <<nextId, mine, read>> /\ tx'[t].todo = tx[t].todo /\ tx'[t].to = tx[t].to
        /\ tx'[t].at = IF BooksToWrite(t) = {} THEN "commit" ELSE "write"
    BY <1>1, <1>3 DEF Fold, Requests
  <2>2. BooksToWrite(t) # {}
    BY DEF BooksToWrite
  <2> QED BY <2>1, <2>2 DEF Asking, ReadOf, About
<1>4. CASE \E b \in Books : Write(t, b)
  <2>1. /\ UNCHANGED <<nextId, mine, read>> /\ tx'[t].todo = tx[t].todo /\ tx'[t].to = tx[t].to
        /\ tx'[t].at \in {AfterWriting(t), "write"}
    BY <1>4, Written
  <2>2. AfterWriting(t) = IF tx[t].todo # {} THEN "insert" ELSE "commit"
    BY DEF AfterWriting
  <2> QED BY <2>1, <2>2 DEF Asking, ReadOf, About
<1>5. CASE Came(t) \/ Land(t)
  BY <1>5 DEF Came, Land, TypeInv, Prepared
<1> QED BY <1>2, <1>3, <1>4, <1>5 DEF Going

LEMMA AskStep ==
  ASSUME TypeInv, TableInv, AskInv, NEW u \in Txs, Steps(u)
  PROVE  AskInv'
<1> SUFFICES ASSUME NEW t \in Txs, tx'[t].op = "rules" PROVE Asking(t)'
  BY DEF AskInv
<1>1. tx \in [Txs -> Requests]
  BY DEF TypeInv, TypeOK
<1>2. CASE u # t
  <2>1. tx'[t] = tx[t] /\ mine'[t] = mine[t] /\ read'[t] = read[t] /\ nextId' \in Nat /\ nextId <= nextId'
    BY <1>2, OtherRequests, OthersAsk
  <2>2. Asking(t)
    BY <2>1 DEF AskInv
  <2> QED BY <2>1, <2>2, SameAsking
<1>3. CASE u = t /\ Going(t)
  <2>1. tx[t].op = "rules"
    BY <1>1, <1>3, Written DEF Going, Insert, Fold, Came, Land, Goto, Do, Requests
  <2> QED BY <1>3, <2>1, AsksGoing DEF AskInv
<1>4. CASE u = t /\ Beginning(t)
  <2>1. ~Marks(t)
    BY <1>1 DEF Marks, Mark, Request, Turns
  <2>2. ~(\E b \in Books, area \in Areas : Place(t, b, area)) /\ ~Unplace(t) /\ ~Erase(t) /\ ~Rebuild(t)
    BY <1>1 DEF Place, Unplace, Erase, Rebuild, Request
  <2> QED BY <1>4, <2>1, <2>2, AsksAtFirst DEF Beginning
<1>5. CASE u = t /\ (Commit(t) \/ StatementFails(t))
  <2>1. tx'[t].op \in {"none", "leave", "restore"}
    BY <1>1, <1>5 DEF Commit, StatementFails, GoesOn, Idle, Requests
  <2> QED BY <2>1
<1> QED BY <1>2, <1>3, <1>4, <1>5 DEF Steps, Beginning, Going

LEMMA AskAlways == Spec => []AskInv
<1>1. Init => AskInv
  BY DEF Init, AskInv, Idle
<1>2. ASSUME TypeInv, TableInv, AskInv, [Next]_ledgerVars PROVE AskInv'
  <2>1. CASE Next
    BY <1>2, <2>1, StepsTaken, AskStep
  <2>2. CASE UNCHANGED ledgerVars
    BY <1>2, <2>2 DEF ledgerVars, AskInv, Asking, ReadOf, About
  <2> QED BY <1>2, <2>1, <2>2
<1> QED BY <1>1, <1>2, TypesAlways, PTL DEF Spec

LEMMA CommitAsks ==
  ASSUME TypeInv, AskInv, NEW t \in Txs, Commit(t), tx[t].op = "rules", tx[t].to # Nowhere,
         NEW b \in read[t].books, Undisturbed(t, b)
  PROVE  AskedFor(StandingOf(About(b, Sees(t))), tx[t].to)
<1> DEFINE base == ReadOf(t, b)
<1> DEFINE tail == About(b, Sees(t)) \ base
<1>1. Asking(t) /\ tx[t].todo = {}
  BY DEF AskInv, Asking, Commit
<1>2. base \in SUBSET Committed /\ \A r \in base : r.book = b
  BY DEF Undisturbed, ReadOf, About
<1>3. base \cup tail = About(b, Sees(t))
  BY <1>2 DEF Sees, About
<1>4. About(b, Sees(t)) \in SUBSET Rows /\ Ledger(About(b, Sees(t)))
  <2>1. About(b, Sees(t)) \in SUBSET rows
    BY PartsOfTheLedger DEF About
  <2> QED BY <2>1, PartsOfTheLedger
<1>5. ASSUME NEW r \in tail
      PROVE  /\ \A s \in base : s.id < r.id
             /\ \/ r.kind \in {"released", "checked_out"}
                \/ r.kind = "assigned" /\ r.area = tx[t].to
  <2>1. CASE r \in Committed
    <3>1. r \in About(b, Committed) \ ReadOf(t, b)
      BY <2>1 DEF About
    <3> QED BY <3>1 DEF Undisturbed
  <2>2. CASE r \in mine[t]
    BY <1>1, <2>2 DEF Asking, ReadOf, About
  <2> QED BY <2>1, <2>2 DEF Sees, About
<1>6. Asked(StandingOf(base), tx[t].to) \/ \E r \in tail : r.kind = "assigned"
  <2>1. CASE AssignmentFor(StandingOf(base), tx[t].to) = Nowhere
    BY <2>1 DEF AssignmentFor, Asked, Undisturbed
  <2>2. CASE AssignmentFor(StandingOf(base), tx[t].to) # Nowhere
    <3>1. PICK r \in mine[t] : r.book = b
      BY <1>1, <2>2 DEF Asking
    <3>2. r \notin Committed /\ r \in About(b, Sees(t))
      BY <3>1 DEF Committed, Sees, About
    <3> QED BY <1>1, <1>2, <3>1, <3>2 DEF Asking
  <2> QED BY <2>1, <2>2
<1> HIDE DEF base, tail
<1>7. Asked(StandingOf(base \cup tail), tx[t].to)
  BY <1>3, <1>4, <1>5, <1>6, AskedBehind
<1> QED BY <1>3, <1>7 DEF Asked, AskedFor

\* Somebody who leaves books where they are, or takes them out, while the rules
\* change does not lose the change: what it wants of a book it read is owed or
\* declined when it commits, although it went by what the book said before.
THEOREM LeavingLosesNoAnswer == Spec => NextAnswerIsAsked
<1>1. TypeInv /\ AskInv /\ [Next]_ledgerVars =>
        [\A t \in Txs : Commit(t) /\ tx[t].op = "rules" /\ tx[t].to # Nowhere =>
           \A b \in read[t].books :
             Undisturbed(t, b) => AskedFor(StandingOf(About(b, Sees(t))), tx[t].to)]_ledgerVars
  BY CommitAsks
<1> QED BY <1>1, TypesAlways, AskAlways, PTL DEF Spec, NextAnswerIsAsked
=============================================================================
