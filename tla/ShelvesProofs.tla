---------------------------- MODULE ShelvesProofs ----------------------------
(***************************************************************************)
(* Proofs about Furniture and Shelves, for any books, ranges and rooms a   *)
(* history may begin in: whatever is done to the shelves the room keeps    *)
(* the schema (SchemaIsKept), and the three walks over a run name one      *)
(* plank for a book (WalksAlwaysAgree).                                    *)
(*                                                                         *)
(* Every operation changes the room by a fold over a list of boundaries,   *)
(* areas or books, so the first proof goes up in four parts: folds and     *)
(* sorted lists; what each step of a fold does to a sound room; what the   *)
(* ledger and the rules go on naming; and one lemma for each action of     *)
(* Next. The lemmas on single folds repeat one pattern, the sets that the  *)
(* induction climbs being defined for the operator at hand. The walks are  *)
(* compared in a section of their own: in a straight room the planks of a  *)
(* run, its boundaries and its rows are in one order, so each walk stops   *)
(* where it has stepped over the anchors a key has reached.                *)
(*                                                                         *)
(* IInv says beside TypeOK what the operations read: that ids, positions   *)
(* and anchors are numbers, that the runs read of the room are lists over  *)
(* its areas, that the ledger names only areas the room remembers being    *)
(* named (those RetireOrRemove never removes), that what a receipt puts    *)
(* back is a list of anchored things, and that survey and walk are of the  *)
(* room as it stands. Most lemmas do not turn on which anchors the         *)
(* boundaries have, and ask only that they belong to some set V.           *)
(***************************************************************************)
EXTENDS Shelves, TLAPS, WellFoundedInduction, FiniteSetTheorems, SequenceTheorems

-----------------------------------------------------------------------------
(* Induction and folds *)

LEMMA LeastNat ==
  ASSUME NEW T, T \subseteq Nat, T # {}
  PROVE  \E x \in T : \A y \in T : x <= y
<1> DEFINE R == OpToRel(<, Nat)
<1>1. IsWellFoundedOn(R, Nat)
  BY NatLessThanWellFounded
<1>2. ASSUME NEW x \in Nat, NEW y \in Nat, <<x, y>> \notin R PROVE y <= x
  BY <1>2 DEF OpToRel
<1> HIDE DEF R
<1>3. PICK x \in T : \A y \in T : ~(<<y, x>> \in R)
  BY <1>1, WFMin
<1>4. ASSUME NEW y \in T PROVE x <= y
  BY <1>2, <1>3
<1> QED BY <1>4

LEMMA NatsAll ==
  ASSUME NEW E \in SUBSET Nat, 0 \in E, \A k \in E : k + 1 \in E
  PROVE  E = Nat
<1> SUFFICES ASSUME Nat \ E # {} PROVE FALSE
  OBVIOUS
<1>1. PICK k \in Nat \ E : \A j \in Nat \ E : k <= j
  BY LeastNat
<1>2. k - 1 \in Nat
  BY <1>1
<1>3. k - 1 \in E
  BY <1>1, <1>2
<1> QED BY <1>1, <1>3

LEMMA SmallerSubset ==
  ASSUME NEW S, IsFiniteSet(S), NEW s \in SUBSET S
  PROVE  /\ IsFiniteSet(s) /\ Cardinality(s) \in Nat /\ Cardinality(s) <= Cardinality(S)
         /\ Cardinality(s) = 0 <=> s = {}
         /\ \A x \in s : s \ {x} \in SUBSET S /\ Cardinality(s \ {x}) = Cardinality(s) - 1
<1>1. IsFiniteSet(s) /\ Cardinality(s) <= Cardinality(S)
  BY FS_Subset
<1>2. Cardinality(s) \in Nat /\ (Cardinality(s) = 0 <=> s = {})
  BY <1>1, FS_CardinalityType, FS_EmptySet
<1>3. ASSUME NEW x \in s PROVE Cardinality(s \ {x}) = Cardinality(s) - 1
  BY <1>1, FS_RemoveElement
<1> QED BY <1>1, <1>2, <1>3

LEMMA IntervalSubset ==
  ASSUME NEW n \in Nat, NEW s \in SUBSET (1 .. n)
  PROVE  IsFiniteSet(s) /\ Cardinality(s) \in Nat /\ Cardinality(s) <= n
<1>1. IsFiniteSet(1 .. n) /\ Cardinality(1 .. n) = n
  BY FS_Interval
<1>2. IsFiniteSet(s) /\ Cardinality(s) \in Nat /\ Cardinality(s) <= Cardinality(1 .. n)
  BY <1>1, SmallerSubset
<1> QED BY <1>1, <1>2

\* What holds of the empty set, and of a set when it holds of the set without
\* one member picked from it, holds of every subset.
Climbs(Q, S, pick) ==
  \A s \in SUBSET S : s # {} => pick[s] \in s /\ (s \ {pick[s]} \in Q => s \in Q)

LEMMA SetsAll ==
  ASSUME NEW S, IsFiniteSet(S), NEW Q \in SUBSET (SUBSET S), {} \in Q,
         NEW pick, Climbs(Q, S, pick)
  PROVE  S \in Q
<1> USE DEF Climbs
<1> DEFINE E == {k \in Nat : \A s \in SUBSET S : Cardinality(s) = k => s \in Q}
<1>1. 0 \in E
  BY SmallerSubset
<1>2. ASSUME NEW k \in E PROVE k + 1 \in E
  <2>1. k \in Nat /\ \A s \in SUBSET S : Cardinality(s) = k => s \in Q
    OBVIOUS
  <2>2. ASSUME NEW s \in SUBSET S, Cardinality(s) = k + 1 PROVE s \in Q
    <3> HIDE DEF E
    <3>1. s # {}
      BY <2>1, <2>2, SmallerSubset
    <3>2. pick[s] \in s
      BY <3>1
    <3>3. s \ {pick[s]} \in SUBSET S /\ Cardinality(s \ {pick[s]}) = (k + 1) - 1
      BY <2>2, <3>2, SmallerSubset
    <3> QED BY <2>1, <3>1, <3>3
  <2> QED BY <2>1, <2>2
<1>3. E = Nat
  <2> HIDE DEF E
  <2>1. E \in SUBSET Nat
    BY DEF E
  <2> QED BY <1>1, <1>2, <2>1, NatsAll
<1>4. Cardinality(S) \in Nat
  BY FS_CardinalityType
<1>5. Cardinality(S) \in E
  BY <1>3, <1>4
<1> QED BY <1>5

\* A fold over a finite set, one member at a time, with values in a set that the
\* step does not lead out of.
Picks(pick, S) == \A s \in SUBSET S : s # {} => pick[s] \in s
IsFold(g, S, base, G, pick) ==
  \A s \in SUBSET S : g[s] = IF s = {} THEN base ELSE G[<<pick[s], g[s \ {pick[s]}]>>]

LEMMA SetFold ==
  ASSUME NEW S, IsFiniteSet(S), NEW D, NEW base \in D, NEW G \in [S \X D -> D],
         NEW pick, Picks(pick, S)
  PROVE  \E g \in [SUBSET S -> D] : IsFold(g, S, base, G, pick)
<1> USE DEF Picks
<1> DEFINE Folds(g, k) == \A s \in SUBSET S : Cardinality(s) <= k =>
                            g[s] = IF s = {} THEN base ELSE G[<<pick[s], g[s \ {pick[s]}]>>]
           E == {k \in Nat : \E g \in [SUBSET S -> D] : Folds(g, k)}
<1>1. 0 \in E
  <2>1. [s \in SUBSET S |-> base] \in [SUBSET S -> D]
    OBVIOUS
  <2>2. ASSUME NEW s \in SUBSET S, Cardinality(s) <= 0 PROVE s = {}
    BY <2>2, SmallerSubset
  <2>3. Folds([s \in SUBSET S |-> base], 0)
    BY <2>2
  <2> HIDE DEF Folds
  <2> QED BY <2>1, <2>3
<1>2. ASSUME NEW k \in Nat, NEW g \in [SUBSET S -> D], Folds(g, k)
      PROVE  \E h \in [SUBSET S -> D] : Folds(h, k + 1)
  <2> DEFINE h == [s \in SUBSET S |-> IF s = {} THEN base ELSE G[<<pick[s], g[s \ {pick[s]}]>>]]
  <2>1. h \in [SUBSET S -> D]
    <3>1. ASSUME NEW s \in SUBSET S, s # {} PROVE G[<<pick[s], g[s \ {pick[s]}]>>] \in D
      <4>1. pick[s] \in S /\ s \ {pick[s]} \in SUBSET S
        BY <3>1
      <4> QED BY <4>1
    <3> QED BY <3>1
  <2>2. ASSUME NEW s \in SUBSET S, Cardinality(s) <= k PROVE h[s] = g[s]
    BY <1>2, <2>2
  <2>3. ASSUME NEW s \in SUBSET S, Cardinality(s) <= k + 1
        PROVE  h[s] = IF s = {} THEN base ELSE G[<<pick[s], h[s \ {pick[s]}]>>]
    <3>1. CASE s = {}
      BY <3>1
    <3>2. CASE s # {}
      <4>1. s \ {pick[s]} \in SUBSET S /\ Cardinality(s \ {pick[s]}) <= k
        BY <2>3, <3>2, SmallerSubset
      <4>2. h[s \ {pick[s]}] = g[s \ {pick[s]}]
        BY <2>2, <4>1
      <4>3. h[s] = G[<<pick[s], g[s \ {pick[s]}]>>]
        BY <3>2
      <4> QED BY <3>2, <4>2, <4>3
    <3> QED BY <3>1, <3>2
  <2> HIDE DEF h
  <2> QED BY <2>1, <2>3
<1>3. E = Nat
  <2>1. E \in SUBSET Nat
    OBVIOUS
  <2>2. ASSUME NEW k \in E PROVE k + 1 \in E
    <3> HIDE DEF Folds
    <3>1. k \in Nat /\ \E g \in [SUBSET S -> D] : Folds(g, k)
      OBVIOUS
    <3>2. \E h \in [SUBSET S -> D] : Folds(h, k + 1)
      BY <1>2, <3>1
    <3> QED BY <3>1, <3>2
  <2> HIDE DEF E
  <2> QED BY <1>1, <2>1, <2>2, NatsAll
<1>4. Cardinality(S) \in E
  <2> HIDE DEF E
  <2> QED BY <1>3, FS_CardinalityType
<1>5. PICK g \in [SUBSET S -> D] : Folds(g, Cardinality(S))
  BY <1>4
<1> QED BY <1>5, SmallerSubset DEF IsFold

\* A function that is such a fold wherever it stays in the set stays there.
StepsBy(h, S, D, G, pick) ==
  \A s \in SUBSET S : s # {} /\ h[s \ {pick[s]}] \in D => h[s] = G[<<pick[s], h[s \ {pick[s]}]>>]

LEMMA FoldStays ==
  ASSUME NEW S, IsFiniteSet(S), NEW D, NEW base \in D, NEW G \in [S \X D -> D],
         NEW pick, Picks(pick, S),
         NEW h, h[{}] = base, StepsBy(h, S, D, G, pick)
  PROVE  h[S] \in D
<1> DEFINE Q == {s \in SUBSET S : h[s] \in D}
<1>1. Q \in SUBSET (SUBSET S) /\ {} \in Q
  OBVIOUS
<1>2. ASSUME NEW s \in SUBSET S, s # {} PROVE pick[s] \in s /\ (s \ {pick[s]} \in Q => s \in Q)
  <2>1. pick[s] \in S /\ pick[s] \in s
    BY <1>2 DEF Picks
  <2>2. ASSUME h[s \ {pick[s]}] \in D PROVE h[s] \in D
    BY <1>2, <2>1, <2>2 DEF StepsBy
  <2> QED BY <2>1, <2>2
<1>3. S \in Q
  <2> HIDE DEF Q
  <2>1. Climbs(Q, S, pick)
    BY <1>2 DEF Climbs
  <2> QED BY <1>1, <2>1, SetsAll
<1> QED BY <1>3

-----------------------------------------------------------------------------
(* The least and the greatest of a finite set *)

LEMMA MaxInt ==
  ASSUME NEW S \in SUBSET Int, IsFiniteSet(S), S # {}
  PROVE  Max(S) \in S /\ \A x \in S : x <= Max(S)
<1> DEFINE Q == {s \in SUBSET S : s # {} => \E m \in s : \A x \in s : m >= x}
           pick == [s \in SUBSET S |-> CHOOSE x \in s : TRUE]
<1>1. Q \in SUBSET (SUBSET S) /\ {} \in Q
  OBVIOUS
<1>2. ASSUME NEW s \in SUBSET S, s # {} PROVE pick[s] \in s /\ (s \ {pick[s]} \in Q => s \in Q)
  <2>1. pick[s] \in s /\ pick[s] \in Int /\ s \in SUBSET Int
    <3>1. pick[s] \in s
      BY <1>2
    <3> HIDE DEF pick
    <3> QED BY <3>1
  <2> HIDE DEF pick
  <2>2. CASE s \ {pick[s]} = {}
    <3>1. \A x \in s : x = pick[s]
      BY <2>2
    <3>2. \A x \in s : pick[s] >= x
      BY <2>1, <3>1
    <3> QED BY <2>1, <3>2
  <2>3. CASE s \ {pick[s]} # {} /\ s \ {pick[s]} \in Q
    <3>1. PICK m \in s \ {pick[s]} : \A x \in s \ {pick[s]} : m >= x
      BY <2>3
    <3> HIDE DEF Q
    <3>2. m \in s /\ m \in Int
      BY <2>1
    <3>3. (\A x \in s : m >= x) \/ (\A x \in s : pick[s] >= x)
      <4>1. CASE m >= pick[s]
        <5>1. ASSUME NEW x \in s PROVE m >= x
          BY <2>1, <3>1, <4>1
        <5> QED BY <5>1
      <4>2. CASE ~(m >= pick[s])
        <5>1. ASSUME NEW x \in s PROVE pick[s] >= x
          BY <2>1, <3>1, <3>2, <4>2
        <5> QED BY <5>1
      <4> QED BY <4>1, <4>2
    <3> QED BY <2>1, <3>2, <3>3 DEF Q
  <2> QED BY <2>1, <2>2, <2>3
<1>3. S \in Q
  <2> HIDE DEF Q, pick
  <2>1. Climbs(Q, S, pick)
    BY <1>2 DEF Climbs
  <2> QED BY <1>1, <2>1, SetsAll
<1>4. \E m \in S : \A x \in S : m >= x
  BY <1>3
<1>5. Max(S) \in S /\ \A x \in S : Max(S) >= x
  BY <1>4 DEF Max
<1> QED BY <1>5

LEMMA MinInt ==
  ASSUME NEW S \in SUBSET Int, IsFiniteSet(S), S # {}
  PROVE  Min(S) \in S /\ \A x \in S : Min(S) <= x
<1> DEFINE Q == {s \in SUBSET S : s # {} => \E m \in s : \A x \in s : m <= x}
           pick == [s \in SUBSET S |-> CHOOSE x \in s : TRUE]
<1>1. Q \in SUBSET (SUBSET S) /\ {} \in Q
  OBVIOUS
<1>2. ASSUME NEW s \in SUBSET S, s # {} PROVE pick[s] \in s /\ (s \ {pick[s]} \in Q => s \in Q)
  <2>1. pick[s] \in s /\ pick[s] \in Int /\ s \in SUBSET Int
    <3>1. pick[s] \in s
      BY <1>2
    <3> HIDE DEF pick
    <3> QED BY <3>1
  <2> HIDE DEF pick
  <2>2. CASE s \ {pick[s]} = {}
    <3>1. \A x \in s : x = pick[s]
      BY <2>2
    <3>2. \A x \in s : pick[s] <= x
      BY <2>1, <3>1
    <3> QED BY <2>1, <3>2
  <2>3. CASE s \ {pick[s]} # {} /\ s \ {pick[s]} \in Q
    <3>1. PICK m \in s \ {pick[s]} : \A x \in s \ {pick[s]} : m <= x
      BY <2>3
    <3> HIDE DEF Q
    <3>2. m \in s /\ m \in Int
      BY <2>1
    <3>3. (\A x \in s : m <= x) \/ (\A x \in s : pick[s] <= x)
      <4>1. CASE m <= pick[s]
        <5>1. ASSUME NEW x \in s PROVE m <= x
          BY <2>1, <3>1, <4>1
        <5> QED BY <5>1
      <4>2. CASE ~(m <= pick[s])
        <5>1. ASSUME NEW x \in s PROVE pick[s] <= x
          BY <2>1, <3>1, <3>2, <4>2
        <5> QED BY <5>1
      <4> QED BY <4>1, <4>2
    <3> QED BY <2>1, <3>2, <3>3 DEF Q
  <2> QED BY <2>1, <2>2, <2>3
<1>3. S \in Q
  <2> HIDE DEF Q, pick
  <2>1. Climbs(Q, S, pick)
    BY <1>2 DEF Climbs
  <2> QED BY <1>1, <2>1, SetsAll
<1>4. \E m \in S : \A x \in S : m <= x
  BY <1>3
<1> QED BY <1>4 DEF Min

-----------------------------------------------------------------------------
(* A set in order *)

Enumerates(s, S) ==
  /\ s \in Seq(S)
  /\ \A x \in S : \E i \in 1 .. Len(s) : s[i] = x
  /\ \A i, j \in 1 .. Len(s) : s[i] = s[j] => i = j

IsWith(t, s, p, x) ==
  /\ Len(t) = Len(s) + 1
  /\ \A i \in 1 .. Len(s) + 1 : t[i] = IF i < p THEN s[i] ELSE IF i = p THEN x ELSE s[i - 1]

LEMMA Inserted ==
  ASSUME NEW S, NEW s \in Seq(S), NEW x, NEW p \in 1 .. Len(s) + 1
  PROVE  InsertAt(s, p, x) \in Seq(S \cup {x}) /\ IsWith(InsertAt(s, p, x), s, p, x)
<1> DEFINE A == SubSeq(s, 1, p - 1)
           B == SubSeq(s, p, Len(s))
<1>0. s \in Seq(S \cup {x}) /\ Len(s) \in Nat /\ p \in Int
  OBVIOUS
<1>1. A \in Seq(S \cup {x}) /\ Len(A) = p - 1 /\ \A i \in 1 .. p - 1 : A[i] = s[i]
  BY <1>0, SubSeqProperties
<1>2. B \in Seq(S \cup {x}) /\ Len(B) = Len(s) - p + 1 /\ \A i \in 1 .. Len(s) - p + 1 : B[i] = s[p + i - 1]
  BY <1>0, SubSeqProperties
<1>3. InsertAt(s, p, x) = A \o <<x>> \o B
  BY DEF InsertAt
<1> HIDE DEF A, B
<1> DEFINE C == A \o <<x>>
<1>4. C \in Seq(S \cup {x}) /\ Len(C) = p /\ \A i \in 1 .. p : C[i] = IF i < p THEN s[i] ELSE x
  <2>1. <<x>> \in Seq(S \cup {x}) /\ Len(<<x>>) = 1 /\ <<x>>[1] = x
    OBVIOUS
  <2> QED BY <1>0, <1>1, <2>1, ConcatProperties
<1> HIDE DEF C
<1>5. /\ C \o B \in Seq(S \cup {x}) /\ Len(C \o B) = Len(s) + 1
      /\ \A i \in 1 .. Len(s) + 1 : (C \o B)[i] = IF i <= p THEN C[i] ELSE B[i - p]
  <2>1. Len(C) + Len(B) = Len(s) + 1
    BY <1>0, <1>2, <1>4
  <2>2. C \in Seq(S \cup {x}) /\ B \in Seq(S \cup {x})
    BY <1>2, <1>4
  <2>3. /\ C \o B \in Seq(S \cup {x}) /\ Len(C \o B) = Len(C) + Len(B)
        /\ \A i \in 1 .. Len(C) + Len(B) : (C \o B)[i] = IF i <= Len(C) THEN C[i] ELSE B[i - Len(C)]
    BY <2>2, ConcatProperties
  <2>4. Len(C) = p
    BY <1>4
  <2> QED BY <2>1, <2>3, <2>4
<1>6. ASSUME NEW i \in 1 .. Len(s) + 1
      PROVE  (C \o B)[i] = IF i < p THEN s[i] ELSE IF i = p THEN x ELSE s[i - 1]
  <2>1. CASE i <= p
    BY <1>0, <1>4, <1>5, <2>1
  <2>2. CASE i > p
    <3>1. i - p \in 1 .. Len(s) - p + 1 /\ p + (i - p) - 1 = i - 1
      BY <1>0, <2>2
    <3> QED BY <1>0, <1>2, <1>5, <2>2, <3>1
  <2>3. i <= p \/ i > p
    BY <1>0
  <2> QED BY <2>1, <2>2, <2>3
<1> QED BY <1>3, <1>5, <1>6 DEF C, IsWith

LEMMA InsertEnumerates ==
  ASSUME NEW S, NEW s, Enumerates(s, S), NEW x, x \notin S, NEW p \in 1 .. Len(s) + 1
  PROVE  Enumerates(InsertAt(s, p, x), S \cup {x})
<1>1. s \in Seq(S) /\ Len(s) \in Nat /\ \A i \in 1 .. Len(s) : s[i] \in S
  BY DEF Enumerates
<1> DEFINE t == InsertAt(s, p, x)
<1>2. /\ t \in Seq(S \cup {x}) /\ Len(t) = Len(s) + 1
      /\ \A i \in 1 .. Len(s) + 1 : t[i] = IF i < p THEN s[i] ELSE IF i = p THEN x ELSE s[i - 1]
  <2>1. s \in Seq(S)
    BY <1>1
  <2>2. t \in Seq(S \cup {x}) /\ IsWith(t, s, p, x)
    BY <2>1, Inserted
  <2> HIDE DEF t
  <2> QED BY <2>2 DEF IsWith
<1> HIDE DEF t
<1>3. ASSUME NEW y \in S \cup {x} PROVE \E i \in 1 .. Len(t) : t[i] = y
  <2>1. CASE y = x
    BY <1>1, <1>2, <2>1
  <2>2. CASE y \in S
    <3>1. PICK i \in 1 .. Len(s) : s[i] = y
      BY <2>2 DEF Enumerates
    <3>2. i < p => t[i] = y
      BY <1>1, <1>2, <3>1
    <3>3. i >= p => i + 1 \in 1 .. Len(s) + 1 /\ t[i + 1] = y
      BY <1>1, <1>2, <3>1
    <3> QED BY <1>1, <1>2, <3>1, <3>2, <3>3
  <2> QED BY <2>1, <2>2
<1>4. ASSUME NEW i \in 1 .. Len(t), NEW j \in 1 .. Len(t), t[i] = t[j], i < j PROVE FALSE
  <2>1. i < p /\ j = p => FALSE
    BY <1>1, <1>2, <1>4
  <2>2. i = p => FALSE
    BY <1>1, <1>2, <1>4
  <2>3. \A k, m \in 1 .. Len(s) : s[k] = s[m] => k = m
    BY DEF Enumerates
  <2>4. i < p /\ j < p => FALSE
    <3>1. ASSUME i < p, j < p PROVE FALSE
      <4>1. i \in 1 .. Len(s) /\ j \in 1 .. Len(s) /\ i # j
        BY <1>1, <1>2, <1>4, <3>1
      <4>2. t[i] = s[i] /\ t[j] = s[j]
        BY <1>2, <3>1
      <4> QED BY <1>4, <2>3, <4>1, <4>2
    <3> QED BY <3>1
  <2>5. i < p /\ j > p => FALSE
    <3>1. ASSUME i < p, j > p PROVE FALSE
      <4>1. i \in 1 .. Len(s) /\ j - 1 \in 1 .. Len(s) /\ i # j - 1
        BY <1>1, <1>2, <1>4, <3>1
      <4>2. t[i] = s[i] /\ t[j] = s[j - 1]
        BY <1>1, <1>2, <3>1
      <4> QED BY <1>4, <2>3, <4>1, <4>2
    <3> QED BY <3>1
  <2>6. i > p => FALSE
    <3>1. ASSUME i > p PROVE FALSE
      <4>1. i - 1 \in 1 .. Len(s) /\ j - 1 \in 1 .. Len(s) /\ i - 1 # j - 1 /\ j > p
        BY <1>1, <1>2, <1>4, <3>1
      <4>2. t[i] = s[i - 1] /\ t[j] = s[j - 1]
        BY <1>1, <1>2, <3>1, <4>1
      <4> QED BY <1>4, <2>3, <4>1, <4>2
    <3> QED BY <3>1
  <2> QED BY <1>1, <1>2, <1>4, <2>1, <2>2, <2>4, <2>5, <2>6
<1>5. \A i, j \in 1 .. Len(t) : t[i] = t[j] => i = j
  <2>1. \A i, j \in 1 .. Len(t) : i < j \/ i = j \/ j < i
    BY <1>1, <1>2
  <2> QED BY <1>4, <2>1
<1> QED BY <1>2, <1>3, <1>5 DEF Enumerates, t

\* Ranks that put the members of a set in one order.
Ranks(S, rank) ==
  /\ \E n \in Nat : \A x \in S : rank[x] \in [1 .. n -> Int]
  /\ \A x, y \in S : rank[x] = rank[y] => x = y
Ascends(s, rank) == \A i, j \in 1 .. Len(s) : i < j => Below(rank[s[i]], rank[s[j]])

LEMMA BelowOrders ==
  ASSUME NEW n \in Nat
  PROVE  /\ \A p \in [1 .. n -> Int] : ~Below(p, p)
         /\ \A p, q, r \in [1 .. n -> Int] : Below(p, q) /\ Below(q, r) => Below(p, r)
         /\ \A p, q \in [1 .. n -> Int] : Below(p, q) \/ p = q \/ Below(q, p)
<1>1. ASSUME NEW p \in [1 .. n -> Int] PROVE ~Below(p, p)
  BY DEF Below
<1>2. ASSUME NEW p \in [1 .. n -> Int], NEW q \in [1 .. n -> Int], NEW r \in [1 .. n -> Int],
             Below(p, q), Below(q, r)
      PROVE  Below(p, r)
  <2>1. PICK k \in 1 .. n : p[k] < q[k] /\ \A j \in 1 .. k - 1 : p[j] = q[j]
    BY <1>2 DEF Below
  <2>2. PICK m \in 1 .. n : q[m] < r[m] /\ \A j \in 1 .. m - 1 : q[j] = r[j]
    BY <1>2 DEF Below
  <2>3. CASE k < m
    <3>1. p[k] < r[k]
      BY <2>1, <2>2, <2>3
    <3>2. \A j \in 1 .. k - 1 : p[j] = r[j]
      BY <2>1, <2>2, <2>3
    <3> QED BY <3>1, <3>2 DEF Below
  <2>4. CASE m < k
    <3>1. p[m] < r[m]
      BY <2>1, <2>2, <2>4
    <3>2. \A j \in 1 .. m - 1 : p[j] = r[j]
      BY <2>1, <2>2, <2>4
    <3> QED BY <3>1, <3>2 DEF Below
  <2>5. CASE m = k
    <3>1. p[k] < r[k]
      BY <2>1, <2>2, <2>5
    <3>2. \A j \in 1 .. k - 1 : p[j] = r[j]
      BY <2>1, <2>2, <2>5
    <3> QED BY <3>1, <3>2 DEF Below
  <2> QED BY <2>3, <2>4, <2>5
<1>3. ASSUME NEW p \in [1 .. n -> Int], NEW q \in [1 .. n -> Int], p # q
      PROVE  Below(p, q) \/ Below(q, p)
  <2> DEFINE D == {k \in 1 .. n : p[k] # q[k]}
  <2>1. D # {} /\ D \in SUBSET (1 .. n) /\ D \in SUBSET Int
    BY <1>3
  <2>2. IsFiniteSet(D)
    <3> HIDE DEF D
    <3> QED BY <2>1, IntervalSubset
  <2>3. Min(D) \in D /\ \A k \in D : Min(D) <= k
    <3> HIDE DEF D
    <3> QED BY <2>1, <2>2, MinInt
  <2>4. PICK m \in D : \A k \in D : m <= k
    BY <2>3
  <2>5. m \in 1 .. n /\ p[m] # q[m] /\ \A j \in 1 .. m - 1 : p[j] = q[j]
    BY <2>4
  <2>6. p[m] < q[m] \/ q[m] < p[m]
    BY <2>5
  <2> QED BY <2>5, <2>6 DEF Below
<1> QED BY <1>1, <1>2, <1>3

\* A set of numbers from 1 with every number below each of them.
LEMMA Initial ==
  ASSUME NEW n \in Nat, NEW I \in SUBSET (1 .. n), \A i, j \in 1 .. n : i < j /\ j \in I => i \in I
  PROVE  Cardinality(I) \in 0 .. n /\ I = 1 .. Cardinality(I)
<1>1. CASE I = {}
  BY <1>1, FS_EmptySet
<1>2. CASE I # {}
  <2>1. IsFiniteSet(I) /\ I \in SUBSET Int
    BY IntervalSubset
  <2>2. Max(I) \in I /\ \A i \in I : i <= Max(I)
    BY <1>2, <2>1, MaxInt
  <2>3. PICK m \in 1 .. n : m \in I /\ \A i \in I : i <= m
    BY <2>2
  <2>4. I = 1 .. m
    <3>1. ASSUME NEW i \in 1 .. m PROVE i \in I
      <4>1. i = m \/ (i < m /\ i \in 1 .. n)
        BY <2>3
      <4> QED BY <2>3, <4>1
    <3>2. \A i \in I : i \in 1 .. m
      BY <2>3
    <3> QED BY <3>1, <3>2
  <2>5. Cardinality(1 .. m) = m
    BY <2>3, FS_Interval
  <2> QED BY <2>4, <2>5
<1> QED BY <1>1, <1>2

LEMMA InsertAscends ==
  ASSUME NEW S, NEW rank, Ranks(S, rank), NEW s \in Seq(S), Ascends(s, rank),
         NEW x \in S, \A i \in 1 .. Len(s) : s[i] # x, NEW t, NEW p,
         p = 1 + Cardinality({i \in DOMAIN s : Below(rank[s[i]], rank[x])}), IsWith(t, s, p, x)
  PROVE  Ascends(t, rank)
<1> DEFINE n == Len(s)
           I == {i \in DOMAIN s : Below(rank[s[i]], rank[x])}
<1>1. n \in Nat /\ DOMAIN s = 1 .. n /\ \A i \in 1 .. n : s[i] \in S
  OBVIOUS
<1>2. PICK k \in Nat : \A y \in S : rank[y] \in [1 .. k -> Int]
  BY DEF Ranks
<1>3. /\ \A u, v, w \in S : Below(rank[u], rank[v]) /\ Below(rank[v], rank[w]) => Below(rank[u], rank[w])
      /\ \A u, v \in S : Below(rank[u], rank[v]) \/ u = v \/ Below(rank[v], rank[u])
  BY <1>2, BelowOrders DEF Ranks
<1>4. \A i, j \in 1 .. n : i < j => Below(rank[s[i]], rank[s[j]])
  BY DEF Ascends
<1>5. \A i \in 1 .. n : i \in I <=> Below(rank[s[i]], rank[x])
  BY <1>1
<1>6. I \in SUBSET (1 .. n) /\ p = 1 + Cardinality(I)
  BY <1>1
<1>7. /\ Len(t) = n + 1
      /\ \A i \in 1 .. n + 1 : t[i] = IF i < p THEN s[i] ELSE IF i = p THEN x ELSE s[i - 1]
  BY DEF IsWith
<1> HIDE DEF n, I
<1>8. \A i, j \in 1 .. n : i < j /\ j \in I => i \in I
  BY <1>1, <1>3, <1>4, <1>5
<1>9. Cardinality(I) \in 0 .. n /\ I = 1 .. Cardinality(I)
  BY <1>1, <1>6, <1>8, Initial
<1>10. p \in 1 .. n + 1 /\ \A i \in 1 .. n : i < p <=> Below(rank[s[i]], rank[x])
  <2>1. PICK c \in 0 .. n : c = Cardinality(I)
    BY <1>9
  <2>2. I = 1 .. c /\ p = 1 + c
    BY <1>6, <1>9, <2>1
  <2>3. ASSUME NEW i \in 1 .. n PROVE i < p <=> i \in I
    <3>1. i < 1 + c <=> i \in 1 .. c
      BY <2>1
    <3> QED BY <2>2, <3>1
  <2> QED BY <1>1, <1>5, <2>1, <2>2, <2>3
<1>11. \A i \in 1 .. n : i >= p => Below(rank[x], rank[s[i]])
  BY <1>1, <1>3, <1>10 DEF n
<1>12. ASSUME NEW i \in 1 .. n + 1, NEW j \in 1 .. n + 1, i < j
       PROVE  Below(rank[t[i]], rank[t[j]])
  <2>1. CASE j < p
    <3>1. i \in 1 .. n /\ j \in 1 .. n /\ i < p
      BY <1>1, <1>10, <1>12, <2>1
    <3>2. t[i] = s[i] /\ t[j] = s[j]
      BY <1>7, <2>1, <3>1
    <3> QED BY <1>4, <1>12, <3>1, <3>2
  <2>2. CASE j = p
    <3>1. i \in 1 .. n /\ i < p
      BY <1>1, <1>10, <1>12, <2>2
    <3>2. t[i] = s[i] /\ t[j] = x
      BY <1>7, <1>10, <2>2, <3>1
    <3> QED BY <1>10, <3>1, <3>2
  <2>3. CASE j > p /\ i < p
    <3>1. i \in 1 .. n /\ j - 1 \in 1 .. n /\ i < j - 1
      BY <1>1, <1>10, <1>12, <2>3
    <3>2. t[i] = s[i] /\ t[j] = s[j - 1]
      BY <1>7, <1>10, <2>3, <3>1
    <3> QED BY <1>4, <3>1, <3>2
  <2>4. CASE j > p /\ i = p
    <3>1. j - 1 \in 1 .. n /\ j - 1 >= p
      BY <1>1, <1>10, <1>12, <2>4
    <3>2. t[i] = x /\ t[j] = s[j - 1]
      BY <1>7, <1>10, <2>4, <3>1
    <3> QED BY <1>11, <3>1, <3>2
  <2>5. CASE i > p
    <3>1. i - 1 \in 1 .. n /\ j - 1 \in 1 .. n /\ i - 1 < j - 1 /\ j > p
      BY <1>1, <1>10, <1>12, <2>5
    <3>2. t[i] = s[i - 1] /\ t[j] = s[j - 1]
      BY <1>7, <1>10, <2>5, <3>1
    <3> QED BY <1>4, <3>1, <3>2
  <2> QED BY <1>10, <2>1, <2>2, <2>3, <2>4, <2>5
<1> QED BY <1>7, <1>12 DEF Ascends

\* A set in order is one list.
LEMMA OneOrder ==
  ASSUME NEW S, NEW rank, Ranks(S, rank), NEW s, Enumerates(s, S), Ascends(s, rank),
         NEW t, Enumerates(t, S), Ascends(t, rank)
  PROVE  s = t
<1> DEFINE n == Len(s)
           m == Len(t)
<1>1. /\ n \in Nat /\ DOMAIN s = 1 .. n /\ \A i \in 1 .. n : s[i] \in S
      /\ \A x \in S : \E i \in 1 .. n : s[i] = x
      /\ \A i, j \in 1 .. n : s[i] = s[j] => i = j
      /\ s = [i \in 1 .. n |-> s[i]]
  BY DEF Enumerates
<1>2. /\ m \in Nat /\ DOMAIN t = 1 .. m /\ \A i \in 1 .. m : t[i] \in S
      /\ \A x \in S : \E i \in 1 .. m : t[i] = x
      /\ \A i, j \in 1 .. m : t[i] = t[j] => i = j
      /\ t = [i \in 1 .. m |-> t[i]]
  BY DEF Enumerates
<1>3. PICK k \in Nat : \A y \in S : rank[y] \in [1 .. k -> Int]
  BY DEF Ranks
<1>4. \A u, v \in S : ~(Below(rank[u], rank[v]) /\ Below(rank[v], rank[u]))
  BY <1>3, BelowOrders
<1>5. /\ \A i, j \in 1 .. n : i < j => Below(rank[s[i]], rank[s[j]])
      /\ \A i, j \in 1 .. m : i < j => Below(rank[t[i]], rank[t[j]])
  BY DEF Ascends
<1> HIDE DEF n, m
<1>6. ASSUME NEW i \in Nat, i >= 1, i <= n, i <= m, \A j \in 1 .. i - 1 : s[j] = t[j]
      PROVE  s[i] = t[i]
  <2>1. i \in 1 .. n /\ i \in 1 .. m
    BY <1>1, <1>2, <1>6
  <2>2. PICK j \in 1 .. m : t[j] = s[i]
    BY <1>1, <1>2, <2>1
  <2>3. PICK h \in 1 .. n : s[h] = t[i]
    BY <1>1, <1>2, <2>1
  <2>4. ~(j < i)
    <3>1. ASSUME j < i PROVE FALSE
      <4>1. j \in 1 .. i - 1 /\ j \in 1 .. n /\ j # i
        BY <1>1, <1>2, <1>6, <2>1, <3>1
      <4>2. s[j] = t[j]
        BY <1>6, <4>1
      <4> QED BY <1>1, <2>1, <2>2, <4>1, <4>2
    <3> QED BY <3>1
  <2>5. ~(h < i)
    <3>1. ASSUME h < i PROVE FALSE
      <4>1. h \in 1 .. i - 1 /\ h \in 1 .. m /\ h # i
        BY <1>1, <1>2, <1>6, <2>1, <3>1
      <4>2. s[h] = t[h]
        BY <1>6, <4>1
      <4> QED BY <1>2, <2>1, <2>3, <4>1, <4>2
    <3> QED BY <3>1
  <2>6. ASSUME i < j, i < h PROVE FALSE
    <3>1. Below(rank[t[i]], rank[s[i]]) /\ Below(rank[s[i]], rank[t[i]])
      BY <1>5, <2>1, <2>2, <2>3, <2>6
    <3> QED BY <1>1, <1>2, <1>4, <2>1, <3>1
  <2>7. i = j \/ i = h
    BY <2>1, <2>2, <2>3, <2>4, <2>5, <2>6
  <2> QED BY <2>2, <2>3, <2>7
<1> DEFINE E == {k0 \in Nat : \A i \in Nat : 1 <= i /\ i <= k0 /\ i <= n /\ i <= m => s[i] = t[i]}
<1>7. E = Nat
  <2>1. 0 \in E
    OBVIOUS
  <2>2. ASSUME NEW k0 \in E PROVE k0 + 1 \in E
    <3>1. k0 \in Nat /\ \A i \in Nat : 1 <= i /\ i <= k0 /\ i <= n /\ i <= m => s[i] = t[i]
      OBVIOUS
    <3>2. ASSUME NEW i \in Nat, 1 <= i, i <= k0 + 1, i <= n, i <= m PROVE s[i] = t[i]
      <4>1. ASSUME NEW j \in 1 .. i - 1 PROVE s[j] = t[j]
        <5>1. j \in Nat /\ 1 <= j /\ j <= k0 /\ j <= n /\ j <= m
          BY <1>1, <1>2, <3>1, <3>2
        <5> QED BY <3>1, <5>1
      <4> QED BY <1>6, <3>2, <4>1
    <3> QED BY <3>1, <3>2
  <2>3. E \in SUBSET Nat
    OBVIOUS
  <2> HIDE DEF E
  <2> QED BY <2>1, <2>2, <2>3, NatsAll
<1>8. ASSUME NEW i \in Nat, 1 <= i, i <= n, i <= m PROVE s[i] = t[i]
  <2>1. i \in E
    BY <1>7
  <2> QED BY <1>8, <2>1
<1> HIDE DEF E
<1>9. ~(n < m)
  <2>1. ASSUME n < m PROVE FALSE
    <3>1. n + 1 \in 1 .. m
      BY <1>1, <1>2, <2>1
    <3>2. PICK i \in 1 .. n : s[i] = t[n + 1]
      BY <1>1, <1>2, <3>1
    <3>3. s[i] = t[i] /\ i \in 1 .. m
      BY <1>1, <1>2, <1>8, <2>1, <3>2
    <3> QED BY <1>1, <1>2, <3>1, <3>2, <3>3
  <2> QED BY <2>1
<1>10. ~(m < n)
  <2>1. ASSUME m < n PROVE FALSE
    <3>1. m + 1 \in 1 .. n
      BY <1>1, <1>2, <2>1
    <3>2. PICK i \in 1 .. m : t[i] = s[m + 1]
      BY <1>1, <1>2, <3>1
    <3>3. s[i] = t[i] /\ i \in 1 .. n
      BY <1>1, <1>2, <1>8, <2>1, <3>2
    <3> QED BY <1>1, <1>2, <3>1, <3>2, <3>3
  <2> QED BY <2>1
<1>11. n = m
  BY <1>1, <1>2, <1>9, <1>10
<1>12. \A i \in 1 .. n : s[i] = t[i]
  BY <1>1, <1>8, <1>11
<1> QED BY <1>1, <1>2, <1>11, <1>12

LEMMA SortedEnumerates ==
  ASSUME NEW S, IsFiniteSet(S), NEW rank
  PROVE  /\ Enumerates(Sorted(S, rank), S) /\ Len(Sorted(S, rank)) = Cardinality(S)
         /\ Ranks(S, rank) => Ascends(Sorted(S, rank), rank)
<1> DEFINE place(s, x) == 1 + Cardinality({i \in DOMAIN s : Below(rank[s[i]], rank[x])})
           op(x, s) == InsertAt(s, place(s, x), x)
           pick == [s \in SUBSET S |-> CHOOSE x \in s : TRUE]
           G == [p \in S \X Seq(S) |-> op(p[1], p[2])]
           iter == CHOOSE h : h = [s \in SUBSET S |-> IF s = {} THEN <<>>
                                     ELSE op(CHOOSE x \in s : TRUE, h[s \ {CHOOSE x \in s : TRUE}])]
<1>1. Sorted(S, rank) = iter[S]
  BY DEF Sorted, FoldSet, MapThenFoldSet
<1>2. ASSUME NEW T, NEW s \in Seq(T), NEW x PROVE place(s, x) \in 1 .. Len(s) + 1
  <2> DEFINE I == {i \in DOMAIN s : Below(rank[s[i]], rank[x])}
         n == Len(s)
  <2>1. n \in Nat /\ I \in SUBSET (1 .. n)
    OBVIOUS
  <2> HIDE DEF I, n
  <2>2. Cardinality(I) \in Nat /\ Cardinality(I) <= n
    BY <2>1, IntervalSubset
  <2>3. 1 + Cardinality(I) \in 1 .. n + 1
    BY <2>1, <2>2
  <2> QED BY <2>3 DEF I, n
<1>3. \A x \in S, s \in Seq(S) : op(x, s) \in Seq(S)
  <2> HIDE DEF place
  <2>1. \A x \in S : S \cup {x} = S
    OBVIOUS
  <2> QED BY <1>2, <2>1, Inserted
<1>4. \A s \in SUBSET S : s # {} => pick[s] = (CHOOSE x \in s : TRUE) /\ pick[s] \in s
  OBVIOUS
<1> HIDE DEF op, pick
<1>5. G \in [S \X Seq(S) -> Seq(S)] /\ \A x \in S, s \in Seq(S) : G[<<x, s>>] = op(x, s)
  BY <1>3
<1>6. <<>> \in Seq(S)
  OBVIOUS
<1> HIDE DEF G, iter
<1>7. PICK g \in [SUBSET S -> Seq(S)] :
        \A s \in SUBSET S : g[s] = IF s = {} THEN <<>> ELSE G[<<pick[s], g[s \ {pick[s]}]>>]
  <2> DEFINE D == Seq(S)
             empty == <<>>
  <2>1. \A s \in SUBSET S : s # {} => pick[s] \in s
    BY <1>4
  <2>2. G \in [S \X D -> D] /\ empty \in D
    BY <1>5, <1>6
  <2> HIDE DEF D, empty
  <2>3. \E g \in [SUBSET S -> D] : IsFold(g, S, empty, G, pick)
    BY <2>1, <2>2, SetFold DEF Picks
  <2> QED BY <2>3 DEF D, empty, IsFold
<1>8. g = [s \in SUBSET S |-> IF s = {} THEN <<>>
             ELSE op(CHOOSE x \in s : TRUE, g[s \ {CHOOSE x \in s : TRUE}])]
  <2>1. ASSUME NEW s \in SUBSET S, s # {}
        PROVE  g[s] = op(CHOOSE x \in s : TRUE, g[s \ {CHOOSE x \in s : TRUE}])
    <3>1. pick[s] \in S /\ s \ {pick[s]} \in SUBSET S
      BY <1>4, <2>1
    <3>2. g[s] = op(pick[s], g[s \ {pick[s]}])
      BY <1>5, <1>7, <2>1, <3>1
    <3> QED BY <1>4, <2>1, <3>2
  <2>2. g[{}] = <<>>
    BY <1>7
  <2> QED BY <2>1, <2>2
<1>9. iter = [s \in SUBSET S |-> IF s = {} THEN <<>>
                ELSE op(CHOOSE x \in s : TRUE, iter[s \ {CHOOSE x \in s : TRUE}])]
  BY <1>8 DEF iter
<1> DEFINE Q == {s \in SUBSET S : /\ Enumerates(iter[s], s) /\ Len(iter[s]) = Cardinality(s)
                                  /\ Ranks(S, rank) => Ascends(iter[s], rank)}
<1>10. Q \in SUBSET (SUBSET S) /\ {} \in Q
  <2>1. iter[{}] = <<>>
    BY <1>9
  <2>2. Enumerates(<<>>, {}) /\ Len(<<>>) = Cardinality({}) /\ Ascends(<<>>, rank)
    BY FS_EmptySet DEF Enumerates, Ascends
  <2> QED BY <2>1, <2>2
<1>11. ASSUME NEW s \in SUBSET S, s # {} PROVE pick[s] \in s /\ (s \ {pick[s]} \in Q => s \in Q)
  <2>1. pick[s] \in s /\ s \ {pick[s]} \in SUBSET S /\ pick[s] \notin s \ {pick[s]}
        /\ (s \ {pick[s]}) \cup {pick[s]} = s
    BY <1>4, <1>11
  <2> DEFINE t == s \ {pick[s]}
  <2>2. iter[s] = op(pick[s], iter[t])
    BY <1>4, <1>9, <1>11
  <2>3. ASSUME t \in Q
        PROVE  /\ Enumerates(iter[s], s) /\ Len(iter[s]) = Cardinality(s)
               /\ Ranks(S, rank) => Ascends(iter[s], rank)
    <3>1. Enumerates(iter[t], t) /\ Len(iter[t]) = Cardinality(t) /\ iter[t] \in Seq(t)
      BY <2>3 DEF Enumerates
    <3>2. Cardinality(t) = Cardinality(s) - 1 /\ Cardinality(s) \in Nat
      <4>1. pick[s] \in s
        BY <2>1
      <4> HIDE DEF place, Q
      <4>2. \A x \in s : Cardinality(s \ {x}) = Cardinality(s) - 1 /\ Cardinality(s) \in Nat
        BY SmallerSubset
      <4> QED BY <4>1, <4>2
    <3>3. place(iter[t], pick[s]) \in 1 .. Len(iter[t]) + 1
      BY <1>2, <3>1
    <3>4. Ranks(S, rank) => Ascends(iter[t], rank)
      BY <2>3
    <3>5. place(iter[t], pick[s]) = 1 + Cardinality({i \in DOMAIN iter[t] : Below(rank[iter[t][i]], rank[pick[s]])})
      OBVIOUS
    <3> HIDE DEF place, t
    <3>6. t \cup {pick[s]} = s /\ pick[s] \notin t
      BY <2>1 DEF t
    <3>7. iter[s] = InsertAt(iter[t], place(iter[t], pick[s]), pick[s])
      BY <2>2 DEF op, t
    <3>8. Enumerates(iter[s], s)
      BY <3>1, <3>3, <3>6, <3>7, InsertEnumerates
    <3>9. IsWith(iter[s], iter[t], place(iter[t], pick[s]), pick[s])
      BY <3>1, <3>3, <3>7, Inserted
    <3>10. pick[s] \in S /\ iter[t] \in Seq(S) /\ \A i \in 1 .. Len(iter[t]) : iter[t][i] # pick[s]
      <4>1. pick[s] \in S /\ t \in SUBSET S
        BY <2>1 DEF t
      <4>2. iter[t] \in Seq(S)
        BY <3>1, <4>1, SeqMonotonic
      <4> QED BY <3>1, <3>6, <4>1, <4>2
    <3>11. Ranks(S, rank) => Ascends(iter[s], rank)
      BY <3>9, <3>10, <3>4, <3>5, InsertAscends
    <3> QED BY <3>1, <3>2, <3>8, <3>9, <3>11 DEF t, IsWith
  <2> QED BY <2>1, <2>3
<1>12. S \in Q
  <2> HIDE DEF Q
  <2>1. Climbs(Q, S, pick)
    BY <1>11 DEF Climbs
  <2> QED BY <1>10, <2>1, SetsAll
<1> QED BY <1>1, <1>12

-----------------------------------------------------------------------------
(* Rooms *)

AreaRowIn(V) == [id : Nat \ {Null}, piece : Nat, position : Int, startsAt : V, own : BOOLEAN]
RoomIn(V) == [pieces : SUBSET PieceRow, areas : SUBSET AreaRowIn(V), named : SUBSET Nat,
              nextArea : Nat \ {Null}, rules : [Rules -> [area : Nat, piece : Nat]]]

\* A room that keeps the schema, with its anchors in V.
Sound(rm, V) ==
  rm \in RoomIn(V) /\ IsFiniteSet(rm.pieces) /\ IsFiniteSet(rm.areas) /\ SchemaHolds(rm)

LEMMA IdsIn ==
  ASSUME NEW rows PROVE \A id : id \in IdsOf(rows) <=> \E row \in rows : row.id = id
BY DEF IdsOf

LEMMA RowOf ==
  ASSUME NEW V, NEW rm, Sound(rm, V), NEW id \in IdsOf(rm.areas)
  PROVE  Row(rm, id) \in rm.areas /\ Row(rm, id).id = id
BY DEF Row, IdsOf

LEMMA PieceOfArea ==
  ASSUME NEW V, NEW rm, Sound(rm, V), NEW a, a.piece \in IdsOf(rm.pieces)
  PROVE  PieceOf(rm, a) \in rm.pieces /\ PieceOf(rm, a).id = a.piece /\ PieceOf(rm, a) \in PieceRow
BY DEF PieceOf, IdsOf, Sound, RoomIn

\* What a change of one plank has to see to.
LEMMA ChangedSound ==
  ASSUME NEW V, NEW rm, Sound(rm, V), NEW area \in rm.areas, NEW new \in AreaRowIn(V),
         new.id = area.id, new.piece = area.piece,
         \A c \in rm.areas : c # area /\ c.piece = area.piece => c.position # new.position
  PROVE  /\ Sound(Changed(rm, area, new), V)
         /\ Changed(rm, area, new).areas = (rm.areas \ {area}) \cup {new}
         /\ IdsOf(Changed(rm, area, new).areas) = IdsOf(rm.areas)
         /\ Changed(rm, area, new).named = rm.named
         /\ Changed(rm, area, new).pieces = rm.pieces
         /\ Changed(rm, area, new).rules = rm.rules
<1> DEFINE to == Changed(rm, area, new)
           A == (rm.areas \ {area}) \cup {new}
<1>1. rm \in RoomIn(V) /\ A \in SUBSET AreaRowIn(V)
  BY DEF Sound, RoomIn
<1>2. /\ to \in RoomIn(V) /\ to.areas = A /\ to.named = rm.named /\ to.pieces = rm.pieces
      /\ to.rules = rm.rules /\ to.nextArea = rm.nextArea
  BY <1>1 DEF Changed, RoomIn
<1>3. IsFiniteSet(A)
  BY FS_RemoveElement, FS_AddElement DEF Sound
<1>4. IdsOf(A) = IdsOf(rm.areas)
  <2>1. \A id \in IdsOf(A) : id \in IdsOf(rm.areas)
    BY DEF IdsOf
  <2>2. ASSUME NEW a \in rm.areas PROVE \E c \in A : c.id = a.id
    OBVIOUS
  <2> QED BY <2>1, <2>2 DEF IdsOf
<1> HIDE DEF to
<1>5. OnePlankAPlace(to)
  BY <1>2 DEF Sound, SchemaHolds, OnePlankAPlace
<1>6. \A a \in A : a.id < rm.nextArea /\ a.piece \in IdsOf(rm.pieces)
  BY DEF Sound, SchemaHolds
<1> HIDE DEF A
<1>7. SchemaHolds(to)
  BY <1>2, <1>4, <1>5, <1>6 DEF Sound, SchemaHolds
<1> QED BY <1>2, <1>3, <1>4, <1>7 DEF Sound, to, A

LEMMA RepointedSound ==
  ASSUME NEW V, NEW rm, Sound(rm, V), NEW area \in rm.areas
  PROVE  /\ Sound(Repointed(rm, area), V)
         /\ Repointed(rm, area).areas = rm.areas
         /\ Repointed(rm, area).named = rm.named
         /\ Repointed(rm, area).pieces = rm.pieces
         /\ (\A r \in Rules : rm.rules[r].area # area.id) => Repointed(rm, area).rules = rm.rules
<1> DEFINE to == Repointed(rm, area)
           R == [r \in Rules |-> IF rm.rules[r].area = area.id
                                 THEN [area |-> Null, piece |-> area.piece] ELSE rm.rules[r]]
<1>1. rm \in RoomIn(V) /\ area \in AreaRowIn(V) /\ rm.rules \in [Rules -> [area : Nat, piece : Nat]]
  BY DEF Sound, RoomIn
<1>2. R \in [Rules -> [area : Nat, piece : Nat]]
  BY <1>1 DEF AreaRowIn, Null
<1>3. /\ to \in RoomIn(V) /\ to.areas = rm.areas /\ to.named = rm.named /\ to.pieces = rm.pieces
      /\ to.rules = R /\ to.nextArea = rm.nextArea
  BY <1>1, <1>2 DEF Repointed, RoomIn
<1>4. (\A r \in Rules : rm.rules[r].area # area.id) => R = rm.rules
  BY <1>1
<1>5. \A r \in Rules : /\ R[r].area \in IdsOf(rm.areas) \cup {Null}
                       /\ R[r].piece \in IdsOf(rm.pieces) \cup {Null}
  BY DEF Sound, SchemaHolds
<1> HIDE DEF to, R
<1>6. SchemaHolds(to)
  BY <1>3, <1>5 DEF Sound, SchemaHolds, OnePlankAPlace
<1> QED BY <1>3, <1>4, <1>6 DEF Sound, to

\* An area that comes off its face goes to a place below it where there is none.
LEMMA RetireAreaSound ==
  ASSUME NEW V, NEW rm, Sound(rm, V), NEW id \in IdsOf(rm.areas)
  PROVE  /\ Sound(RetireArea(rm, id), V)
         /\ IdsOf(RetireArea(rm, id).areas) = IdsOf(rm.areas)
         /\ RetireArea(rm, id).named = rm.named
         /\ RetireArea(rm, id).pieces = rm.pieces
         /\ (\A r \in Rules : rm.rules[r].area # id) => RetireArea(rm, id).rules = rm.rules
         /\ \E new : /\ RetireArea(rm, id).areas = (rm.areas \ {Row(rm, id)}) \cup {new}
                     /\ new.id = id /\ new.piece = Row(rm, id).piece
                     /\ Row(rm, id).position >= 0 => new.position < 0
<1> DEFINE area == Row(rm, id)
           others == {a \in rm.areas : a.piece = area.piece /\ a # area}
           taken == \E a \in others : a.position = RetiredPosition(area.position)
           numbers == {a.position : a \in others \cup {area}}
           low == Min(numbers) - 1
           to == IF taken THEN low ELSE RetiredPosition(area.position)
           new == [area EXCEPT !.position = IF taken THEN low ELSE RetiredPosition(@)]
<1>1. area \in rm.areas /\ area.id = id /\ area \in AreaRowIn(V) /\ rm.areas \in SUBSET AreaRowIn(V)
  BY RowOf DEF Sound, RoomIn
<1>2. RetireArea(rm, id) = Changed(Repointed(rm, area), area, new)
  BY DEF RetireArea
<1>3. numbers \in SUBSET Int /\ IsFiniteSet(numbers) /\ area.position \in numbers
  <2>1. IsFiniteSet(others \cup {area})
    <3>1. others \cup {area} \in SUBSET rm.areas
      BY <1>1
    <3> QED BY <3>1, FS_Subset DEF Sound
  <2>2. numbers \in SUBSET Int
    BY <1>1 DEF AreaRowIn
  <2> DEFINE O == others \cup {area}
             f == [a \in O |-> a.position]
  <2>3. f \in Surjection(O, numbers)
    BY DEF Surjection
  <2>4. IsFiniteSet(numbers)
    <3> HIDE DEF O, f, numbers
    <3>1. IsFiniteSet(O)
      BY <2>1 DEF O
    <3> QED BY <2>3, <3>1, FS_Surjection
  <2> QED BY <2>2, <2>4
<1>4. low \in Int /\ \A a \in others : low < a.position
  <2>1. \A a \in others : a.position \in numbers
    OBVIOUS
  <2> HIDE DEF numbers, others
  <2>2. Min(numbers) \in numbers /\ \A n \in numbers : Min(numbers) <= n
    BY <1>3, MinInt
  <2>3. PICK m \in numbers : m = Min(numbers) /\ \A n \in numbers : m <= n
    BY <2>2
  <2>4. \A n \in numbers : n \in Int
    BY <1>3
  <2>5. m \in Int /\ \A n \in numbers : n \in Int /\ m - 1 < n
    BY <2>3, <2>4
  <2>6. low = m - 1
    BY <2>3
  <2> HIDE DEF low
  <2>7. \A a \in others : low < a.position
    BY <2>1, <2>5, <2>6
  <2> QED BY <2>5, <2>6, <2>7
<1>5. to \in Int /\ (area.position >= 0 => to < 0) /\ \A a \in others : a.position # to
  <2>1. area.position \in Int /\ RetiredPosition(area.position) \in Int
        /\ (area.position >= 0 => RetiredPosition(area.position) < 0)
    BY <1>1 DEF AreaRowIn, RetiredPosition
  <2>2. ASSUME taken, area.position >= 0 PROVE low < 0
    <3>1. PICK a \in others : a.position = RetiredPosition(area.position)
      BY <2>2
    <3> HIDE DEF low, others
    <3> QED BY <1>4, <2>1, <2>2, <3>1
  <2>3. taken => \A a \in others : a.position # low
    <3>1. \A a \in others : a.position \in Int
      BY <1>1 DEF AreaRowIn
    <3> HIDE DEF low, others
    <3> QED BY <1>4, <3>1
  <2> HIDE DEF low
  <2> QED BY <1>4, <2>1, <2>2, <2>3
<1>6. new \in AreaRowIn(V) /\ new.id = id /\ new.piece = area.piece /\ new.position = to
  <2> HIDE DEF taken, low, area
  <2>1. (IF taken THEN low ELSE RetiredPosition(area.position)) \in Int
    BY <1>5
  <2> QED BY <1>1, <2>1 DEF AreaRowIn
<1> HIDE DEF new, to
<1>7. \A c \in rm.areas : c # area /\ c.piece = area.piece => c.position # new.position
  BY <1>5, <1>6
<1> HIDE DEF area
<1> DEFINE mid == Repointed(rm, area)
<1>8. /\ Sound(mid, V) /\ mid.areas = rm.areas /\ mid.named = rm.named /\ mid.pieces = rm.pieces
      /\ (\A r \in Rules : rm.rules[r].area # id) => mid.rules = rm.rules
  BY <1>1, RepointedSound
<1> HIDE DEF mid
<1>9. /\ Sound(Changed(mid, area, new), V)
      /\ Changed(mid, area, new).areas = (mid.areas \ {area}) \cup {new}
      /\ IdsOf(Changed(mid, area, new).areas) = IdsOf(mid.areas)
      /\ Changed(mid, area, new).named = mid.named
      /\ Changed(mid, area, new).pieces = mid.pieces
      /\ Changed(mid, area, new).rules = mid.rules
  BY <1>1, <1>6, <1>7, <1>8, ChangedSound
<1>10. RetireArea(rm, id) = Changed(mid, area, new)
  BY <1>2 DEF mid
<1>11. area.position >= 0 => new.position < 0
  BY <1>5, <1>6
<1> QED BY <1>6, <1>8, <1>9, <1>10, <1>11 DEF area

\* An area no row and no rule names goes for good; any other is retired.
OneOff(rm, to, id) ==
  /\ \A c \in rm.areas : c.id # id => c \in to.areas
  /\ \A c \in to.areas :
       \/ c \in rm.areas /\ c.id # id
       \/ \E a \in rm.areas : /\ a.id = id /\ c.id = id /\ c.piece = a.piece
                              /\ a.position >= 0 => c.position < 0

LEMMA RetireOrRemoveSound ==
  ASSUME NEW V, NEW rm, Sound(rm, V), NEW id \in Nat \ {Null}
  PROVE  /\ Sound(RetireOrRemove(rm, id), V)
         /\ RetireOrRemove(rm, id).named = rm.named
         /\ RetireOrRemove(rm, id).pieces = rm.pieces
         /\ (\A r \in Rules : rm.rules[r].area # id) => RetireOrRemove(rm, id).rules = rm.rules
         /\ OneOff(rm, RetireOrRemove(rm, id), id)
<1> USE DEF OneOff
<1> DEFINE kept == id \in rm.named \/ \E r \in Rules : rm.rules[r].area = id
<1>1. CASE kept
  <2>1. id \in IdsOf(rm.areas)
    BY <1>1 DEF Sound, SchemaHolds
  <2>2. RetireOrRemove(rm, id) = RetireArea(rm, id)
    BY <1>1 DEF RetireOrRemove
  <2>3. Row(rm, id) \in rm.areas /\ Row(rm, id).id = id
    BY <2>1, RowOf
  <2>4. \A c \in rm.areas : c.id # id => c # Row(rm, id)
    BY <2>3
  <2>5. \A c \in rm.areas : c # Row(rm, id) => c.id # id
    BY <2>3 DEF Sound, SchemaHolds, OnePlankAPlace
  <2> QED BY <2>1, <2>2, <2>3, <2>4, <2>5, RetireAreaSound
<1>2. CASE ~kept
  <2> DEFINE A == {a \in rm.areas : a.id # id}
             to == [rm EXCEPT !.areas = A]
  <2>1. RetireOrRemove(rm, id) = to
    BY <1>2 DEF RetireOrRemove
  <2>2. rm \in RoomIn(V) /\ A \in SUBSET rm.areas
    BY DEF Sound
  <2>3. /\ to \in RoomIn(V) /\ to.areas = A /\ to.named = rm.named /\ to.pieces = rm.pieces
        /\ to.rules = rm.rules /\ to.nextArea = rm.nextArea
    BY <2>2 DEF RoomIn
  <2>4. IsFiniteSet(A)
    BY <2>2, FS_Subset DEF Sound
  <2>5. \A other \in IdsOf(rm.areas) : other # id => other \in IdsOf(A)
    BY DEF IdsOf
  <2>6. rm.named \subseteq IdsOf(A)
    BY <1>2, <2>5 DEF Sound, SchemaHolds
  <2>7. \A r \in Rules : rm.rules[r].area \in IdsOf(A) \cup {Null}
    BY <1>2, <2>5 DEF Sound, SchemaHolds
  <2>8. \A c \in rm.areas : c.id # id => c \in A
    OBVIOUS
  <2>9. \A c \in A : c \in rm.areas /\ c.id # id
    OBVIOUS
  <2> HIDE DEF A, to
  <2>10. SchemaHolds(to)
    BY <2>2, <2>3, <2>6, <2>7 DEF Sound, SchemaHolds, OnePlankAPlace
  <2> QED BY <2>1, <2>3, <2>4, <2>8, <2>9, <2>10 DEF Sound
<1> QED BY <1>1, <1>2

LEMMA PieceAtIs ==
  ASSUME NEW V, NEW rm, Sound(rm, V), NEW position,
         \E f \in rm.pieces : f.position = position
  PROVE  PieceAt(rm, position) \in IdsOf(rm.pieces) /\ PieceAt(rm, position) # Null
         /\ PieceAt(rm, position) \in Nat
<1> DEFINE there == {f \in rm.pieces : f.position = position}
           ids == {f.id : f \in there}
           g == [f \in there |-> f.id]
<1>1. rm.pieces \in SUBSET PieceRow
  BY DEF Sound, RoomIn
<1>2. IsFiniteSet(there)
  <2>1. there \in SUBSET rm.pieces
    OBVIOUS
  <2> QED BY <2>1, FS_Subset DEF Sound
<1>3. g \in Surjection(there, ids)
  BY DEF Surjection
<1>4. ids \in SUBSET Int /\ ids # {} /\ \A id \in ids : id \in Nat /\ id # Null /\ id \in IdsOf(rm.pieces)
  BY <1>1 DEF PieceRow, IdsOf
<1>5. PieceAt(rm, position) = Min(ids)
  BY DEF PieceAt
<1> HIDE DEF there, ids, g
<1>6. IsFiniteSet(ids)
  BY <1>2, <1>3, FS_Surjection
<1> QED BY <1>4, <1>5, <1>6, MinInt

LEMMA NewIdIsNew ==
  ASSUME NEW rows, IsFiniteSet(rows), \A x \in rows : x.id \in Nat
  PROVE  NewId(rows) \in Nat \ {Null} /\ NewId(rows) \notin IdsOf(rows)
<1> DEFINE ids == {x.id : x \in rows}
           g == [x \in rows |-> x.id]
<1>1. CASE rows = {}
  BY <1>1 DEF NewId, IdsOf, Null
<1>2. CASE rows # {}
  <2>1. g \in Surjection(rows, ids)
    BY DEF Surjection
  <2>2. ids \in SUBSET Nat /\ ids # {}
    BY <1>2
  <2>3. NewId(rows) = 1 + Max(ids) /\ IdsOf(rows) = ids
    BY <1>2 DEF NewId, IdsOf
  <2> HIDE DEF ids, g
  <2>4. IsFiniteSet(ids)
    BY <2>1, FS_Surjection
  <2>5. Max(ids) \in ids /\ \A x \in ids : x <= Max(ids)
    <3>1. ids \in SUBSET Int
      BY <2>2
    <3> QED BY <2>2, <2>4, <3>1, MaxInt
  <2>6. PICK m \in ids : m = Max(ids) /\ \A x \in ids : x <= m
    BY <2>5
  <2>7. \A x \in ids : x \in Nat
    BY <2>2
  <2>8. m \in Nat /\ (\A x \in ids : x \in Nat /\ x < 1 + m) /\ NewId(rows) = 1 + m
    BY <2>3, <2>6, <2>7
  <2>9. 1 + m \in Nat \ {Null} /\ 1 + m \notin ids
    BY <2>8 DEF Null
  <2> QED BY <2>3, <2>8, <2>9
<1> QED BY <1>1, <1>2

LEMMA WithPieceAtSound ==
  ASSUME NEW V, NEW rm, Sound(rm, V), NEW position \in Int
  PROVE  /\ Sound(WithPieceAt(rm, position), V)
         /\ WithPieceAt(rm, position).named = rm.named
         /\ WithPieceAt(rm, position).areas = rm.areas
         /\ WithPieceAt(rm, position).rules = rm.rules
         /\ PieceAt(WithPieceAt(rm, position), position) \in IdsOf(WithPieceAt(rm, position).pieces)
         /\ PieceAt(WithPieceAt(rm, position), position) \in Nat \ {Null}
<1> DEFINE there == {f \in rm.pieces : f.position = position}
<1>1. CASE there # {}
  <2>1. PieceAt(rm, position) \in IdsOf(rm.pieces) /\ PieceAt(rm, position) # Null
        /\ PieceAt(rm, position) \in Nat
    BY <1>1, PieceAtIs
  <2>2. WithPieceAt(rm, position) = rm
    BY <2>1 DEF WithPieceAt
  <2> QED BY <2>1, <2>2
<1>2. CASE there = {}
  <2> DEFINE new == [id |-> NewId(rm.pieces), position |-> position]
             P == rm.pieces \cup {new}
             to == [rm EXCEPT !.pieces = P]
  <2>1. WithPieceAt(rm, position) = to
    BY <1>2 DEF WithPieceAt, PieceAt
  <2>2. rm \in RoomIn(V) /\ rm.pieces \in SUBSET PieceRow /\ IsFiniteSet(rm.pieces)
    BY DEF Sound, RoomIn
  <2>3. NewId(rm.pieces) \in Nat \ {Null} /\ NewId(rm.pieces) \notin IdsOf(rm.pieces)
    BY <2>2, NewIdIsNew DEF PieceRow
  <2>4. new \in PieceRow /\ new.position = position /\ new.id \notin IdsOf(rm.pieces)
    BY <2>3 DEF PieceRow
  <2> HIDE DEF new
  <2>5. P \in SUBSET PieceRow /\ IsFiniteSet(P) /\ new \in P
    BY <2>2, <2>4, FS_AddElement
  <2>6. \A f, g \in P : f.id = g.id => f = g
    BY <2>4 DEF IdsOf, Sound, SchemaHolds
  <2>7. IdsOf(rm.pieces) \subseteq IdsOf(P)
    BY DEF IdsOf
  <2>8. /\ to \in RoomIn(V) /\ to.areas = rm.areas /\ to.named = rm.named /\ to.pieces = P
        /\ to.rules = rm.rules /\ to.nextArea = rm.nextArea
    BY <2>2, <2>5 DEF RoomIn
  <2> HIDE DEF P, to
  <2>9. SchemaHolds(to)
    BY <2>6, <2>7, <2>8 DEF Sound, SchemaHolds, OnePlankAPlace
  <2>10. Sound(to, V)
    BY <2>5, <2>8, <2>9 DEF Sound
  <2>11. \E f \in to.pieces : f.position = position
    BY <2>4, <2>5, <2>8
  <2>12. PieceAt(to, position) \in IdsOf(to.pieces) /\ PieceAt(to, position) # Null
         /\ PieceAt(to, position) \in Nat
    BY <2>10, <2>11, PieceAtIs
  <2> QED BY <2>1, <2>8, <2>10, <2>12
<1> QED BY <1>1, <1>2

LEMMA HangOnSound ==
  ASSUME NEW V, NEW rm, Sound(rm, V), NEW piece \in IdsOf(rm.pieces), piece \in Nat,
         NEW plank, plank.area \in Int, plank.startsAt \in V, NEW opens
  PROVE  /\ Sound(HangOn(rm, piece, plank, opens), V)
         /\ HangOn(rm, piece, plank, opens).named = rm.named
         /\ HangOn(rm, piece, plank, opens).pieces = rm.pieces
<1> DEFINE there(position) == {a \in rm.areas : a.piece = piece /\ a.position = position}
           found == IF there(plank.area) # {} THEN there(plank.area)
                    ELSE there(RetiredPosition(plank.area))
           to == HangOn(rm, piece, plank, opens)
<1>1. rm \in RoomIn(V) /\ rm.areas \in SUBSET AreaRowIn(V) /\ IsFiniteSet(rm.areas)
  BY DEF Sound, RoomIn
<1>2. CASE found = {}
  <2> DEFINE new == [id |-> rm.nextArea, piece |-> piece, position |-> plank.area,
                     startsAt |-> plank.startsAt, own |-> FALSE]
             A == rm.areas \cup {new}
  <2>1. to = [rm EXCEPT !.areas = A, !.nextArea = @ + 1]
    BY <1>2 DEF HangOn
  <2>2. there(plank.area) = {}
    BY <1>2
  <2>3. new \in AreaRowIn(V) /\ new.id = rm.nextArea /\ new.piece = piece /\ new.position = plank.area
    BY <1>1 DEF RoomIn, AreaRowIn
  <2> HIDE DEF new
  <2>4. IsFiniteSet(A) /\ A \in SUBSET AreaRowIn(V)
    BY <1>1, <2>3, FS_AddElement
  <2>5. rm.nextArea + 1 \in Nat \ {Null} /\ rm.nextArea \in Nat
    BY <1>1 DEF RoomIn, Null
  <2>6. /\ to \in RoomIn(V) /\ to.areas = A /\ to.named = rm.named /\ to.pieces = rm.pieces
        /\ to.rules = rm.rules /\ to.nextArea = rm.nextArea + 1
    BY <1>1, <2>1, <2>4, <2>5 DEF RoomIn
  <2>7. \A a \in rm.areas : a.id # new.id /\ a.id \in Nat /\ a.id < rm.nextArea
    BY <1>1, <2>3, <2>5 DEF Sound, SchemaHolds, AreaRowIn
  <2>8. \A a \in rm.areas : a.piece = new.piece => a.position # new.position
    BY <2>2, <2>3
  <2>9. \A a \in A : a = new \/ a \in rm.areas
    OBVIOUS
  <2>10. IdsOf(rm.areas) \subseteq IdsOf(A)
    BY DEF IdsOf
  <2> HIDE DEF A, to, there
  <2>11. OnePlankAPlace(to)
    BY <2>6, <2>7, <2>8, <2>9 DEF Sound, SchemaHolds, OnePlankAPlace
  <2>12. \A a \in A : a.id < rm.nextArea + 1 /\ a.piece \in IdsOf(rm.pieces)
    BY <2>3, <2>5, <2>7, <2>9 DEF Sound, SchemaHolds
  <2>13. SchemaHolds(to)
    BY <2>6, <2>10, <2>11, <2>12 DEF Sound, SchemaHolds
  <2> QED BY <2>4, <2>6, <2>13 DEF Sound, to
<1>3. CASE found # {}
  <2> DEFINE area == CHOOSE a \in found : TRUE
             new == [area EXCEPT !.position = plank.area, !.startsAt = IF opens THEN @ ELSE plank.startsAt]
  <2>1. area \in found /\ area \in rm.areas /\ area.piece = piece
    BY <1>3
  <2>2. to = Changed(rm, area, new)
    BY <1>3 DEF HangOn
  <2>3. \A c \in rm.areas : c # area /\ c.piece = area.piece => c.position # plank.area
    <3>1. CASE there(plank.area) # {}
      <4>1. area.position = plank.area
        BY <2>1, <3>1
      <4> HIDE DEF area, found
      <4> QED BY <2>1, <4>1 DEF Sound, SchemaHolds, OnePlankAPlace
    <3>2. CASE there(plank.area) = {}
      BY <2>1, <3>2
    <3> QED BY <3>1, <3>2
  <2> HIDE DEF area, found
  <2>4. new \in AreaRowIn(V) /\ new.id = area.id /\ new.piece = area.piece /\ new.position = plank.area
    BY <1>1, <2>1 DEF AreaRowIn
  <2> HIDE DEF new, to
  <2> QED BY <2>1, <2>2, <2>3, <2>4, ChangedSound DEF to
<1> QED BY <1>2, <1>3

LEMMA MaxPicks ==
  ASSUME NEW S \in SUBSET Int, IsFiniteSet(S)
  PROVE  LET pick == [s \in SUBSET S |-> Max(s)]
         IN  Picks(pick, S) /\ \A s \in SUBSET S : pick[s] = Max(s)
<1>1. ASSUME NEW s \in SUBSET S, s # {} PROVE Max(s) \in s
  <2>1. s \in SUBSET Int /\ IsFiniteSet(s)
    BY FS_Subset
  <2> QED BY <1>1, <2>1, MaxInt
<1> QED BY <1>1 DEF Picks

LEMMA HangSound ==
  ASSUME NEW V, NEW rm, Sound(rm, V),
         NEW plank, plank.shelf \in Int, plank.area \in Int, plank.startsAt \in V, NEW opens
  PROVE  Sound(Hang(rm, plank, opens), V) /\ Hang(rm, plank, opens).named = rm.named
<1> DEFINE with == WithPieceAt(rm, plank.shelf)
           piece == PieceAt(with, plank.shelf)
<1>1. Hang(rm, plank, opens) = HangOn(with, piece, plank, opens)
  BY DEF Hang
<1>2. Sound(with, V) /\ with.named = rm.named /\ piece \in IdsOf(with.pieces) /\ piece \in Nat
  BY WithPieceAtSound
<1> HIDE DEF with, piece
<1> QED BY <1>1, <1>2, HangOnSound

\* The planks of a run are hung one after the other.
LEMMA HungSound ==
  ASSUME NEW V, NEW rm, Sound(rm, V), NEW n \in Nat, NEW derived, DOMAIN derived = 1 .. n,
         \A i \in 1 .. n : derived[i].shelf \in Int /\ derived[i].area \in Int /\ derived[i].startsAt \in V
  PROVE  Sound(Hung(rm, derived), V) /\ Hung(rm, derived).named = rm.named
<1> DEFINE S == 1 .. n
           places == [i \in DOMAIN derived |-> i]
           D == {r \in RoomIn(V) : Sound(r, V) /\ r.named = rm.named}
           G == [p \in S \X D |-> Hang(p[2], derived[places[p[1]]], places[p[1]] = 1)]
           pick == [s \in SUBSET S |-> Max(s)]
           iter == CHOOSE g : g = [s \in SUBSET S |-> IF s = {} THEN rm
                                     ELSE Hang(g[s \ {Max(s)}], derived[places[Max(s)]], places[Max(s)] = 1)]
<1>1. rm \in D
  BY DEF Sound
<1>2. ASSUME NEW r \in D, NEW x \in S PROVE Hang(r, derived[places[x]], places[x] = 1) \in D
  <2>1. places[x] = x
    OBVIOUS
  <2> HIDE DEF places
  <2> QED BY <2>1, HangSound DEF Sound
<1>3. IsFiniteSet(S) /\ S \in SUBSET Int
  BY FS_Interval
<1> HIDE DEF D, S, places
<1>4. Picks(pick, S) /\ \A s \in SUBSET S : pick[s] = Max(s)
  BY <1>3, MaxPicks
<1>5. G \in [S \X D -> D] /\ \A x \in S, r \in D : G[<<x, r>>] = Hang(r, derived[places[x]], places[x] = 1)
  BY <1>2
<1> HIDE DEF G, pick
<1>6. PICK g \in [SUBSET S -> D] : IsFold(g, S, rm, G, pick)
  BY <1>1, <1>3, <1>4, <1>5, SetFold
<1>7. g = [s \in SUBSET S |-> IF s = {} THEN rm ELSE Hang(g[s \ {Max(s)}], derived[places[Max(s)]], places[Max(s)] = 1)]
  <2>1. ASSUME NEW s \in SUBSET S, s # {} PROVE g[s] = Hang(g[s \ {Max(s)}], derived[places[Max(s)]], places[Max(s)] = 1)
    <3>1. pick[s] \in S /\ s \ {pick[s]} \in SUBSET S /\ pick[s] = Max(s)
      BY <1>4, <2>1 DEF Picks
    <3>2. g[s] = G[<<pick[s], g[s \ {pick[s]}]>>]
      BY <1>6, <2>1 DEF IsFold
    <3> QED BY <1>5, <3>1, <3>2
  <2>2. g[{}] = rm
    BY <1>6 DEF IsFold
  <2> QED BY <2>1, <2>2
<1>8. iter = [s \in SUBSET S |-> IF s = {} THEN rm ELSE Hang(iter[s \ {Max(s)}], derived[places[Max(s)]], places[Max(s)] = 1)]
  BY <1>7
<1>9. Hung(rm, derived) = iter[S]
  BY DEF FoldLeft, MapThenFoldSet, S, Hung, places
<1> HIDE DEF iter
<1>10. iter[{}] = rm
  BY <1>8
<1>11. StepsBy(iter, S, D, G, pick)
  <2>1. ASSUME NEW s \in SUBSET S, s # {}, iter[s \ {pick[s]}] \in D
        PROVE  iter[s] = G[<<pick[s], iter[s \ {pick[s]}]>>]
    <3>1. pick[s] \in S /\ pick[s] = Max(s)
      BY <1>4, <2>1 DEF Picks
    <3>2. iter[s] = Hang(iter[s \ {pick[s]}], derived[places[pick[s]]], places[pick[s]] = 1)
      BY <1>8, <2>1, <3>1
    <3> QED BY <1>5, <2>1, <3>1, <3>2
  <2> QED BY <2>1 DEF StepsBy
<1>12. iter[S] \in D
  BY <1>1, <1>3, <1>4, <1>5, <1>10, <1>11, FoldStays
<1> QED BY <1>9, <1>12 DEF D

\* Areas are taken off their faces one after the other, the last of the list first.
GoneBy(to, rm, ids, n) ==
  \E gone, pick :
    /\ Picks(pick, 1 .. n)
    /\ gone[{}] = rm /\ gone[1 .. n] = to
    /\ \A s \in SUBSET (1 .. n) :
         s # {} => gone[s] = RetireOrRemove(gone[s \ {pick[s]}], ids[pick[s]])
LEMMA GoneStepwise ==
  ASSUME NEW V, NEW rm, Sound(rm, V), NEW n \in Nat, NEW ids \in [1 .. n -> Nat \ {Null}]
  PROVE  GoneBy(FoldLeft(RetireOrRemove, rm, ids), rm, ids, n)
<1> DEFINE S == 1 .. n
           D == {r \in RoomIn(V) : Sound(r, V)}
           G == [p \in S \X D |-> RetireOrRemove(p[2], ids[p[1]])]
           pick == [s \in SUBSET S |-> Max(s)]
           iter == CHOOSE g : g = [s \in SUBSET S |-> IF s = {} THEN rm
                                     ELSE RetireOrRemove(g[s \ {Max(s)}], ids[Max(s)])]
<1>1. rm \in D
  BY DEF Sound
<1>2. ASSUME NEW r \in D, NEW x \in S PROVE RetireOrRemove(r, ids[x]) \in D
  BY RetireOrRemoveSound DEF Sound
<1>3. IsFiniteSet(S) /\ S \in SUBSET Int
  BY FS_Interval
<1> HIDE DEF D, S
<1>4. Picks(pick, S) /\ \A s \in SUBSET S : pick[s] = Max(s)
  BY <1>3, MaxPicks
<1>5. G \in [S \X D -> D] /\ \A x \in S, r \in D : G[<<x, r>>] = RetireOrRemove(r, ids[x])
  BY <1>2
<1> HIDE DEF G, pick
<1>6. PICK g \in [SUBSET S -> D] : IsFold(g, S, rm, G, pick)
  BY <1>1, <1>3, <1>4, <1>5, SetFold
<1>7. g = [s \in SUBSET S |-> IF s = {} THEN rm ELSE RetireOrRemove(g[s \ {Max(s)}], ids[Max(s)])]
  <2>1. ASSUME NEW s \in SUBSET S, s # {} PROVE g[s] = RetireOrRemove(g[s \ {Max(s)}], ids[Max(s)])
    <3>1. pick[s] \in S /\ s \ {pick[s]} \in SUBSET S /\ pick[s] = Max(s)
      BY <1>4, <2>1 DEF Picks
    <3>2. g[s] = G[<<pick[s], g[s \ {pick[s]}]>>]
      BY <1>6, <2>1 DEF IsFold
    <3> QED BY <1>5, <3>1, <3>2
  <2>2. g[{}] = rm
    BY <1>6 DEF IsFold
  <2> QED BY <2>1, <2>2
<1>8. iter = [s \in SUBSET S |-> IF s = {} THEN rm ELSE RetireOrRemove(iter[s \ {Max(s)}], ids[Max(s)])]
  BY <1>7
<1>9. FoldLeft(RetireOrRemove, rm, ids) = iter[S]
  BY DEF FoldLeft, MapThenFoldSet, S
<1> HIDE DEF iter
<1>10. iter[{}] = rm
  BY <1>8
<1>11. ASSUME NEW s \in SUBSET S, s # {} PROVE iter[s] = RetireOrRemove(iter[s \ {pick[s]}], ids[pick[s]])
  BY <1>4, <1>8, <1>11 DEF Picks
<1>12. /\ Picks(pick, 1 .. n) /\ iter[{}] = rm /\ FoldLeft(RetireOrRemove, rm, ids) = iter[1 .. n]
       /\ \A s \in SUBSET (1 .. n) : s # {} => iter[s] = RetireOrRemove(iter[s \ {pick[s]}], ids[pick[s]])
  BY <1>4, <1>9, <1>10, <1>11 DEF S
<1>13. GoneBy(iter[1 .. n], rm, ids, n)
  BY <1>12 DEF GoneBy
<1> QED BY <1>12, <1>13

\* Areas are taken out one after the other.
LEMMA GoneSound ==
  ASSUME NEW V, NEW rm, Sound(rm, V), NEW n \in Nat, NEW ids \in [1 .. n -> Nat \ {Null}]
  PROVE  /\ Sound(FoldLeft(RetireOrRemove, rm, ids), V)
         /\ FoldLeft(RetireOrRemove, rm, ids).named = rm.named
         /\ FoldLeft(RetireOrRemove, rm, ids).pieces = rm.pieces
         /\ (\A r \in Rules, i \in 1 .. n : rm.rules[r].area # ids[i])
              => FoldLeft(RetireOrRemove, rm, ids).rules = rm.rules
<1> DEFINE to == FoldLeft(RetireOrRemove, rm, ids)
           unruled == \A r \in Rules, i \in 1 .. n : rm.rules[r].area # ids[i]
<1>1. GoneBy(to, rm, ids, n)
  BY GoneStepwise
<1> HIDE DEF to
<1>2. PICK gone, pick :
        /\ Picks(pick, 1 .. n)
        /\ gone[{}] = rm /\ gone[1 .. n] = to
        /\ \A s \in SUBSET (1 .. n) :
             s # {} => gone[s] = RetireOrRemove(gone[s \ {pick[s]}], ids[pick[s]])
  BY <1>1 DEF GoneBy
<1> DEFINE S == 1 .. n
           Q == {s \in SUBSET S : /\ Sound(gone[s], V) /\ gone[s].named = rm.named
                                  /\ gone[s].pieces = rm.pieces /\ (unruled => gone[s].rules = rm.rules)}
<1>3. {} \in Q
  BY <1>2
<1>4. ASSUME NEW s \in SUBSET S, s # {}, s \ {pick[s]} \in Q PROVE s \in Q
  <2> DEFINE at == gone[s \ {pick[s]}]
             then == gone[s]
             id == ids[pick[s]]
  <2>1. then = RetireOrRemove(at, id) /\ pick[s] \in 1 .. n /\ id \in Nat \ {Null}
    BY <1>2, <1>4 DEF Picks
  <2>2. /\ Sound(at, V) /\ at.named = rm.named /\ at.pieces = rm.pieces
        /\ unruled => at.rules = rm.rules /\ \A r \in Rules : at.rules[r].area # id
    BY <1>4, <2>1
  <2> HIDE DEF at, then, id, unruled, Q
  <2>3. /\ Sound(then, V) /\ then.named = at.named /\ then.pieces = at.pieces
        /\ (\A r \in Rules : at.rules[r].area # id) => then.rules = at.rules
    BY <2>1, <2>2, RetireOrRemoveSound
  <2> QED BY <2>2, <2>3 DEF Q, then
<1> HIDE DEF Q
<1>5. Q \in SUBSET (SUBSET S) /\ Climbs(Q, S, pick)
  BY <1>2, <1>4 DEF Q, Climbs, Picks
<1>6. IsFiniteSet(S)
  BY FS_Interval
<1>7. S \in Q
  BY <1>3, <1>5, <1>6, SetsAll
<1> QED BY <1>2, <1>7 DEF Q, to

\* Areas are taken off their faces one after the other.
LEMMA RetiredSound ==
  ASSUME NEW V, NEW rm, Sound(rm, V), NEW n \in Nat, NEW ids \in [1 .. n -> IdsOf(rm.areas)]
  PROVE  Sound(FoldLeft(RetireArea, rm, ids), V) /\ FoldLeft(RetireArea, rm, ids).named = rm.named
<1> DEFINE S == 1 .. n
           D == {r \in RoomIn(V) : /\ Sound(r, V) /\ r.named = rm.named
                                   /\ IdsOf(r.areas) = IdsOf(rm.areas)}
           G == [p \in S \X D |-> RetireArea(p[2], ids[p[1]])]
           pick == [s \in SUBSET S |-> Max(s)]
           iter == CHOOSE g : g = [s \in SUBSET S |-> IF s = {} THEN rm
                                     ELSE RetireArea(g[s \ {Max(s)}], ids[Max(s)])]
<1>1. rm \in D
  BY DEF Sound
<1>2. ASSUME NEW r \in D, NEW x \in S PROVE RetireArea(r, ids[x]) \in D
  BY RetireAreaSound DEF Sound
<1>3. IsFiniteSet(S) /\ S \in SUBSET Int
  BY FS_Interval
<1> HIDE DEF D, S
<1>4. Picks(pick, S) /\ \A s \in SUBSET S : pick[s] = Max(s)
  BY <1>3, MaxPicks
<1>5. G \in [S \X D -> D] /\ \A x \in S, r \in D : G[<<x, r>>] = RetireArea(r, ids[x])
  BY <1>2
<1> HIDE DEF G, pick
<1>6. PICK g \in [SUBSET S -> D] : IsFold(g, S, rm, G, pick)
  BY <1>1, <1>3, <1>4, <1>5, SetFold
<1>7. g = [s \in SUBSET S |-> IF s = {} THEN rm ELSE RetireArea(g[s \ {Max(s)}], ids[Max(s)])]
  <2>1. ASSUME NEW s \in SUBSET S, s # {} PROVE g[s] = RetireArea(g[s \ {Max(s)}], ids[Max(s)])
    <3>1. pick[s] \in S /\ s \ {pick[s]} \in SUBSET S /\ pick[s] = Max(s)
      BY <1>4, <2>1 DEF Picks
    <3>2. g[s] = G[<<pick[s], g[s \ {pick[s]}]>>]
      BY <1>6, <2>1 DEF IsFold
    <3> QED BY <1>5, <3>1, <3>2
  <2>2. g[{}] = rm
    BY <1>6 DEF IsFold
  <2> QED BY <2>1, <2>2
<1>8. iter = [s \in SUBSET S |-> IF s = {} THEN rm ELSE RetireArea(iter[s \ {Max(s)}], ids[Max(s)])]
  BY <1>7
<1>9. FoldLeft(RetireArea, rm, ids) = iter[S]
  BY DEF FoldLeft, MapThenFoldSet, S
<1> HIDE DEF iter
<1>10. iter[{}] = rm
  BY <1>8
<1>11. StepsBy(iter, S, D, G, pick)
  <2>1. ASSUME NEW s \in SUBSET S, s # {}, iter[s \ {pick[s]}] \in D
        PROVE  iter[s] = G[<<pick[s], iter[s \ {pick[s]}]>>]
    <3>1. pick[s] \in S /\ pick[s] = Max(s)
      BY <1>4, <2>1 DEF Picks
    <3>2. iter[s] = RetireArea(iter[s \ {pick[s]}], ids[pick[s]])
      BY <1>8, <2>1, <3>1
    <3> QED BY <1>5, <2>1, <3>1, <3>2
  <2> QED BY <2>1 DEF StepsBy
<1>12. iter[S] \in D
  BY <1>1, <1>3, <1>4, <1>5, <1>10, <1>11, FoldStays
<1> QED BY <1>9, <1>12 DEF D

-----------------------------------------------------------------------------
(* Runs and their boundaries *)

Starts(V) == [shelf : Int, area : Int, startsAt : V]
BoundaryIn(V) == [id : Nat, kind : {"shelf", "area"}, startsAt : V]

LEMMA OrderEnumerates ==
  ASSUME NEW rm, NEW areas, IsFiniteSet(areas)
  PROVE  Enumerates(OrderOf(rm, areas), areas) /\ Len(OrderOf(rm, areas)) = Cardinality(areas)
BY SortedEnumerates DEF OrderOf

LEMMA AnchoredIn ==
  ASSUME NEW B, NEW list \in Seq(B)
  PROVE  Anchored(list) \in Seq(B) /\ Len(Anchored(list)) = Len(list)
<1> DEFINE n == Len(list)
           rank == [i \in DOMAIN list |-> <<list[i].startsAt, i>>]
           places == Sorted(DOMAIN list, rank)
<1>1. n \in Nat /\ DOMAIN list = 1 .. n /\ \A i \in 1 .. n : list[i] \in B
  OBVIOUS
<1>2. Anchored(list) = [i \in 1 .. n |-> list[places[i]]]
  BY <1>1 DEF Anchored
<1> HIDE DEF n, rank
<1>3. IsFiniteSet(1 .. n) /\ Cardinality(1 .. n) = n
  BY <1>1, FS_Interval
<1>4. Enumerates(places, 1 .. n) /\ Len(places) = n
  BY <1>1, <1>3, SortedEnumerates
<1> HIDE DEF places
<1>5. ASSUME NEW i \in 1 .. n PROVE places[i] \in 1 .. n
  BY <1>4 DEF Enumerates
<1>6. \A i \in 1 .. n : list[places[i]] \in B
  BY <1>1, <1>5
<1> QED BY <1>1, <1>2, <1>6 DEF n

LEMMA AreasOfIn ==
  ASSUME NEW V, 0 \in V, NEW start, start.shelf \in Int, start.area \in Int,
         NEW B, NEW list \in Seq(B), \A b \in B : b.startsAt \in V
  PROVE  AreasOf(start, list) \in Seq(Starts(V))
<1> DEFINE n == Len(list)
           met == Anchored(list)
           shelves(i) == {j \in 1 .. i - 1 : met[j].kind = "shelf"}
           plank(i) == [shelf |-> start.shelf + Cardinality(shelves(i)),
                        area |-> IF shelves(i) = {} THEN start.area + i - 1 ELSE i - 1 - Max(shelves(i)),
                        startsAt |-> IF i = 1 THEN 0 ELSE met[i - 1].startsAt]
<1>1. n \in Nat
  OBVIOUS
<1>2. AreasOf(start, list) = [i \in 1 .. n + 1 |-> plank(i)]
  BY DEF AreasOf
<1>3. met \in Seq(B) /\ Len(met) = n
  BY AnchoredIn
<1> HIDE DEF n, met
<1>4. ASSUME NEW i \in 1 .. n + 1 PROVE plank(i) \in Starts(V)
  <2>1. i \in Nat /\ i - 1 \in Nat /\ shelves(i) \in SUBSET (1 .. i - 1)
    BY <1>1
  <2>2. Cardinality(shelves(i)) \in Nat /\ IsFiniteSet(shelves(i))
    <3> HIDE DEF shelves
    <3> QED BY <2>1, IntervalSubset
  <2>3. shelves(i) # {} => Max(shelves(i)) \in Int
    <3>1. shelves(i) \in SUBSET Int
      BY <2>1
    <3> HIDE DEF shelves
    <3>2. shelves(i) # {} => Max(shelves(i)) \in shelves(i)
      BY <2>2, <3>1, MaxInt
    <3> QED BY <3>1, <3>2
  <2>4. i # 1 => met[i - 1].startsAt \in V
    <3>1. ASSUME i # 1 PROVE i - 1 \in 1 .. Len(met)
      BY <1>1, <1>3, <3>1
    <3> QED BY <1>3, <3>1
  <2> HIDE DEF shelves
  <2>5. start.shelf + Cardinality(shelves(i)) \in Int
    BY <2>2
  <2>6. (IF shelves(i) = {} THEN start.area + i - 1 ELSE i - 1 - Max(shelves(i))) \in Int
    BY <2>1, <2>3
  <2> QED BY <2>4, <2>5, <2>6 DEF Starts
<1> HIDE DEF plank
<1> QED BY <1>1, <1>2, <1>4

LEMMA PrefixIn ==
  ASSUME NEW S, NEW s \in Seq(S), NEW stops \in SUBSET (DOMAIN s)
  PROVE  (IF stops = {} THEN s ELSE SubSeq(s, 1, Min(stops) - 1)) \in Seq(S)
<1>1. CASE stops = {}
  BY <1>1
<1>2. CASE stops # {}
  <2> DEFINE n == Len(s)
  <2>1. n \in Nat /\ stops \in SUBSET (1 .. n) /\ stops \in SUBSET Int
    OBVIOUS
  <2> HIDE DEF n
  <2>2. IsFiniteSet(stops)
    BY <2>1, IntervalSubset
  <2>3. Min(stops) \in stops
    BY <1>2, <2>1, <2>2, MinInt
  <2>4. Min(stops) \in 1 .. n
    BY <2>1, <2>3
  <2>5. PICK m \in 1 .. n : m = Min(stops)
    BY <2>4
  <2>6. \A i \in 1 .. m - 1 : s[i] \in S
    BY <2>1 DEF n
  <2>7. m - 1 \in Int
    BY <2>1
  <2>8. SubSeq(s, 1, m - 1) \in Seq(S)
    BY <2>6, <2>7, SubSeqProperties
  <2> QED BY <1>2, <2>5, <2>8
<1> QED BY <1>1, <1>2

LEMMA BoundariesFromIn ==
  ASSUME NEW V, NEW rm, NEW run \in Seq(AreaRowIn(V))
  PROVE  BoundariesFrom(rm, run) \in Seq(BoundaryIn(V))
<1> DEFINE n == Len(run)
           one(i) == [id |-> run[i + 1].id,
                      kind |-> IF At(rm, run[i + 1]).shelf > At(rm, run[i]).shelf THEN "shelf" ELSE "area",
                      startsAt |-> run[i + 1].startsAt]
<1>1. n \in Nat /\ \A i \in 1 .. n : run[i] \in AreaRowIn(V)
  OBVIOUS
<1>2. BoundariesFrom(rm, run) = [i \in 1 .. n - 1 |-> one(i)]
  BY DEF BoundariesFrom
<1> HIDE DEF n
<1>3. ASSUME NEW i \in 1 .. n - 1 PROVE one(i) \in BoundaryIn(V)
  <2>1. i + 1 \in 1 .. n
    BY <1>1
  <2>2. run[i + 1] \in AreaRowIn(V)
    BY <1>1, <2>1
  <2> QED BY <2>2 DEF BoundaryIn, AreaRowIn
<1> HIDE DEF one
<1>4. CASE n = 0
  <2>1. 1 .. n - 1 = 1 .. 0
    BY <1>4
  <2>2. [i \in 1 .. 0 |-> one(i)] \in Seq(BoundaryIn(V))
    OBVIOUS
  <2> QED BY <1>2, <2>1, <2>2
<1>5. CASE n # 0
  <2>1. n - 1 \in Nat
    BY <1>1, <1>5
  <2> QED BY <1>2, <1>3, <2>1
<1> QED BY <1>4, <1>5

-----------------------------------------------------------------------------
(* Writing boundaries *)

LEMMA WrittenSound ==
  ASSUME NEW V, NEW rm, Sound(rm, V), NEW band, NEW limits, NEW derived \in Seq(Starts(V))
  PROVE  Sound(Written(rm, band, limits, derived), V) /\ Written(rm, band, limits, derived).named = rm.named
<1> DEFINE n == Len(derived)
           hung == Hung(rm, derived)
           going == {a \in OnAFace(hung) : /\ a.piece \in IdsOf(rm.pieces)
                                           /\ Leaves(rm, band, limits, derived, a)}
           leaving == OrderOf(hung, going)
           k == Len(leaving)
           ids == [i \in DOMAIN leaving |-> leaving[i].id]
<1>1. n \in Nat /\ DOMAIN derived = 1 .. n /\ \A i \in 1 .. n : derived[i] \in Starts(V)
  OBVIOUS
<1>2. Written(rm, band, limits, derived) = FoldLeft(RetireOrRemove, hung, ids)
  BY DEF Written, Cleared
<1>3. Sound(hung, V) /\ hung.named = rm.named
  <2> HIDE DEF n
  <2>1. \A i \in 1 .. n : derived[i].shelf \in Int /\ derived[i].area \in Int /\ derived[i].startsAt \in V
    BY <1>1 DEF Starts
  <2> QED BY <1>1, <2>1, HungSound
<1> HIDE DEF hung
<1>4. going \in SUBSET hung.areas /\ IsFiniteSet(hung.areas) /\ hung.areas \in SUBSET AreaRowIn(V)
  BY <1>3 DEF OnAFace, Sound, RoomIn
<1> HIDE DEF going
<1>5. Enumerates(leaving, going)
  BY <1>4, FS_Subset, OrderEnumerates
<1> HIDE DEF leaving
<1>6. k \in Nat /\ DOMAIN leaving = 1 .. k /\ \A i \in 1 .. k : leaving[i] \in going
  BY <1>5 DEF Enumerates
<1>7. ids \in [1 .. k -> Nat \ {Null}]
  BY <1>4, <1>6 DEF AreaRowIn
<1> HIDE DEF ids, k
<1> QED BY <1>2, <1>3, <1>6, <1>7, GoneSound

LEMMA WriteBoundariesSound ==
  ASSUME NEW V, 0 \in V, NEW rm, Sound(rm, V), NEW surveyed, NEW range,
         surveyed.bands[range].open =>
           surveyed.bands[range].start.shelf \in Int /\ surveyed.bands[range].start.area \in Int,
         NEW B, NEW list \in Seq(B), \A b \in B : b.startsAt \in V
  PROVE  /\ Sound(WriteBoundaries(rm, surveyed, range, list), V)
         /\ WriteBoundaries(rm, surveyed, range, list).named = rm.named
<1> DEFINE band == surveyed.bands[range]
           all == AreasOf(band.start, list)
           stops == {i \in DOMAIN all : ~ \A p \in band.past : Earlier(all[i], p)}
           derived == IF stops = {} THEN all ELSE SubSeq(all, 1, Min(stops) - 1)
           limits == NextRunStartAfter(rm, surveyed.starting, band.start.shelf)
<1>1. CASE ~band.open
  BY <1>1 DEF WriteBoundaries
<1>2. CASE band.open
  <2>1. WriteBoundaries(rm, surveyed, range, list) = Written(rm, band, limits, derived)
    BY <1>2 DEF WriteBoundaries, While
  <2>2. all \in Seq(Starts(V))
    BY <1>2, AreasOfIn
  <2> HIDE DEF all, band
  <2>3. derived \in Seq(Starts(V))
    <3>1. stops \in SUBSET (DOMAIN all)
      OBVIOUS
    <3> HIDE DEF stops
    <3> QED BY <2>2, <3>1, PrefixIn
  <2> HIDE DEF derived, limits
  <2> QED BY <2>1, <2>3, WrittenSound
<1> QED BY <1>1, <1>2

-----------------------------------------------------------------------------
(* What is read of a room *)

FaceIsFinite(rm) == OnAFace(rm) \in SUBSET rm.areas /\ IsFiniteSet(OnAFace(rm))

LEMMA FacesFinite ==
  ASSUME NEW V, NEW rm, Sound(rm, V) PROVE FaceIsFinite(rm)
<1>1. OnAFace(rm) \in SUBSET rm.areas
  BY DEF OnAFace
<1> QED BY <1>1, FS_Subset DEF FaceIsFinite, Sound

LEMMA EntryIn ==
  ASSUME NEW V, NEW rm, Sound(rm, V), NEW place
  PROVE  EntryAreaOf(rm, place) \in IdsOf(OnAFace(rm)) \cup {Null}
<1> DEFINE face == {a \in OnAFace(rm) : a.piece = place.piece}
           numbers == {a.position : a \in face}
           f == [a \in face |-> a.position]
<1>1. CASE place.area # Null
  BY <1>1 DEF EntryAreaOf, IdsOf
<1>2. CASE place.area = Null /\ face = {}
  BY <1>2 DEF EntryAreaOf
<1>3. CASE place.area = Null /\ face # {}
  <2>1. face \in SUBSET OnAFace(rm) /\ face \in SUBSET rm.areas /\ rm.areas \in SUBSET AreaRowIn(V)
    BY FacesFinite DEF FaceIsFinite, Sound, RoomIn
  <2>2. IsFiniteSet(face)
    BY <2>1, FS_Subset DEF Sound
  <2>3. numbers \in SUBSET Int /\ numbers # {} /\ \A a \in face : a.position \in numbers
    BY <1>3, <2>1 DEF AreaRowIn
  <2>4. f \in Surjection(face, numbers)
    BY DEF Surjection
  <2>5. \A m \in numbers : \E a \in face : a.position = m
    OBVIOUS
  <2>6. EntryAreaOf(rm, place) = (CHOOSE a \in face : \A b \in face : a.position <= b.position).id
    BY <1>3 DEF EntryAreaOf
  <2> HIDE DEF face, numbers, f
  <2>7. IsFiniteSet(numbers)
    BY <2>2, <2>4, FS_Surjection
  <2>8. Min(numbers) \in numbers /\ \A m \in numbers : Min(numbers) <= m
    BY <2>3, <2>7, MinInt
  <2>9. PICK a \in face : a.position = Min(numbers)
    BY <2>5, <2>8
  <2>10. \A b \in face : a.position <= b.position
    BY <2>3, <2>8, <2>9
  <2>11. (CHOOSE c \in face : \A b \in face : c.position <= b.position) \in face
    BY <2>10
  <2> QED BY <2>1, <2>6, <2>11 DEF IdsOf
<1> QED BY <1>1, <1>2, <1>3

\* A band of a room: its planks are rows of the room, its boundaries start there.
BandIn(band, areas, V) ==
  /\ band.open => band.start.shelf \in Int /\ band.start.area \in Int
  /\ band.run \in Seq(areas)
  /\ band.boundaries \in Seq(BoundaryIn(V))

LEMMA BandSound ==
  ASSUME NEW V, NEW rm, Sound(rm, V), NEW start, start.shelf \in Int, start.area \in Int, NEW past
  PROVE  BandIn(Band(rm, start, past), rm.areas, V) /\ Band(rm, start, past).run \in Seq(OnAFace(rm))
<1> DEFINE inside == {a \in OnAFace(rm) : /\ ~Earlier(At(rm, a), start)
                                          /\ \A p \in past : Earlier(At(rm, a), p)}
           ours == {a \in inside : \A b \in inside : At(rm, b).shelf = At(rm, a).shelf => a.piece <= b.piece}
           run == RunAreasOf(rm, start, past)
<1>1. ours \in SUBSET OnAFace(rm) /\ ours \in SUBSET rm.areas /\ rm.areas \in SUBSET AreaRowIn(V) /\ IsFiniteSet(rm.areas)
  BY FacesFinite DEF FaceIsFinite, Sound, RoomIn
<1>2. run = OrderOf(rm, ours)
  BY DEF RunAreasOf
<1>3. Band(rm, start, past) = [open |-> TRUE, start |-> start, past |-> past, run |-> run,
                               boundaries |-> BoundariesFrom(rm, run)]
  BY DEF Band
<1> HIDE DEF ours, run
<1>4. run \in Seq(ours)
  BY <1>1, <1>2, FS_Subset, OrderEnumerates DEF Enumerates
<1>5. run \in Seq(OnAFace(rm)) /\ run \in Seq(rm.areas) /\ run \in Seq(AreaRowIn(V))
  BY <1>1, <1>4, SeqMonotonic
<1>6. BoundariesFrom(rm, run) \in Seq(BoundaryIn(V))
  BY <1>5, BoundariesFromIn
<1> QED BY <1>3, <1>5, <1>6 DEF BandIn

LEMMA SurveySound ==
  ASSUME NEW V, NEW rm, Sound(rm, V), NEW r \in Ranges
  PROVE  BandIn(Survey(rm).bands[r], rm.areas, V) /\ Survey(rm).bands[r].run \in Seq(OnAFace(rm))
<1> DEFINE entry == EntryAreaOf(rm, rm.rules[r])
           opening == CHOOSE a \in rm.areas : a.id = entry
           past == Past(rm, Order(rm), Starting(rm), opening)
           bands == [range \in Ranges |-> BandOf(rm, Order(rm), Starting(rm), EntryAreaOf(rm, rm.rules[range]))]
<1>1. Survey(rm).bands = bands
  BY DEF Survey, Surveyed
<1>2. Survey(rm).bands[r] = BandOf(rm, Order(rm), Starting(rm), entry)
  BY <1>1
<1>3. entry \in IdsOf(OnAFace(rm)) \cup {Null}
  BY EntryIn
<1> HIDE DEF entry, bands
<1>4. CASE entry = Null
  <2>1. Survey(rm).bands[r] = [open |-> FALSE, run |-> <<>>, boundaries |-> <<>>]
    BY <1>2, <1>4 DEF BandOf
  <2> QED BY <2>1 DEF BandIn
<1>5. CASE entry # Null
  <2>1. Survey(rm).bands[r] = Band(rm, At(rm, opening), past)
    BY <1>2, <1>5 DEF BandOf
  <2>2. opening \in rm.areas
    BY <1>3, <1>5, FacesFinite DEF FaceIsFinite, IdsOf
  <2> HIDE DEF opening, past
  <2>3. opening.piece \in IdsOf(rm.pieces) /\ opening \in AreaRowIn(V)
    BY <2>2 DEF Sound, SchemaHolds, RoomIn
  <2>4. PieceOf(rm, opening) \in PieceRow
    BY <2>3, PieceOfArea
  <2>5. At(rm, opening).shelf \in Int /\ At(rm, opening).area \in Int
    BY <2>3, <2>4 DEF At, PieceRow, AreaRowIn
  <2> QED BY <2>1, <2>5, BandSound
<1> QED BY <1>4, <1>5

LEMMA AreaOfKeyIn ==
  ASSUME NEW areas, NEW run \in Seq(areas), NEW key
  PROVE  AreaOfKey(run, key) \in IdsOf(areas) \cup {Null}
<1> DEFINE met == Anchored(Tail(run))
           reached == {i \in DOMAIN met : met[i].startsAt <= key}
<1>1. CASE run = <<>>
  BY <1>1 DEF AreaOfKey
<1>2. CASE run # <<>>
  <2>1. run[1] \in areas /\ Tail(run) \in Seq(areas)
    BY <1>2
  <2>2. met \in Seq(areas)
    BY <2>1, AnchoredIn
  <2>3. AreaOfKey(run, key) = IF reached = {} THEN run[1].id ELSE met[Max(reached)].id
    BY <1>2 DEF AreaOfKey
  <2> DEFINE n == Len(met)
  <2> HIDE DEF met
  <2>4. n \in Nat /\ DOMAIN met = 1 .. n /\ \A i \in 1 .. n : met[i] \in areas
    BY <2>2
  <2>5. reached \in SUBSET (1 .. n) /\ reached \in SUBSET Int
    BY <2>4
  <2> HIDE DEF reached, n
  <2>6. IsFiniteSet(reached)
    BY <2>4, <2>5, IntervalSubset
  <2>7. reached # {} => Max(reached) \in reached
    BY <2>5, <2>6, MaxInt
  <2>8. reached # {} => met[Max(reached)] \in areas
    BY <2>4, <2>5, <2>7
  <2> QED BY <2>1, <2>3, <2>8 DEF IdsOf
<1> QED BY <1>1, <1>2

LEMMA BelongingIn ==
  ASSUME NEW V, NEW rm, Sound(rm, V)
  PROVE  Belonging(Survey(rm)) \in [Books -> IdsOf(rm.areas) \cup {Null}]
<1> DEFINE f == [b \in Books |-> AreaOfKey(Survey(rm).bands[RangeOf[b]].run, Key[b])]
<1>1. Belonging(Survey(rm)) = f
  BY DEF Belonging
<1>2. ASSUME NEW b \in Books PROVE f[b] \in IdsOf(rm.areas) \cup {Null}
  <2>1. RangeOf[b] \in Ranges
    BY ShelvesAssumption
  <2>2. Survey(rm).bands[RangeOf[b]].run \in Seq(rm.areas)
    BY <2>1, SurveySound DEF BandIn
  <2> QED BY <2>2, AreaOfKeyIn
<1>3. f = [b \in Books |-> f[b]]
  OBVIOUS
<1> HIDE DEF f
<1> QED BY <1>1, <1>2, <1>3

LEMMA BelongingOnAFace ==
  ASSUME NEW V, NEW rm, Sound(rm, V), NEW b \in Books
  PROVE  Belonging(Survey(rm))[b] \in IdsOf(OnAFace(rm)) \cup {Null}
<1>1. RangeOf[b] \in Ranges
  BY ShelvesAssumption
<1>2. Survey(rm).bands[RangeOf[b]].run \in Seq(OnAFace(rm))
  BY <1>1, SurveySound
<1> QED BY <1>2, AreaOfKeyIn DEF Belonging

LEMMA AreaForIn ==
  ASSUME NEW areas, NEW run \in Seq(areas), NEW key
  PROVE  AreaFor(run, key) \in IdsOf(areas) \cup {Null}
<1> DEFINE rest == Tail(run)
           stops == {i \in DOMAIN rest : ~(rest[i].startsAt <= key)}
           W == IF stops = {} THEN rest ELSE SubSeq(rest, 1, Min(stops) - 1)
<1>1. CASE run = <<>>
  BY <1>1 DEF AreaFor
<1>2. CASE run # <<>>
  <2>1. run[1] \in areas /\ rest \in Seq(areas)
    BY <1>2
  <2>2. AreaFor(run, key) = (<<run[1]>> \o W)[1 + Len(W)].id
    BY <1>2 DEF AreaFor, While
  <2> HIDE DEF rest
  <2>3. W \in Seq(areas)
    <3>1. stops \in SUBSET (DOMAIN rest)
      OBVIOUS
    <3> HIDE DEF stops
    <3> QED BY <2>1, <3>1, PrefixIn
  <2> HIDE DEF W
  <2>4. Len(W) \in Nat /\ Len(<<run[1]>>) = 1 /\ <<run[1]>> \in Seq(areas)
    BY <2>1, <2>3
  <2>5. <<run[1]>> \o W \in Seq(areas) /\ Len(<<run[1]>> \o W) = 1 + Len(W)
    BY <2>3, <2>4, ConcatProperties
  <2>6. 1 + Len(W) \in 1 .. Len(<<run[1]>> \o W)
    BY <2>4, <2>5
  <2>7. (<<run[1]>> \o W)[1 + Len(W)] \in areas
    BY <2>5, <2>6, ElementOfSeq
  <2> QED BY <2>2, <2>7 DEF IdsOf
<1> QED BY <1>1, <1>2

LEMMA RunFromIn ==
  ASSUME NEW areas, NEW order \in Seq(areas), NEW starting, NEW area
  PROVE  RunFrom(order, starting, area) \in Seq(areas)
<1> DEFINE from == {i \in DOMAIN order : order[i].id = area /\ order[i] \in starting}
           i == Min(from)
           rest == SubSeq(order, i + 1, Len(order))
           stops == {j \in DOMAIN rest : ~(rest[j] \notin starting)}
           W == IF stops = {} THEN rest ELSE SubSeq(rest, 1, Min(stops) - 1)
<1>1. CASE from = {}
  BY <1>1 DEF RunFrom
<1>2. CASE from # {}
  <2> DEFINE n == Len(order)
  <2>1. n \in Nat /\ from \in SUBSET (1 .. n) /\ from \in SUBSET Int /\ \A k \in 1 .. n : order[k] \in areas
    OBVIOUS
  <2>2. RunFrom(order, starting, area) = <<order[i]>> \o W
    BY <1>2 DEF RunFrom, While
  <2> HIDE DEF from, n
  <2>3. IsFiniteSet(from)
    BY <2>1, IntervalSubset
  <2>4. i \in from
    BY <1>2, <2>1, <2>3, MinInt
  <2>5. i \in 1 .. n
    BY <2>1, <2>4
  <2> HIDE DEF i
  <2>6. order[i] \in areas /\ \A k \in i + 1 .. n : order[k] \in areas
    BY <2>1, <2>5
  <2>7. i + 1 \in Int /\ n \in Int
    BY <2>1, <2>5
  <2>8. rest \in Seq(areas)
    BY <2>6, <2>7, SubSeqProperties DEF n
  <2> HIDE DEF rest
  <2>9. W \in Seq(areas)
    <3>1. stops \in SUBSET (DOMAIN rest)
      OBVIOUS
    <3> HIDE DEF stops
    <3> QED BY <2>8, <3>1, PrefixIn
  <2> HIDE DEF W
  <2>10. <<order[i]>> \in Seq(areas)
    BY <2>6
  <2> QED BY <2>2, <2>9, <2>10, ConcatProperties
<1> QED BY <1>1, <1>2

LEMMA RuleAnswerIn ==
  ASSUME NEW V, NEW rm, Sound(rm, V), NEW b
  PROVE  RuleAnswer(rm, Survey(rm), b) \in IdsOf(rm.areas) \cup {Null}
<1>1. Survey(rm).order = Order(rm)
  BY DEF Survey, Surveyed
<1>2. Order(rm) \in Seq(rm.areas)
  <2>1. Order(rm) \in Seq(OnAFace(rm))
    BY FacesFinite, OrderEnumerates DEF Order, FaceIsFinite, Enumerates
  <2> QED BY <2>1, FacesFinite, SeqMonotonic DEF FaceIsFinite
<1> DEFINE run == RunFrom(Survey(rm).order, Survey(rm).starting, EntryAreaOf(rm, rm.rules[RangeOf[b]]))
<1>3. run \in Seq(rm.areas)
  BY <1>1, <1>2, RunFromIn
<1>4. RuleAnswer(rm, Survey(rm), b) = AreaFor(run, Key[b])
  BY DEF RuleAnswer
<1> HIDE DEF run
<1> QED BY <1>3, <1>4, AreaForIn

-----------------------------------------------------------------------------
(* The walks over a run *)

\* A list that is in the order of its anchors is met as it stands.
LEMMA MetInOrder ==
  ASSUME NEW B, NEW list \in Seq(B), \A b \in B : b.startsAt \in Int,
         \A i, j \in 1 .. Len(list) : i < j => list[i].startsAt <= list[j].startsAt
  PROVE  Anchored(list) = list
<1> DEFINE n == Len(list)
           rank == [i \in 1 .. n |-> <<list[i].startsAt, i>>]
           places == Sorted(1 .. n, rank)
           same == [i \in 1 .. n |-> i]
<1>1. n \in Nat /\ DOMAIN list = 1 .. n /\ list = [i \in 1 .. n |-> list[i]]
      /\ \A i \in 1 .. n : list[i].startsAt \in Int
  OBVIOUS
<1>2. Anchored(list) = [i \in 1 .. n |-> list[places[i]]]
  BY <1>1 DEF Anchored
<1>3. \A i \in 1 .. n : rank[i] = <<list[i].startsAt, i>>
  OBVIOUS
<1>4. \A i, j \in 1 .. n : i < j => list[i].startsAt <= list[j].startsAt
  OBVIOUS
<1> HIDE DEF rank, n
<1>5. ASSUME NEW i \in 1 .. n
      PROVE  /\ rank[i] \in [1 .. 2 -> Int] /\ DOMAIN rank[i] = 1 .. 2
             /\ rank[i][1] = list[i].startsAt /\ rank[i][2] = i
  <2>1. rank[i] = <<list[i].startsAt, i>> /\ list[i].startsAt \in Int /\ i \in Int
    BY <1>1, <1>3
  <2> QED BY <2>1
<1>6. Ranks(1 .. n, rank)
  BY <1>5 DEF Ranks
<1>7. Enumerates(places, 1 .. n) /\ Ascends(places, rank)
  <2>1. n \in Nat /\ (1 .. n) \in SUBSET (1 .. n)
    BY <1>1
  <2>2. IsFiniteSet(1 .. n)
    BY <2>1, IntervalSubset
  <2> QED BY <1>6, <2>2, SortedEnumerates
<1> HIDE DEF places
<1>8. same \in Seq(1 .. n) /\ Len(same) = n /\ \A i \in 1 .. n : same[i] = i
  BY <1>1
<1> HIDE DEF same
<1>9. Enumerates(same, 1 .. n)
  BY <1>1, <1>8 DEF Enumerates
<1>10. Ascends(same, rank)
  <2>1. ASSUME NEW i \in 1 .. n, NEW j \in 1 .. n, i < j PROVE Below(rank[i], rank[j])
    <3>1. list[i].startsAt < list[j].startsAt \/ list[i].startsAt = list[j].startsAt
      BY <1>1, <1>4, <2>1
    <3>2. CASE rank[i][1] < rank[j][1]
      BY <1>5, <3>2 DEF Below
    <3>3. CASE rank[i][1] = rank[j][1] /\ rank[i][2] < rank[j][2]
      <4>1. \A k \in 1 .. 2 - 1 : rank[i][k] = rank[j][k]
        BY <3>3
      <4>2. 2 \in DOMAIN rank[i]
        BY <1>5
      <4> QED BY <3>3, <4>1, <4>2 DEF Below
    <3> QED BY <1>5, <2>1, <3>1, <3>2, <3>3
  <2> QED BY <1>8, <2>1 DEF Ascends
<1>11. places = same
  BY <1>6, <1>7, <1>9, <1>10, OneOrder
<1> QED BY <1>1, <1>2, <1>8, <1>11

\* Where a plank of a room is, as numbers.
LEMMA AtIs ==
  ASSUME NEW V, NEW rm, Sound(rm, V), NEW a \in rm.areas
  PROVE  /\ At(rm, a).shelf \in Int /\ At(rm, a).area \in Int /\ At(rm, a).area = a.position
         /\ At(rm, a).shelf = PieceOf(rm, a).position
         /\ a.piece \in Nat /\ a.position \in Int /\ a.id \in Nat \ {Null} /\ a.startsAt \in V
<1>1. a \in AreaRowIn(V) /\ a.piece \in IdsOf(rm.pieces)
  BY DEF Sound, RoomIn, SchemaHolds
<1>2. PieceOf(rm, a) \in PieceRow
  BY <1>1, PieceOfArea
<1> QED BY <1>1, <1>2 DEF At, PieceRow, AreaRowIn

\* One piece at each position, of those with planks on a face.
Level(rm) == \A a, c \in OnAFace(rm) : a.piece # c.piece => At(rm, a).shelf # At(rm, c).shelf

RanksOf(rm, areas) == [a \in areas |-> <<PieceOf(rm, a).position, a.piece, a.position>>]

LEMMA RanksPlanks ==
  ASSUME NEW V, NEW rm, Sound(rm, V), NEW areas \in SUBSET rm.areas
  PROVE  Ranks(areas, RanksOf(rm, areas))
<1> DEFINE rank == RanksOf(rm, areas)
<1>1. \A a \in areas : rank[a] = <<PieceOf(rm, a).position, a.piece, a.position>>
  BY DEF RanksOf
<1> HIDE DEF rank
<1>2. \A a \in areas : PieceOf(rm, a).position \in Int /\ a.piece \in Int /\ a.position \in Int
  BY AtIs
<1>3. ASSUME NEW a \in areas
      PROVE  rank[a] \in [1 .. 3 -> Int] /\ rank[a][2] = a.piece /\ rank[a][3] = a.position
  <2>1. rank[a] = <<PieceOf(rm, a).position, a.piece, a.position>>
    BY <1>1
  <2> QED BY <1>2, <2>1
<1>4. \A a, c \in areas : rank[a] = rank[c] => a = c
  BY <1>3 DEF Sound, SchemaHolds, OnePlankAPlace
<1> QED BY <1>3, <1>4 DEF Ranks, rank

LEMMA LevelOrder ==
  ASSUME NEW V, NEW rm, Sound(rm, V), Level(rm), NEW areas \in SUBSET OnAFace(rm),
         NEW a \in areas, NEW c \in areas
  PROVE  Below(RanksOf(rm, areas)[a], RanksOf(rm, areas)[c]) <=> Earlier(At(rm, a), At(rm, c))
<1> DEFINE p == RanksOf(rm, areas)[a]
           q == RanksOf(rm, areas)[c]
<1>1. a \in rm.areas /\ c \in rm.areas /\ a \in OnAFace(rm) /\ c \in OnAFace(rm)
  BY FacesFinite DEF FaceIsFinite
<1>2. /\ p = <<At(rm, a).shelf, a.piece, At(rm, a).area>>
      /\ q = <<At(rm, c).shelf, c.piece, At(rm, c).area>>
  BY DEF RanksOf, At
<1>3. /\ At(rm, a).shelf \in Int /\ At(rm, c).shelf \in Int /\ a.piece \in Int /\ c.piece \in Int
      /\ At(rm, a).area \in Int /\ At(rm, c).area \in Int
  BY <1>1, AtIs
<1>4. At(rm, a).shelf = At(rm, c).shelf => a.piece = c.piece
  BY <1>1 DEF Level
<1>5. a.piece = c.piece => At(rm, a).shelf = At(rm, c).shelf
  BY DEF At, PieceOf
<1> HIDE DEF p, q
<1>6. /\ DOMAIN p = 1 .. 3 /\ p[1] = At(rm, a).shelf /\ p[2] = a.piece /\ p[3] = At(rm, a).area
      /\ DOMAIN q = 1 .. 3 /\ q[1] = At(rm, c).shelf /\ q[2] = c.piece /\ q[3] = At(rm, c).area
  BY <1>2
<1>7. ASSUME Below(p, q) PROVE Earlier(At(rm, a), At(rm, c))
  <2>1. PICK k \in 1 .. 3 : p[k] < q[k] /\ \A j \in 1 .. k - 1 : p[j] = q[j]
    BY <1>6, <1>7 DEF Below
  <2>2. k = 1 \/ k = 2 \/ k = 3
    BY <2>1
  <2>3. k = 2 => FALSE
    BY <1>3, <1>4, <1>6, <2>1
  <2>4. k = 3 => p[1] = q[1]
    BY <2>1
  <2> QED BY <1>3, <1>6, <2>1, <2>2, <2>3, <2>4 DEF Earlier
<1>8. ASSUME Earlier(At(rm, a), At(rm, c)) PROVE Below(p, q)
  <2>1. CASE At(rm, a).shelf < At(rm, c).shelf
    <3>1. p[1] < q[1] /\ \A j \in 1 .. 1 - 1 : p[j] = q[j]
      BY <1>6, <2>1
    <3> QED BY <1>6, <3>1 DEF Below
  <2>2. CASE At(rm, a).shelf = At(rm, c).shelf /\ At(rm, a).area < At(rm, c).area
    <3>1. p[3] < q[3] /\ \A j \in 1 .. 3 - 1 : p[j] = q[j]
      <4>1. p[1] = q[1] /\ p[2] = q[2]
        BY <1>4, <1>6, <2>2
      <4>2. \A j \in 1 .. 3 - 1 : j = 1 \/ j = 2
        OBVIOUS
      <4> QED BY <1>6, <2>2, <4>1, <4>2
    <3> QED BY <1>6, <3>1 DEF Below
  <2> QED BY <1>8, <2>1, <2>2 DEF Earlier
<1> QED BY <1>7, <1>8 DEF p, q

\* A set of planks in order, in a room with one piece at each position.
LEMMA PlanksInOrder ==
  ASSUME NEW V, NEW rm, Sound(rm, V), Level(rm), NEW areas \in SUBSET OnAFace(rm)
  PROVE  /\ Enumerates(OrderOf(rm, areas), areas)
         /\ \A i, j \in 1 .. Len(OrderOf(rm, areas)) :
              i < j <=> Earlier(At(rm, OrderOf(rm, areas)[i]), At(rm, OrderOf(rm, areas)[j]))
         /\ \A s : Enumerates(s, areas)
                     /\ (\A i, j \in 1 .. Len(s) : i < j => Earlier(At(rm, s[i]), At(rm, s[j])))
                     => s = OrderOf(rm, areas)
<1> DEFINE rank == RanksOf(rm, areas)
           s0 == OrderOf(rm, areas)
<1>1. areas \in SUBSET rm.areas /\ IsFiniteSet(areas)
  BY FacesFinite, FS_Subset DEF FaceIsFinite
<1>2. Ranks(areas, rank)
  BY <1>1, RanksPlanks
<1>3. Enumerates(s0, areas) /\ Ascends(s0, rank)
  <2>1. s0 = Sorted(areas, rank)
    BY DEF OrderOf, RanksOf
  <2> HIDE DEF s0, rank
  <2> QED BY <1>1, <1>2, <2>1, SortedEnumerates
<1>4. \A a, c \in areas : Below(rank[a], rank[c]) <=> Earlier(At(rm, a), At(rm, c))
  BY LevelOrder
<1> HIDE DEF s0, rank
<1>5. ASSUME NEW s, Enumerates(s, areas), \A i, j \in 1 .. Len(s) : i < j => Earlier(At(rm, s[i]), At(rm, s[j]))
      PROVE  s = s0
  <2>1. \A i \in 1 .. Len(s) : s[i] \in areas
    BY <1>5 DEF Enumerates
  <2>2. Ascends(s, rank)
    BY <1>4, <1>5, <2>1 DEF Ascends
  <2> QED BY <1>2, <1>3, <1>5, <2>2, OneOrder
<1>6. \A i \in 1 .. Len(s0) : s0[i] \in areas
  BY <1>3 DEF Enumerates
<1>7. \A i, j \in 1 .. Len(s0) : i < j => Earlier(At(rm, s0[i]), At(rm, s0[j]))
  BY <1>3, <1>4, <1>6 DEF Ascends
<1>8. ASSUME NEW i \in 1 .. Len(s0), NEW j \in 1 .. Len(s0), Earlier(At(rm, s0[i]), At(rm, s0[j]))
      PROVE  i < j
  <2>1. s0[i] \in rm.areas /\ s0[j] \in rm.areas
    BY <1>1, <1>6
  <2>2. /\ At(rm, s0[i]).shelf \in Int /\ At(rm, s0[i]).area \in Int
        /\ At(rm, s0[j]).shelf \in Int /\ At(rm, s0[j]).area \in Int
    BY <2>1, AtIs
  <2>3. ~Earlier(At(rm, s0[j]), At(rm, s0[i])) /\ i # j
    BY <1>8, <2>2 DEF Earlier
  <2> QED BY <1>7, <1>8, <2>3
<1> QED BY <1>3, <1>5, <1>7, <1>8 DEF s0

\* Two ways to say the planks from the one a run opens at to the next at which
\* another begins: by the places they stand at, and along the order of all of them.
Slice(order, p, q) == [k \in 1 .. q - p |-> order[p + k - 1]]
StartsAfter(order, starting, p) == {i \in DOMAIN order : i > p /\ order[i] \in starting}
NextStart(order, starting, p) ==
  IF StartsAfter(order, starting, p) = {} THEN Len(order) + 1 ELSE Min(StartsAfter(order, starting, p))

LEMMA OpeningIs ==
  ASSUME NEW V, NEW rm, Sound(rm, V), NEW r \in Ranges, Survey(rm).bands[r].open
  PROVE  \E opening \in OnAFace(rm) :
           /\ opening.id = EntryAreaOf(rm, rm.rules[r]) /\ opening \in Starting(rm)
           /\ Survey(rm).bands[r] = Band(rm, At(rm, opening), Past(rm, Order(rm), Starting(rm), opening))
<1> DEFINE entry == EntryAreaOf(rm, rm.rules[r])
           opening == CHOOSE a \in rm.areas : a.id = entry
<1>1. Survey(rm).bands[r] = BandOf(rm, Order(rm), Starting(rm), entry)
  BY DEF Survey, Surveyed
<1>2. entry \in IdsOf(OnAFace(rm)) \cup {Null}
  BY EntryIn
<1>3. r \in Rules /\ (entry # Null => entry \in Entries(rm))
  BY DEF Entries, Rules
<1> HIDE DEF entry
<1>4. entry # Null
  BY <1>1 DEF BandOf
<1>5. PICK a \in OnAFace(rm) : a.id = entry
  BY <1>2, <1>4 DEF IdsOf
<1>6. a \in rm.areas /\ \A c \in rm.areas : c.id = entry => c = a
  BY <1>5, FacesFinite DEF FaceIsFinite, Sound, SchemaHolds, OnePlankAPlace
<1>7. opening = a
  BY <1>5, <1>6
<1>8. Survey(rm).bands[r] = Band(rm, At(rm, opening), Past(rm, Order(rm), Starting(rm), opening))
  BY <1>1, <1>4 DEF BandOf
<1>9. a \in Starting(rm)
  BY <1>3, <1>4, <1>5 DEF Starting
<1> QED BY <1>5, <1>7, <1>8, <1>9 DEF entry

\* The walk along the order of all planks.
LEMMA RunFromIs ==
  ASSUME NEW X, NEW order \in Seq(X), NEW starting, NEW id, NEW p \in 1 .. Len(order),
         order[p].id = id, order[p] \in starting,
         \A i \in 1 .. Len(order) : order[i].id = id => i = p
  PROVE  RunFrom(order, starting, id) = Slice(order, p, NextStart(order, starting, p))
<1> DEFINE later == StartsAfter(order, starting, p)
           q == NextStart(order, starting, p)
           n == Len(order)
           from == {i \in DOMAIN order : order[i].id = id /\ order[i] \in starting}
           rest == SubSeq(order, p + 1, n)
           stops == {j \in DOMAIN rest : ~(rest[j] \notin starting)}
           W == IF stops = {} THEN rest ELSE SubSeq(rest, 1, Min(stops) - 1)
           t == Slice(order, p, q)
<1>1. n \in Nat /\ DOMAIN order = 1 .. n /\ \A i \in 1 .. n : order[i] \in X
  OBVIOUS
<1>2. from = {p}
  BY <1>1
<1>3. Min(from) = p
  <2>1. Min({p}) \in {p}
    <3>1. {p} \in SUBSET Int /\ {p} \in SUBSET (1 .. n) /\ {p} # {}
      BY <1>1
    <3>2. IsFiniteSet({p})
      BY FS_Singleton
    <3> QED BY <3>1, <3>2, MinInt
  <2> QED BY <1>2, <2>1
<1>4. RunFrom(order, starting, id) = <<order[p]>> \o W
  <2> DEFINE i0 == Min(from)
             rest0 == SubSeq(order, i0 + 1, Len(order))
             stops0 == {j \in DOMAIN rest0 : ~(rest0[j] \notin starting)}
             W0 == IF stops0 = {} THEN rest0 ELSE SubSeq(rest0, 1, Min(stops0) - 1)
  <2>1. RunFrom(order, starting, id) = IF from = {} THEN <<>> ELSE <<order[i0]>> \o W0
    BY DEF RunFrom, While
  <2>2. from # {} /\ i0 = p
    BY <1>2, <1>3
  <2>3. W0 = W
    <3> HIDE DEF i0, from
    <3> QED BY <2>2
  <2> HIDE DEF W0, W, i0, from
  <2> QED BY <2>1, <2>2, <2>3
<1>5. p \in Nat /\ p >= 1 /\ p <= n
  BY <1>1
<1>6. q = IF later = {} THEN n + 1 ELSE Min(later)
  BY DEF NextStart
<1>7. \A i : i \in later <=> i \in 1 .. n /\ i > p /\ order[i] \in starting
  BY <1>1 DEF StartsAfter
<1> HIDE DEF n, from, later, q
<1>8. rest \in Seq(X) /\ Len(rest) = n - p /\ \A j \in 1 .. n - p : rest[j] = order[p + j]
  <2>1. \A i \in p + 1 .. n : order[i] \in X
    BY <1>1, <1>5
  <2>2. p + 1 \in Int /\ n \in Int
    BY <1>1, <1>5
  <2>3. /\ rest \in Seq(X)
        /\ Len(rest) = IF p + 1 <= n THEN n - (p + 1) + 1 ELSE 0
        /\ \A j \in 1 .. n - (p + 1) + 1 : rest[j] = order[(p + 1) + j - 1]
    BY <2>1, <2>2, SubSeqProperties
  <2> HIDE DEF rest
  <2>4. Len(rest) = n - p
    BY <1>1, <1>5, <2>3
  <2>5. ASSUME NEW j \in 1 .. n - p PROVE rest[j] = order[p + j]
    <3>1. (p + 1) + j - 1 = p + j /\ j \in 1 .. n - (p + 1) + 1
      BY <1>1, <1>5
    <3> QED BY <2>3, <3>1
  <2> QED BY <2>3, <2>4, <2>5
<1> HIDE DEF rest
<1>9. \A j : j \in stops <=> j \in 1 .. n - p /\ order[p + j] \in starting
  BY <1>8
<1>10. \A j \in stops : p + j \in later
  BY <1>1, <1>5, <1>9, <1>7
<1>11. \A i \in later : i - p \in stops /\ p + (i - p) = i
  <2>1. ASSUME NEW i \in later PROVE i - p \in 1 .. n - p /\ p + (i - p) = i
    BY <1>1, <1>5, <1>7
  <2> QED BY <1>9, <1>7, <2>1
<1>12. later \in SUBSET (1 .. n) /\ later \in SUBSET Int /\ stops \in SUBSET (1 .. n - p) /\ stops \in SUBSET Int
  <2>1. \A i \in later : i \in 1 .. n /\ i \in Int
    BY <1>7
  <2>2. \A j \in stops : j \in 1 .. n - p /\ j \in Int
    BY <1>9
  <2> QED BY <2>1, <2>2
<1>13. IsFiniteSet(later) /\ IsFiniteSet(stops)
  <2>1. n - p \in Nat
    BY <1>1, <1>5
  <2> HIDE DEF stops
  <2> QED BY <1>1, <1>12, <2>1, IntervalSubset
<1>14. /\ q \in p + 1 .. n + 1
       /\ W \in Seq(X) /\ Len(W) = q - p - 1 /\ \A j \in 1 .. q - p - 1 : W[j] = order[p + j]
  <2>1. CASE later = {}
    <3>1. stops = {}
      BY <1>10, <2>1
    <3>2. W = rest /\ q = n + 1
      BY <1>6, <2>1, <3>1
    <3> HIDE DEF W
    <3>3. q - p - 1 = n - p /\ q \in p + 1 .. n + 1
      BY <1>1, <1>5, <3>2
    <3> QED BY <1>8, <3>2, <3>3
  <2>2. CASE later # {}
    <3>1. stops # {}
      BY <1>11, <2>2
    <3>2. q = Min(later) /\ W = SubSeq(rest, 1, Min(stops) - 1)
      BY <1>6, <2>2, <3>1
    <3> HIDE DEF W, stops
    <3>3. Min(later) \in later /\ \A i \in later : Min(later) <= i
      BY <1>12, <1>13, <2>2, MinInt
    <3>4. Min(stops) \in stops /\ \A i \in stops : Min(stops) <= i
      BY <1>12, <1>13, <3>1, MinInt
    <3>5. Min(stops) = q - p
      <4>1. q \in later /\ \A i \in later : q <= i
        BY <3>2, <3>3
      <4>2. PICK m \in stops : m = Min(stops) /\ \A i \in stops : m <= i
        BY <3>4
      <4>3. q - p \in stops /\ p + m \in later /\ q \in Int /\ m \in Int
        BY <1>10, <1>11, <1>12, <4>1, <4>2
      <4>4. m <= q - p /\ q <= p + m
        BY <4>1, <4>2, <4>3
      <4>5. m = q - p
        BY <1>5, <4>3, <4>4
      <4> QED BY <4>2, <4>5
    <3>6. q \in 1 .. n /\ q > p
      BY <1>7, <3>2, <3>3
    <3>7. /\ W \in Seq(X) /\ Len(W) = q - p - 1 /\ \A j \in 1 .. q - p - 1 : W[j] = rest[j]
      <4>1. W = SubSeq(rest, 1, q - p - 1)
        BY <3>2, <3>5
      <4> DEFINE k == q - p - 1
      <4>2. k \in Nat /\ k <= n - p
        BY <1>1, <1>5, <3>6
      <4>3. \A j \in 1 .. k : rest[j] \in X
        BY <1>1, <1>5, <1>8, <4>2
      <4> HIDE DEF k
      <4>4. /\ SubSeq(rest, 1, k) \in Seq(X)
            /\ Len(SubSeq(rest, 1, k)) = IF 1 <= k THEN k - 1 + 1 ELSE 0
            /\ \A j \in 1 .. k - 1 + 1 : SubSeq(rest, 1, k)[j] = rest[1 + j - 1]
        <5>1. 1 \in Int /\ k \in Int
          BY <4>2
        <5> QED BY <4>3, <5>1, SubSeqProperties
      <4>5. W = SubSeq(rest, 1, k)
        BY <4>1 DEF k
      <4>6. Len(W) = k
        BY <4>2, <4>4, <4>5
      <4>7. ASSUME NEW j \in 1 .. k PROVE W[j] = rest[j]
        <5>1. j \in 1 .. k - 1 + 1 /\ 1 + j - 1 = j
          BY <4>2
        <5> QED BY <4>4, <4>5, <5>1
      <4> QED BY <4>4, <4>5, <4>6, <4>7 DEF k
    <3>8. ASSUME NEW j \in 1 .. q - p - 1 PROVE W[j] = order[p + j]
      <4>1. j \in 1 .. n - p
        BY <1>1, <1>5, <3>6
      <4> QED BY <1>8, <3>7, <4>1
    <3>9. q \in p + 1 .. n + 1
      BY <1>1, <1>5, <3>6
    <3> QED BY <3>7, <3>8, <3>9
  <2> QED BY <2>1, <2>2
<1> HIDE DEF W, stops
<1> DEFINE all == <<order[p]>> \o W
<1>15. /\ all \in Seq(X) /\ Len(all) = 1 + Len(W)
       /\ \A i \in 1 .. 1 + Len(W) : all[i] = IF i <= 1 THEN order[p] ELSE W[i - 1]
  <2>1. <<order[p]>> \in Seq(X) /\ Len(<<order[p]>>) = 1 /\ <<order[p]>>[1] = order[p]
    BY <1>1
  <2>2. /\ all \in Seq(X) /\ Len(all) = Len(<<order[p]>>) + Len(W)
        /\ \A i \in 1 .. Len(<<order[p]>>) + Len(W) :
             all[i] = IF i <= Len(<<order[p]>>) THEN <<order[p]>>[i] ELSE W[i - Len(<<order[p]>>)]
    <3>1. W \in Seq(X)
      BY <1>14
    <3> QED BY <2>1, <3>1, ConcatProperties
  <2> HIDE DEF all
  <2>3. ASSUME NEW i \in 1 .. 1 + Len(W) PROVE all[i] = IF i <= 1 THEN order[p] ELSE W[i - 1]
    <3>1. i <= 1 => i = 1
      BY <1>14
    <3> QED BY <2>1, <2>2, <3>1
  <2> QED BY <2>1, <2>2, <2>3
<1> HIDE DEF all
<1>16. Len(all) = q - p /\ q - p \in Nat /\ 1 + Len(W) = q - p
  <2>1. q \in p + 1 .. n + 1 /\ Len(W) = q - p - 1
    BY <1>14
  <2>2. q \in Int
    BY <1>1, <1>5, <2>1
  <2>3. q - p \in Nat /\ 1 + (q - p - 1) = q - p
    BY <1>1, <1>5, <2>1, <2>2
  <2> QED BY <1>15, <2>1, <2>3
<1>17. ASSUME NEW i \in 1 .. q - p PROVE all[i] = order[p + i - 1]
  <2>1. CASE i = 1
    <3>1. i \in 1 .. 1 + Len(W) /\ i <= 1 /\ p + i - 1 = p
      BY <1>5, <1>16, <2>1
    <3> QED BY <1>15, <3>1
  <2>2. CASE i # 1
    <3>1. i - 1 \in 1 .. q - p - 1 /\ i \in 1 .. 1 + Len(W) /\ ~(i <= 1) /\ p + (i - 1) = p + i - 1
      <4>1. q \in Int /\ i \in Int
        BY <1>1, <1>5, <1>14
      <4> QED BY <1>5, <1>16, <2>2, <4>1
    <3> QED BY <1>14, <1>15, <3>1
  <2> QED BY <2>1, <2>2
<1>18. all = [i \in 1 .. q - p |-> order[p + i - 1]]
  <2>1. DOMAIN all = 1 .. q - p /\ all = [i \in DOMAIN all |-> all[i]]
    BY <1>15, <1>16
  <2> QED BY <1>17, <2>1
<1> QED BY <1>4, <1>18 DEF all, Slice, q

LEMMA RunsAgree ==
  ASSUME NEW V, NEW rm, Sound(rm, V), Level(rm), NEW r \in Ranges, Survey(rm).bands[r].open
  PROVE  LET band == Survey(rm).bands[r]
             run == band.run
         IN  /\ run = RunFrom(Order(rm), Starting(rm), EntryAreaOf(rm, rm.rules[r]))
             /\ run \in Seq(OnAFace(rm)) /\ Len(run) >= 1 /\ band.start = At(rm, run[1])
             /\ \A i, j \in 1 .. Len(run) : i < j <=> Earlier(At(rm, run[i]), At(rm, run[j]))
             /\ band.boundaries = BoundariesFrom(rm, run)
<1> DEFINE face == OnAFace(rm)
           order == Order(rm)
           n == Len(order)
           entry == EntryAreaOf(rm, rm.rules[r])
           band == Survey(rm).bands[r]
<1>1. PICK opening \in face :
        /\ opening.id = entry /\ opening \in Starting(rm)
        /\ band = Band(rm, At(rm, opening), Past(rm, order, Starting(rm), opening))
  BY OpeningIs
<1>2. /\ order \in Seq(face) /\ n \in Nat /\ DOMAIN order = 1 .. n
      /\ \A x \in face : \E i \in 1 .. n : order[i] = x
      /\ \A i, j \in 1 .. n : order[i] = order[j] => i = j
      /\ \A i, j \in 1 .. n : i < j <=> Earlier(At(rm, order[i]), At(rm, order[j]))
  <2>1. face \in SUBSET OnAFace(rm)
    OBVIOUS
  <2>2. /\ Enumerates(OrderOf(rm, face), face)
        /\ \A i, j \in 1 .. Len(OrderOf(rm, face)) :
             i < j <=> Earlier(At(rm, OrderOf(rm, face)[i]), At(rm, OrderOf(rm, face)[j]))
    BY <2>1, PlanksInOrder
  <2>3. order = OrderOf(rm, face)
    BY DEF Order
  <2> HIDE DEF order, face
  <2> QED BY <2>2, <2>3 DEF Enumerates
<1>3. face \in SUBSET rm.areas /\ \A a, c \in face : a.id = c.id => a = c
  BY FacesFinite DEF FaceIsFinite, Sound, SchemaHolds, OnePlankAPlace
<1> HIDE DEF face, order, n, entry, band
<1>4. PICK p \in 1 .. n : order[p] = opening
  BY <1>2
<1>5. (CHOOSE i \in DOMAIN order : order[i] = opening) = p
  BY <1>2, <1>4
<1> DEFINE later == StartsAfter(order, Starting(rm), p)
           q == NextStart(order, Starting(rm), p)
           past == IF later = {} THEN {} ELSE {At(rm, order[Min(later)])}
           start == At(rm, opening)
           t == Slice(order, p, q)
           inside == {a \in face : /\ ~Earlier(At(rm, a), start)
                                   /\ \A x \in past : Earlier(At(rm, a), x)}
<1>6. Past(rm, order, Starting(rm), opening) = past
  <2> DEFINE at == CHOOSE i \in DOMAIN order : order[i] = opening
             later0 == {i \in DOMAIN order : i > at /\ order[i] \in Starting(rm)}
  <2>1. Past(rm, order, Starting(rm), opening) = IF later0 = {} THEN {} ELSE {At(rm, order[Min(later0)])}
    BY DEF Past
  <2>2. later0 = later
    BY <1>5 DEF StartsAfter
  <2> HIDE DEF later0, later
  <2> QED BY <2>1, <2>2
<1>7. q = IF later = {} THEN n + 1 ELSE Min(later)
  BY DEF NextStart, n
<1>8. \A i : i \in later <=> i \in 1 .. n /\ i > p /\ order[i] \in Starting(rm)
  BY <1>2 DEF StartsAfter
<1> HIDE DEF q, later
<1>9. q \in p + 1 .. n + 1 /\ (later # {} => q \in 1 .. n /\ q = Min(later))
  <2>1. CASE later = {}
    <3>1. q = n + 1
      BY <1>7, <2>1
    <3> QED BY <1>2, <2>1, <3>1
  <2>2. CASE later # {}
    <3>1. later \in SUBSET (1 .. n) /\ later \in SUBSET Int
      BY <1>8
    <3>2. IsFiniteSet(later)
      BY <1>2, <3>1, IntervalSubset
    <3>3. Min(later) \in later
      BY <2>2, <3>1, <3>2, MinInt
    <3>4. q \in 1 .. n /\ q > p /\ q = Min(later)
      BY <1>2, <1>7, <1>8, <2>2, <3>3
    <3> QED BY <1>2, <3>4
  <2> QED BY <2>1, <2>2
<1>10. p \in Nat /\ q \in Nat /\ p >= 1 /\ p < q /\ q <= n + 1
  BY <1>2, <1>9
<1>11. RunFrom(order, Starting(rm), entry) = t
  <2>1. order[p].id = entry /\ order[p] \in Starting(rm) /\ p \in 1 .. Len(order)
    BY <1>1, <1>4 DEF n
  <2>2. \A i \in 1 .. Len(order) : order[i].id = entry => i = p
    BY <1>1, <1>2, <1>3, <1>4 DEF n
  <2> QED BY <1>2, <2>1, <2>2, RunFromIs DEF q
<1>12. ASSUME NEW i \in 1 .. n PROVE order[i] \in inside <=> p <= i /\ i < q
  <2>1. order[i] \in face
    BY <1>2
  <2>2. ~Earlier(At(rm, order[i]), start) <=> p <= i
    <3>1. i < p <=> Earlier(At(rm, order[i]), At(rm, order[p]))
      BY <1>2
    <3> QED BY <1>4, <1>10, <3>1
  <2>3. (\A x \in past : Earlier(At(rm, order[i]), x)) <=> i < q
    <3>1. CASE later = {}
      <4>1. past = {} /\ q = n + 1
        BY <1>7, <3>1
      <4> HIDE DEF past
      <4> QED BY <1>2, <4>1
    <3>2. CASE later # {}
      <4>1. q \in 1 .. n /\ q = Min(later)
        BY <1>9, <3>2
      <4>2. past = {At(rm, order[q])}
        BY <3>2, <4>1
      <4> HIDE DEF past
      <4> QED BY <1>2, <4>1, <4>2
    <3> QED BY <3>1, <3>2
  <2> QED BY <2>1, <2>2, <2>3
<1> HIDE DEF past
<1>13. t = [k \in 1 .. q - p |-> order[p + k - 1]] /\ q - p \in Nat /\ q - p >= 1
  BY <1>10 DEF Slice
<1>14. ASSUME NEW k \in 1 .. q - p PROVE p + k - 1 \in 1 .. n /\ p + k - 1 >= p /\ p + k - 1 < q
  BY <1>2, <1>10
<1> HIDE DEF t, inside
<1>15. \A k \in 1 .. q - p : t[k] \in inside
  BY <1>12, <1>13, <1>14
<1>16. t \in Seq(inside) /\ Len(t) = q - p
  BY <1>13, <1>15
<1>17. Enumerates(t, inside)
  <2>1. ASSUME NEW x \in inside PROVE \E k \in 1 .. q - p : t[k] = x
    <3>1. x \in face
      BY DEF inside
    <3>2. PICK i \in 1 .. n : order[i] = x
      BY <1>2, <3>1
    <3>3. p <= i /\ i < q
      BY <1>12, <3>2
    <3>4. i - p + 1 \in 1 .. q - p /\ p + (i - p + 1) - 1 = i
      BY <1>10, <3>3
    <3> QED BY <1>13, <3>2, <3>4
  <2>2. ASSUME NEW j \in 1 .. q - p, NEW k \in 1 .. q - p, t[j] = t[k] PROVE j = k
    <3>1. p + j - 1 = p + k - 1
      BY <1>2, <1>13, <1>14, <2>2
    <3> QED BY <1>10, <3>1
  <2> QED BY <1>16, <2>1, <2>2 DEF Enumerates
<1>18. ASSUME NEW j \in 1 .. q - p, NEW k \in 1 .. q - p
       PROVE  j < k <=> Earlier(At(rm, t[j]), At(rm, t[k]))
  <2>1. j < k <=> p + j - 1 < p + k - 1
    BY <1>10
  <2>2. t[j] = order[p + j - 1] /\ t[k] = order[p + k - 1]
    BY <1>13
  <2> QED BY <1>2, <1>14, <2>1, <2>2
<1>19. inside \in SUBSET face
  BY DEF inside
<1>20. t = OrderOf(rm, inside)
  BY <1>16, <1>17, <1>18, <1>19, PlanksInOrder DEF face
<1>21. RunAreasOf(rm, start, past) = t
  <2> DEFINE first == {a \in inside : \A b \in inside : At(rm, b).shelf = At(rm, a).shelf => a.piece <= b.piece}
  <2>1. RunAreasOf(rm, start, past) = OrderOf(rm, first)
    BY DEF RunAreasOf, inside, face
  <2>2. ASSUME NEW a \in inside, NEW b \in inside, At(rm, b).shelf = At(rm, a).shelf PROVE a.piece <= b.piece
    <3>1. a.piece = b.piece
      BY <1>19, <2>2 DEF Level, face
    <3>2. a.piece \in Nat
      BY <1>3, <1>19, AtIs
    <3> QED BY <3>1, <3>2
  <2>3. first = inside
    BY <2>2
  <2> QED BY <1>20, <2>1, <2>3
<1>22. band.start = start /\ band.run = t /\ band.boundaries = BoundariesFrom(rm, t)
  BY <1>1, <1>6, <1>21 DEF Band
<1>23. t[1] = opening
  <2>1. 1 \in 1 .. q - p /\ p + 1 - 1 = p
    BY <1>10, <1>13
  <2> QED BY <1>4, <1>13, <2>1
<1>24. t \in Seq(face) /\ Len(t) >= 1
  BY <1>13, <1>15, <1>16, <1>19
<1> HIDE DEF t
<1>25. \A i, j \in 1 .. Len(t) : i < j <=> Earlier(At(rm, t[i]), At(rm, t[j]))
  BY <1>16, <1>18
<1>26. band.start = At(rm, band.run[1])
  BY <1>22, <1>23
<1> QED BY <1>11, <1>22, <1>24, <1>25, <1>26 DEF band, face, order, entry

\* How far along a straight run a key reaches.
Reached(run, key) == {i \in 1 .. Len(run) - 1 : run[i + 1].startsAt <= key}

\* A run read in a sound room, in the order and at the places the arithmetic of
\* boundaries takes it to have.
RunsStraight(rm, run) ==
  /\ Sound(rm, Nat) /\ run \in Seq(OnAFace(rm)) /\ Len(run) >= 1 /\ StraightRun(rm, run)

LEMMA RunIsOfRows ==
  ASSUME NEW rm, NEW run, RunsStraight(rm, run)
  PROVE  /\ Len(run) \in Nat \ {0} /\ DOMAIN run = 1 .. Len(run)
         /\ \A i \in 1 .. Len(run) : /\ run[i] \in OnAFace(rm) /\ run[i] \in rm.areas
                                     /\ run[i] \in AreaRowIn(Nat) /\ run[i].startsAt \in Nat
<1>1. run \in Seq(OnAFace(rm)) /\ Len(run) >= 1
  BY DEF RunsStraight
<1>2. OnAFace(rm) \in SUBSET rm.areas /\ rm.areas \in SUBSET AreaRowIn(Nat)
  BY FacesFinite DEF FaceIsFinite, Sound, RoomIn, RunsStraight
<1>3. \A i \in 1 .. Len(run) : run[i] \in OnAFace(rm) /\ run[i] \in rm.areas /\ run[i] \in AreaRowIn(Nat)
  BY <1>1, <1>2
<1>4. \A a \in AreaRowIn(Nat) : a.startsAt \in Nat
  BY DEF AreaRowIn
<1>5. Len(run) \in Nat \ {0} /\ DOMAIN run = 1 .. Len(run)
  BY <1>1
<1> QED BY <1>3, <1>4, <1>5

LEMMA StartsInOrder ==
  ASSUME NEW rm, NEW run, RunsStraight(rm, run)
  PROVE  \A i, j \in 2 .. Len(run) : i <= j => run[i].startsAt <= run[j].startsAt
<1> DEFINE n == Len(run)
           E == {d \in Nat : \A i \in 2 .. n : i + d \in 2 .. n => run[i].startsAt <= run[i + d].startsAt}
<1>1. n \in Nat /\ \A i \in 2 .. n : run[i].startsAt \in Nat
  BY RunIsOfRows
<1>2. \A i \in 1 .. n - 1 : i > 1 => run[i].startsAt <= run[i + 1].startsAt
  BY DEF RunsStraight, StraightRun
<1> HIDE DEF n
<1>3. 0 \in E
  BY <1>1
<1>4. ASSUME NEW d \in E PROVE d + 1 \in E
  <2>1. d \in Nat /\ d + 1 \in Nat
    OBVIOUS
  <2>2. ASSUME NEW i \in 2 .. n, i + (d + 1) \in 2 .. n PROVE run[i].startsAt <= run[i + (d + 1)].startsAt
    <3>1. i + d \in 2 .. n /\ i + d \in 1 .. n - 1 /\ i + d > 1 /\ (i + d) + 1 = i + (d + 1)
      BY <1>1, <2>1, <2>2
    <3>2. run[i].startsAt <= run[i + d].startsAt
      BY <3>1
    <3>3. run[i + d].startsAt <= run[i + (d + 1)].startsAt
      BY <1>2, <3>1
    <3>4. run[i].startsAt \in Nat /\ run[i + d].startsAt \in Nat /\ run[i + (d + 1)].startsAt \in Nat
      BY <1>1, <2>2, <3>1
    <3> QED BY <3>2, <3>3, <3>4
  <2> QED BY <2>1, <2>2
<1>5. E = Nat
  <2>1. E \in SUBSET Nat
    OBVIOUS
  <2> HIDE DEF E
  <2> QED BY <1>3, <1>4, <2>1, NatsAll
<1>6. ASSUME NEW i \in 2 .. n, NEW j \in 2 .. n, i <= j PROVE run[i].startsAt <= run[j].startsAt
  <2>1. j - i \in Nat /\ i + (j - i) = j
    BY <1>1, <1>6
  <2> QED BY <1>5, <2>1
<1> QED BY <1>6 DEF n

LEMMA ReachedIs ==
  ASSUME NEW rm, NEW run, RunsStraight(rm, run), NEW key \in Nat
  PROVE  /\ Cardinality(Reached(run, key)) \in 0 .. Len(run) - 1
         /\ Reached(run, key) = 1 .. Cardinality(Reached(run, key))
<1> DEFINE n == Len(run) - 1
           R == Reached(run, key)
<1>1. n \in Nat /\ \A i \in 1 .. n : i + 1 \in 2 .. Len(run) /\ run[i + 1].startsAt \in Nat
  BY RunIsOfRows
<1>2. \A i : i \in R <=> i \in 1 .. n /\ run[i + 1].startsAt <= key
  BY DEF Reached
<1> HIDE DEF R
<1>3. R \in SUBSET (1 .. n)
  BY <1>2
<1>4. ASSUME NEW i \in 1 .. n, NEW j \in 1 .. n, i < j, j \in R PROVE i \in R
  <2>1. i + 1 \in 2 .. Len(run) /\ j + 1 \in 2 .. Len(run) /\ i + 1 <= j + 1
    BY <1>1, <1>4
  <2>2. run[i + 1].startsAt <= run[j + 1].startsAt
    BY <2>1, StartsInOrder
  <2>3. run[j + 1].startsAt <= key /\ run[i + 1].startsAt \in Nat /\ run[j + 1].startsAt \in Nat
    BY <1>1, <1>2, <1>4
  <2> QED BY <1>2, <2>2, <2>3
<1> HIDE DEF n
<1>5. Cardinality(R) \in 0 .. n /\ R = 1 .. Cardinality(R)
  BY <1>1, <1>3, <1>4, Initial
<1> QED BY <1>5 DEF n, R

LEMMA TailIs ==
  ASSUME NEW rm, NEW run, RunsStraight(rm, run)
  PROVE  /\ Tail(run) \in Seq(OnAFace(rm)) /\ Len(Tail(run)) = Len(run) - 1
         /\ DOMAIN Tail(run) = 1 .. Len(run) - 1
         /\ \A i \in 1 .. Len(run) - 1 : Tail(run)[i] = run[i + 1]
         /\ Anchored(Tail(run)) = Tail(run)
<1> DEFINE rest == Tail(run)
           n == Len(run) - 1
<1>1. run \in Seq(OnAFace(rm)) /\ Len(run) >= 1 /\ run # <<>>
  BY DEF RunsStraight
<1>2. /\ n \in Nat /\ \A i \in 1 .. n : i + 1 \in 2 .. Len(run) /\ run[i + 1].startsAt \in Nat
  BY RunIsOfRows
<1>3. rest \in Seq(OnAFace(rm)) /\ Len(rest) = n /\ \A i \in 1 .. n : rest[i] = run[i + 1]
  BY <1>1, HeadTailProperties
<1> HIDE DEF rest
<1>4. \A b \in OnAFace(rm) : b.startsAt \in Int
  BY FacesFinite, AtIs DEF FaceIsFinite, RunsStraight
<1>5. ASSUME NEW i \in 1 .. Len(rest), NEW j \in 1 .. Len(rest), i < j PROVE rest[i].startsAt <= rest[j].startsAt
  <2>1. i \in 1 .. n /\ j \in 1 .. n
    BY <1>3
  <2>2. i + 1 \in 2 .. Len(run) /\ j + 1 \in 2 .. Len(run) /\ i + 1 <= j + 1
    BY <1>2, <1>5, <2>1
  <2> QED BY <1>3, <2>1, <2>2, StartsInOrder
<1>6. Anchored(rest) = rest
  BY <1>3, <1>4, <1>5, MetInOrder
<1> QED BY <1>3, <1>6 DEF rest

LEMMA BoundariesAre ==
  ASSUME NEW rm, NEW run, RunsStraight(rm, run)
  PROVE  LET list == BoundariesFrom(rm, run)
         IN  /\ Len(list) = Len(run) - 1 /\ DOMAIN list = 1 .. Len(run) - 1
             /\ \A i \in 1 .. Len(run) - 1 :
                  /\ list[i].startsAt = run[i + 1].startsAt
                  /\ list[i].kind = IF At(rm, run[i + 1]).shelf > At(rm, run[i]).shelf THEN "shelf" ELSE "area"
             /\ Anchored(list) = list
<1> DEFINE list == BoundariesFrom(rm, run)
           n == Len(run) - 1
<1>1. run \in Seq(AreaRowIn(Nat)) /\ run # <<>>
  <2>1. Len(run) \in Nat \ {0} /\ \A i \in 1 .. Len(run) : run[i] \in AreaRowIn(Nat)
    BY RunIsOfRows
  <2>2. run \in Seq(OnAFace(rm))
    BY DEF RunsStraight
  <2> QED BY <2>1, <2>2
<1>2. /\ n \in Nat /\ \A i \in 1 .. n : i + 1 \in 2 .. Len(run) /\ run[i + 1].startsAt \in Nat
  BY RunIsOfRows
<1>3. list \in Seq(BoundaryIn(Nat))
  BY <1>1, BoundariesFromIn
<1>4. /\ DOMAIN list = 1 .. n
      /\ \A i \in 1 .. n :
           /\ list[i].startsAt = run[i + 1].startsAt
           /\ list[i].kind = IF At(rm, run[i + 1]).shelf > At(rm, run[i]).shelf THEN "shelf" ELSE "area"
  BY <1>1 DEF BoundariesFrom
<1> HIDE DEF list
<1>5. Len(list) = n
  BY <1>2, <1>3, <1>4
<1>6. \A b \in BoundaryIn(Nat) : b.startsAt \in Int
  BY DEF BoundaryIn
<1>7. ASSUME NEW i \in 1 .. Len(list), NEW j \in 1 .. Len(list), i < j PROVE list[i].startsAt <= list[j].startsAt
  <2>1. i \in 1 .. n /\ j \in 1 .. n
    BY <1>5
  <2>2. i + 1 \in 2 .. Len(run) /\ j + 1 \in 2 .. Len(run) /\ i + 1 <= j + 1
    BY <1>2, <1>7, <2>1
  <2> QED BY <1>4, <2>1, <2>2, StartsInOrder
<1>8. Anchored(list) = list
  BY <1>3, <1>6, <1>7, MetInOrder
<1> QED BY <1>4, <1>5, <1>8 DEF list

\* The planks counted out from the boundaries of a straight run are its own.
LEMMA CountedOut ==
  ASSUME NEW rm, NEW run, RunsStraight(rm, run), NEW i \in 1 .. Len(run)
  PROVE  LET planks == AreasOf(At(rm, run[1]), BoundariesFrom(rm, run))
         IN  /\ DOMAIN planks = 1 .. Len(run)
             /\ planks[i].shelf = At(rm, run[i]).shelf
             /\ planks[i].area = At(rm, run[i]).area
<1> DEFINE n == Len(run)
           list == BoundariesFrom(rm, run)
           start == At(rm, run[1])
           planks == AreasOf(start, list)
           shelves(k) == {j \in 1 .. k - 1 : list[j].kind = "shelf"}
           right(k) == planks[k].shelf = At(rm, run[k]).shelf /\ planks[k].area = At(rm, run[k]).area
           E == {k \in Nat : k + 1 \in 1 .. n => right(k + 1)}
<1>1. n \in Nat \ {0} /\ \A k \in 1 .. n : run[k] \in rm.areas
  BY RunIsOfRows
<1>2. \A k \in 1 .. n : At(rm, run[k]).shelf \in Int /\ At(rm, run[k]).area \in Int
  BY <1>1, AtIs DEF RunsStraight
<1>3. /\ Len(list) = n - 1 /\ Anchored(list) = list
      /\ \A k \in 1 .. n - 1 :
           list[k].kind = IF At(rm, run[k + 1]).shelf > At(rm, run[k]).shelf THEN "shelf" ELSE "area"
  BY BoundariesAre
<1>4. ASSUME NEW k \in 1 .. n - 1
      PROVE  \/ /\ list[k].kind = "shelf"
                /\ At(rm, run[k + 1]).shelf = At(rm, run[k]).shelf + 1 /\ At(rm, run[k + 1]).area = 0
             \/ /\ list[k].kind # "shelf"
                /\ At(rm, run[k + 1]).shelf = At(rm, run[k]).shelf
                /\ At(rm, run[k + 1]).area = At(rm, run[k]).area + 1
  <2>1. k \in 1 .. n /\ k + 1 \in 1 .. n
    BY <1>1
  <2>2. At(rm, run[k + 1]) \in {NextPlank(At(rm, run[k]), "shelf"), NextPlank(At(rm, run[k]), "area")}
    BY DEF RunsStraight, StraightRun, Follows
  <2>3. \/ At(rm, run[k + 1]).shelf = At(rm, run[k]).shelf + 1 /\ At(rm, run[k + 1]).area = 0
        \/ At(rm, run[k + 1]).shelf = At(rm, run[k]).shelf /\ At(rm, run[k + 1]).area = At(rm, run[k]).area + 1
    BY <2>2 DEF NextPlank
  <2>4. At(rm, run[k]).shelf \in Int /\ At(rm, run[k + 1]).shelf \in Int
    BY <1>2, <2>1
  <2> QED BY <1>3, <2>3, <2>4
<1>5. /\ DOMAIN planks = 1 .. n
      /\ \A k \in 1 .. n :
           /\ planks[k].shelf = start.shelf + Cardinality(shelves(k))
           /\ planks[k].area = IF shelves(k) = {} THEN start.area + k - 1 ELSE k - 1 - Max(shelves(k))
  <2>1. 1 .. Len(list) + 1 = 1 .. n
    BY <1>1, <1>3
  <2> HIDE DEF list, n
  <2> QED BY <1>3, <2>1 DEF AreasOf
<1>6. \A k \in 1 .. n : shelves(k) \in SUBSET Int /\ IsFiniteSet(shelves(k)) /\ Cardinality(shelves(k)) \in Nat
  <2>1. ASSUME NEW k \in 1 .. n
        PROVE  shelves(k) \in SUBSET Int /\ IsFiniteSet(shelves(k)) /\ Cardinality(shelves(k)) \in Nat
    <3>1. k - 1 \in Nat /\ shelves(k) \in SUBSET (1 .. k - 1) /\ shelves(k) \in SUBSET Int
      BY <1>1
    <3> HIDE DEF shelves
    <3> QED BY <3>1, IntervalSubset
  <2> QED BY <2>1
<1>7. ASSUME NEW k \in 1 .. n - 1
      PROVE  shelves(k + 1) = shelves(k) \cup (IF list[k].kind = "shelf" THEN {k} ELSE {}) /\ k \notin shelves(k)
  <2>1. \A j : j \in 1 .. (k + 1) - 1 <=> j \in 1 .. k - 1 \/ j = k
    BY <1>1
  <2>2. k \notin 1 .. k - 1
    BY <1>1
  <2> HIDE DEF list
  <2> QED BY <2>1, <2>2
<1>8. shelves(1) = {}
  OBVIOUS
<1>9. right(1)
  <2>1. 1 \in 1 .. n /\ Cardinality(shelves(1)) = 0
    BY <1>1, <1>8, FS_EmptySet
  <2>2. start.shelf \in Int /\ start.area \in Int
    BY <1>2, <2>1
  <2> HIDE DEF planks, shelves
  <2>3. planks[1].shelf = start.shelf + 0 /\ planks[1].area = start.area + 1 - 1
    BY <1>5, <1>8, <2>1
  <2> QED BY <2>2, <2>3
<1> HIDE DEF planks, shelves, start, list, n
<1>10. ASSUME NEW k \in 1 .. n - 1, right(k) PROVE right(k + 1)
  <2>1. k \in Nat /\ k \in 1 .. n /\ k + 1 \in 1 .. n
    BY <1>1
  <2>2. /\ At(rm, run[k]).shelf \in Int /\ At(rm, run[k]).area \in Int
        /\ start.shelf \in Int /\ start.area \in Int
    BY <1>1, <1>2, <2>1 DEF start
  <2>3. /\ At(rm, run[k]).shelf = start.shelf + Cardinality(shelves(k))
        /\ At(rm, run[k]).area = IF shelves(k) = {} THEN start.area + k - 1 ELSE k - 1 - Max(shelves(k))
    BY <1>5, <1>10, <2>1
  <2>4. /\ planks[k + 1].shelf = start.shelf + Cardinality(shelves(k + 1))
        /\ planks[k + 1].area = IF shelves(k + 1) = {} THEN start.area + (k + 1) - 1
                                ELSE (k + 1) - 1 - Max(shelves(k + 1))
    BY <1>5, <2>1
  <2>5. /\ shelves(k) \in SUBSET Int /\ IsFiniteSet(shelves(k)) /\ Cardinality(shelves(k)) \in Nat
        /\ shelves(k + 1) \in SUBSET Int /\ IsFiniteSet(shelves(k + 1))
    BY <1>6, <2>1
  <2>6. CASE list[k].kind = "shelf"
    <3>1. shelves(k + 1) = shelves(k) \cup {k} /\ k \notin shelves(k)
      BY <1>7, <2>6
    <3>2. Cardinality(shelves(k + 1)) = Cardinality(shelves(k)) + 1
      BY <2>5, <3>1, FS_AddElement
    <3>3. Max(shelves(k + 1)) = k
      <4>1. \A j \in shelves(k + 1) : j <= k
        BY <2>1, <3>1 DEF shelves
      <4>2. Max(shelves(k + 1)) \in shelves(k + 1) /\ \A j \in shelves(k + 1) : j <= Max(shelves(k + 1))
        BY <2>5, <3>1, MaxInt
      <4>3. k \in shelves(k + 1)
        BY <3>1
      <4>4. Max(shelves(k + 1)) \in Int /\ k <= Max(shelves(k + 1)) /\ Max(shelves(k + 1)) <= k
        BY <2>5, <4>1, <4>2, <4>3
      <4> QED BY <2>1, <4>4
    <3>4. At(rm, run[k + 1]).shelf = At(rm, run[k]).shelf + 1 /\ At(rm, run[k + 1]).area = 0
      BY <1>4, <2>6
    <3>5. planks[k + 1].shelf = At(rm, run[k + 1]).shelf
      <4>1. \A x \in Int, y \in Nat : (x + y) + 1 = x + (y + 1)
        OBVIOUS
      <4>2. start.shelf \in Int /\ Cardinality(shelves(k)) \in Nat
        BY <2>2, <2>5
      <4>3. (start.shelf + Cardinality(shelves(k))) + 1 = start.shelf + (Cardinality(shelves(k)) + 1)
        BY <4>1, <4>2
      <4> QED BY <2>3, <2>4, <3>2, <3>4, <4>3
    <3>6. planks[k + 1].area = 0
      <4>1. planks[k + 1].area = (k + 1) - 1 - k
        BY <2>4, <3>1, <3>3
      <4> QED BY <2>1, <4>1
    <3> QED BY <3>4, <3>5, <3>6
  <2>7. CASE list[k].kind # "shelf"
    <3>1. shelves(k + 1) = shelves(k)
      BY <1>7, <2>7
    <3>2. /\ At(rm, run[k + 1]).shelf = At(rm, run[k]).shelf
          /\ At(rm, run[k + 1]).area = At(rm, run[k]).area + 1
      BY <1>4, <2>7
    <3>3. planks[k + 1].shelf = At(rm, run[k + 1]).shelf
      BY <2>3, <2>4, <3>1, <3>2
    <3>4. planks[k + 1].area = At(rm, run[k]).area + 1
      <4>1. CASE shelves(k) = {}
        BY <2>1, <2>2, <2>3, <2>4, <3>1, <4>1
      <4>2. CASE shelves(k) # {}
        <5>1. Max(shelves(k)) \in Int
          BY <2>5, <4>2, MaxInt
        <5> QED BY <2>1, <2>3, <2>4, <3>1, <4>2, <5>1
      <4> QED BY <4>1, <4>2
    <3> QED BY <3>2, <3>3, <3>4
  <2> QED BY <2>6, <2>7
<1> HIDE DEF right
<1>11. E = Nat
  <2>1. 0 \in E
    BY <1>9
  <2>2. ASSUME NEW k \in E PROVE k + 1 \in E
    <3>1. k \in Nat
      OBVIOUS
    <3>2. ASSUME (k + 1) + 1 \in 1 .. n PROVE right((k + 1) + 1)
      <4>1. k + 1 \in 1 .. n - 1 /\ k + 1 \in 1 .. n
        BY <1>1, <3>1, <3>2
      <4> QED BY <1>10, <4>1
    <3> QED BY <3>1, <3>2
  <2>3. E \in SUBSET Nat
    OBVIOUS
  <2> HIDE DEF E
  <2> QED BY <2>1, <2>2, <2>3, NatsAll
<1>12. right(i)
  <2>1. i - 1 \in Nat /\ (i - 1) + 1 = i /\ i \in 1 .. n
    BY <1>1 DEF n
  <2> QED BY <1>11, <2>1
<1> QED BY <1>5, <1>12 DEF right, planks, list, start, n

\* The three walks over a straight run stop at one plank of it.
LEMMA LayoutStops ==
  ASSUME NEW rm, NEW run, RunsStraight(rm, run), NEW key \in Nat,
         NEW m, m = Cardinality(Reached(run, key))
  PROVE  PlankFor(At(rm, run[1]), BoundariesFrom(rm, run), key) = At(rm, run[m + 1])
<1> DEFINE list == BoundariesFrom(rm, run)
           planks == AreasOf(At(rm, run[1]), list)
           met == {i \in DOMAIN list : list[i].startsAt <= key}
           plank == planks[1 + Cardinality(met)]
<1>1. m \in 0 .. Len(run) - 1 /\ Len(run) \in Nat
  BY ReachedIs, RunIsOfRows
<1>2. m + 1 \in 1 .. Len(run) /\ 1 + m = m + 1
  BY <1>1
<1>3. met = Reached(run, key)
  <2>1. DOMAIN list = 1 .. Len(run) - 1 /\ \A i \in 1 .. Len(run) - 1 : list[i].startsAt = run[i + 1].startsAt
    BY BoundariesAre
  <2> HIDE DEF list
  <2> QED BY <2>1 DEF Reached
<1>4. plank = planks[m + 1]
  BY <1>2, <1>3
<1>5. PlankFor(At(rm, run[1]), list, key) = [shelf |-> plank.shelf, area |-> plank.area]
  BY DEF PlankFor
<1>6. planks[m + 1].shelf = At(rm, run[m + 1]).shelf /\ planks[m + 1].area = At(rm, run[m + 1]).area
  BY <1>2, CountedOut
<1>7. At(rm, run[m + 1]) = [shelf |-> At(rm, run[m + 1]).shelf, area |-> At(rm, run[m + 1]).area]
  BY DEF At
<1> HIDE DEF plank, planks, list
<1> QED BY <1>4, <1>5, <1>6, <1>7 DEF list

LEMMA RunStops ==
  ASSUME NEW rm, NEW run, RunsStraight(rm, run), NEW key \in Nat,
         NEW m, m = Cardinality(Reached(run, key))
  PROVE  AreaOfKey(run, key) = run[m + 1].id
<1> DEFINE met == Anchored(Tail(run))
           reached == {i \in DOMAIN met : met[i].startsAt <= key}
<1>1. m \in 0 .. Len(run) - 1 /\ Reached(run, key) = 1 .. m
  BY ReachedIs
<1>2. /\ met = Tail(run) /\ DOMAIN met = 1 .. Len(run) - 1
      /\ \A i \in 1 .. Len(run) - 1 : met[i] = run[i + 1]
  BY TailIs
<1>3. run # <<>>
  BY DEF RunsStraight
<1>4. AreaOfKey(run, key) = IF reached = {} THEN run[1].id ELSE met[Max(reached)].id
  BY <1>3 DEF AreaOfKey
<1> HIDE DEF met
<1>5. reached = 1 .. m
  BY <1>1, <1>2 DEF Reached
<1> HIDE DEF reached
<1>6. CASE m = 0
  <2>1. reached = {} /\ m + 1 = 1
    BY <1>5, <1>6
  <2> QED BY <1>4, <2>1
<1>7. CASE m # 0
  <2>1. m \in 1 .. m /\ m \in Nat /\ m \in 1 .. Len(run) - 1
    BY <1>1, <1>7
  <2>2. reached # {} /\ reached \in SUBSET Int
    BY <1>5, <2>1
  <2>3. IsFiniteSet(reached)
    BY <1>5, <2>1, FS_Interval
  <2>4. Max(reached) \in reached /\ \A i \in reached : i <= Max(reached)
    BY <2>2, <2>3, MaxInt
  <2>5. Max(reached) \in 1 .. m /\ m <= Max(reached)
    BY <1>5, <2>1, <2>4
  <2>6. Max(reached) = m
    BY <2>1, <2>5
  <2> QED BY <1>2, <1>4, <2>1, <2>2, <2>6
<1> QED BY <1>6, <1>7

LEMMA RulesStop ==
  ASSUME NEW rm, NEW run, RunsStraight(rm, run), NEW key \in Nat,
         NEW m, m = Cardinality(Reached(run, key))
  PROVE  AreaFor(run, key) = run[m + 1].id
<1> DEFINE rest == Tail(run)
           n == Len(run) - 1
           stops == {i \in DOMAIN rest : ~(rest[i].startsAt <= key)}
           W == IF stops = {} THEN rest ELSE SubSeq(rest, 1, Min(stops) - 1)
<1>1. m \in 0 .. n /\ Reached(run, key) = 1 .. m /\ n \in Nat
  BY ReachedIs, RunIsOfRows
<1>2. /\ rest \in Seq(OnAFace(rm)) /\ Len(rest) = n /\ DOMAIN rest = 1 .. n
      /\ \A i \in 1 .. n : rest[i] = run[i + 1]
  BY TailIs
<1>3. run # <<>> /\ run[1] \in OnAFace(rm)
  <2>1. 1 \in 1 .. Len(run)
    BY <1>1
  <2>2. run[1] \in OnAFace(rm)
    BY <2>1, RunIsOfRows
  <2> QED BY <2>2 DEF RunsStraight
<1>4. AreaFor(run, key) = (<<run[1]>> \o W)[1 + Len(W)].id
  BY <1>3 DEF AreaFor, While
<1>5. \A i : i \in Reached(run, key) <=> i \in 1 .. n /\ run[i + 1].startsAt <= key
  BY DEF Reached
<1> HIDE DEF rest, n
<1>6. \A i : i \in stops <=> i \in 1 .. n /\ i > m
  <2>1. \A i \in 1 .. n : i > m <=> i \notin 1 .. m
    BY <1>1
  <2>2. \A i : i \in stops <=> i \in 1 .. n /\ ~(run[i + 1].startsAt <= key)
    BY <1>2
  <2> HIDE DEF stops
  <2> QED BY <1>1, <1>5, <2>1, <2>2
<1> HIDE DEF stops
<1>7. W \in Seq(OnAFace(rm)) /\ Len(W) = m /\ \A i \in 1 .. m : W[i] = rest[i]
  <2>1. CASE m = n
    <3>1. stops = {}
      BY <1>1, <1>6, <2>1
    <3>2. W = rest
      BY <3>1
    <3> HIDE DEF W
    <3> QED BY <1>2, <2>1, <3>2
  <2>2. CASE m # n
    <3>1. m + 1 \in stops /\ m \in Nat
      BY <1>1, <1>6, <2>2
    <3>2. stops \in SUBSET (1 .. n) /\ stops \in SUBSET Int
      BY <1>6
    <3>3. IsFiniteSet(stops)
      BY <1>1, <3>2, IntervalSubset
    <3>4. Min(stops) \in stops /\ \A i \in stops : Min(stops) <= i
      BY <3>1, <3>2, <3>3, MinInt
    <3>5. Min(stops) \in Int /\ Min(stops) <= m + 1 /\ Min(stops) > m
      BY <1>6, <3>1, <3>2, <3>4
    <3>6. Min(stops) - 1 = m
      BY <3>1, <3>5
    <3>7. W = SubSeq(rest, 1, m)
      BY <3>1, <3>6
    <3>8. \A i \in 1 .. m : rest[i] \in OnAFace(rm)
      <4>1. \A i \in 1 .. m : i \in 1 .. n
        BY <1>1
      <4> QED BY <1>2, <4>1
    <3>9. /\ SubSeq(rest, 1, m) \in Seq(OnAFace(rm))
          /\ Len(SubSeq(rest, 1, m)) = IF 1 <= m THEN m - 1 + 1 ELSE 0
          /\ \A i \in 1 .. m - 1 + 1 : SubSeq(rest, 1, m)[i] = rest[1 + i - 1]
      <4>1. 1 \in Int /\ m \in Int
        BY <3>1
      <4> QED BY <3>8, <4>1, SubSeqProperties
    <3> HIDE DEF W
    <3>10. Len(W) = m
      BY <3>1, <3>7, <3>9
    <3>11. ASSUME NEW i \in 1 .. m PROVE W[i] = rest[i]
      <4>1. i \in 1 .. m - 1 + 1 /\ 1 + i - 1 = i
        BY <3>1
      <4> QED BY <3>7, <3>9, <4>1
    <3> QED BY <3>7, <3>9, <3>10, <3>11
  <2> QED BY <2>1, <2>2
<1> HIDE DEF W
<1> DEFINE one == <<run[1]>>
<1>8. one \in Seq(OnAFace(rm)) /\ Len(one) = 1 /\ one[1] = run[1]
  BY <1>3
<1> HIDE DEF one
<1>9. \A i \in 1 .. 1 + m : (one \o W)[i] = IF i <= 1 THEN one[i] ELSE W[i - 1]
  <2>1. W \in Seq(OnAFace(rm))
    BY <1>7
  <2>2. \A i \in 1 .. Len(one) + Len(W) : (one \o W)[i] = IF i <= Len(one) THEN one[i] ELSE W[i - Len(one)]
    BY <1>8, <2>1, ConcatProperties
  <2> QED BY <1>7, <1>8, <2>2
<1>10. AreaFor(run, key) = (one \o W)[1 + m].id
  BY <1>4, <1>7 DEF one
<1>11. 1 + m \in 1 .. 1 + m /\ 1 + m = m + 1
  BY <1>1
<1>12. CASE m = 0
  <2>1. 1 + m <= 1 /\ 1 + m = 1
    BY <1>12
  <2>2. (one \o W)[1 + m] = one[1]
    BY <1>9, <1>11, <2>1
  <2> QED BY <1>8, <1>10, <1>12, <2>2
<1>13. CASE m # 0
  <2>1. ~(1 + m <= 1) /\ (1 + m) - 1 = m /\ m \in 1 .. m /\ m \in 1 .. n
    BY <1>1, <1>13
  <2>2. (one \o W)[1 + m] = rest[m]
    BY <1>7, <1>9, <1>11, <2>1
  <2> QED BY <1>2, <1>10, <2>1, <2>2
<1> QED BY <1>12, <1>13

\* The three walks of a sound room agree.
LEMMA WalksOfARoom ==
  ASSUME Sound(room, Nat), survey = Survey(room), walk = Walk(room, survey)
  PROVE  WalksAgree
<1> SUFFICES ASSUME walk.straight, NEW b \in Books, survey.bands[RangeOf[b]].open
             PROVE  /\ AreaAt(RangeOf[b], walk.layout[b]) = {walk.belonging[b]}
                    /\ RuleAnswer(room, survey, b) = walk.belonging[b]
  BY DEF WalksAgree
<1> DEFINE r == RangeOf[b]
           key == Key[b]
           band == survey.bands[r]
           run == band.run
           m == Cardinality(Reached(run, key))
<1>1. r \in Ranges /\ key \in Nat
  BY ShelvesAssumption
<1>2. /\ walk.layout = Layout(survey) /\ walk.belonging = Belonging(survey)
      /\ Straight(room, survey)
  BY DEF Walk
<1>3. Level(room) /\ StraightRun(room, run)
  BY <1>1, <1>2 DEF Straight, Level
<1>4. /\ run = RunFrom(survey.order, survey.starting, EntryAreaOf(room, room.rules[r]))
      /\ run \in Seq(OnAFace(room)) /\ Len(run) >= 1 /\ band.start = At(room, run[1])
      /\ \A i, j \in 1 .. Len(run) : i < j <=> Earlier(At(room, run[i]), At(room, run[j]))
      /\ band.boundaries = BoundariesFrom(room, run)
  <2>1. survey.order = Order(room) /\ survey.starting = Starting(room)
    BY DEF Survey, Surveyed
  <2>2. Survey(room).bands[r].open
    OBVIOUS
  <2> HIDE DEF r
  <2>3. LET is == Survey(room).bands[r] IN
        /\ is.run = RunFrom(Order(room), Starting(room), EntryAreaOf(room, room.rules[r]))
        /\ is.run \in Seq(OnAFace(room)) /\ Len(is.run) >= 1 /\ is.start = At(room, is.run[1])
        /\ \A i, j \in 1 .. Len(is.run) : i < j <=> Earlier(At(room, is.run[i]), At(room, is.run[j]))
        /\ is.boundaries = BoundariesFrom(room, is.run)
    BY <1>1, <1>3, <2>2, RunsAgree
  <2>4. band = Survey(room).bands[r]
    OBVIOUS
  <2> HIDE DEF band
  <2> QED BY <2>1, <2>3, <2>4
<1>5. walk.layout[b] = PlankFor(band.start, band.boundaries, key) /\ walk.belonging[b] = AreaOfKey(run, key)
  BY <1>2 DEF Layout, Belonging, PlankOfKey
<1>6. RuleAnswer(room, survey, b) = AreaFor(run, key)
  BY <1>4 DEF RuleAnswer
<1>7. AreaAt(r, walk.layout[b]) = {a.id : a \in {c \in ToSet(run) : At(room, c) = walk.layout[b]}}
  BY DEF AreaAt
<1> HIDE DEF r, key, band, run
<1>8. RunsStraight(room, run)
  BY <1>3, <1>4 DEF RunsStraight
<1>9. /\ walk.layout[b] = At(room, run[m + 1])
      /\ walk.belonging[b] = run[m + 1].id
      /\ RuleAnswer(room, survey, b) = run[m + 1].id
  BY <1>1, <1>4, <1>5, <1>6, <1>8, LayoutStops, RunStops, RulesStop
<1>10. m + 1 \in 1 .. Len(run) /\ Len(run) \in Nat /\ DOMAIN run = 1 .. Len(run)
  BY <1>1, <1>8, ReachedIs, RunIsOfRows
<1> HIDE DEF m
<1>11. ASSUME NEW i \in 1 .. Len(run), At(room, run[i]) = At(room, run[m + 1]) PROVE i = m + 1
  <2>1. run[i] \in room.areas
    BY <1>8, RunIsOfRows
  <2>2. At(room, run[i]).shelf \in Int /\ At(room, run[i]).area \in Int
    BY <2>1, AtIs
  <2>3. ~Earlier(At(room, run[i]), At(room, run[m + 1])) /\ ~Earlier(At(room, run[m + 1]), At(room, run[i]))
    BY <1>11, <2>2 DEF Earlier
  <2>4. ~(i < m + 1) /\ ~(m + 1 < i)
    BY <1>4, <1>10, <2>3
  <2> QED BY <1>10, <2>4
<1>12. {c \in ToSet(run) : At(room, c) = walk.layout[b]} = {run[m + 1]}
  <2>1. ToSet(run) = {run[i] : i \in 1 .. Len(run)}
    BY <1>10 DEF ToSet
  <2> QED BY <1>9, <1>10, <1>11, <2>1
<1>13. AreaAt(r, walk.layout[b]) = {run[m + 1].id}
  BY <1>7, <1>12
<1> QED BY <1>9, <1>13 DEF r

\* What is read of a room is read of its areas, its rules and the pieces the areas
\* stand on.
SameFurniture(to, rm) ==
  to.areas = rm.areas /\ to.rules = rm.rules /\ \A a \in rm.areas : PieceOf(to, a) = PieceOf(rm, a)

LEMMA PlacesRead ==
  ASSUME NEW to, NEW rm, SameFurniture(to, rm)
  PROVE  /\ OnAFace(to) = OnAFace(rm) /\ \A a \in rm.areas : At(to, a) = At(rm, a)
         /\ \A areas \in SUBSET rm.areas : OrderOf(to, areas) = OrderOf(rm, areas)
         /\ \A place : EntryAreaOf(to, place) = EntryAreaOf(rm, place)
         /\ Starting(to) = Starting(rm) /\ Order(to) = Order(rm)
<1>1. /\ to.areas = rm.areas /\ to.rules = rm.rules
      /\ \A a \in rm.areas : PieceOf(to, a) = PieceOf(rm, a)
  BY DEF SameFurniture
<1>2. OnAFace(to) = OnAFace(rm) /\ OnAFace(rm) \in SUBSET rm.areas
  BY <1>1 DEF OnAFace
<1>3. \A a \in rm.areas : At(to, a) = At(rm, a)
  BY <1>1 DEF At
<1>4. ASSUME NEW areas \in SUBSET rm.areas PROVE OrderOf(to, areas) = OrderOf(rm, areas)
  <2> DEFINE f == [a \in areas |-> <<PieceOf(to, a).position, a.piece, a.position>>]
             g == [a \in areas |-> <<PieceOf(rm, a).position, a.piece, a.position>>]
  <2>1. f = g
    BY <1>1
  <2>2. OrderOf(to, areas) = Sorted(areas, f) /\ OrderOf(rm, areas) = Sorted(areas, g)
    BY DEF OrderOf
  <2> HIDE DEF f, g
  <2> QED BY <2>1, <2>2
<1>5. ASSUME NEW place PROVE EntryAreaOf(to, place) = EntryAreaOf(rm, place)
  BY <1>2 DEF EntryAreaOf
<1>6. Entries(to) = Entries(rm)
  <2>1. \A r \in Rules : EntryAreaOf(to, to.rules[r]) = EntryAreaOf(rm, rm.rules[r])
    BY <1>1, <1>5
  <2> QED BY <2>1 DEF Entries
<1>7. Starting(to) = Starting(rm)
  BY <1>2, <1>6 DEF Starting
<1>8. Order(to) = Order(rm)
  BY <1>2, <1>4 DEF Order
<1> QED BY <1>2, <1>3, <1>4, <1>5, <1>7, <1>8

LEMMA BandsRead ==
  ASSUME NEW V, NEW rm, Sound(rm, V), NEW to, SameFurniture(to, rm), NEW r \in Ranges
  PROVE  BandOf(to, Order(rm), Starting(rm), EntryAreaOf(rm, rm.rules[r]))
           = BandOf(rm, Order(rm), Starting(rm), EntryAreaOf(rm, rm.rules[r]))
<1> DEFINE entry == EntryAreaOf(rm, rm.rules[r])
           order == Order(rm)
           starting == Starting(rm)
           opening == CHOOSE a \in rm.areas : a.id = entry
           start == At(rm, opening)
           past == Past(rm, order, starting, opening)
           run == RunAreasOf(rm, start, past)
<1>1. /\ OnAFace(to) = OnAFace(rm) /\ \A a \in rm.areas : At(to, a) = At(rm, a)
      /\ \A areas \in SUBSET rm.areas : OrderOf(to, areas) = OrderOf(rm, areas)
  BY PlacesRead
<1>2. to.areas = rm.areas /\ OnAFace(rm) \in SUBSET rm.areas
  BY FacesFinite DEF FaceIsFinite, SameFurniture
<1>3. CASE entry = Null
  BY <1>3 DEF BandOf
<1>4. CASE entry # Null
  <2>1. opening \in rm.areas
    <3>1. entry \in IdsOf(OnAFace(rm))
      BY <1>4, EntryIn
    <3>2. \E a \in rm.areas : a.id = entry
      BY <1>2, <3>1 DEF IdsOf
    <3> QED BY <3>2
  <2>2. order \in Seq(OnAFace(rm))
    BY FacesFinite, OrderEnumerates DEF FaceIsFinite, Enumerates, Order
  <2> HIDE DEF entry, order, starting, opening
  <2>3. At(to, opening) = start
    BY <1>1, <2>1
  <2>4. Past(to, order, starting, opening) = past
    <3> DEFINE at == CHOOSE i \in DOMAIN order : order[i] = opening
               later == {i \in DOMAIN order : i > at /\ order[i] \in starting}
    <3>1. /\ Past(to, order, starting, opening) = IF later = {} THEN {} ELSE {At(to, order[Min(later)])}
          /\ past = IF later = {} THEN {} ELSE {At(rm, order[Min(later)])}
      BY DEF Past
    <3>2. later \in SUBSET (1 .. Len(order)) /\ Len(order) \in Nat
      BY <2>2
    <3> HIDE DEF later, past
    <3>3. later # {} => order[Min(later)] \in rm.areas
      <4>1. IsFiniteSet(later) /\ later \in SUBSET Int
        BY <3>2, IntervalSubset
      <4>2. later # {} => Min(later) \in later
        BY <4>1, MinInt
      <4>3. \A i \in 1 .. Len(order) : order[i] \in OnAFace(rm)
        BY <2>2
      <4> QED BY <1>2, <3>2, <4>2, <4>3
    <3> QED BY <1>1, <3>1, <3>3
  <2> HIDE DEF start, past
  <2>5. RunAreasOf(to, start, past) = run
    <3> DEFINE inside == {a \in OnAFace(rm) : /\ ~Earlier(At(rm, a), start)
                                              /\ \A p \in past : Earlier(At(rm, a), p)}
               inside2 == {a \in OnAFace(to) : /\ ~Earlier(At(to, a), start)
                                               /\ \A p \in past : Earlier(At(to, a), p)}
               first == {a \in inside : \A b \in inside : At(rm, b).shelf = At(rm, a).shelf => a.piece <= b.piece}
               first2 == {a \in inside2 : \A b \in inside2 : At(to, b).shelf = At(to, a).shelf => a.piece <= b.piece}
    <3>1. inside2 = inside
      BY <1>1, <1>2
    <3>2. inside \in SUBSET rm.areas
      BY <1>2
    <3> HIDE DEF inside, inside2
    <3>3. first2 = first /\ first \in SUBSET rm.areas
      BY <1>1, <3>1, <3>2
    <3>4. RunAreasOf(to, start, past) = OrderOf(to, first2) /\ run = OrderOf(rm, first)
      BY DEF RunAreasOf, inside, inside2
    <3> HIDE DEF first, first2, run
    <3> QED BY <1>1, <3>3, <3>4
  <2>6. run \in Seq(rm.areas)
    <3>1. BandIn(Band(rm, start, past), rm.areas, V)
      BY <2>1, AtIs, BandSound DEF start
    <3> QED BY <3>1 DEF BandIn, Band
  <2> HIDE DEF run
  <2>7. BoundariesFrom(to, run) = BoundariesFrom(rm, run)
    <3> DEFINE kind(x, i) == IF At(x, run[i + 1]).shelf > At(x, run[i]).shelf THEN "shelf" ELSE "area"
               one(x, i) == [id |-> run[i + 1].id, kind |-> kind(x, i), startsAt |-> run[i + 1].startsAt]
    <3>1. ASSUME NEW i \in 1 .. Len(run) - 1 PROVE kind(to, i) = kind(rm, i)
      <4>1. run[i] \in rm.areas /\ run[i + 1] \in rm.areas
        BY <2>6
      <4> QED BY <1>1, <4>1
    <3>2. \A i \in 1 .. Len(run) - 1 : one(to, i) = one(rm, i)
      BY <3>1
    <3>3. /\ BoundariesFrom(to, run) = IF run = <<>> THEN <<>> ELSE [i \in 1 .. Len(run) - 1 |-> one(to, i)]
          /\ BoundariesFrom(rm, run) = IF run = <<>> THEN <<>> ELSE [i \in 1 .. Len(run) - 1 |-> one(rm, i)]
      BY DEF BoundariesFrom
    <3> HIDE DEF one
    <3> QED BY <3>2, <3>3
  <2>8. Band(to, start, past) = Band(rm, start, past)
    BY <2>5, <2>7 DEF Band, run
  <2>9. /\ BandOf(rm, order, starting, entry) = Band(rm, start, past)
        /\ BandOf(to, order, starting, entry) = Band(to, start, past)
    BY <1>2, <1>4, <2>3, <2>4 DEF BandOf, opening, start, past
  <2> QED BY <2>8, <2>9 DEF entry, order, starting
<1> QED BY <1>3, <1>4

LEMMA SurveyReads ==
  ASSUME NEW V, NEW rm, Sound(rm, V), NEW to, SameFurniture(to, rm)
  PROVE  Survey(to) = Survey(rm) /\ Walk(to, Survey(rm)) = Walk(rm, Survey(rm))
<1>1. /\ OnAFace(to) = OnAFace(rm) /\ \A a \in rm.areas : At(to, a) = At(rm, a)
      /\ \A place : EntryAreaOf(to, place) = EntryAreaOf(rm, place)
      /\ Starting(to) = Starting(rm) /\ Order(to) = Order(rm)
  BY PlacesRead
<1>2. to.rules = rm.rules /\ OnAFace(rm) \in SUBSET rm.areas
  BY FacesFinite DEF FaceIsFinite, SameFurniture
<1>3. Survey(to) = Survey(rm)
  BY <1>1, <1>2, BandsRead DEF Survey, Surveyed
<1>4. \A r \in Ranges : Survey(rm).bands[r].run \in Seq(rm.areas)
  BY SurveySound DEF BandIn
<1>5. \A r \in Ranges : StraightRun(to, Survey(rm).bands[r].run) <=> StraightRun(rm, Survey(rm).bands[r].run)
  <2>1. ASSUME NEW run \in Seq(rm.areas) PROVE StraightRun(to, run) <=> StraightRun(rm, run)
    <3>1. ASSUME NEW i \in 1 .. Len(run) - 1 PROVE At(to, run[i]) = At(rm, run[i]) /\ At(to, run[i + 1]) = At(rm, run[i + 1])
      <4>1. run[i] \in rm.areas /\ run[i + 1] \in rm.areas
        OBVIOUS
      <4> QED BY <1>1, <4>1
    <3> QED BY <3>1 DEF StraightRun, Follows
  <2> QED BY <1>4, <2>1
<1>6. Straight(to, Survey(rm)) = Straight(rm, Survey(rm))
  BY <1>1, <1>2, <1>5 DEF Straight
<1> QED BY <1>3, <1>6 DEF Walk

-----------------------------------------------------------------------------
(* What the ledger says *)

StandingIn(W) == [area : W, assigned : W, declined : Nat,
                  pinned : BOOLEAN, out : BOOLEAN, withdrawn : BOOLEAN]
WhereIn(W) == [Books -> StandingIn(W)]

LEMMA AfterRowIn ==
  ASSUME NEW W \in SUBSET Nat, Nowhere \in W, NEW where \in StandingIn(W),
         NEW kind \in {"assigned", "placed"}, NEW area \in W
  PROVE  AfterRow(where, [kind |-> kind, area |-> area]) \in StandingIn(W)
<1>1. Nowhere \in Nat
  OBVIOUS
<1>2. CASE kind = "assigned"
  BY <1>1, <1>2 DEF AfterRow, Refused, StandingIn
<1>3. CASE kind = "placed"
  BY <1>1, <1>3 DEF AfterRow, Refused, StandingIn
<1> QED BY <1>2, <1>3

LEMMA AssignmentIs ==
  ASSUME NEW where, NEW wanted
  PROVE  AssignmentFor(where, wanted) \in {Nowhere, wanted}
BY DEF AssignmentFor, Owed

LEMMA WhereGrows ==
  ASSUME NEW W, NEW X, W \subseteq X, NEW where \in WhereIn(W)
  PROVE  where \in WhereIn(X)
BY DEF WhereIn, StandingIn

LEMMA AssignedIn ==
  ASSUME NEW W \in SUBSET Nat, Nowhere \in W, NEW where \in WhereIn(W),
         NEW before, NEW is \in [Books -> W]
  PROVE  Assigned(before, is, where) \in WhereIn(W)
<1> DEFINE f == [b \in Books |->
                   LET to == AssignmentFor(where[b], is[b]) IN
                   IF before[b] = is[b] \/ to = Nowhere THEN where[b]
                   ELSE AfterRow(where[b], [kind |-> "assigned", area |-> to])]
<1>1. Assigned(before, is, where) = f
  BY DEF Assigned
<1>2. ASSUME NEW b \in Books PROVE f[b] \in StandingIn(W)
  <2>1. where[b] \in StandingIn(W) /\ is[b] \in W
    BY DEF WhereIn
  <2>2. AssignmentFor(where[b], is[b]) \in W
    BY <2>1, AssignmentIs
  <2>3. AfterRow(where[b], [kind |-> "assigned", area |-> AssignmentFor(where[b], is[b])]) \in StandingIn(W)
    BY <2>1, <2>2, AfterRowIn
  <2> QED BY <2>1, <2>3
<1> QED BY <1>1, <1>2 DEF WhereIn

LEMMA PlacementsIn ==
  ASSUME NEW W \in SUBSET Nat, Nowhere \in W, NEW where \in WhereIn(W),
         NEW books, NEW answers \in [books -> W]
  PROVE  AssignPlacements(answers, where) \in WhereIn(W)
<1> DEFINE f == [b \in Books |->
                   LET to == IF b \in DOMAIN answers THEN AssignmentFor(where[b], answers[b]) ELSE Nowhere IN
                   IF to # Nowhere
                   THEN AfterRow(where[b], [kind |-> "assigned", area |-> to]) ELSE where[b]]
<1>1. AssignPlacements(answers, where) = f
  BY DEF AssignPlacements
<1>2. ASSUME NEW b \in Books PROVE f[b] \in StandingIn(W)
  <2> DEFINE to == IF b \in DOMAIN answers THEN AssignmentFor(where[b], answers[b]) ELSE Nowhere
  <2>1. where[b] \in StandingIn(W) /\ (b \in DOMAIN answers => answers[b] \in W)
    BY DEF WhereIn
  <2>2. to \in W
    BY <2>1, AssignmentIs
  <2>3. f[b] = IF to # Nowhere THEN AfterRow(where[b], [kind |-> "assigned", area |-> to]) ELSE where[b]
    OBVIOUS
  <2> HIDE DEF to, f
  <2>4. AfterRow(where[b], [kind |-> "assigned", area |-> to]) \in StandingIn(W)
    BY <2>1, <2>2, AfterRowIn
  <2> QED BY <2>1, <2>3, <2>4
<1> QED BY <1>1, <1>2 DEF WhereIn

-----------------------------------------------------------------------------
(* The state of the room *)

LEMMA SoundGrows ==
  ASSUME NEW V, NEW W, V \subseteq W, NEW rm, Sound(rm, V)
  PROVE  Sound(rm, W)
BY DEF Sound, RoomIn, AreaRowIn

LEMMA BandGrows ==
  ASSUME NEW V, NEW W, V \subseteq W, NEW areas, NEW band, BandIn(band, areas, V)
  PROVE  BandIn(band, areas, W)
<1>1. BoundaryIn(V) \subseteq BoundaryIn(W)
  BY DEF BoundaryIn
<1> HIDE DEF BoundaryIn
<1> QED BY <1>1, SeqMonotonic DEF BandIn

LEMMA IdsAreNats ==
  ASSUME NEW V, NEW rm, Sound(rm, V)
  PROVE  /\ IdsOf(rm.areas) \cup {Nowhere} \in SUBSET Nat
         /\ rm.named \cup {Nowhere} \subseteq IdsOf(rm.areas) \cup {Nowhere}
         /\ Nowhere = Null /\ Nowhere \in Nat
<1>1. \A a \in rm.areas : a.id \in Nat
  BY DEF Sound, RoomIn, AreaRowIn
<1>2. Nowhere = Null /\ Nowhere \in Nat
  BY ShelvesAssumption DEF Null
<1>3. IdsOf(rm.areas) \in SUBSET Nat
  BY <1>1 DEF IdsOf
<1> QED BY <1>2, <1>3 DEF Sound, SchemaHolds

\* Everything the room holds, what is read of it, and what the ledger says.
Stands(rm, surveyed, where, V) ==
  /\ 0 \in V
  /\ Sound(rm, V)
  /\ \A r \in Ranges : BandIn(surveyed.bands[r], rm.areas, V)
  /\ where \in WhereIn(rm.named \cup {Nowhere})

LEMMA NamingSound ==
  ASSUME NEW V, NEW rm, Sound(rm, V), NEW where \in WhereIn(IdsOf(rm.areas) \cup {Nowhere})
  PROVE  /\ Sound(Naming(rm, where), V) /\ Naming(rm, where).areas = rm.areas
         /\ where \in WhereIn(Naming(rm, where).named \cup {Nowhere})
<1> DEFINE to == Naming(rm, where)
           more == (UNION {{where[b].area, where[b].assigned} : b \in Books}) \ {Nowhere}
           N == rm.named \cup more
<1>1. to = [rm EXCEPT !.named = N]
  BY DEF Naming
<1>2. \A b \in Books : where[b] \in StandingIn(IdsOf(rm.areas) \cup {Nowhere})
  BY DEF WhereIn
<1>3. more \subseteq IdsOf(rm.areas)
  BY <1>2 DEF StandingIn
<1>4. \A b \in Books : {where[b].area, where[b].assigned} \subseteq more \cup {Nowhere}
  OBVIOUS
<1> HIDE DEF more
<1>5. N \subseteq IdsOf(rm.areas) /\ N \in SUBSET Nat
  <2>1. rm.named \subseteq IdsOf(rm.areas)
    BY DEF Sound, SchemaHolds
  <2>2. IdsOf(rm.areas) \in SUBSET Nat
    BY IdsAreNats
  <2> QED BY <1>3, <2>1, <2>2
<1>6. rm \in RoomIn(V)
  BY DEF Sound
<1>7. /\ to \in RoomIn(V) /\ to.areas = rm.areas /\ to.named = N /\ to.pieces = rm.pieces
      /\ to.rules = rm.rules /\ to.nextArea = rm.nextArea
  BY <1>1, <1>5, <1>6 DEF RoomIn
<1>8. \A b \in Books : where[b] \in StandingIn(N \cup {Nowhere})
  BY <1>2, <1>4 DEF StandingIn
<1>9. where \in WhereIn(N \cup {Nowhere})
  BY <1>8 DEF WhereIn
<1> HIDE DEF to, N
<1>10. SchemaHolds(to)
  BY <1>5, <1>7 DEF Sound, SchemaHolds, OnePlankAPlace
<1> QED BY <1>7, <1>9, <1>10 DEF Sound, to

LEMMA NamingReads ==
  ASSUME NEW V, NEW new, NEW where, Sound(Naming(new, where), V)
  PROVE  SameFurniture(new, Naming(new, where))
<1> DEFINE to == Naming(new, where)
           N == new.named \cup ((UNION {{where[b].area, where[b].assigned} : b \in Books}) \ {Nowhere})
<1>1. to = [new EXCEPT !.named = N]
  BY DEF Naming
<1>2. to \in RoomIn(V)
  BY DEF Sound
<1> HIDE DEF to, N
<1>3. new.areas = to.areas /\ new.rules = to.rules /\ new.pieces = to.pieces
  BY <1>1, <1>2 DEF RoomIn
<1>4. \A a \in to.areas : PieceOf(new, a) = PieceOf(to, a)
  BY <1>3 DEF PieceOf
<1> QED BY <1>3, <1>4 DEF SameFurniture, to

LEMMA DoneStands ==
  ASSUME NEW V, 0 \in V, NEW new, Sound(new, V),
         NEW where \in WhereIn(IdsOf(new.areas) \cup {Nowhere}), NEW said, Done(new, where, said)
  PROVE  Stands(room', survey', standing', V)
<1>1. room' = Naming(new, where) /\ survey' = Survey(room') /\ standing' = where
  BY DEF Done
<1>2. Sound(room', V) /\ standing' \in WhereIn(room'.named \cup {Nowhere})
  BY <1>1, NamingSound
<1>3. \A r \in Ranges : BandIn(survey'.bands[r], room'.areas, V)
  BY <1>1, <1>2, SurveySound
<1> QED BY <1>2, <1>3 DEF Stands

LEMMA MovedByIn ==
  ASSUME NEW V, NEW new, Sound(new, V), NEW where \in WhereIn(IdsOf(new.areas) \cup {Nowhere})
  PROVE  MovedBy(new, where) \in WhereIn(IdsOf(new.areas) \cup {Nowhere})
<1>1. Belonging(Survey(new)) \in [Books -> IdsOf(new.areas) \cup {Nowhere}]
  BY BelongingIn, IdsAreNats
<1>2. IdsOf(new.areas) \cup {Nowhere} \in SUBSET Nat
  BY IdsAreNats
<1> QED BY <1>1, <1>2, AssignedIn DEF MovedBy

LEMMA MovedInIn ==
  ASSUME NEW W, NEW range, NEW new, NEW where \in WhereIn(W), MovedBy(new, where) \in WhereIn(W)
  PROVE  MovedIn(range, new, where) \in WhereIn(W)
<1> DEFINE moved == MovedBy(new, where)
<1>1. MovedIn(range, new, where) = [b \in Books |-> IF RangeOf[b] = range THEN moved[b] ELSE where[b]]
  BY DEF MovedIn
<1> HIDE DEF moved
<1> QED BY <1>1 DEF WhereIn, moved

\* A change of the room that forgets no area a row of the ledger names.
LEMMA RearrangedStands ==
  ASSUME NEW V, NEW surveyed, Stands(room, surveyed, standing, V),
         NEW W, 0 \in W, NEW new, Sound(new, W), new.named = room.named,
         NEW said, Rearranged(new, said) \/ \E range : RunRearranged(range, new, said)
  PROVE  Stands(room', survey', standing', W)
<1>1. standing \in WhereIn(new.named \cup {Nowhere})
  BY DEF Stands
<1>2. standing \in WhereIn(IdsOf(new.areas) \cup {Nowhere})
  BY <1>1, IdsAreNats, WhereGrows
<1>3. MovedBy(new, standing) \in WhereIn(IdsOf(new.areas) \cup {Nowhere})
  BY <1>2, MovedByIn
<1>4. CASE Rearranged(new, said)
  BY <1>3, <1>4, DoneStands DEF Rearranged
<1>5. CASE \E range : RunRearranged(range, new, said)
  <2>1. PICK range : RunRearranged(range, new, said)
    BY <1>5
  <2>2. MovedIn(range, new, standing) \in WhereIn(IdsOf(new.areas) \cup {Nowhere})
    BY <1>2, <1>3, MovedInIn
  <2> QED BY <2>1, <2>2, DoneStands DEF RunRearranged
<1> QED BY <1>4, <1>5

-----------------------------------------------------------------------------
(* Boundaries moved and made *)

LEMMA ShiftedIn ==
  ASSUME NEW V, NEW list \in Seq(BoundaryIn(V)), NEW shifts,
         \A k \in DOMAIN shifts : shifts[k].startsAt \in V
  PROVE  Shifted(list, shifts) \in Seq(BoundaryIn(V))
<1> DEFINE n == Len(list)
           to(i) == {shifts[k].startsAt : k \in {j \in DOMAIN shifts : shifts[j].id = list[i].id}}
           one(i) == IF to(i) = {} THEN list[i] ELSE [list[i] EXCEPT !.startsAt = CHOOSE x \in to(i) : TRUE]
<1>1. n \in Nat /\ DOMAIN list = 1 .. n /\ \A i \in 1 .. n : list[i] \in BoundaryIn(V)
  OBVIOUS
<1>2. Shifted(list, shifts) = [i \in 1 .. n |-> one(i)]
  BY <1>1 DEF Shifted
<1>3. ASSUME NEW i \in 1 .. n PROVE one(i) \in BoundaryIn(V)
  <2>1. to(i) \subseteq V
    OBVIOUS
  <2>2. list[i] \in BoundaryIn(V)
    BY <1>1
  <2> HIDE DEF to
  <2> QED BY <2>1, <2>2 DEF BoundaryIn
<1> HIDE DEF one, n
<1> QED BY <1>1, <1>2, <1>3

\* What is read of the run a boundary is written to.
Reads(surveyed, areas, V) == \A r \in Ranges : BandIn(surveyed.bands[r], areas, V)

LEMMA WritingSound ==
  ASSUME NEW V, 0 \in V, NEW rm, Sound(rm, V), NEW surveyed, NEW areas, Reads(surveyed, areas, V),
         NEW range \in Ranges, NEW list \in Seq(BoundaryIn(V))
  PROVE  /\ Sound(WriteBoundaries(rm, surveyed, range, list), V)
         /\ WriteBoundaries(rm, surveyed, range, list).named = rm.named
<1>1. BandIn(surveyed.bands[range], areas, V)
  BY DEF Reads
<1>2. surveyed.bands[range].open =>
        surveyed.bands[range].start.shelf \in Int /\ surveyed.bands[range].start.area \in Int
  BY <1>1 DEF BandIn
<1>3. \A b \in BoundaryIn(V) : b.startsAt \in V
  BY DEF BoundaryIn
<1> QED BY <1>2, <1>3, WriteBoundariesSound

LEMMA AddBoundarySound ==
  ASSUME NEW V, 0 \in V, NEW rm, Sound(rm, V), NEW surveyed, NEW areas, Reads(surveyed, areas, V),
         NEW range \in Ranges, NEW one, one.startsAt \in V
  PROVE  /\ Sound(AddBoundary(rm, surveyed, range, one), V)
         /\ AddBoundary(rm, surveyed, range, one).named = rm.named
<1> DEFINE list == surveyed.bands[range].boundaries
           new == [id |-> Null, kind |-> one.kind, startsAt |-> one.startsAt]
           B == BoundaryIn(V) \cup {new}
<1>1. BandIn(surveyed.bands[range], areas, V)
  BY DEF Reads
<1>2. surveyed.bands[range].open =>
        surveyed.bands[range].start.shelf \in Int /\ surveyed.bands[range].start.area \in Int
  BY <1>1 DEF BandIn
<1>3. \A b \in B : b.startsAt \in V
  BY DEF BoundaryIn
<1>4. list \in Seq(B) /\ new \in B
  <2>1. list \in Seq(BoundaryIn(V))
    BY <1>1 DEF BandIn
  <2>2. BoundaryIn(V) \subseteq B /\ new \in B
    OBVIOUS
  <2> HIDE DEF B, list, new
  <2> QED BY <2>1, <2>2, SeqMonotonic
<1>5. AddBoundary(rm, surveyed, range, one) = WriteBoundaries(rm, surveyed, range, Append(list, new))
  BY DEF AddBoundary
<1> HIDE DEF B, list, new
<1>6. Append(list, new) \in Seq(B)
  BY <1>4, AppendProperties
<1> DEFINE longer == Append(list, new)
<1>7. longer \in Seq(B) /\ AddBoundary(rm, surveyed, range, one) = WriteBoundaries(rm, surveyed, range, longer)
  BY <1>5, <1>6
<1> HIDE DEF longer
<1>8. /\ Sound(WriteBoundaries(rm, surveyed, range, longer), V)
      /\ WriteBoundaries(rm, surveyed, range, longer).named = rm.named
  BY <1>2, <1>3, <1>7, WriteBoundariesSound
<1> QED BY <1>7, <1>8

LEMMA ReanchorAllSound ==
  ASSUME NEW V, 0 \in V, NEW rm, Sound(rm, V), NEW surveyed, NEW areas, Reads(surveyed, areas, V),
         NEW shifts, \A k \in DOMAIN shifts : shifts[k].startsAt \in V
  PROVE  /\ Sound(ReanchorAll(rm, surveyed, shifts), V)
         /\ ReanchorAll(rm, surveyed, shifts).named = rm.named
<1> DEFINE ranges == {r \in IF shifts = <<>> THEN {} ELSE Ranges :
                        \E i \in DOMAIN surveyed.bands[r].boundaries :
                          surveyed.bands[r].boundaries[i].id = shifts[1].id}
           range == CHOOSE r \in ranges : TRUE
           list == Shifted(surveyed.bands[range].boundaries, shifts)
<1>1. CASE ranges = {}
  BY <1>1 DEF ReanchorAll
<1>2. CASE ranges # {}
  <2>1. ranges \subseteq Ranges
    OBVIOUS
  <2>2. ReanchorAll(rm, surveyed, shifts) = WriteBoundaries(rm, surveyed, range, list)
    BY <1>2 DEF ReanchorAll
  <2> HIDE DEF ranges
  <2>3. range \in Ranges
    BY <1>2, <2>1
  <2> HIDE DEF range
  <2>4. surveyed.bands[range].boundaries \in Seq(BoundaryIn(V))
    BY <2>3 DEF Reads, BandIn
  <2>5. list \in Seq(BoundaryIn(V))
    BY <2>4, ShiftedIn
  <2> HIDE DEF list
  <2> QED BY <2>2, <2>3, <2>5, WritingSound
<1> QED BY <1>1, <1>2

LEMMA ReadsOfStands ==
  ASSUME NEW V, NEW rm, NEW surveyed, NEW where, Stands(rm, surveyed, where, V)
  PROVE  /\ Reads(surveyed, rm.areas, V)
         /\ \A W : V \subseteq W => Stands(rm, surveyed, where, W) /\ Reads(surveyed, rm.areas, W)
<1>1. Reads(surveyed, rm.areas, V)
  BY DEF Stands, Reads
<1>2. ASSUME NEW W, V \subseteq W PROVE Stands(rm, surveyed, where, W) /\ Reads(surveyed, rm.areas, W)
  <2>1. Sound(rm, W) /\ 0 \in W
    BY <1>2, SoundGrows DEF Stands
  <2>2. \A r \in Ranges : BandIn(surveyed.bands[r], rm.areas, W)
    BY <1>2, BandGrows DEF Stands
  <2> QED BY <2>1, <2>2 DEF Stands, Reads
<1> QED BY <1>1, <1>2

\* The room and what the ledger says, after a step and before.
AllStands(V) == Stands(room, survey, standing, V)
AllStandsThen(V) == Stands(room', survey', standing', V)

LEMMA AppliedStands ==
  ASSUME NEW V, AllStands(V), NEW range \in Ranges, NEW plan,
         \A c \in plan.create : c.startsAt \in V,
         \A k \in DOMAIN plan.shift : plan.shift[k].startsAt \in V,
         NEW said, RunRearranged(range, Applied(range, plan), said)
  PROVE  AllStandsThen(V)
<1> DEFINE one == CHOOSE c \in plan.create : TRUE
           new == Applied(range, plan)
<1>1. plan.create # {} => one.startsAt \in V
  OBVIOUS
<1>2. Stands(room, survey, standing, V) /\ Reads(survey, room.areas, V)
  BY ReadsOfStands DEF AllStands
<1>3. 0 \in V /\ Sound(room, V)
  BY <1>2 DEF Stands
<1>4. new = IF plan.create # {} THEN AddBoundary(room, survey, range, one) ELSE ReanchorAll(room, survey, plan.shift)
  BY DEF Applied
<1> HIDE DEF new, one
<1>5. Sound(new, V) /\ new.named = room.named
  <2>1. CASE plan.create # {}
    BY <1>1, <1>2, <1>3, <1>4, <2>1, AddBoundarySound
  <2>2. CASE plan.create = {}
    BY <1>1, <1>2, <1>3, <1>4, <2>2, ReanchorAllSound
  <2> QED BY <2>1, <2>2
<1>6. RunRearranged(range, new, said)
  BY DEF new
<1> QED BY <1>2, <1>3, <1>5, <1>6, RearrangedStands DEF AllStandsThen

\* The book that a plank being full is about.
LastOn(range, at, layout) == Max({i \in DOMAIN BooksIn(range) : layout[BooksIn(range)[i]] = at})

LEMMA FullBook ==
  ASSUME NEW range, NEW at, NEW layout,
         NEW b \in ToSet(BooksIn(range)), layout[b] = at
  PROVE  LET books == BooksIn(range)
             last == LastOn(range, at, layout)
         IN  /\ last \in DOMAIN books /\ books[last] \in Books /\ RangeOf[books[last]] = range
             /\ layout[books[last]] = at /\ Key[books[last]] \in Nat
<1> DEFINE books == BooksIn(range)
           mine == {c \in Books : RangeOf[c] = range}
           there == {i \in DOMAIN books : layout[books[i]] = at}
<1>1. IsFiniteSet(mine)
  BY ShelvesAssumption, FS_Subset
<1>2. Enumerates(books, mine)
  BY <1>1, SortedEnumerates DEF BooksIn
<1> HIDE DEF books, mine
<1>3. Len(books) \in Nat /\ DOMAIN books = 1 .. Len(books) /\ \A i \in DOMAIN books : books[i] \in mine
  BY <1>2 DEF Enumerates
<1>4. there \in SUBSET (1 .. Len(books)) /\ there \in SUBSET Int
  BY <1>3
<1>5. there # {}
  <2>1. b \in ToSet(books)
    BY DEF books
  <2>2. PICK i \in DOMAIN books : books[i] = b
    BY <2>1 DEF ToSet
  <2> QED BY <2>2
<1>6. Max(there) \in DOMAIN books /\ layout[books[Max(there)]] = at
  <2>1. IsFiniteSet(there)
    <3> HIDE DEF there
    <3> QED BY <1>3, <1>4, IntervalSubset
  <2>2. Max(there) \in there
    <3> HIDE DEF there
    <3> QED BY <1>4, <1>5, <2>1, MaxInt
  <2> QED BY <2>2
<1> HIDE DEF there
<1>7. books[Max(there)] \in Books /\ RangeOf[books[Max(there)]] = range
  BY <1>3, <1>6 DEF mine
<1>8. Key[books[Max(there)]] \in Nat
  BY <1>7, ShelvesAssumption
<1>9. LastOn(range, at, layout) = Max(there)
  BY DEF LastOn, there, books
<1> QED BY <1>6, <1>7, <1>8, <1>9 DEF books

\* Whatever is created or moved, it is anchored where the book in question starts.
LEMMA OverflowAnchors ==
  ASSUME NEW V, NEW books, NEW boundaries, NEW last, NEW at, NEW kindIfNew, Key[books[last]] \in V
  PROVE  LET plan == OverflowStep(books, boundaries, last, at, kindIfNew)
         IN  /\ \A c \in plan.create : c.startsAt \in V
             /\ \A k \in DOMAIN plan.shift : plan.shift[k].startsAt \in V
BY DEF OverflowStep, Create, Shift

LEMMA OverflowStands ==
  ASSUME AllStands(Nat), NEW range \in Ranges, NEW at, NEW kindIfNew, Overflow(range, at, kindIfNew)
  PROVE  AllStandsThen(Nat) /\ receipt' = receipt
<1> DEFINE books == BooksIn(range)
           last == LastOn(range, at, walk.layout)
           plan == OverflowStep(books, survey.bands[range].boundaries, last, at, kindIfNew)
<1>1. PICK b \in ToSet(books) : walk.layout[b] = at
  BY DEF Overflow
<1>2. Key[books[last]] \in Nat
  BY <1>1, FullBook
<1>3. /\ RunRearranged(range, Applied(range, plan),
            [what |-> "overflow", range |-> range, book |-> books[last], to |-> plan.to])
      /\ receipt' = receipt
  BY DEF Overflow, LastOn
<1> HIDE DEF books, last
<1>4. /\ \A c \in plan.create : c.startsAt \in Nat
      /\ \A k \in DOMAIN plan.shift : plan.shift[k].startsAt \in Nat
  BY <1>2, OverflowAnchors
<1> HIDE DEF plan
<1> QED BY <1>3, <1>4, AppliedStands

LEMMA CarryOnAnchors ==
  ASSUME NEW V, NEW range, NEW at, NEW key \in V, NEW kindIfNew
  PROVE  LET plan == CarryOnStep(range, at, key, kindIfNew)
         IN  /\ \A c \in plan.create : c.startsAt \in V
             /\ \A k \in DOMAIN plan.shift : plan.shift[k].startsAt \in V
<1> DEFINE plan == CarryOnStep(range, at, key, kindIfNew)
<1>1. plan = Create(at, key, kindIfNew) \/ \E one : plan = Shift(at, one, key)
  BY DEF CarryOnStep
<1> HIDE DEF plan
<1>2. CASE plan = Create(at, key, kindIfNew)
  BY <1>2 DEF Create, plan
<1>3. CASE \E one : plan = Shift(at, one, key)
  <2>1. PICK one : plan = Shift(at, one, key)
    BY <1>3
  <2>2. plan.create = {} /\ plan.shift = <<[id |-> one.id, startsAt |-> key]>>
    BY <2>1 DEF Shift
  <2> QED BY <2>2 DEF plan
<1> QED BY <1>1, <1>2, <1>3

LEMMA CarryOnStands ==
  ASSUME AllStands(Nat), NEW range \in Ranges, NEW key \in Nat, NEW kindIfNew,
         CarryOn(range, key, kindIfNew)
  PROVE  AllStandsThen(Nat) /\ receipt' = receipt
<1> DEFINE at == PlankOfKey(survey, range, key)
           plan == CarryOnStep(range, at, key, kindIfNew)
<1>1. /\ RunRearranged(range, Applied(range, plan),
            [what |-> "carry on", range |-> range, key |-> key, to |-> plan.to])
      /\ receipt' = receipt
  BY DEF CarryOn
<1>2. /\ \A c \in plan.create : c.startsAt \in Nat
      /\ \A k \in DOMAIN plan.shift : plan.shift[k].startsAt \in Nat
  BY CarryOnAnchors
<1> HIDE DEF plan
<1> QED BY <1>1, <1>2, AppliedStands

-----------------------------------------------------------------------------
(* A face numbered again *)

\* A room that keeps the schema, but for the places of its planks.
ButForPlaces(rm, V) ==
  /\ rm \in RoomIn(V) /\ IsFiniteSet(rm.areas) /\ IsFiniteSet(rm.pieces)
  /\ \A f, g \in rm.pieces : f.id = g.id => f = g
  /\ \A a, c \in rm.areas : a # c => a.id # c.id
  /\ \A a \in rm.areas : a.id < rm.nextArea /\ a.piece \in IdsOf(rm.pieces)
  /\ rm.named \subseteq IdsOf(rm.areas)
  /\ \A r \in Rules : /\ rm.rules[r].area \in IdsOf(rm.areas) \cup {Null}
                       /\ rm.rules[r].piece \in IdsOf(rm.pieces) \cup {Null}

\* A list of the planks of one piece, that leaves out none of its face.
ListsAFace(ids, rm, piece) ==
  /\ \E n \in Nat : DOMAIN ids = 1 .. n
  /\ \A i, j \in DOMAIN ids : ids[i] = ids[j] => i = j
  /\ \A a \in rm.areas : a.id \in ToSet(ids) => a.piece = piece
  /\ \A a \in rm.areas : a.piece = piece /\ a.id \notin ToSet(ids) => a.position < 0
  /\ \A a, c \in rm.areas :
       a # c /\ a.piece = c.piece /\ a.id \notin ToSet(ids) /\ c.id \notin ToSet(ids)
         => a.position # c.position

LEMMA SoundButForPlaces ==
  ASSUME NEW V, NEW rm, Sound(rm, V)
  PROVE  ButForPlaces(rm, V)
BY DEF Sound, SchemaHolds, OnePlankAPlace, ButForPlaces

\* The planks of one room are those of another, but for the places of some.
ButForThese(to, rm, ids) ==
  /\ to.pieces = rm.pieces
  /\ \A c \in to.areas : \E a \in rm.areas :
       c.id = a.id /\ c.piece = a.piece /\ (c.id \in ToSet(ids) \/ c.position = a.position)

LEMMA ResequencedSound ==
  ASSUME NEW V, NEW rm, ButForPlaces(rm, V), NEW ids, NEW piece, ListsAFace(ids, rm, piece)
  PROVE  /\ Sound(Resequenced(rm, ids), V)
         /\ Resequenced(rm, ids).named = rm.named
         /\ IdsOf(Resequenced(rm, ids).areas) = IdsOf(rm.areas)
         /\ ButForThese(Resequenced(rm, ids), rm, ids)
<1> DEFINE listed == ToSet(ids)
           place(id) == CHOOSE i \in DOMAIN ids : ids[i] = id
           moved(a) == IF a.id \in listed THEN [a EXCEPT !.position = place(a.id) - 1] ELSE a
           A == {moved(a) : a \in rm.areas}
           to == Resequenced(rm, ids)
           g == [a \in rm.areas |-> moved(a)]
<1>1. PICK n \in Nat : DOMAIN ids = 1 .. n
  BY DEF ListsAFace
<1>2. to = [rm EXCEPT !.areas = A]
  BY DEF Resequenced
<1>3. ASSUME NEW id \in listed PROVE place(id) \in 1 .. n /\ ids[place(id)] = id
  BY <1>1 DEF ToSet
<1>4. rm \in RoomIn(V) /\ rm.areas \in SUBSET AreaRowIn(V)
  BY DEF ButForPlaces, RoomIn
<1> HIDE DEF place, listed
<1>5. ASSUME NEW a \in rm.areas
      PROVE  /\ moved(a) \in AreaRowIn(V) /\ moved(a).id = a.id /\ moved(a).piece = a.piece
             /\ a.id \in listed => moved(a).position = place(a.id) - 1 /\ moved(a).position >= 0
             /\ a.id \notin listed => moved(a).position = a.position
  <2>1. a \in AreaRowIn(V)
    BY <1>4
  <2>2. CASE a.id \in listed
    <3>1. place(a.id) \in 1 .. n
      BY <1>3, <2>2
    <3>2. place(a.id) - 1 \in Int /\ place(a.id) - 1 >= 0
      BY <3>1
    <3> QED BY <2>1, <2>2, <3>2 DEF AreaRowIn
  <2>3. CASE a.id \notin listed
    BY <2>1, <2>3
  <2> QED BY <2>2, <2>3
<1>6. g \in Surjection(rm.areas, A)
  BY DEF Surjection
<1> HIDE DEF moved
<1>7. A \in SUBSET AreaRowIn(V) /\ IsFiniteSet(A)
  <2>1. IsFiniteSet(rm.areas)
    BY DEF ButForPlaces
  <2>2. A \in SUBSET AreaRowIn(V)
    BY <1>5
  <2> HIDE DEF A, g
  <2> QED BY <1>6, <2>1, <2>2, FS_Surjection
<1>8. IdsOf(A) = IdsOf(rm.areas)
  <2>1. \A a \in rm.areas : moved(a) \in A /\ moved(a).id = a.id
    BY <1>5
  <2>2. \A c \in A : \E a \in rm.areas : c.id = a.id
    BY <1>5
  <2> HIDE DEF A
  <2> QED BY <2>1, <2>2 DEF IdsOf
<1>9. ASSUME NEW a \in rm.areas, NEW c \in rm.areas, moved(a) # moved(c)
      PROVE  moved(a).id # moved(c).id /\ (moved(a).piece = moved(c).piece => moved(a).position # moved(c).position)
  <2>1. a # c /\ a.id # c.id
    BY <1>9 DEF ButForPlaces
  <2>2. ASSUME a.piece = c.piece PROVE moved(a).position # moved(c).position
    <3>1. CASE a.id \in listed /\ c.id \in listed
      <4>1. place(a.id) # place(c.id) /\ place(a.id) \in Int /\ place(c.id) \in Int
        BY <1>3, <2>1, <3>1
      <4>2. moved(a).position = place(a.id) - 1 /\ moved(c).position = place(c.id) - 1
        BY <1>5, <3>1
      <4> QED BY <4>1, <4>2
    <3>2. CASE a.id \in listed /\ c.id \notin listed
      <4>1. c.position < 0 /\ c.position \in Int
        BY <1>4, <2>2, <3>2 DEF ListsAFace, listed, AreaRowIn
      <4>2. moved(a).position >= 0 /\ moved(c).position = c.position
        BY <1>5, <3>2
      <4> QED BY <4>1, <4>2
    <3>3. CASE a.id \notin listed /\ c.id \in listed
      <4>1. a.position < 0 /\ a.position \in Int
        BY <1>4, <2>2, <3>3 DEF ListsAFace, listed, AreaRowIn
      <4>2. moved(c).position >= 0 /\ moved(a).position = a.position
        BY <1>5, <3>3
      <4> QED BY <4>1, <4>2
    <3>4. CASE a.id \notin listed /\ c.id \notin listed
      <4>1. a.position # c.position
        BY <2>1, <2>2, <3>4 DEF ListsAFace, listed
      <4> QED BY <1>5, <3>4, <4>1
    <3> QED BY <3>1, <3>2, <3>3, <3>4
  <2> QED BY <1>5, <2>1, <2>2
<1>10. /\ to \in RoomIn(V) /\ to.areas = A /\ to.named = rm.named /\ to.pieces = rm.pieces
       /\ to.rules = rm.rules /\ to.nextArea = rm.nextArea
  <2> HIDE DEF A, to
  <2> QED BY <1>2, <1>4, <1>7 DEF RoomIn
<1>11. OnePlankAPlace(to)
  <2>1. \A x, y \in A : x # y => x.id # y.id /\ (x.piece = y.piece => x.position # y.position)
    BY <1>9
  <2> HIDE DEF A, to
  <2> QED BY <1>10, <2>1 DEF OnePlankAPlace
<1>12. \A x \in A : x.id < rm.nextArea /\ x.piece \in IdsOf(rm.pieces)
  <2>1. \A a \in rm.areas : moved(a).id < rm.nextArea /\ moved(a).piece \in IdsOf(rm.pieces)
    BY <1>5 DEF ButForPlaces
  <2> QED BY <2>1
<1>13. ButForThese(to, rm, ids)
  <2>1. ASSUME NEW a \in rm.areas
        PROVE  moved(a).id = a.id /\ moved(a).piece = a.piece /\ (moved(a).id \in listed \/ moved(a).position = a.position)
    BY <1>5
  <2>2. \A c \in A : \E a \in rm.areas :
          c.id = a.id /\ c.piece = a.piece /\ (c.id \in listed \/ c.position = a.position)
    BY <2>1
  <2> HIDE DEF A, to
  <2> QED BY <1>10, <2>2 DEF ButForThese, listed
<1> HIDE DEF A, to
<1>14. SchemaHolds(to)
  BY <1>8, <1>10, <1>11, <1>12 DEF SchemaHolds, ButForPlaces
<1> QED BY <1>7, <1>8, <1>10, <1>13, <1>14 DEF Sound, ButForPlaces, to

LEMMA PlanksAre ==
  ASSUME NEW V, NEW rm, Sound(rm, V), NEW f \in rm.pieces, f.position >= 0
  PROVE  /\ Planks(rm, f.id) = {a \in rm.areas : a.piece = f.id /\ a.position >= 0}
         /\ IsFiniteSet(Planks(rm, f.id))
<1>1. ASSUME NEW a \in rm.areas, a.piece = f.id PROVE PieceOf(rm, a) = f
  BY <1>1 DEF PieceOf, Sound, SchemaHolds
<1>2. Planks(rm, f.id) = {a \in rm.areas : a.piece = f.id /\ a.position >= 0}
  BY <1>1 DEF Planks, OnAFace
<1> QED BY <1>2, FS_Subset DEF Sound

LEMMA PieceOfPlank ==
  ASSUME NEW V, NEW rm, Sound(rm, V), NEW a \in OnAFace(rm)
  PROVE  /\ a \in rm.areas /\ PieceOf(rm, a) \in rm.pieces /\ PieceOf(rm, a).id = a.piece
         /\ PieceOf(rm, a).position >= 0 /\ a \in Planks(rm, a.piece)
<1>1. a \in rm.areas /\ PieceOf(rm, a).position >= 0 /\ a \in Planks(rm, a.piece)
  BY DEF OnAFace, Planks
<1>2. a.piece \in IdsOf(rm.pieces)
  BY <1>1 DEF Sound, SchemaHolds
<1> QED BY <1>1, <1>2, PieceOfArea

LEMMA AlongEnumerates ==
  ASSUME NEW planks, IsFiniteSet(planks)
  PROVE  Enumerates(Along(planks), planks) /\ Len(Along(planks)) = Cardinality(planks)
BY SortedEnumerates DEF Along

\* The ids of the planks of a list, each once.
Lists(ids, planks) ==
  /\ \E n \in Nat : DOMAIN ids = 1 .. n
  /\ \A i, j \in DOMAIN ids : ids[i] = ids[j] => i = j
  /\ ToSet(ids) = IdsOf(planks)

LEMMA IdsOfEnumerated ==
  ASSUME NEW planks, \A a, c \in planks : a.id = c.id => a = c, NEW s, Enumerates(s, planks)
  PROVE  Lists([i \in DOMAIN s |-> s[i].id], planks)
<1> DEFINE n == Len(s)
           ids == [i \in DOMAIN s |-> s[i].id]
<1>1. /\ n \in Nat /\ DOMAIN s = 1 .. n /\ \A i \in 1 .. n : s[i] \in planks
      /\ \A x \in planks : \E i \in 1 .. n : s[i] = x
      /\ \A i, j \in 1 .. n : s[i] = s[j] => i = j
  BY DEF Enumerates
<1> HIDE DEF n
<1>2. DOMAIN ids = 1 .. n /\ \A i \in 1 .. n : ids[i] = s[i].id
  BY <1>1
<1> HIDE DEF ids
<1>3. \A i, j \in DOMAIN ids : ids[i] = ids[j] => i = j
  BY <1>1, <1>2
<1>4. ToSet(ids) = IdsOf(planks)
  BY <1>1, <1>2 DEF ToSet, IdsOf
<1> QED BY <1>1, <1>2, <1>3, <1>4 DEF Lists, ids

-----------------------------------------------------------------------------
(* An area removed, and its books with it *)

LEMMA AbsorbingIs ==
  ASSUME NEW V, NEW rm, Sound(rm, V), NEW area \in OnAFace(rm), Len(Face(rm, area.piece)) > 1
  PROVE  Absorbing(rm, area) \in Planks(rm, area.piece) \ {area}
<1> DEFINE planks == Planks(rm, area.piece)
           face == Face(rm, area.piece)
           n == Len(face)
           at == CHOOSE i \in DOMAIN face : face[i] = area
<1>1. area \in planks /\ IsFiniteSet(planks)
  BY PieceOfPlank, PlanksAre
<1>2. Enumerates(face, planks)
  BY <1>1, AlongEnumerates DEF Face
<1>3. Absorbing(rm, area) = IF at > 1 THEN face[at - 1] ELSE face[2]
  BY DEF Absorbing
<1>4. n > 1
  OBVIOUS
<1> HIDE DEF planks, face
<1>5. /\ n \in Nat /\ DOMAIN face = 1 .. n /\ \A i \in 1 .. n : face[i] \in planks
      /\ \A x \in planks : \E i \in 1 .. n : face[i] = x
      /\ \A i, j \in 1 .. n : face[i] = face[j] => i = j
  BY <1>2 DEF Enumerates
<1> HIDE DEF n
<1>6. at \in 1 .. n /\ face[at] = area
  BY <1>1, <1>5
<1> HIDE DEF at
<1>7. CASE at > 1
  <2>1. at - 1 \in 1 .. n /\ at - 1 # at
    BY <1>5, <1>6, <1>7
  <2>2. face[at - 1] \in planks /\ face[at - 1] # area
    BY <1>5, <1>6, <2>1
  <2> QED BY <1>3, <1>7, <2>2 DEF planks
<1>8. CASE ~(at > 1)
  <2>1. 2 \in 1 .. n /\ 2 # at
    BY <1>4, <1>5, <1>6, <1>8
  <2>2. face[2] \in planks /\ face[2] # area
    BY <1>5, <1>6, <2>1
  <2> QED BY <1>3, <1>8, <2>2 DEF planks
<1> QED BY <1>7, <1>8

\* The planks of one room are those of another, but for where they start.
SamePlanks(to, rm) ==
  \A c \in to.areas : \E a \in rm.areas : c.id = a.id /\ c.piece = a.piece /\ c.position = a.position

LEMMA DroppableIs ==
  ASSUME NEW V, NEW rm, Sound(rm, V), NEW id, CanDrop(rm, id)
  PROVE  /\ Row(rm, id) \in OnAFace(rm) /\ Row(rm, id) \in rm.areas /\ Row(rm, id).id = id
         /\ id \in Nat \ {Null}
         /\ Absorbing(rm, Row(rm, id)) \in Planks(rm, Row(rm, id).piece) \ {Row(rm, id)}
<1>1. PICK a \in OnAFace(rm) : a.id = id
  BY DEF CanDrop, IdsOf
<1>2. a \in rm.areas /\ rm.areas \in SUBSET AreaRowIn(V)
  BY FacesFinite DEF FaceIsFinite, Sound, RoomIn
<1>3. Row(rm, id) \in rm.areas /\ Row(rm, id).id = id
  BY <1>1, <1>2, RowOf DEF IdsOf
<1>4. Row(rm, id) = a
  BY <1>1, <1>2, <1>3 DEF Sound, SchemaHolds, OnePlankAPlace
<1>5. Len(Face(rm, Row(rm, id).piece)) > 1
  BY DEF CanDrop
<1> QED BY <1>1, <1>2, <1>3, <1>4, <1>5, AbsorbingIs DEF AreaRowIn

LEMMA ReanchoredSound ==
  ASSUME NEW V, NEW rm, Sound(rm, V), NEW into \in rm.areas, NEW area \in rm.areas
  PROVE  LET to == Changed(rm, into, [into EXCEPT !.startsAt = area.startsAt])
         IN  /\ Sound(to, V) /\ to.named = rm.named /\ to.pieces = rm.pieces
             /\ IdsOf(to.areas) = IdsOf(rm.areas) /\ SamePlanks(to, rm)
<1> DEFINE new == [into EXCEPT !.startsAt = area.startsAt]
           to == Changed(rm, into, new)
<1>1. rm.areas \in SUBSET AreaRowIn(V)
  BY DEF Sound, RoomIn
<1>2. new \in AreaRowIn(V) /\ new.id = into.id /\ new.piece = into.piece /\ new.position = into.position
  BY <1>1 DEF AreaRowIn
<1> HIDE DEF new
<1>3. \A c \in rm.areas : c # into /\ c.piece = into.piece => c.position # new.position
  BY <1>2 DEF Sound, SchemaHolds, OnePlankAPlace
<1>4. /\ Sound(to, V) /\ to.areas = (rm.areas \ {into}) \cup {new}
      /\ IdsOf(to.areas) = IdsOf(rm.areas) /\ to.named = rm.named /\ to.pieces = rm.pieces
  BY <1>2, <1>3, ChangedSound
<1> HIDE DEF to
<1>5. SamePlanks(to, rm)
  BY <1>2, <1>4 DEF SamePlanks
<1> QED BY <1>4, <1>5 DEF to, new

LEMMA WithoutSound ==
  ASSUME NEW V, NEW rm, Sound(rm, V), NEW id, CanDrop(rm, id)
  PROVE  /\ Sound(Without(rm, id), V)
         /\ Without(rm, id).named = rm.named
         /\ Absorbing(rm, Row(rm, id)).id \in IdsOf(Without(rm, id).areas)
         /\ IdsOf(OnAFace(Without(rm, id))) \subseteq IdsOf(OnAFace(rm)) \ {id}
<1> DEFINE area == Row(rm, id)
           into == Absorbing(rm, area)
           planks == Planks(rm, area.piece)
           mid == IF into.position > area.position
                  THEN Changed(rm, into, [into EXCEPT !.startsAt = area.startsAt]) ELSE rm
           out == RetireOrRemove(mid, id)
           left == planks \ {area}
           rest == Along(left)
           ids == [i \in DOMAIN rest |-> rest[i].id]
<1>1. Without(rm, id) = Resequenced(out, ids)
  BY DEF Without
<1>2. area \in OnAFace(rm) /\ area \in rm.areas /\ area.id = id /\ id \in Nat \ {Null} /\ into \in left
  BY DroppableIs
<1> HIDE DEF area, into
<1>3. /\ planks = {a \in rm.areas : a.piece = area.piece /\ a.position >= 0}
      /\ IsFiniteSet(planks) /\ area \in planks
  <2>1. /\ PieceOf(rm, area) \in rm.pieces /\ PieceOf(rm, area).id = area.piece
        /\ PieceOf(rm, area).position >= 0 /\ area \in planks
    BY <1>2, PieceOfPlank
  <2> QED BY <2>1, PlanksAre
<1> HIDE DEF planks
<1>4. IsFiniteSet(left) /\ into \in rm.areas /\ into.id # id
  <2>1. into \in rm.areas /\ into # area
    BY <1>2, <1>3
  <2>2. into.id # id
    BY <1>2, <2>1 DEF Sound, SchemaHolds, OnePlankAPlace
  <2> QED BY <1>3, <2>1, <2>2, FS_RemoveElement
<1>5. /\ Sound(mid, V) /\ mid.named = rm.named /\ mid.pieces = rm.pieces
      /\ IdsOf(mid.areas) = IdsOf(rm.areas) /\ SamePlanks(mid, rm)
  <2>1. SamePlanks(rm, rm)
    BY DEF SamePlanks
  <2> QED BY <1>2, <1>4, <2>1, ReanchoredSound
<1> HIDE DEF mid
<1>6. Sound(out, V) /\ out.named = mid.named /\ out.pieces = mid.pieces /\ OneOff(mid, out, id)
  BY <1>2, <1>5, RetireOrRemoveSound
<1> HIDE DEF out
<1>7. Lists(ids, left)
  <2>1. \A a, c \in left : a.id = c.id => a = c
    BY <1>3 DEF Sound, SchemaHolds, OnePlankAPlace
  <2>2. Enumerates(rest, left)
    BY <1>4, AlongEnumerates
  <2> HIDE DEF left, rest
  <2> QED BY <2>1, <2>2, IdsOfEnumerated
<1> HIDE DEF ids, rest
<1>8. \A a, c \in rm.areas : a.id = c.id => a = c
  BY DEF Sound, SchemaHolds, OnePlankAPlace
<1>9. \A a \in rm.areas : a.id \in IdsOf(left) <=> a \in left
  BY <1>3, <1>8 DEF IdsOf
<1>10. ASSUME NEW c \in out.areas
       PROVE  \/ c.id = id /\ c.position < 0
              \/ c.id # id /\ \E a \in rm.areas : c.id = a.id /\ c.piece = a.piece /\ c.position = a.position
  <2>1. CASE c \in mid.areas /\ c.id # id
    BY <1>5, <2>1 DEF SamePlanks
  <2>2. CASE \E m \in mid.areas : m.id = id /\ c.id = id /\ c.piece = m.piece /\ (m.position >= 0 => c.position < 0)
    <3>1. PICK m \in mid.areas : m.id = id /\ c.id = id /\ (m.position >= 0 => c.position < 0)
      BY <2>2
    <3>2. PICK a \in rm.areas : m.id = a.id /\ m.position = a.position
      BY <1>5 DEF SamePlanks
    <3>3. a = area /\ area.position >= 0
      BY <1>2, <1>3, <1>8, <3>1, <3>2
    <3> QED BY <3>1, <3>2, <3>3
  <2> QED BY <1>6, <2>1, <2>2 DEF OneOff
<1>11. ListsAFace(ids, out, area.piece)
  <2>1. ASSUME NEW c \in out.areas, c.id \in ToSet(ids) PROVE c.piece = area.piece
    <3>1. c.id \in IdsOf(left)
      BY <1>7, <2>1 DEF Lists
    <3>2. c.id # id
      BY <1>2, <1>9, <3>1
    <3>3. PICK a \in rm.areas : c.id = a.id /\ c.piece = a.piece
      BY <1>10, <3>2
    <3> QED BY <1>3, <1>9, <3>1, <3>3
  <2>2. ASSUME NEW c \in out.areas, c.piece = area.piece, c.id \notin ToSet(ids) PROVE c.position < 0
    <3>1. c.id \notin IdsOf(left)
      BY <1>7, <2>2 DEF Lists
    <3>2. CASE c.id = id
      BY <1>10, <3>2
    <3>3. CASE c.id # id
      <4>1. PICK a \in rm.areas : c.id = a.id /\ c.piece = a.piece /\ c.position = a.position
        BY <1>10, <3>3
      <4>2. a \notin left /\ a # area
        BY <1>2, <1>9, <3>1, <3>3, <4>1
      <4>3. ~(a.position >= 0) /\ a.position \in Int
        <5>1. rm.areas \in SUBSET AreaRowIn(V)
          BY DEF Sound, RoomIn
        <5> QED BY <1>3, <2>2, <4>1, <4>2, <5>1 DEF AreaRowIn
      <4> QED BY <4>1, <4>3
    <3> QED BY <3>2, <3>3
  <2>3. \A a, c \in out.areas : a # c /\ a.piece = c.piece => a.position # c.position
    BY <1>6 DEF Sound, SchemaHolds, OnePlankAPlace
  <2> HIDE DEF left
  <2>4. (\E n \in Nat : DOMAIN ids = 1 .. n) /\ \A i, j \in DOMAIN ids : ids[i] = ids[j] => i = j
    BY <1>7 DEF Lists
  <2> QED BY <2>1, <2>2, <2>3, <2>4 DEF ListsAFace
<1> HIDE DEF left
<1>12. /\ Sound(Resequenced(out, ids), V) /\ Resequenced(out, ids).named = out.named
       /\ IdsOf(Resequenced(out, ids).areas) = IdsOf(out.areas)
       /\ ButForThese(Resequenced(out, ids), out, ids)
  BY <1>6, <1>11, SoundButForPlaces, ResequencedSound
<1>13. into.id \in IdsOf(out.areas)
  <2>1. PICK c \in mid.areas : c.id = into.id
    BY <1>4, <1>5 DEF IdsOf
  <2>2. c \in out.areas
    BY <1>4, <1>6, <2>1 DEF OneOff
  <2> QED BY <2>1, <2>2 DEF IdsOf
<1>14. ASSUME NEW c \in OnAFace(Resequenced(out, ids))
       PROVE  c.id \in IdsOf(OnAFace(rm)) \ {id}
  <2> DEFINE to == Resequenced(out, ids)
  <2>1. c \in to.areas /\ c.position >= 0 /\ PieceOf(to, c).position >= 0
    BY DEF OnAFace
  <2>2. to.pieces = rm.pieces
    BY <1>5, <1>6, <1>12 DEF ButForThese
  <2>3. PICK o \in out.areas : c.id = o.id /\ c.piece = o.piece /\ (c.id \in ToSet(ids) \/ c.position = o.position)
    BY <1>12, <2>1 DEF ButForThese
  <2> HIDE DEF to
  <2>4. CASE c.id \in ToSet(ids)
    <3>1. PICK a \in left : a.id = c.id
      BY <1>7, <2>4 DEF Lists, IdsOf
    <3>2. a \in OnAFace(rm) /\ a # area /\ a \in rm.areas
      BY <1>3 DEF left, planks, Planks
    <3> QED BY <1>2, <1>8, <3>1, <3>2 DEF IdsOf
  <2>5. CASE c.id \notin ToSet(ids)
    <3>1. c.position = o.position /\ ~(c.position < 0)
      <4>1. o.position \in Int
        BY <1>6, <2>3 DEF Sound, RoomIn, AreaRowIn
      <4> QED BY <2>1, <2>3, <2>5, <4>1
    <3>2. PICK a \in rm.areas : o.id # id /\ o.id = a.id /\ o.piece = a.piece /\ o.position = a.position
      BY <1>10, <3>1
    <3>3. PieceOf(to, c) = PieceOf(rm, a)
      BY <2>2, <2>3, <3>2 DEF PieceOf
    <3>4. a \in OnAFace(rm)
      BY <2>1, <3>1, <3>2, <3>3 DEF OnAFace
    <3> QED BY <2>3, <3>2, <3>4 DEF IdsOf
  <2> QED BY <2>4, <2>5
<1>15. IdsOf(OnAFace(Resequenced(out, ids))) \subseteq IdsOf(OnAFace(rm)) \ {id}
  BY <1>14 DEF IdsOf
<1> QED BY <1>1, <1>5, <1>6, <1>12, <1>13, <1>15 DEF into, area

LEMMA JoiningIn ==
  ASSUME NEW W \in SUBSET Nat, Nowhere \in W, NEW rm, NEW where \in WhereIn(W), NEW id,
         Absorbing(rm, Row(rm, id)).id \in W
  PROVE  Joining(rm, where, id) \in WhereIn(W)
<1> DEFINE into == Absorbing(rm, Row(rm, id)).id
           f == [b \in Books |->
                   LET to == AssignmentFor(where[b], into) IN
                   IF id \in {where[b].area, where[b].assigned} /\ to # Nowhere
                   THEN AfterRow(where[b], [kind |-> "assigned", area |-> to]) ELSE where[b]]
<1>1. Joining(rm, where, id) = f
  BY DEF Joining
<1> HIDE DEF into
<1>2. ASSUME NEW b \in Books PROVE f[b] \in StandingIn(W)
  <2>1. where[b] \in StandingIn(W)
    BY DEF WhereIn
  <2>2. AssignmentFor(where[b], into) \in W
    BY AssignmentIs DEF into
  <2>3. AfterRow(where[b], [kind |-> "assigned", area |-> AssignmentFor(where[b], into)]) \in StandingIn(W)
    BY <2>1, <2>2, AfterRowIn
  <2> QED BY <2>1, <2>3
<1> QED BY <1>1, <1>2 DEF WhereIn

\* Where taking areas out one after the other has come to.
Taking(V) ==
  {at \in [ok : BOOLEAN, room : RoomIn(V), where : WhereIn(Nat)] :
     Sound(at.room, V) /\ at.where \in WhereIn(at.room.named \cup {Nowhere})}

LEMMA TakingIs ==
  ASSUME NEW V, NEW rm, Sound(rm, V), NEW where \in WhereIn(rm.named \cup {Nowhere}), NEW ok \in BOOLEAN
  PROVE  [ok |-> ok, room |-> rm, where |-> where] \in Taking(V)
<1>1. rm.named \cup {Nowhere} \subseteq Nat
  BY IdsAreNats
<1>2. where \in WhereIn(Nat)
  BY <1>1, WhereGrows
<1> QED BY <1>2 DEF Taking, Sound

LEMMA DroppedTakes ==
  ASSUME NEW V, NEW at \in Taking(V), NEW id
  PROVE  Dropped(at, id) \in Taking(V)
<1> DEFINE rm == at.room
           without == Without(rm, id)
           where == Joining(rm, at.where, id)
           W == IdsOf(without.areas) \cup {Nowhere}
<1>1. /\ Sound(rm, V) /\ at.where \in WhereIn(rm.named \cup {Nowhere})
      /\ at \in [ok : BOOLEAN, room : RoomIn(V), where : WhereIn(Nat)]
  BY DEF Taking
<1>2. CASE ~at.ok \/ ~CanDrop(at.room, id)
  <2>1. Dropped(at, id) = [at EXCEPT !.ok = FALSE]
    BY <1>2 DEF Dropped
  <2> QED BY <1>1, <2>1 DEF Taking
<1>3. CASE ~(~at.ok \/ ~CanDrop(at.room, id))
  <2>1. Dropped(at, id) = [ok |-> TRUE, where |-> where, room |-> Naming(without, where)]
    BY <1>3 DEF Dropped
  <2> HIDE DEF rm
  <2>2. /\ Sound(without, V) /\ without.named = rm.named
        /\ Absorbing(rm, Row(rm, id)).id \in IdsOf(without.areas)
    BY <1>1, <1>3, WithoutSound DEF rm
  <2> HIDE DEF without
  <2>3. W \in SUBSET Nat /\ Nowhere \in W /\ rm.named \cup {Nowhere} \subseteq W
    BY <2>2, IdsAreNats
  <2>4. at.where \in WhereIn(W)
    BY <1>1, <2>3, WhereGrows
  <2>5. where \in WhereIn(W)
    BY <2>2, <2>3, <2>4, JoiningIn
  <2> HIDE DEF where
  <2>6. Sound(Naming(without, where), V) /\ where \in WhereIn(Naming(without, where).named \cup {Nowhere})
    BY <2>2, <2>5, NamingSound
  <2>7. [ok |-> TRUE, room |-> Naming(without, where), where |-> where] \in Taking(V)
    BY <2>6, TakingIs
  <2> QED BY <2>1, <2>7
<1> QED BY <1>2, <1>3

\* The areas of a list are taken out one after the other.
LEMMA DroppedStays ==
  ASSUME NEW D, NEW n \in Nat, NEW ids, DOMAIN ids = 1 .. n, NEW at \in D,
         \A one \in D : \A x \in 1 .. n : Dropped(one, ids[x]) \in D
  PROVE  FoldLeft(Dropped, at, ids) \in D
<1> DEFINE S == 1 .. n
           G == [p \in S \X D |-> Dropped(p[2], ids[p[1]])]
           pick == [s \in SUBSET S |-> Max(s)]
           iter == CHOOSE g : g = [s \in SUBSET S |-> IF s = {} THEN at
                                     ELSE Dropped(g[s \ {Max(s)}], ids[Max(s)])]
<1>1. at \in D
  OBVIOUS
<1>2. ASSUME NEW r \in D, NEW x \in S PROVE Dropped(r, ids[x]) \in D
  OBVIOUS
<1>3. IsFiniteSet(S) /\ S \in SUBSET Int
  BY FS_Interval
<1> HIDE DEF S
<1>4. Picks(pick, S) /\ \A s \in SUBSET S : pick[s] = Max(s)
  BY <1>3, MaxPicks
<1>5. G \in [S \X D -> D] /\ \A x \in S, r \in D : G[<<x, r>>] = Dropped(r, ids[x])
  BY <1>2
<1> HIDE DEF G, pick
<1>6. PICK g \in [SUBSET S -> D] : IsFold(g, S, at, G, pick)
  BY <1>1, <1>3, <1>4, <1>5, SetFold
<1>7. g = [s \in SUBSET S |-> IF s = {} THEN at ELSE Dropped(g[s \ {Max(s)}], ids[Max(s)])]
  <2>1. ASSUME NEW s \in SUBSET S, s # {} PROVE g[s] = Dropped(g[s \ {Max(s)}], ids[Max(s)])
    <3>1. pick[s] \in S /\ s \ {pick[s]} \in SUBSET S /\ pick[s] = Max(s)
      BY <1>4, <2>1 DEF Picks
    <3>2. g[s] = G[<<pick[s], g[s \ {pick[s]}]>>]
      BY <1>6, <2>1 DEF IsFold
    <3> QED BY <1>5, <3>1, <3>2
  <2>2. g[{}] = at
    BY <1>6 DEF IsFold
  <2> QED BY <2>1, <2>2
<1>8. iter = [s \in SUBSET S |-> IF s = {} THEN at ELSE Dropped(iter[s \ {Max(s)}], ids[Max(s)])]
  BY <1>7
<1>9. FoldLeft(Dropped, at, ids) = iter[S]
  BY DEF FoldLeft, MapThenFoldSet, S
<1> HIDE DEF iter
<1>10. iter[{}] = at
  BY <1>8
<1>11. StepsBy(iter, S, D, G, pick)
  <2>1. ASSUME NEW s \in SUBSET S, s # {}, iter[s \ {pick[s]}] \in D
        PROVE  iter[s] = G[<<pick[s], iter[s \ {pick[s]}]>>]
    <3>1. pick[s] \in S /\ pick[s] = Max(s)
      BY <1>4, <2>1 DEF Picks
    <3>2. iter[s] = Dropped(iter[s \ {pick[s]}], ids[pick[s]])
      BY <1>8, <2>1, <3>1
    <3> QED BY <1>5, <2>1, <3>1, <3>2
  <2> QED BY <2>1 DEF StepsBy
<1>12. iter[S] \in D
  BY <1>1, <1>3, <1>4, <1>5, <1>10, <1>11, FoldStays
<1> QED BY <1>9, <1>12

LEMMA DroppedAll ==
  ASSUME NEW V, NEW at \in Taking(V), NEW n \in Nat, NEW ids, DOMAIN ids = 1 .. n
  PROVE  FoldLeft(Dropped, at, ids) \in Taking(V)
<1> DEFINE D == Taking(V)
<1>1. at \in D /\ \A one \in D : \A x \in 1 .. n : Dropped(one, ids[x]) \in D
  BY DroppedTakes
<1> HIDE DEF D
<1>2. FoldLeft(Dropped, at, ids) \in D
  BY <1>1, DroppedStays
<1> QED BY <1>2 DEF D

LEMMA BetweenIsList ==
  ASSUME NEW B, NEW list \in Seq(B), NEW low, NEW high
  PROVE  \E k \in Nat : DOMAIN Between(list, low, high) = 1 .. k
<1> DEFINE n == Len(list)
           below(key) == {i \in DOMAIN list : list[i].startsAt <= key}
           met == Anchored(list)
           from == Cardinality(below(low)) + 1
           upto == Cardinality(below(high))
<1>1. n \in Nat /\ \A key : below(key) \in SUBSET (1 .. n)
  OBVIOUS
<1>2. Between(list, low, high) = SubSeq(met, from, upto)
  BY DEF Between
<1>3. met \in Seq(B) /\ Len(met) = n
  BY AnchoredIn
<1> HIDE DEF below, met, n
<1>4. \A key : Cardinality(below(key)) \in Nat /\ Cardinality(below(key)) <= n
  <2>1. ASSUME NEW key PROVE Cardinality(below(key)) \in Nat /\ Cardinality(below(key)) <= n
    <3>1. IsFiniteSet(1 .. n) /\ Cardinality(1 .. n) = n /\ below(key) \in SUBSET (1 .. n)
      BY <1>1, FS_Interval
    <3>2. Cardinality(below(key)) <= Cardinality(1 .. n) /\ Cardinality(below(key)) \in Nat
      BY <3>1, FS_Subset, FS_CardinalityType
    <3> QED BY <3>1, <3>2
  <2> QED BY <2>1
<1>5. from \in Int /\ upto \in Int /\ from >= 1 /\ upto <= n
  BY <1>4
<1> HIDE DEF from, upto
<1>6. \A i \in from .. upto : met[i] \in B
  BY <1>1, <1>3, <1>5
<1> DEFINE part == SubSeq(met, from, upto)
<1>7. part \in Seq(B)
  BY <1>5, <1>6, SubSeqProperties
<1> HIDE DEF part
<1>8. Len(part) \in Nat /\ DOMAIN part = 1 .. Len(part)
  BY <1>7
<1> QED BY <1>2, <1>8 DEF part

LEMMA TakenStands ==
  ASSUME NEW V, 0 \in V, NEW at \in Taking(V), NEW said, Done(at.room, at.where, said)
  PROVE  AllStandsThen(V)
<1>1. Sound(at.room, V) /\ at.where \in WhereIn(at.room.named \cup {Nowhere})
  BY DEF Taking
<1>2. at.where \in WhereIn(IdsOf(at.room.areas) \cup {Nowhere})
  BY <1>1, IdsAreNats, WhereGrows
<1> QED BY <1>1, <1>2, DoneStands DEF AllStandsThen

LEMMA TakenMovedStands ==
  ASSUME NEW V, 0 \in V, NEW at \in Taking(V), NEW range, NEW said,
         Done(at.room, MovedIn(range, at.room, at.where), said)
  PROVE  AllStandsThen(V)
<1>1. Sound(at.room, V) /\ at.where \in WhereIn(at.room.named \cup {Nowhere})
  BY DEF Taking
<1>2. at.where \in WhereIn(IdsOf(at.room.areas) \cup {Nowhere})
  BY <1>1, IdsAreNats, WhereGrows
<1>3. MovedBy(at.room, at.where) \in WhereIn(IdsOf(at.room.areas) \cup {Nowhere})
  BY <1>1, <1>2, MovedByIn
<1>4. MovedIn(range, at.room, at.where) \in WhereIn(IdsOf(at.room.areas) \cup {Nowhere})
  BY <1>2, <1>3, MovedInIn
<1> QED BY <1>1, <1>4, DoneStands DEF AllStandsThen

LEMMA DropAreaStands ==
  ASSUME NEW V, AllStands(V), NEW id, DropArea(id)
  PROVE  AllStandsThen(V) /\ receipt' = receipt
<1> DEFINE at == [ok |-> TRUE, room |-> room, where |-> standing]
           done == Dropped(at, id)
<1>1. 0 \in V /\ Sound(room, V) /\ standing \in WhereIn(room.named \cup {Nowhere})
  BY DEF AllStands, Stands
<1>2. at \in Taking(V)
  BY <1>1, TakingIs
<1> HIDE DEF at
<1>3. done \in Taking(V)
  BY <1>2, DroppedTakes
<1>4. Done(done.room, done.where, [what |-> "area gone", area |-> id]) /\ receipt' = receipt
  BY DEF DropArea, at
<1> HIDE DEF done
<1> QED BY <1>1, <1>3, <1>4, TakenStands

LEMMA CrossedIsList ==
  ASSUME NEW V, AllStands(V), NEW b \in Books, NEW way
  PROVE  \E k \in Nat : DOMAIN CrossedIds(b, way) = 1 .. k
<1> DEFINE list == survey.bands[RangeOf[b]].boundaries
           crossed == IF way = "next" THEN Between(list, Key[b], Neighbour(b, way))
                      ELSE Between(list, Neighbour(b, way), Key[b])
<1>1. list \in Seq(BoundaryIn(V))
  <2>1. RangeOf[b] \in Ranges
    BY ShelvesAssumption
  <2> QED BY <2>1 DEF AllStands, Stands, BandIn
<1>2. DOMAIN CrossedIds(b, way) = DOMAIN crossed
  BY DEF CrossedIds
<1> HIDE DEF list
<1>3. \E k \in Nat : DOMAIN crossed = 1 .. k
  BY <1>1, BetweenIsList
<1> QED BY <1>2, <1>3

LEMMA KeysAfter ==
  ASSUME NEW b \in Books, After(b) # {}
  PROVE  Min(After(b)) \in Nat
<1> DEFINE later == {c \in Books : RangeOf[c] = RangeOf[b] /\ Key[c] > Key[b]}
           g == [c \in later |-> Key[c]]
<1>1. IsFiniteSet(later) /\ \A c \in later : Key[c] \in Nat
  BY ShelvesAssumption, FS_Subset
<1>2. After(b) = {Key[c] : c \in later}
  BY DEF After
<1> HIDE DEF later
<1>3. g \in Surjection(later, After(b))
  BY <1>2 DEF Surjection
<1>4. After(b) \in SUBSET Nat /\ After(b) \in SUBSET Int
  BY <1>1, <1>2
<1> HIDE DEF g
<1>5. IsFiniteSet(After(b))
  BY <1>1, <1>3, FS_Surjection
<1>6. Min(After(b)) \in After(b)
  BY <1>4, <1>5, MinInt
<1> QED BY <1>4, <1>6

LEMMA MoveAcrossStands ==
  ASSUME AllStands(Nat), NEW b \in Books, NEW way \in {"next", "previous"}, MoveAcross(b, way)
  PROVE  AllStandsThen(Nat)
<1> DEFINE crossed == CrossedIds(b, way)
           key == IF way = "next" THEN Key[b] ELSE Min(After(b))
           shifts == [k \in DOMAIN crossed |-> [id |-> crossed[k], startsAt |-> key]]
           shifted == IF Removes(b, way) THEN room ELSE ReanchorAll(room, survey, shifts)
           at == [ok |-> TRUE, room |-> shifted, where |-> standing]
           out == IF Removes(b, way) THEN crossed ELSE <<>>
           done == FoldLeft(Dropped, at, out)
           to == PlankOfKey(survey, RangeOf[b], Neighbour(b, way))
<1>1. Done(done.room, MovedIn(RangeOf[b], done.room, done.where),
           [what |-> "crossing", range |-> RangeOf[b], book |-> b, to |-> to])
  BY DEF MoveAcross
<1>2. PICK k \in Nat : DOMAIN crossed = 1 .. k
  BY CrossedIsList
<1>3. ~Removes(b, way) => key \in Nat
  <2>1. Key[b] \in Nat
    BY ShelvesAssumption
  <2>2. ~Removes(b, way) => way = "next" \/ After(b) # {}
    BY DEF Removes
  <2> QED BY <2>1, <2>2, KeysAfter
<1> HIDE DEF crossed, key, to
<1>4. Stands(room, survey, standing, Nat) /\ Reads(survey, room.areas, Nat)
  BY ReadsOfStands DEF AllStands
<1>5. 0 \in Nat /\ Sound(room, Nat) /\ standing \in WhereIn(room.named \cup {Nowhere})
  BY <1>4 DEF Stands
<1>6. ~Removes(b, way) => \A j \in DOMAIN shifts : shifts[j].startsAt \in Nat
  BY <1>3
<1> HIDE DEF shifts
<1>7. Sound(shifted, Nat) /\ shifted.named = room.named
  BY <1>4, <1>5, <1>6, ReanchorAllSound
<1> HIDE DEF shifted
<1>8. at \in Taking(Nat)
  BY <1>5, <1>7, TakingIs
<1>9. \E n \in Nat : DOMAIN out = 1 .. n
  <2>1. CASE Removes(b, way)
    BY <1>2, <2>1
  <2>2. CASE ~Removes(b, way)
    <3>1. DOMAIN out = 1 .. 0
      BY <2>2
    <3> QED BY <3>1
  <2> QED BY <2>1, <2>2
<1> HIDE DEF at, out
<1>10. done \in Taking(Nat)
  BY <1>8, <1>9, DroppedAll
<1> HIDE DEF done
<1> QED BY <1>1, <1>5, <1>10, TakenMovedStands

-----------------------------------------------------------------------------
(* Receipts *)

\* A list of things each anchored at a key.
IsList(list) == \E X : list \in Seq(X) /\ \A x \in X : x.startsAt \in Nat

\* What a receipt would put back is anchored at keys.
ReceiptsAreLists(receipts) ==
  /\ DOMAIN receipts = Books
  /\ \A b \in Books : receipts[b].outstanding => IsList(receipts[b].recreate) /\ IsList(receipts[b].reanchor)

LEMMA PickedIsList ==
  ASSUME NEW list, NEW at, IsFiniteSet(at), \A i \in at : list[i].startsAt \in Nat
  PROVE  IsList(Picked(list, at))
<1> DEFINE places == Sorted(at, [i \in at |-> <<i>>])
           X == {list[i] : i \in at}
           n == Len(places)
<1>1. Enumerates(places, at)
  BY SortedEnumerates
<1>2. Picked(list, at) = [k \in DOMAIN places |-> list[places[k]]]
  BY DEF Picked
<1> HIDE DEF places
<1>3. n \in Nat /\ DOMAIN places = 1 .. n /\ \A k \in 1 .. n : places[k] \in at
  BY <1>1 DEF Enumerates
<1> HIDE DEF n
<1>4. \A k \in 1 .. n : list[places[k]] \in X
  BY <1>3
<1>5. Picked(list, at) \in Seq(X)
  BY <1>2, <1>3, <1>4
<1> QED BY <1>5 DEF IsList

LEMMA ConcatIsList ==
  ASSUME NEW s, IsList(s), NEW t, IsList(t)
  PROVE  IsList(s \o t)
<1>1. PICK X : s \in Seq(X) /\ \A x \in X : x.startsAt \in Nat
  BY DEF IsList
<1>2. PICK Y : t \in Seq(Y) /\ \A y \in Y : y.startsAt \in Nat
  BY DEF IsList
<1>3. X \subseteq X \cup Y /\ Y \subseteq X \cup Y /\ \A z \in X \cup Y : z.startsAt \in Nat
  BY <1>1, <1>2
<1>4. s \in Seq(X \cup Y) /\ t \in Seq(X \cup Y)
  BY <1>1, <1>2, <1>3, SeqMonotonic
<1>5. s \o t \in Seq(X \cup Y)
  BY <1>4, ConcatProperties
<1> QED BY <1>3, <1>5 DEF IsList

LEMMA ReceiptIsList ==
  ASSUME AllStands(Nat), NEW b \in Books, NEW way, NEW after
  PROVE  IsList(ReceiptFor(b, way, after).recreate) /\ IsList(ReceiptFor(b, way, after).reanchor)
<1> DEFINE list == survey.bands[RangeOf[b]].boundaries
           at == {i \in DOMAIN list : list[i].id \in ToSet(CrossedIds(b, way))}
           was == [i \in at |-> AsItWas(list, i)]
           anchor == [i \in at |-> [id |-> list[i].id, startsAt |-> list[i].startsAt]]
<1>1. list \in Seq(BoundaryIn(Nat))
  <2>1. RangeOf[b] \in Ranges
    BY ShelvesAssumption
  <2> QED BY <2>1 DEF AllStands, Stands, BandIn
<1>2. /\ ReceiptFor(b, way, after).recreate = IF ~Removes(b, way) THEN <<>> ELSE Picked(was, at)
      /\ ReceiptFor(b, way, after).reanchor = IF Removes(b, way) THEN <<>> ELSE Picked(anchor, at)
  BY DEF ReceiptFor
<1> HIDE DEF list
<1>3. IsFiniteSet(at)
  <2> DEFINE n == Len(list)
  <2>1. n \in Nat /\ at \in SUBSET (1 .. n)
    BY <1>1
  <2> HIDE DEF at, n
  <2> QED BY <2>1, IntervalSubset
<1>4. \A i \in at : list[i].startsAt \in Nat
  <2>1. \A i \in at : list[i] \in BoundaryIn(Nat)
    BY <1>1
  <2> QED BY <2>1 DEF BoundaryIn
<1> HIDE DEF at
<1>5. \A i \in at : was[i].startsAt \in Nat /\ anchor[i].startsAt \in Nat
  BY <1>4 DEF AsItWas
<1> HIDE DEF was, anchor
<1>6. IsList(<<>>)
  <2>1. PICK X : X = {}
    OBVIOUS
  <2>2. <<>> \in Seq(X) /\ \A x \in X : x.startsAt \in Nat
    BY <2>1
  <2> QED BY <2>2 DEF IsList
<1> QED BY <1>2, <1>3, <1>5, <1>6, PickedIsList

LEMMA MergedIsList ==
  ASSUME NEW existing, existing.outstanding => IsList(existing.recreate) /\ IsList(existing.reanchor),
         NEW b, NEW way, NEW after,
         IsList(ReceiptFor(b, way, after).recreate), IsList(ReceiptFor(b, way, after).reanchor)
  PROVE  /\ IsList(Merged(existing, ReceiptFor(b, way, after)).recreate)
         /\ IsList(Merged(existing, ReceiptFor(b, way, after)).reanchor)
<1> DEFINE made == ReceiptFor(b, way, after)
<1>1. CASE ~existing.outstanding
  BY <1>1 DEF Merged
<1>2. CASE existing.outstanding
  <2> DEFINE already == {existing.reanchor[k].id : k \in DOMAIN existing.reanchor}
             more == {i \in DOMAIN made.reanchor : made.reanchor[i].id \notin already}
  <2>1. "recreate" \in DOMAIN made /\ "reanchor" \in DOMAIN made
    BY DEF ReceiptFor
  <2>2. /\ Merged(existing, made).recreate = existing.recreate \o made.recreate
        /\ Merged(existing, made).reanchor = existing.reanchor \o Picked(made.reanchor, more)
    <3> HIDE DEF made
    <3> QED BY <1>2, <2>1 DEF Merged
  <2>3. PICK X : made.reanchor \in Seq(X) /\ \A x \in X : x.startsAt \in Nat
    BY DEF IsList
  <2> HIDE DEF already, made
  <2>4. more \in SUBSET (1 .. Len(made.reanchor)) /\ Len(made.reanchor) \in Nat
    BY <2>3
  <2>5. \A i \in more : made.reanchor[i].startsAt \in Nat
    <3>1. \A i \in 1 .. Len(made.reanchor) : made.reanchor[i] \in X
      BY <2>3
    <3> QED BY <2>3, <2>4, <3>1
  <2> HIDE DEF more
  <2>6. IsList(Picked(made.reanchor, more))
    BY <2>4, <2>5, IntervalSubset, PickedIsList
  <2> QED BY <1>2, <2>2, <2>6, ConcatIsList DEF made
<1> QED BY <1>1, <1>2

LEMMA MoveAcrossKeeps ==
  ASSUME AllStands(Nat), ReceiptsAreLists(receipt), NEW b \in Books, NEW way, MoveAcross(b, way)
  PROVE  ReceiptsAreLists(receipt')
<1> DEFINE made == ReceiptFor(b, way, survey'.bands)
<1>1. receipt' = [receipt EXCEPT ![b] = Merged(receipt[b], made)]
  BY DEF MoveAcross
<1>2. IsList(Merged(receipt[b], made).recreate) /\ IsList(Merged(receipt[b], made).reanchor)
  BY ReceiptIsList, MergedIsList DEF ReceiptsAreLists
<1> HIDE DEF made
<1> QED BY <1>1, <1>2 DEF ReceiptsAreLists

LEMMA ClearedReceipts ==
  ASSUME ReceiptsAreLists(receipt), NEW b \in Books, receipt' = [receipt EXCEPT ![b] = NoReceipt]
  PROVE  ReceiptsAreLists(receipt')
BY DEF ReceiptsAreLists, NoReceipt

-----------------------------------------------------------------------------
(* A move taken back *)

\* The boundaries taken out are made again one after the other.
LEMMA RecreatedSound ==
  ASSUME NEW V, 0 \in V, NEW rm, Sound(rm, V), NEW range \in Ranges, NEW n \in Nat, NEW lost, DOMAIN lost = 1 .. n,
         \A i \in 1 .. n : lost[i].startsAt \in V
  PROVE  Sound(Recreated(rm, range, lost), V) /\ Recreated(rm, range, lost).named = rm.named
<1> DEFINE S == 1 .. n
           D == {r \in RoomIn(V) : Sound(r, V) /\ r.named = rm.named}
           G == [p \in S \X D |-> AddBoundary(p[2], Survey(p[2]), range, lost[p[1]])]
           pick == [s \in SUBSET S |-> Max(s)]
           iter == CHOOSE g : g = [s \in SUBSET S |-> IF s = {} THEN rm
                                     ELSE AddBoundary(g[s \ {Max(s)}], Survey(g[s \ {Max(s)}]), range, lost[Max(s)])]
<1>1. rm \in D
  BY DEF Sound
<1>2. ASSUME NEW r \in D, NEW x \in S PROVE AddBoundary(r, Survey(r), range, lost[x]) \in D
  <2>1. Sound(r, V) /\ r.named = rm.named /\ lost[x].startsAt \in V
    OBVIOUS
  <2>2. Reads(Survey(r), r.areas, V)
    BY <2>1, SurveySound DEF Reads
  <2> QED BY <2>1, <2>2, AddBoundarySound DEF Sound
<1>3. IsFiniteSet(S) /\ S \in SUBSET Int
  <2>1. IsFiniteSet(S)
    BY FS_Interval
  <2>2. S \in SUBSET Int
    OBVIOUS
  <2> QED BY <2>1, <2>2
<1> HIDE DEF D, S
<1>4. Picks(pick, S) /\ \A s \in SUBSET S : pick[s] = Max(s)
  BY <1>3, MaxPicks
<1>5. G \in [S \X D -> D] /\ \A x \in S, r \in D : G[<<x, r>>] = AddBoundary(r, Survey(r), range, lost[x])
  BY <1>2
<1> HIDE DEF G, pick
<1>6. PICK g \in [SUBSET S -> D] : IsFold(g, S, rm, G, pick)
  BY <1>1, <1>3, <1>4, <1>5, SetFold
<1>7. g = [s \in SUBSET S |-> IF s = {} THEN rm ELSE AddBoundary(g[s \ {Max(s)}], Survey(g[s \ {Max(s)}]), range, lost[Max(s)])]
  <2>1. ASSUME NEW s \in SUBSET S, s # {} PROVE g[s] = AddBoundary(g[s \ {Max(s)}], Survey(g[s \ {Max(s)}]), range, lost[Max(s)])
    <3>1. pick[s] \in S /\ s \ {pick[s]} \in SUBSET S /\ pick[s] = Max(s)
      BY <1>4, <2>1 DEF Picks
    <3>2. g[s] = G[<<pick[s], g[s \ {pick[s]}]>>]
      BY <1>6, <2>1 DEF IsFold
    <3> QED BY <1>5, <3>1, <3>2
  <2>2. g[{}] = rm
    BY <1>6 DEF IsFold
  <2> QED BY <2>1, <2>2
<1>8. iter = [s \in SUBSET S |-> IF s = {} THEN rm ELSE AddBoundary(iter[s \ {Max(s)}], Survey(iter[s \ {Max(s)}]), range, lost[Max(s)])]
  BY <1>7
<1>9. Recreated(rm, range, lost) = iter[S]
  BY DEF FoldLeft, MapThenFoldSet, S, Recreated
<1> HIDE DEF iter
<1>10. iter[{}] = rm
  BY <1>8
<1>11. StepsBy(iter, S, D, G, pick)
  <2>1. ASSUME NEW s \in SUBSET S, s # {}, iter[s \ {pick[s]}] \in D
        PROVE  iter[s] = G[<<pick[s], iter[s \ {pick[s]}]>>]
    <3>1. pick[s] \in S /\ pick[s] = Max(s)
      BY <1>4, <2>1 DEF Picks
    <3>2. iter[s] = AddBoundary(iter[s \ {pick[s]}], Survey(iter[s \ {pick[s]}]), range, lost[pick[s]])
      BY <1>8, <2>1, <3>1
    <3> QED BY <1>5, <2>1, <3>1, <3>2
  <2> QED BY <2>1 DEF StepsBy
<1>12. iter[S] \in D
  BY <1>1, <1>3, <1>4, <1>5, <1>10, <1>11, FoldStays
<1> QED BY <1>9, <1>12 DEF D

LEMMA InPlaceIsList ==
  ASSUME NEW list, IsList(list)
  PROVE  /\ \E n \in Nat : DOMAIN InPlace(list) = 1 .. n
         /\ \A i \in DOMAIN InPlace(list) : InPlace(list)[i].startsAt \in Nat
<1> DEFINE rank == [i \in DOMAIN list |-> <<list[i].position, i>>]
           places == Sorted(DOMAIN list, rank)
           lost == InPlace(list)
<1>1. PICK X : list \in Seq(X) /\ \A x \in X : x.startsAt \in Nat
  BY DEF IsList
<1>2. lost = [k \in DOMAIN list |-> list[places[k]]]
  BY DEF InPlace
<1>3. Len(list) \in Nat /\ DOMAIN list = 1 .. Len(list) /\ \A i \in DOMAIN list : list[i].startsAt \in Nat
  BY <1>1
<1>4. IsFiniteSet(DOMAIN list)
  BY <1>3, FS_Interval
<1> HIDE DEF rank
<1>5. Enumerates(places, DOMAIN list) /\ Len(places) = Cardinality(DOMAIN list)
  BY <1>4, SortedEnumerates
<1> HIDE DEF places
<1>6. DOMAIN places = DOMAIN list /\ \A k \in DOMAIN places : places[k] \in DOMAIN list
  <2>1. Cardinality(1 .. Len(list)) = Len(list)
    <3>1. PICK n \in Nat : n = Len(list)
      BY <1>3
    <3>2. Cardinality(1 .. n) = n
      BY FS_Interval
    <3> QED BY <3>1, <3>2
  <2>2. Len(places) = Len(list)
    BY <1>3, <1>5, <2>1
  <2> QED BY <1>3, <1>5, <2>2 DEF Enumerates
<1> HIDE DEF lost
<1> QED BY <1>2, <1>3, <1>6 DEF lost

LEMMA RetractStands ==
  ASSUME AllStands(Nat), ReceiptsAreLists(receipt), NEW b \in Books, Retract(b)
  PROVE  AllStandsThen(Nat) /\ ReceiptsAreLists(receipt')
<1> DEFINE shifts == receipt[b].reanchor
           lost == InPlace(receipt[b].recreate)
           shifted == ReanchorAll(room, survey, shifts)
           back == Recreated(shifted, RangeOf[b], lost)
           said == [what |-> "retraction", range |-> RangeOf[b], before |-> receipt[b].before,
                    unchanged |-> receipt[b].straight /\ survey.bands = receipt[b].after]
<1>1. RunRearranged(RangeOf[b], back, said)
  BY DEF Retract, TakeBack
<1>2. ReceiptsAreLists(receipt')
  BY ClearedReceipts DEF Retract
<1>3. IsList(receipt[b].recreate) /\ IsList(shifts)
  BY DEF ReceiptsAreLists, Retract
<1>4. \A k \in DOMAIN shifts : shifts[k].startsAt \in Nat
  <2>1. PICK X : shifts \in Seq(X) /\ \A x \in X : x.startsAt \in Nat
    BY <1>3 DEF IsList
  <2> HIDE DEF shifts
  <2> QED BY <2>1
<1>5. (\E n \in Nat : DOMAIN lost = 1 .. n) /\ \A i \in DOMAIN lost : lost[i].startsAt \in Nat
  BY <1>3, InPlaceIsList
<1> HIDE DEF shifts, lost, said
<1>6. Stands(room, survey, standing, Nat) /\ Reads(survey, room.areas, Nat)
  BY ReadsOfStands DEF AllStands
<1>7. 0 \in Nat /\ Sound(room, Nat)
  BY <1>6 DEF Stands
<1>8. Sound(shifted, Nat) /\ shifted.named = room.named
  BY <1>4, <1>6, <1>7, ReanchorAllSound
<1> HIDE DEF shifted
<1>9. Sound(back, Nat) /\ back.named = shifted.named
  <2>1. RangeOf[b] \in Ranges
    BY ShelvesAssumption
  <2>2. PICK n \in Nat : DOMAIN lost = 1 .. n
    BY <1>5
  <2> QED BY <1>5, <1>7, <1>8, <2>1, <2>2, RecreatedSound
<1> HIDE DEF back
<1>10. AllStandsThen(Nat)
  BY <1>1, <1>6, <1>7, <1>8, <1>9, RearrangedStands DEF AllStandsThen
<1> QED BY <1>2, <1>10

-----------------------------------------------------------------------------
(* A book put down *)

LEMMA PutDownStands ==
  ASSUME NEW V, AllStands(V), NEW b \in Books, PutDown(b)
  PROVE  AllStandsThen(V) /\ receipt' = receipt
<1> DEFINE to == standing[b].assigned
           W == IdsOf(room.areas) \cup {Nowhere}
           where == [standing EXCEPT ![b] = AfterRow(standing[b], [kind |-> "placed", area |-> to])]
<1>1. Done(room, where, Nothing) /\ receipt' = receipt /\ to \in IdsOf(OnAFace(room))
  BY DEF PutDown
<1>2. 0 \in V /\ Sound(room, V) /\ standing \in WhereIn(room.named \cup {Nowhere})
  BY DEF AllStands, Stands
<1>3. W \in SUBSET Nat /\ Nowhere \in W /\ room.named \cup {Nowhere} \subseteq W
  BY <1>2, IdsAreNats
<1>4. to \in W
  BY <1>1, <1>2, FacesFinite DEF FaceIsFinite, IdsOf
<1> HIDE DEF W, to
<1>5. standing \in WhereIn(W) /\ standing[b] \in StandingIn(W)
  BY <1>2, <1>3, WhereGrows DEF WhereIn
<1>6. AfterRow(standing[b], [kind |-> "placed", area |-> to]) \in StandingIn(W)
  BY <1>3, <1>4, <1>5, AfterRowIn
<1>7. where \in WhereIn(W)
  BY <1>5, <1>6 DEF WhereIn
<1> HIDE DEF where
<1> QED BY <1>1, <1>2, <1>7, DoneStands DEF AllStandsThen, W

-----------------------------------------------------------------------------
(* Pieces *)

\* A room whose planks stay and whose pieces change, none of them needed going.
LEMMA RepiecedSound ==
  ASSUME NEW V, NEW rm, Sound(rm, V), NEW P \in SUBSET PieceRow, IsFiniteSet(P),
         \A f, g \in P : f.id = g.id => f = g,
         \A a \in rm.areas : a.piece \in IdsOf(P),
         \A r \in Rules : rm.rules[r].piece \in IdsOf(P) \cup {Null}
  PROVE  LET to == [rm EXCEPT !.pieces = P]
         IN  Sound(to, V) /\ to.named = rm.named /\ to.areas = rm.areas
<1> DEFINE to == [rm EXCEPT !.pieces = P]
<1>1. rm \in RoomIn(V)
  BY DEF Sound
<1>2. /\ to \in RoomIn(V) /\ to.areas = rm.areas /\ to.named = rm.named /\ to.pieces = P
      /\ to.rules = rm.rules /\ to.nextArea = rm.nextArea
  BY <1>1 DEF RoomIn
<1> HIDE DEF to
<1>3. SchemaHolds(to)
  BY <1>2 DEF Sound, SchemaHolds, OnePlankAPlace
<1> QED BY <1>2, <1>3 DEF Sound, to

LEMMA AddPieceStands ==
  ASSUME NEW V, AllStands(V), NEW position \in Positions, AddPiece(position)
  PROVE  AllStandsThen(V) /\ receipt' = receipt
<1> DEFINE new == [id |-> NewId(room.pieces), position |-> position]
           P == room.pieces \cup {new}
<1>1. room' = [room EXCEPT !.pieces = P] /\ survey' = survey /\ standing' = standing /\ receipt' = receipt
  BY DEF AddPiece
<1>2. /\ 0 \in V /\ Sound(room, V) /\ standing \in WhereIn(room.named \cup {Nowhere})
      /\ \A r \in Ranges : BandIn(survey.bands[r], room.areas, V)
  BY DEF AllStands, Stands
<1>3. room.pieces \in SUBSET PieceRow /\ IsFiniteSet(room.pieces)
  BY <1>2 DEF Sound, RoomIn
<1>4. NewId(room.pieces) \in Nat \ {Null} /\ NewId(room.pieces) \notin IdsOf(room.pieces)
  BY <1>3, NewIdIsNew DEF PieceRow
<1>5. position \in Int
  BY ShelvesAssumption DEF Positions
<1>6. new \in PieceRow /\ new.id \notin IdsOf(room.pieces)
  BY <1>4, <1>5 DEF PieceRow
<1> HIDE DEF new
<1>7. P \in SUBSET PieceRow /\ IsFiniteSet(P) /\ IdsOf(room.pieces) \subseteq IdsOf(P)
  BY <1>3, <1>6, FS_AddElement DEF IdsOf
<1>8. \A f, g \in P : f.id = g.id => f = g
  BY <1>2, <1>6 DEF IdsOf, Sound, SchemaHolds
<1>9. /\ \A a \in room.areas : a.piece \in IdsOf(P)
      /\ \A r \in Rules : room.rules[r].piece \in IdsOf(P) \cup {Null}
  BY <1>2, <1>7 DEF Sound, SchemaHolds
<1> HIDE DEF P
<1>10. Sound(room', V) /\ room'.named = room.named /\ room'.areas = room.areas
  BY <1>1, <1>2, <1>7, <1>8, <1>9, RepiecedSound
<1> QED BY <1>1, <1>2, <1>10 DEF AllStandsThen, Stands

\* A piece under another number.
LEMMA RenumberedPieces ==
  ASSUME NEW V, NEW rm, Sound(rm, V), NEW f \in rm.pieces, NEW position \in Int
  PROVE  LET P == (rm.pieces \ {f}) \cup {[f EXCEPT !.position = position]}
         IN  /\ P \in SUBSET PieceRow /\ IsFiniteSet(P) /\ IdsOf(P) = IdsOf(rm.pieces)
             /\ \A g, h \in P : g.id = h.id => g = h
<1> DEFINE new == [f EXCEPT !.position = position]
           P == (rm.pieces \ {f}) \cup {new}
<1>1. rm.pieces \in SUBSET PieceRow /\ IsFiniteSet(rm.pieces)
  BY DEF Sound, RoomIn
<1>2. new \in PieceRow /\ new.id = f.id
  BY <1>1 DEF PieceRow
<1> HIDE DEF new
<1>3. P \in SUBSET PieceRow /\ IsFiniteSet(P)
  BY <1>1, <1>2, FS_RemoveElement, FS_AddElement
<1>4. IdsOf(P) = IdsOf(rm.pieces)
  <2>1. \A id \in IdsOf(P) : id \in IdsOf(rm.pieces)
    BY <1>2 DEF IdsOf
  <2>2. ASSUME NEW g \in rm.pieces PROVE \E h \in P : h.id = g.id
    BY <1>2
  <2> QED BY <2>1, <2>2 DEF IdsOf
<1>5. \A g, h \in P : g.id = h.id => g = h
  BY <1>2 DEF Sound, SchemaHolds
<1> QED BY <1>3, <1>4, <1>5 DEF new

LEMMA RenumberStands ==
  ASSUME NEW V, AllStands(V), NEW f \in room.pieces, NEW position \in Positions, Renumber(f, position)
  PROVE  AllStandsThen(V) /\ receipt' = receipt
<1> DEFINE P == (room.pieces \ {f}) \cup {[f EXCEPT !.position = position]}
           new == [room EXCEPT !.pieces = P]
           said == [what |-> "renumbering", piece |-> f.id]
<1>1. Rearranged(new, said) /\ receipt' = receipt
  BY DEF Renumber
<1>2. Stands(room, survey, standing, V) /\ 0 \in V /\ Sound(room, V)
  BY DEF AllStands, Stands
<1>3. position \in Int
  BY ShelvesAssumption DEF Positions
<1>4. /\ P \in SUBSET PieceRow /\ IsFiniteSet(P) /\ IdsOf(P) = IdsOf(room.pieces)
      /\ \A g, h \in P : g.id = h.id => g = h
  BY <1>2, <1>3, RenumberedPieces
<1>5. /\ \A a \in room.areas : a.piece \in IdsOf(P)
      /\ \A r \in Rules : room.rules[r].piece \in IdsOf(P) \cup {Null}
  BY <1>2, <1>4 DEF Sound, SchemaHolds
<1> HIDE DEF P, said
<1>6. Sound(new, V) /\ new.named = room.named
  BY <1>2, <1>4, <1>5, RepiecedSound
<1> HIDE DEF new
<1> QED BY <1>1, <1>2, <1>6, RearrangedStands DEF AllStandsThen

LEMMA DropPieceStands ==
  ASSUME NEW V, AllStands(V), NEW f \in room.pieces, DropPiece(f)
  PROVE  AllStandsThen(V) /\ receipt' = receipt
<1> DEFINE face == Face(room, f.id)
           n == Len(face)
           ids == [i \in DOMAIN face |-> face[i].id]
           bare == FoldLeft(RetireOrRemove, room, ids)
           left == \E a \in bare.areas : a.piece = f.id
           P == IF left THEN (bare.pieces \ {f}) \cup {[f EXCEPT !.position = RetiredPosition(@)]}
                ELSE bare.pieces \ {f}
           new == [bare EXCEPT !.pieces = P]
           said == [what |-> "piece gone", piece |-> f.id]
<1>1. Done(new, standing, said) /\ receipt' = receipt /\ f.position >= 0 /\ RulesOn(f) = {}
  BY DEF DropPiece
<1>2. 0 \in V /\ Sound(room, V) /\ standing \in WhereIn(room.named \cup {Nowhere})
  BY DEF AllStands, Stands
<1>3. room.areas \in SUBSET AreaRowIn(V) /\ room.pieces \in SUBSET PieceRow
  BY <1>2 DEF Sound, RoomIn
<1>4. Enumerates(face, {a \in room.areas : a.piece = f.id /\ a.position >= 0})
  <2>1. /\ Planks(room, f.id) = {a \in room.areas : a.piece = f.id /\ a.position >= 0}
        /\ IsFiniteSet(Planks(room, f.id))
    BY <1>1, <1>2, PlanksAre
  <2> QED BY <2>1, AlongEnumerates DEF Face
<1> HIDE DEF face
<1>5. n \in Nat /\ DOMAIN face = 1 .. n /\ \A i \in 1 .. n : face[i] \in room.areas /\ face[i].piece = f.id
  BY <1>4 DEF Enumerates
<1> HIDE DEF n
<1>6. ids \in [1 .. n -> Nat \ {Null}]
  BY <1>3, <1>5 DEF AreaRowIn
<1>7. \A r \in Rules, i \in 1 .. n : room.rules[r].area # ids[i]
  BY <1>1, <1>5 DEF RulesOn
<1> HIDE DEF ids
<1>8. Sound(bare, V) /\ bare.named = room.named /\ bare.pieces = room.pieces /\ bare.rules = room.rules
  BY <1>2, <1>5, <1>6, <1>7, GoneSound
<1> HIDE DEF bare
<1>9. /\ P \in SUBSET PieceRow /\ IsFiniteSet(P)
      /\ \A g, h \in P : g.id = h.id => g = h
      /\ \A a \in bare.areas : a.piece \in IdsOf(P)
      /\ \A r \in Rules : bare.rules[r].piece \in IdsOf(P) \cup {Null}
  <2>1. CASE left
    <3> DEFINE Q == (bare.pieces \ {f}) \cup {[f EXCEPT !.position = RetiredPosition(f.position)]}
    <3>1. P = Q
      BY <2>1
    <3>2. RetiredPosition(f.position) \in Int
      BY <1>3 DEF PieceRow, RetiredPosition
    <3>3. Q \in SUBSET PieceRow /\ IsFiniteSet(Q) /\ IdsOf(Q) = IdsOf(bare.pieces)
          /\ \A g, h \in Q : g.id = h.id => g = h
      BY <1>8, <3>2, RenumberedPieces
    <3>4. /\ \A a \in bare.areas : a.piece \in IdsOf(bare.pieces)
          /\ \A r \in Rules : bare.rules[r].piece \in IdsOf(bare.pieces) \cup {Null}
      BY <1>8 DEF Sound, SchemaHolds
    <3> HIDE DEF P, Q
    <3> QED BY <3>1, <3>3, <3>4
  <2>2. CASE ~left
    <3> DEFINE Q == room.pieces \ {f}
    <3>1. P = Q
      BY <1>8, <2>2
    <3>2. Q \in SUBSET PieceRow /\ IsFiniteSet(Q) /\ \A g, h \in Q : g.id = h.id => g = h
      BY <1>2, <1>3, FS_RemoveElement DEF Sound, SchemaHolds
    <3>3. \A id \in IdsOf(room.pieces) : id # f.id => id \in IdsOf(Q)
      BY DEF IdsOf
    <3>4. \A a \in bare.areas : a.piece \in IdsOf(room.pieces) /\ a.piece # f.id
      BY <1>8, <2>2 DEF Sound, SchemaHolds
    <3>5. \A r \in Rules : room.rules[r].piece \in IdsOf(room.pieces) \cup {Null} /\ room.rules[r].piece # f.id
      BY <1>1, <1>2 DEF RulesOn, Sound, SchemaHolds
    <3> HIDE DEF P, Q
    <3> QED BY <1>8, <3>1, <3>2, <3>3, <3>4, <3>5
  <2> QED BY <2>1, <2>2
<1> HIDE DEF P, said
<1>10. Sound(new, V) /\ new.named = room.named
  BY <1>8, <1>9, RepiecedSound
<1> HIDE DEF new
<1>11. standing \in WhereIn(IdsOf(new.areas) \cup {Nowhere})
  BY <1>2, <1>10, IdsAreNats, WhereGrows
<1> QED BY <1>1, <1>2, <1>10, <1>11, DoneStands DEF AllStandsThen

-----------------------------------------------------------------------------
(* Areas *)

LEMMA PastTheRunIn ==
  ASSUME NEW X, \A x \in X : x.startsAt \in Nat, NEW order \in Seq(X), NEW at \in 1 .. Len(order),
         NEW starting
  PROVE  PastTheRun(order, at, starting) \in Nat
<1> DEFINE starts == {i \in 1 .. at - 1 : order[i].id \in starting}
           run == {order[i].id : i \in (IF starts = {} THEN 1 ELSE Max(starts)) .. at - 1}
           held == {c \in Books : standing[c].area \in run}
           past == {Key[b] + 1 : b \in held}
           before == IF at = 1 THEN {0} ELSE {order[at - 1].startsAt}
           g == [b \in held |-> Key[b] + 1]
<1>1. PastTheRun(order, at, starting) = Max(past \cup before)
  BY DEF PastTheRun
<1>2. IsFiniteSet(held) /\ \A b \in held : Key[b] \in Nat
  BY ShelvesAssumption, FS_Subset
<1> HIDE DEF held, starts, run
<1>3. IsFiniteSet(past) /\ past \in SUBSET Nat
  <2>1. g \in Surjection(held, past)
    BY DEF Surjection
  <2>2. past \in SUBSET Nat
    BY <1>2
  <2> HIDE DEF g, past
  <2> QED BY <1>2, <2>1, <2>2, FS_Surjection
<1>4. before \in SUBSET Nat /\ before # {} /\ IsFiniteSet(before)
  <2>1. CASE at = 1
    <3>1. before = {0} /\ 0 \in Nat
      BY <2>1
    <3>2. IsFiniteSet({0})
      BY FS_Singleton
    <3> HIDE DEF before
    <3> QED BY <3>1, <3>2
  <2>2. CASE at # 1
    <3>1. at - 1 \in 1 .. Len(order)
      BY <2>2
    <3>2. order[at - 1] \in X
      BY <3>1
    <3> QED BY <2>2, <3>2, FS_Singleton
  <2> QED BY <2>1, <2>2
<1> HIDE DEF past, before
<1>5. IsFiniteSet(past \cup before)
  BY <1>3, <1>4, FS_Union
<1>6. past \cup before \in SUBSET Int /\ past \cup before # {} /\ past \cup before \in SUBSET Nat
  BY <1>3, <1>4
<1>7. Max(past \cup before) \in past \cup before
  BY <1>5, <1>6, MaxInt
<1> QED BY <1>1, <1>6, <1>7

LEMMA AnchorIntoIn ==
  ASSUME NEW X, \A x \in X : x.startsAt \in Nat, NEW order \in Seq(X),
         \E i \in DOMAIN order : order[i].id = Null
  PROVE  AnchorInto(order) \in Nat
<1> DEFINE at == CHOOSE i \in DOMAIN order : order[i].id = Null
<1>1. at \in 1 .. Len(order) /\ Len(order) \in Nat
  OBVIOUS
<1> DEFINE starting == IdsOf(Starting(room))
<1>2. AnchorInto(order) = IF at < Len(order) /\ order[at + 1].id \notin starting THEN order[at + 1].startsAt
                          ELSE PastTheRun(order, at, starting)
  BY DEF AnchorInto
<1> HIDE DEF at, starting
<1>3. PastTheRun(order, at, starting) \in Nat
  BY <1>1, PastTheRunIn
<1>4. at < Len(order) => order[at + 1].startsAt \in Nat
  <2>1. ASSUME at < Len(order) PROVE order[at + 1] \in X
    <3>1. at + 1 \in 1 .. Len(order)
      BY <1>1, <2>1
    <3> QED BY <3>1
  <2> QED BY <2>1
<1> QED BY <1>2, <1>3, <1>4

\* The anchor a new area is given.
LEMMA AnchorIn ==
  ASSUME Sound(room, Nat), NEW f \in room.pieces, f.position >= 0, NEW landing \in Nat
  PROVE  AnchorForNewArea(f, landing) \in Nat
<1> DEFINE moved(a) == IF a.piece = f.id /\ a.position >= landing THEN [a EXCEPT !.position = a.position + 1] ELSE a
           gap == [id |-> Null, piece |-> f.id, position |-> landing, startsAt |-> 0, own |-> FALSE]
           A == {moved(a) : a \in room.areas}
           rm == [room EXCEPT !.areas = A \cup {gap}]
           g == [a \in room.areas |-> moved(a)]
<1>1. AnchorForNewArea(f, landing) = AnchorInto(Order(rm))
  BY DEF AnchorForNewArea
<1>2. room.areas \in SUBSET AreaRowIn(Nat) /\ IsFiniteSet(room.areas)
  BY DEF Sound, RoomIn
<1>3. \A a \in room.areas : moved(a).startsAt \in Nat
  BY <1>2 DEF AreaRowIn
<1>4. g \in Surjection(room.areas, A)
  BY DEF Surjection
<1> HIDE DEF moved
<1>5. \A a \in A \cup {gap} : a.startsAt \in Nat
  BY <1>3
<1> HIDE DEF g, A
<1>6. IsFiniteSet(A \cup {gap})
  BY <1>2, <1>4, FS_Surjection, FS_AddElement
<1>7. rm.areas = A \cup {gap} /\ rm.pieces = room.pieces
  BY DEF Sound, RoomIn
<1>8. gap.id = Null /\ gap.piece = f.id /\ gap.position = landing
  OBVIOUS
<1> HIDE DEF gap, rm
<1>9. PieceOf(rm, gap) = f
  BY <1>7, <1>8 DEF PieceOf, Sound, SchemaHolds
<1>10. gap \in OnAFace(rm) /\ OnAFace(rm) \in SUBSET rm.areas
  BY <1>7, <1>8, <1>9 DEF OnAFace
<1>11. IsFiniteSet(OnAFace(rm))
  BY <1>6, <1>7, <1>10, FS_Subset
<1>12. Enumerates(Order(rm), OnAFace(rm))
  BY <1>11, OrderEnumerates DEF Order
<1>13. \E i \in DOMAIN Order(rm) : Order(rm)[i].id = Null
  BY <1>8, <1>10, <1>12 DEF Enumerates
<1>14. Order(rm) \in Seq(OnAFace(rm)) /\ \A a \in OnAFace(rm) : a.startsAt \in Nat
  BY <1>5, <1>7, <1>10, <1>12 DEF Enumerates
<1>15. AnchorInto(Order(rm)) \in Nat
  BY <1>13, <1>14, AnchorIntoIn
<1> QED BY <1>1, <1>15

LEMMA AddAreaStands ==
  ASSUME AllStands(Nat), NEW f \in room.pieces, NEW landing \in Nat,
         NEW typed \in Nat \cup {NotSaid}, NEW own \in BOOLEAN, AddArea(f, landing, typed, own)
  PROVE  AllStandsThen(Nat) /\ receipt' = receipt
<1> DEFINE anchor == IF typed = NotSaid THEN AnchorForNewArea(f, landing) ELSE typed
           face == Face(room, f.id)
           planks == Planks(room, f.id)
           new == [id |-> room.nextArea, piece |-> f.id, position |-> landing,
                   startsAt |-> anchor, own |-> own]
           grown == InsertAt(face, landing + 1, new)
           ids == [i \in DOMAIN grown |-> grown[i].id]
           A == room.areas \cup {new}
           more == [room EXCEPT !.areas = A, !.nextArea = room.nextArea + 1]
           said == [what |-> "area added", area |-> new.id]
<1>1. /\ Rearranged(Resequenced(more, ids), said) /\ receipt' = receipt
      /\ f.position >= 0 /\ landing <= Len(face)
  BY DEF AddArea
<1>2. anchor \in Nat
  BY <1>1, AnchorIn DEF AllStands, Stands
<1> HIDE DEF anchor, said
<1>3. Stands(room, survey, standing, Nat)
  BY DEF AllStands
<1>4. 0 \in Nat /\ Sound(room, Nat)
  BY <1>3 DEF Stands
<1>5. /\ room.areas \in SUBSET AreaRowIn(Nat) /\ room.pieces \in SUBSET PieceRow
      /\ room.nextArea \in Nat \ {Null} /\ room \in RoomIn(Nat)
  BY <1>4 DEF Sound, RoomIn
<1>6. planks = {a \in room.areas : a.piece = f.id /\ a.position >= 0} /\ IsFiniteSet(planks)
  BY <1>1, <1>4, PlanksAre
<1>7. new \in AreaRowIn(Nat) /\ new.id = room.nextArea /\ new.piece = f.id
  BY <1>2, <1>5 DEF AreaRowIn, PieceRow
<1> HIDE DEF new
<1>8. \A a \in room.areas : a.id # new.id
  <2>1. \A a \in room.areas : a.id < room.nextArea /\ a.id \in Nat
    BY <1>4, <1>5 DEF Sound, SchemaHolds, AreaRowIn
  <2> QED BY <1>5, <1>7, <2>1
<1>9. Enumerates(grown, planks \cup {new})
  <2>1. Enumerates(face, planks)
    BY <1>6, AlongEnumerates DEF Face
  <2>2. new \notin planks
    BY <1>6, <1>8
  <2> HIDE DEF planks, face
  <2>3. landing + 1 \in 1 .. Len(face) + 1
    BY <1>1, <2>1 DEF Enumerates
  <2> QED BY <2>1, <2>2, <2>3, InsertEnumerates
<1> HIDE DEF planks, grown
<1>10. Lists(ids, planks \cup {new})
  <2>1. \A a, c \in planks \cup {new} : a.id = c.id => a = c
    BY <1>4, <1>6, <1>8 DEF Sound, SchemaHolds, OnePlankAPlace
  <2> QED BY <1>9, <2>1, IdsOfEnumerated
<1> HIDE DEF ids
<1>11. A \in SUBSET AreaRowIn(Nat) /\ IsFiniteSet(A) /\ IdsOf(room.areas) \subseteq IdsOf(A)
  BY <1>4, <1>5, <1>7, FS_AddElement DEF Sound, IdsOf
<1>12. room.nextArea + 1 \in Nat \ {Null}
  BY <1>5 DEF Null
<1>13. /\ more \in RoomIn(Nat) /\ more.areas = A /\ more.named = room.named /\ more.pieces = room.pieces
       /\ more.rules = room.rules /\ more.nextArea = room.nextArea + 1
  <2> HIDE DEF A
  <2> QED BY <1>5, <1>11, <1>12 DEF RoomIn
<1> HIDE DEF more
<1>14. \A a \in A : a.id < room.nextArea + 1 /\ a.piece \in IdsOf(room.pieces)
  <2>1. ASSUME NEW a \in room.areas PROVE a.id < room.nextArea + 1 /\ a.piece \in IdsOf(room.pieces)
    <3>1. a.id < room.nextArea /\ a.id \in Nat /\ a.piece \in IdsOf(room.pieces)
      BY <1>4, <1>5 DEF Sound, SchemaHolds, AreaRowIn
    <3> QED BY <1>5, <3>1
  <2>2. new.id < room.nextArea + 1 /\ new.piece \in IdsOf(room.pieces)
    BY <1>5, <1>7 DEF IdsOf
  <2> QED BY <2>1, <2>2
<1>15. \A a, c \in A : a # c => a.id # c.id
  BY <1>4, <1>8 DEF Sound, SchemaHolds, OnePlankAPlace
<1>16. ButForPlaces(more, Nat)
  <2> HIDE DEF A
  <2>1. /\ IsFiniteSet(room.pieces) /\ \A g, h \in room.pieces : g.id = h.id => g = h
    BY <1>4 DEF Sound, SchemaHolds
  <2>2. /\ room.named \subseteq IdsOf(A)
        /\ \A r \in Rules : /\ room.rules[r].area \in IdsOf(A) \cup {Null}
                             /\ room.rules[r].piece \in IdsOf(room.pieces) \cup {Null}
    BY <1>4, <1>11 DEF Sound, SchemaHolds
  <2> QED BY <1>11, <1>13, <1>14, <1>15, <2>1, <2>2 DEF ButForPlaces
<1>17. ListsAFace(ids, more, f.id)
  <2>1. \A a \in A : a.id \in ToSet(ids) <=> a \in planks \cup {new}
    <3>1. ToSet(ids) = IdsOf(planks \cup {new})
      BY <1>10 DEF Lists
    <3>2. planks \cup {new} \subseteq A
      BY <1>6
    <3> HIDE DEF A
    <3> QED BY <1>15, <3>1, <3>2 DEF IdsOf
  <2>2. \A a \in A : a.id \in ToSet(ids) => a.piece = f.id
    BY <1>6, <1>7, <2>1
  <2>3. \A a \in A : a.piece = f.id /\ a.id \notin ToSet(ids) => a.position < 0
    <3>1. ASSUME NEW a \in A, a.piece = f.id, a.id \notin ToSet(ids) PROVE a.position < 0
      <4>1. a \in room.areas /\ ~(a.position >= 0) /\ a.position \in Int
        BY <1>5, <1>6, <2>1, <3>1 DEF AreaRowIn
      <4> QED BY <4>1
    <3> QED BY <3>1
  <2>4. \A a, c \in A : a # c /\ a.piece = c.piece /\ a.id \notin ToSet(ids) /\ c.id \notin ToSet(ids)
                          => a.position # c.position
    <3>1. \A a \in A : a.id \notin ToSet(ids) => a \in room.areas
      BY <2>1
    <3> QED BY <1>4, <3>1 DEF Sound, SchemaHolds, OnePlankAPlace
  <2> HIDE DEF A
  <2>5. (\E n \in Nat : DOMAIN ids = 1 .. n) /\ \A i, j \in DOMAIN ids : ids[i] = ids[j] => i = j
    BY <1>10 DEF Lists
  <2> QED BY <1>13, <2>2, <2>3, <2>4, <2>5 DEF ListsAFace
<1>18. Sound(Resequenced(more, ids), Nat) /\ Resequenced(more, ids).named = room.named
  BY <1>13, <1>16, <1>17, ResequencedSound
<1>19. AllStandsThen(Nat)
  BY <1>1, <1>3, <1>4, <1>18, RearrangedStands DEF AllStandsThen
<1> QED BY <1>1, <1>19

LEMMA EditAreaStands ==
  ASSUME AllStands(Nat), NEW area \in OnAFace(room), NEW landing \in Nat \cup {NotSaid},
         NEW startsAt \in Nat, NEW own \in BOOLEAN, EditArea(area, landing, startsAt, own)
  PROVE  AllStandsThen(Nat) /\ receipt' = receipt
<1> DEFINE restated == [area EXCEPT !.startsAt = startsAt, !.own = own]
           planks == Planks(room, area.piece)
           left == planks \ {area}
           rest == Along(left)
           order == InsertAt(rest, landing + 1, restated)
           ids == [i \in DOMAIN order |-> order[i].id]
           mid == Changed(room, area, restated)
           said == [what |-> "area edited", area |-> area.id]
<1>1. /\ Rearranged(IF landing = NotSaid THEN mid ELSE Resequenced(mid, ids), said)
      /\ receipt' = receipt /\ landing < Len(Face(room, area.piece))
  BY DEF EditArea
<1>2. startsAt \in Nat
  OBVIOUS
<1> HIDE DEF said
<1>3. Stands(room, survey, standing, Nat)
  BY DEF AllStands
<1>4. 0 \in Nat /\ Sound(room, Nat)
  BY <1>3 DEF Stands
<1>5. /\ planks = {a \in room.areas : a.piece = area.piece /\ a.position >= 0}
      /\ IsFiniteSet(planks) /\ area \in planks /\ area \in room.areas
  <2>1. /\ PieceOf(room, area) \in room.pieces /\ PieceOf(room, area).id = area.piece
        /\ PieceOf(room, area).position >= 0 /\ area \in planks /\ area \in room.areas
    BY <1>4, PieceOfPlank
  <2> QED BY <1>4, <2>1, PlanksAre
<1>6. room.areas \in SUBSET AreaRowIn(Nat)
  BY <1>4 DEF Sound, RoomIn
<1>7. /\ restated \in AreaRowIn(Nat) /\ restated.id = area.id /\ restated.piece = area.piece
      /\ restated.position = area.position
  BY <1>2, <1>5, <1>6 DEF AreaRowIn
<1> HIDE DEF restated
<1>8. /\ Sound(mid, Nat) /\ mid.areas = (room.areas \ {area}) \cup {restated} /\ mid.named = room.named
  <2>1. \A c \in room.areas : c # area /\ c.piece = area.piece => c.position # restated.position
    BY <1>4, <1>5, <1>7 DEF Sound, SchemaHolds, OnePlankAPlace
  <2> QED BY <1>4, <1>5, <1>7, <2>1, ChangedSound
<1> HIDE DEF mid
<1> SUFFICES ASSUME landing # NotSaid PROVE AllStandsThen(Nat) /\ receipt' = receipt
  <2>1. ASSUME landing = NotSaid PROVE AllStandsThen(Nat)
    <3>1. Rearranged(mid, said)
      BY <1>1, <2>1
    <3> QED BY <1>3, <1>4, <1>8, <3>1, RearrangedStands DEF AllStandsThen
  <2> QED BY <1>1, <2>1
<1>0. landing \in Nat
  OBVIOUS
<1>9. \A a, c \in room.areas : a.id = c.id => a = c
  BY <1>4 DEF Sound, SchemaHolds, OnePlankAPlace
<1>10. \A a \in left : a \in room.areas /\ a.id # restated.id
  BY <1>5, <1>7, <1>9
<1>11. Enumerates(order, left \cup {restated})
  <2>1. Len(Face(room, area.piece)) = Cardinality(planks)
    BY <1>5, AlongEnumerates DEF Face
  <2>2. IsFiniteSet(left) /\ Cardinality(left) = Cardinality(planks) - 1
        /\ Cardinality(planks) \in Nat
    BY <1>5, FS_RemoveElement, FS_CardinalityType
  <2>3. restated \notin left
    BY <1>10
  <2> HIDE DEF planks, left
  <2>4. Enumerates(rest, left) /\ Len(rest) = Cardinality(left)
    BY <2>2, AlongEnumerates
  <2> HIDE DEF rest
  <2>5. landing + 1 \in 1 .. Len(rest) + 1
    BY <1>0, <1>1, <2>1, <2>2, <2>4
  <2> QED BY <2>3, <2>4, <2>5, InsertEnumerates
<1> HIDE DEF order
<1>12. Lists(ids, left \cup {restated})
  <2>1. \A a, c \in left \cup {restated} : a.id = c.id => a = c
    BY <1>9, <1>10
  <2> QED BY <1>11, <2>1, IdsOfEnumerated
<1> HIDE DEF ids, planks, rest
<1>13. ListsAFace(ids, mid, area.piece)
  <2>1. \A a, c \in mid.areas : a.id = c.id => a = c
    BY <1>8 DEF Sound, SchemaHolds, OnePlankAPlace
  <2>2. left \cup {restated} \subseteq mid.areas
    BY <1>8, <1>10
  <2>3. \A a \in mid.areas : a.id \in ToSet(ids) <=> a \in left \cup {restated}
    <3>1. ToSet(ids) = IdsOf(left \cup {restated})
      BY <1>12 DEF Lists
    <3> HIDE DEF left
    <3> QED BY <2>1, <2>2, <3>1 DEF IdsOf
  <2>4. \A a \in mid.areas : a.id \in ToSet(ids) => a.piece = area.piece
    BY <1>5, <1>7, <2>3
  <2>5. ASSUME NEW a \in mid.areas, a.piece = area.piece, a.id \notin ToSet(ids) PROVE a.position < 0
    <3>1. a \in room.areas /\ a # area /\ a \notin planks
      BY <1>8, <2>3, <2>5
    <3>2. ~(a.position >= 0) /\ a.position \in Int
      BY <1>5, <1>6, <2>5, <3>1 DEF AreaRowIn
    <3> QED BY <3>2
  <2>6. \A a, c \in mid.areas : a # c /\ a.piece = c.piece => a.position # c.position
    BY <1>8 DEF Sound, SchemaHolds, OnePlankAPlace
  <2> HIDE DEF left
  <2>7. (\E n \in Nat : DOMAIN ids = 1 .. n) /\ \A i, j \in DOMAIN ids : ids[i] = ids[j] => i = j
    BY <1>12 DEF Lists
  <2> QED BY <2>4, <2>5, <2>6, <2>7 DEF ListsAFace
<1>14. Sound(Resequenced(mid, ids), Nat) /\ Resequenced(mid, ids).named = room.named
  BY <1>8, <1>13, SoundButForPlaces, ResequencedSound
<1>15. AllStandsThen(Nat)
  <2>1. Rearranged(Resequenced(mid, ids), said)
    BY <1>1
  <2> QED BY <1>3, <1>4, <1>14, <2>1, RearrangedStands DEF AllStandsThen
<1> QED BY <1>1, <1>15

-----------------------------------------------------------------------------
(* Rules and runs *)

LEMMA RuledSound ==
  ASSUME NEW V, NEW rm, Sound(rm, V), NEW r \in Rules, NEW place \in [area : Nat, piece : Nat],
         place.area \in IdsOf(rm.areas) \cup {Null}, place.piece \in IdsOf(rm.pieces) \cup {Null}
  PROVE  LET to == [rm EXCEPT !.rules[r] = place]
         IN  Sound(to, V) /\ to.named = rm.named /\ to.areas = rm.areas
<1> DEFINE R == [rm.rules EXCEPT ![r] = place]
           to == [rm EXCEPT !.rules = R]
<1>1. rm \in RoomIn(V) /\ rm.rules \in [Rules -> [area : Nat, piece : Nat]]
  BY DEF Sound, RoomIn
<1>2. R \in [Rules -> [area : Nat, piece : Nat]]
  BY <1>1
<1>3. \A q \in Rules : R[q].area \in IdsOf(rm.areas) \cup {Null} /\ R[q].piece \in IdsOf(rm.pieces) \cup {Null}
  BY <1>1 DEF Sound, SchemaHolds
<1> HIDE DEF R
<1>4. /\ to \in RoomIn(V) /\ to.areas = rm.areas /\ to.named = rm.named /\ to.pieces = rm.pieces
      /\ to.rules = R /\ to.nextArea = rm.nextArea
  BY <1>1, <1>2 DEF RoomIn
<1> HIDE DEF to
<1>5. SchemaHolds(to)
  BY <1>3, <1>4 DEF Sound, SchemaHolds, OnePlankAPlace
<1>6. to = [rm EXCEPT !.rules[r] = place]
  BY DEF to, R
<1> QED BY <1>4, <1>5, <1>6 DEF Sound

LEMMA AnswersIn ==
  ASSUME NEW V, NEW rm, Sound(rm, V), NEW books
  PROVE  RuleAnswers(rm, Survey(rm), books) \in [books -> IdsOf(rm.areas) \cup {Nowhere}]
<1> DEFINE f == [b \in books |-> RuleAnswer(rm, Survey(rm), b)]
<1>1. RuleAnswers(rm, Survey(rm), books) = f
  BY DEF RuleAnswers
<1>2. \A b \in books : RuleAnswer(rm, Survey(rm), b) \in IdsOf(rm.areas) \cup {Nowhere}
  BY RuleAnswerIn, IdsAreNats
<1> QED BY <1>1, <1>2

LEMMA AnsweredStands ==
  ASSUME NEW V, AllStands(V), NEW W, 0 \in W, NEW new, Sound(new, W), new.named = room.named,
         NEW books, NEW said,
         Done(new, AssignPlacements(RuleAnswers(new, Survey(new), books), standing), said)
  PROVE  AllStandsThen(W)
<1> DEFINE answers == RuleAnswers(new, Survey(new), books)
           X == IdsOf(new.areas) \cup {Nowhere}
<1>1. standing \in WhereIn(new.named \cup {Nowhere})
  BY DEF AllStands, Stands
<1>2. X \in SUBSET Nat /\ Nowhere \in X /\ standing \in WhereIn(X)
  BY <1>1, IdsAreNats, WhereGrows
<1>3. answers \in [books -> X]
  BY AnswersIn
<1> HIDE DEF answers, X
<1>4. AssignPlacements(answers, standing) \in WhereIn(X)
  BY <1>2, <1>3, PlacementsIn
<1> QED BY <1>4, DoneStands DEF AllStandsThen, answers, X

LEMMA RuleChangeStands ==
  ASSUME NEW V, AllStands(V), NEW r \in OtherRules, NEW place \in Places \cup {Unplaced}, RuleChange(r, place)
  PROVE  AllStandsThen(V) /\ receipt' = receipt
<1> DEFINE new == [room EXCEPT !.rules[r] = place]
<1>1. /\ receipt' = receipt
      /\ Done(new, AssignPlacements(RuleAnswers(new, Survey(new), Books), standing),
              [what |-> "rule changed", rule |-> r])
  BY DEF RuleChange
<1>2. 0 \in V /\ Sound(room, V)
  BY DEF AllStands, Stands
<1>3. /\ place \in [area : Nat, piece : Nat]
      /\ place.area \in IdsOf(room.areas) \cup {Null} /\ place.piece \in IdsOf(room.pieces) \cup {Null}
  <2>1. OnAFace(room) \subseteq room.areas
    BY DEF OnAFace
  <2>2. \A a \in OnAFace(room) : /\ a.id \in Nat /\ a.piece \in Nat /\ a.id \in IdsOf(room.areas)
                                 /\ a.piece \in IdsOf(room.pieces)
    <3>1. room.areas \in SUBSET AreaRowIn(V)
      BY <1>2 DEF Sound, RoomIn
    <3> QED BY <1>2, <2>1, <3>1 DEF Sound, SchemaHolds, AreaRowIn, IdsOf
  <2>3. CASE place = Unplaced
    BY <2>3 DEF Unplaced, Null
  <2>4. CASE place \in Places
    BY <2>2, <2>4 DEF Places, Null
  <2> QED BY <2>3, <2>4
<1>4. Sound(new, V) /\ new.named = room.named
  BY <1>2, <1>3, RuledSound DEF Rules
<1> HIDE DEF new
<1> QED BY <1>1, <1>2, <1>4, AnsweredStands

LEMMA OpenedSound ==
  ASSUME NEW V, 0 \in V, NEW rm, Sound(rm, V), NEW to,
         PieceAt(rm, to) \in IdsOf(rm.pieces), PieceAt(rm, to) \in Nat \ {Null}
  PROVE  LET opened == Opened(rm, PieceAt(rm, to), to)
         IN  Sound(opened, V) /\ opened.named = rm.named /\ opened.pieces = rm.pieces
<1> DEFINE piece == PieceAt(rm, to)
           plank == [shelf |-> to, area |-> 0, startsAt |-> 0]
           opens == TRUE
<1>1. CASE \E a \in rm.areas : a.piece = piece /\ a.position = 0
  BY <1>1 DEF Opened
<1>2. CASE ~ \E a \in rm.areas : a.piece = piece /\ a.position = 0
  <2>1. WithPieceAt(rm, to) = rm
    BY DEF WithPieceAt
  <2>2. Opened(rm, piece, to) = Hang(rm, plank, opens)
    BY <1>2 DEF Opened
  <2>3. Hang(rm, plank, opens) = HangOn(rm, piece, plank, opens)
    BY <2>1 DEF Hang
  <2>4. plank.area \in Int /\ plank.startsAt \in V
    OBVIOUS
  <2>5. piece \in IdsOf(rm.pieces) /\ piece \in Nat
    OBVIOUS
  <2> HIDE DEF plank, piece, opens
  <2>6. /\ Sound(HangOn(rm, piece, plank, opens), V)
        /\ HangOn(rm, piece, plank, opens).named = rm.named
        /\ HangOn(rm, piece, plank, opens).pieces = rm.pieces
    BY <2>4, <2>5, HangOnSound
  <2> QED BY <2>2, <2>3, <2>6 DEF piece
<1> QED BY <1>1, <1>2

LEMMA PointedSound ==
  ASSUME NEW V, 0 \in V, NEW rm, Sound(rm, V), NEW range \in Ranges, NEW to,
         PieceAt(rm, to) \in IdsOf(rm.pieces), PieceAt(rm, to) \in Nat \ {Null}
  PROVE  Sound(Pointed(rm, range, to), V) /\ Pointed(rm, range, to).named = rm.named
<1> DEFINE piece == PieceAt(rm, to)
           opened == Opened(rm, piece, to)
           place == [area |-> Null, piece |-> piece]
<1>1. Sound(opened, V) /\ opened.named = rm.named /\ opened.pieces = rm.pieces
  BY OpenedSound
<1>2. Pointed(rm, range, to) = [opened EXCEPT !.rules[range] = place]
  BY DEF Pointed
<1> HIDE DEF opened
<1>3. /\ place \in [area : Nat, piece : Nat] /\ place.area = Null /\ place.piece \in IdsOf(opened.pieces)
  BY <1>1 DEF Null
<1> HIDE DEF place
<1> QED BY <1>1, <1>2, <1>3, RuledSound DEF Rules

LEMMA RelocatedSound ==
  ASSUME NEW V, 0 \in V, NEW rm, Sound(rm, V), NEW range \in Ranges, NEW taken \in Seq(rm.areas), NEW to \in Int
  PROVE  Sound(Relocated(rm, range, taken, to), V) /\ Relocated(rm, range, taken, to).named = rm.named
<1> DEFINE n == Len(taken)
           ids == [i \in DOMAIN taken |-> taken[i].id]
           off == FoldLeft(RetireArea, rm, ids)
           with == WithPieceAt(off, to)
           there == Pointed(with, range, to)
           list == BoundariesFrom(rm, taken)
<1>1. Relocated(rm, range, taken, to) = WriteBoundaries(there, Survey(there), range, list)
  BY DEF Relocated, Rewritten
<1>2. n \in Nat /\ DOMAIN taken = 1 .. n /\ \A i \in 1 .. n : taken[i] \in rm.areas
  OBVIOUS
<1>3. taken \in Seq(AreaRowIn(V))
  BY SeqMonotonic DEF Sound, RoomIn
<1> HIDE DEF n
<1>4. ids \in [1 .. n -> IdsOf(rm.areas)]
  BY <1>2 DEF IdsOf
<1> HIDE DEF ids
<1>5. Sound(off, V) /\ off.named = rm.named
  BY <1>2, <1>4, RetiredSound
<1> HIDE DEF off
<1>6. /\ Sound(with, V) /\ with.named = off.named
      /\ PieceAt(with, to) \in IdsOf(with.pieces) /\ PieceAt(with, to) \in Nat \ {Null}
  BY <1>5, WithPieceAtSound
<1> HIDE DEF with
<1>7. Sound(there, V) /\ there.named = with.named
  BY <1>6, PointedSound
<1> HIDE DEF there
<1>8. list \in Seq(BoundaryIn(V))
  BY <1>3, BoundariesFromIn
<1>9. Reads(Survey(there), there.areas, V)
  BY <1>7, SurveySound DEF Reads
<1> HIDE DEF list
<1> QED BY <1>1, <1>5, <1>6, <1>7, <1>8, <1>9, WritingSound

LEMMA TakenIn ==
  ASSUME NEW rm, NEW areas, NEW surveyed, NEW range, surveyed.bands[range].run \in Seq(areas)
  PROVE  TakenByMove(rm, surveyed, range) \in Seq(areas)
<1> DEFINE band == surveyed.bands[range]
           s == band.run
           limits == NextRunStartAfter(rm, surveyed.starting, band.start.shelf)
           stops == {i \in DOMAIN s : ~ \A limit \in limits : PieceOf(rm, s[i]).position < limit}
<1>1. TakenByMove(rm, surveyed, range) = IF stops = {} THEN s ELSE SubSeq(s, 1, Min(stops) - 1)
  BY DEF TakenByMove, While
<1>2. stops \in SUBSET (DOMAIN s)
  OBVIOUS
<1> HIDE DEF stops
<1> QED BY <1>1, <1>2, PrefixIn

LEMMA RelocateRunStands ==
  ASSUME NEW V, AllStands(V), NEW range \in Ranges, NEW to \in Positions, RelocateRun(range, to)
  PROVE  AllStandsThen(V) /\ receipt' = receipt
<1> DEFINE moving == OnTheMove(range)
           shift == to - At(room, moving[1]).shelf
           taken == TakenByMove(room, survey, range)
           new == Relocated(room, range, taken, to)
           half == HalfStripped(new, taken)
           planned == PlannedIn(Prospective(range, moving, shift), range)
<1>1. Relocation(range, new, half, planned) /\ receipt' = receipt
  BY DEF RelocateRun
<1>2. /\ 0 \in V /\ Sound(room, V) /\ standing \in WhereIn(room.named \cup {Nowhere})
      /\ BandIn(survey.bands[range], room.areas, V)
  BY DEF AllStands, Stands
<1>3. taken \in Seq(room.areas)
  BY <1>2, TakenIn DEF BandIn
<1>4. to \in Int
  BY ShelvesAssumption DEF Positions
<1> HIDE DEF moving, shift, taken
<1>5. Sound(new, V) /\ new.named = room.named
  BY <1>2, <1>3, <1>4, RelocatedSound
<1> HIDE DEF new, half, planned
<1>6. CASE Done(new, AssignPlacements(RuleAnswers(new, Survey(new), BooksOfRun(range)), standing),
                [what |-> "run moved", range |-> range, planned |-> planned])
  BY <1>1, <1>2, <1>5, <1>6, AnsweredStands
<1>7. CASE Done(room, standing, [what |-> "half stripped", range |-> range])
  <2>1. standing \in WhereIn(IdsOf(room.areas) \cup {Nowhere})
    BY <1>2, IdsAreNats, WhereGrows
  <2> QED BY <1>1, <1>2, <1>7, <2>1, DoneStands DEF AllStandsThen
<1> QED BY <1>1, <1>6, <1>7 DEF Relocation

-----------------------------------------------------------------------------
(* The schema is kept *)

\* The room keeps the schema with every plank anchored at a key, what the ledger says
\* names areas somebody has named, what a receipt puts back is anchored at keys, and
\* what is read of the room and walked over it is of the room as it stands.
IInv == AllStands(Nat) /\ ReceiptsAreLists(receipt) /\ survey = Survey(room) /\ walk = Walk(room, survey)

LEMMA InitStands ==
  ASSUME Init
  PROVE  IInv
<1>1. PICK rm \in Rooms : /\ survey = Survey(rm) /\ walk = Walk(rm, survey)
                          /\ standing = WhereTheRunPuts(walk.belonging)
                          /\ room = Naming(rm, standing) /\ receipt = [b \in Books |-> NoReceipt]
  BY DEF Init
<1>2. Sound(rm, Nat)
  BY ShelvesAssumption DEF Sound, RoomIn, RoomRow, AreaRowIn, AreaRow
<1> DEFINE W == IdsOf(rm.areas) \cup {Nowhere}
           is == Belonging(Survey(rm))
<1>3. standing = [b \in Books |-> [NowhereAtAll EXCEPT !.area = is[b], !.pinned = b \in Pinned]]
  BY <1>1 DEF Walk, WhereTheRunPuts
<1>4. is \in [Books -> W] /\ W \in SUBSET Nat /\ Nowhere \in W
  BY <1>2, BelongingIn, IdsAreNats
<1> HIDE DEF W, is
<1>5. standing \in WhereIn(W)
  <2>1. ASSUME NEW b \in Books
        PROVE  [NowhereAtAll EXCEPT !.area = is[b], !.pinned = b \in Pinned] \in StandingIn(W)
    <3>1. is[b] \in W /\ Nowhere \in Nat /\ (b \in Pinned) \in BOOLEAN
      BY <1>4
    <3> QED BY <1>4, <3>1 DEF NowhereAtAll, StandingIn
  <2> QED BY <1>3, <2>1 DEF WhereIn
<1>6. Sound(room, Nat) /\ room.areas = rm.areas /\ standing \in WhereIn(room.named \cup {Nowhere})
  BY <1>1, <1>2, <1>5, NamingSound DEF W
<1>7. \A r \in Ranges : BandIn(survey.bands[r], room.areas, Nat)
  BY <1>1, <1>2, <1>6, SurveySound
<1>8. AllStands(Nat)
  BY <1>6, <1>7 DEF AllStands, Stands
<1>9. ReceiptsAreLists(receipt)
  BY <1>1 DEF ReceiptsAreLists, NoReceipt
<1>10. SameFurniture(room, rm)
  <2>1. room.areas = rm.areas /\ room.rules = rm.rules /\ room.pieces = rm.pieces
    BY <1>1, <1>2 DEF Naming, Sound, RoomIn
  <2>2. ASSUME NEW a \in rm.areas PROVE PieceOf(room, a) = PieceOf(rm, a)
    <3> HIDE <1>1
    <3> QED BY <2>1 DEF PieceOf
  <2> QED BY <2>1, <2>2 DEF SameFurniture
<1>11. survey = Survey(room) /\ walk = Walk(room, survey)
  BY <1>1, <1>2, <1>10, SurveyReads
<1> QED BY <1>8, <1>9, <1>11 DEF IInv

\* A step that writes the room reads it again.
LEMMA DoneReads ==
  ASSUME NEW new, NEW where, NEW said, Done(new, where, said)
  PROVE  survey' = Survey(room') /\ walk' = Walk(room', survey')
BY DEF Done

LEMMA AddPieceReads ==
  ASSUME AllStands(Nat), survey = Survey(room), walk = Walk(room, survey), NEW position \in Positions,
         AddPiece(position)
  PROVE  survey' = Survey(room') /\ walk' = Walk(room', survey')
<1> DEFINE new == [id |-> NewId(room.pieces), position |-> position]
           P == room.pieces \cup {new}
<1>1. room' = [room EXCEPT !.pieces = P] /\ survey' = survey /\ walk' = walk
  BY DEF AddPiece
<1>2. Sound(room, Nat)
  BY DEF AllStands, Stands
<1>3. NewId(room.pieces) \notin IdsOf(room.pieces)
  BY <1>2, NewIdIsNew DEF PieceRow, Sound, RoomIn
<1>4. \A f \in P : f \in room.pieces \/ f.id \notin IdsOf(room.pieces)
  BY <1>3
<1> HIDE DEF new
<1>5. room'.areas = room.areas /\ room'.rules = room.rules /\ room'.pieces = P
  <2> HIDE DEF P
  <2> QED BY <1>1, <1>2 DEF Sound, RoomIn
<1>6. ASSUME NEW a \in room.areas PROVE PieceOf(room', a) = PieceOf(room, a)
  <2>1. PICK f \in room.pieces : f.id = a.piece
    BY <1>2 DEF Sound, SchemaHolds, IdsOf
  <2>2. \A h \in P : h.id = a.piece => h = f
    BY <1>2, <1>4, <2>1 DEF Sound, SchemaHolds, IdsOf
  <2>3. \A h \in room.pieces : h.id = a.piece => h = f
    BY <1>2, <2>1 DEF Sound, SchemaHolds
  <2>4. f \in P
    BY <2>1
  <2> HIDE DEF P
  <2> QED BY <1>5, <2>1, <2>2, <2>3, <2>4 DEF PieceOf
<1>7. SameFurniture(room', room)
  BY <1>5, <1>6 DEF SameFurniture
<1> QED BY <1>1, <1>2, <1>7, SurveyReads

LEMMA WalksKept ==
  ASSUME IInv, [Next]_vars
  PROVE  survey' = Survey(room') /\ walk' = Walk(room', survey')
<1> DEFINE read == survey' = Survey(room') /\ walk' = Walk(room', survey')
<1>1. AllStands(Nat) /\ survey = Survey(room) /\ walk = Walk(room, survey)
  BY DEF IInv
<1>2. \A new, where, said : Done(new, where, said) => read
  BY DoneReads
<1> SUFFICES read
  OBVIOUS
<1> HIDE DEF read
<1>3. \A new, said : Rearranged(new, said) => read
  BY <1>2 DEF Rearranged
<1>4. \A range, new, said : RunRearranged(range, new, said) => read
  BY <1>2 DEF RunRearranged
<1>5. ASSUME NEW range, NEW at, NEW kind, Overflow(range, at, kind) PROVE read
  BY <1>4, <1>5 DEF Overflow
<1>6. ASSUME NEW range, NEW key, NEW kind, CarryOn(range, key, kind) PROVE read
  BY <1>4, <1>6 DEF CarryOn
<1>7. ASSUME NEW b, NEW way, MoveAcross(b, way) PROVE read
  BY <1>2, <1>7 DEF MoveAcross
<1>8. ASSUME NEW b, Retract(b) PROVE read
  BY <1>4, <1>8 DEF Retract, TakeBack
<1>9. ASSUME NEW b, PutDown(b) PROVE read
  BY <1>2, <1>9 DEF PutDown
<1>10. ASSUME NEW b, ClearMove(b) PROVE read
  BY <1>1, <1>10 DEF ClearMove, read
<1>11. ASSUME NEW position \in Positions, AddPiece(position) PROVE read
  BY <1>1, <1>11, AddPieceReads DEF read
<1>12. ASSUME NEW f, NEW position, Renumber(f, position) PROVE read
  BY <1>3, <1>12 DEF Renumber
<1>13. ASSUME NEW f, DropPiece(f) PROVE read
  BY <1>2, <1>13 DEF DropPiece
<1>14. ASSUME NEW f, NEW landing, NEW said, NEW own, AddArea(f, landing, said, own) PROVE read
  <2>1. \E new, note : Rearranged(new, note)
    BY <1>14 DEF AddArea
  <2> QED BY <1>3, <2>1
<1>15. ASSUME NEW id, DropArea(id) PROVE read
  BY <1>2, <1>15 DEF DropArea
<1>16. ASSUME NEW a, NEW landing, NEW startsAt, NEW own, EditArea(a, landing, startsAt, own) PROVE read
  <2>1. \E new, said : Rearranged(new, said)
    BY <1>16 DEF EditArea
  <2> QED BY <1>3, <2>1
<1>17. ASSUME NEW r, NEW place, RuleChange(r, place) PROVE read
  BY <1>2, <1>17 DEF RuleChange
<1>18. ASSUME NEW range, NEW to, RelocateRun(range, to) PROVE read
  BY <1>2, <1>18 DEF RelocateRun, Relocation
<1>19. CASE UNCHANGED vars
  BY <1>1, <1>19 DEF vars, read
<1>20. CASE Next
  <2> HIDE <1>1, <1>2, <1>3, <1>4
  <2>1. CASE \E range \in Ranges, at \in Slots, kind \in Kinds : Overflow(range, at, kind)
    BY <1>5, <2>1
  <2>2. CASE \E range \in Ranges, b \in Books, kind \in Kinds : CarryOn(range, Key[b] + 1, kind)
    BY <1>6, <2>2
  <2>3. CASE \E b \in Books, way \in {"next", "previous"} : MoveAcross(b, way)
    BY <1>7, <2>3
  <2>4. CASE \E b \in Books : Retract(b) \/ PutDown(b) \/ ClearMove(b)
    BY <1>8, <1>9, <1>10, <2>4
  <2>5. CASE \E position \in Positions : AddPiece(position)
    BY <1>11, <2>5
  <2>6. CASE \E f \in room.pieces, position \in Positions : Renumber(f, position)
    BY <1>12, <2>6
  <2>7. CASE \E f \in room.pieces : DropPiece(f)
    BY <1>13, <2>7
  <2>8. CASE \E f \in room.pieces, landing \in 0 .. Cardinality(room.areas) :
               \E said \in Anchors \cup {NotSaid}, own \in BOOLEAN : AddArea(f, landing, said, own)
    BY <1>14, <2>8
  <2>9. CASE \E a \in OnAFace(room) : DropArea(a.id)
    BY <1>15, <2>9
  <2>10. CASE \E a \in OnAFace(room) : \E edit \in Edits(a) :
                EditArea(a, edit.landing, edit.startsAt, edit.own)
    BY <1>16, <2>10
  <2>11. CASE \E r \in OtherRules, place \in Places \cup {Unplaced} : RuleChange(r, place)
    BY <1>17, <2>11
  <2>12. CASE \E range \in Ranges, to \in Positions : RelocateRun(range, to)
    BY <1>18, <2>12
  <2> QED
    BY <1>20, <2>1, <2>2, <2>3, <2>4, <2>5, <2>6, <2>7, <2>8, <2>9, <2>10, <2>11, <2>12 DEF Next
<1> QED BY <1>19, <1>20

LEMMA NextStands ==
  ASSUME IInv, [Next]_vars
  PROVE  IInv'
<1>1. AllStands(Nat)
  BY DEF IInv
<1>2. ReceiptsAreLists(receipt)
  BY DEF IInv
<1>3. SUFFICES AllStandsThen(Nat) /\ ReceiptsAreLists(receipt')
  BY WalksKept DEF IInv, AllStands, AllStandsThen
<1>4. \A a \in OnAFace(room) : a.position \in Nat /\ a.own \in BOOLEAN
  <2>1. room.areas \in SUBSET AreaRowIn(Nat)
    BY <1>1 DEF AllStands, Stands, Sound, RoomIn
  <2> QED BY <2>1 DEF OnAFace, AreaRowIn
<1>5. ASSUME NEW range \in Ranges, NEW at \in Slots, NEW kind \in Kinds, Overflow(range, at, kind)
      PROVE  AllStandsThen(Nat) /\ ReceiptsAreLists(receipt')
  BY <1>1, <1>2, <1>5, OverflowStands
<1>6. ASSUME NEW range \in Ranges, NEW b \in Books, NEW kind \in Kinds, CarryOn(range, Key[b] + 1, kind)
      PROVE  AllStandsThen(Nat) /\ ReceiptsAreLists(receipt')
  <2>1. Key[b] + 1 \in Nat
    BY ShelvesAssumption
  <2> QED BY <1>1, <1>2, <1>6, <2>1, CarryOnStands
<1>7. ASSUME NEW b \in Books, NEW way \in {"next", "previous"}, MoveAcross(b, way)
      PROVE  AllStandsThen(Nat) /\ ReceiptsAreLists(receipt')
  BY <1>1, <1>2, <1>7, MoveAcrossStands, MoveAcrossKeeps
<1>8. ASSUME NEW b \in Books, Retract(b)
      PROVE  AllStandsThen(Nat) /\ ReceiptsAreLists(receipt')
  BY <1>1, <1>2, <1>8, RetractStands
<1>9. ASSUME NEW b \in Books, PutDown(b)
      PROVE  AllStandsThen(Nat) /\ ReceiptsAreLists(receipt')
  BY <1>1, <1>2, <1>9, PutDownStands
<1>10. ASSUME NEW b \in Books, ClearMove(b)
       PROVE  AllStandsThen(Nat) /\ ReceiptsAreLists(receipt')
  <2>1. /\ room' = room /\ survey' = survey /\ standing' = standing
        /\ receipt' = [receipt EXCEPT ![b] = NoReceipt]
    BY <1>10 DEF ClearMove
  <2> QED BY <1>1, <1>2, <2>1, ClearedReceipts DEF AllStands, AllStandsThen
<1>11. ASSUME NEW position \in Positions, AddPiece(position)
       PROVE  AllStandsThen(Nat) /\ ReceiptsAreLists(receipt')
  BY <1>1, <1>2, <1>11, AddPieceStands
<1>12. ASSUME NEW f \in room.pieces, NEW position \in Positions, Renumber(f, position)
       PROVE  AllStandsThen(Nat) /\ ReceiptsAreLists(receipt')
  BY <1>1, <1>2, <1>12, RenumberStands
<1>13. ASSUME NEW f \in room.pieces, DropPiece(f)
       PROVE  AllStandsThen(Nat) /\ ReceiptsAreLists(receipt')
  BY <1>1, <1>2, <1>13, DropPieceStands
<1>22. Anchors \in SUBSET Nat
  <2>1. \A c \in OnAFace(room) : c.startsAt \in Nat
    BY <1>1, FacesFinite, AtIs DEF FaceIsFinite, AllStands, Stands
  <2>2. \A c \in Books : Key[c] \in Nat
    BY ShelvesAssumption
  <2> QED BY <2>1, <2>2 DEF Anchors
<1>14. ASSUME NEW f \in room.pieces, NEW landing \in 0 .. Cardinality(room.areas),
              NEW said \in Anchors \cup {NotSaid}, NEW own \in BOOLEAN, AddArea(f, landing, said, own)
       PROVE  AllStandsThen(Nat) /\ ReceiptsAreLists(receipt')
  BY <1>1, <1>2, <1>14, <1>22, AddAreaStands
<1>15. ASSUME NEW a \in OnAFace(room), DropArea(a.id)
       PROVE  AllStandsThen(Nat) /\ ReceiptsAreLists(receipt')
  BY <1>1, <1>2, <1>15, DropAreaStands
<1>16. ASSUME NEW a \in OnAFace(room), NEW edit \in Edits(a), EditArea(a, edit.landing, edit.startsAt, edit.own)
       PROVE  AllStandsThen(Nat) /\ ReceiptsAreLists(receipt')
  <2>1. edit.landing \in Nat \cup {NotSaid} /\ edit.own \in BOOLEAN
    <3>1. a.position \in Nat /\ a.own \in BOOLEAN /\ (~a.own) \in BOOLEAN
      BY <1>4
    <3>2. edit.landing \in (0 .. Cardinality(room.areas)) \cup {NotSaid}
      BY <1>16 DEF Edits
    <3>3. edit.landing \in Nat \cup {NotSaid}
      BY <3>2
    <3>4. edit.own = a.own \/ edit.own = ~a.own
      BY <1>16 DEF Edits
    <3>5. edit.own \in BOOLEAN
      BY <3>1, <3>4, Zenon
    <3> QED BY <3>3, <3>5
  <2>2. edit.startsAt \in Nat
    <3>1. edit.startsAt \in Anchors \cup {a.startsAt}
      BY <1>16 DEF Edits
    <3>2. a.startsAt \in Anchors
      BY DEF Anchors
    <3> QED BY <1>22, <3>1, <3>2
  <2> QED BY <1>1, <1>2, <1>16, <2>1, <2>2, EditAreaStands
<1>17. ASSUME NEW r \in OtherRules, NEW place \in Places \cup {Unplaced}, RuleChange(r, place)
       PROVE  AllStandsThen(Nat) /\ ReceiptsAreLists(receipt')
  BY <1>1, <1>2, <1>17, RuleChangeStands
<1>18. ASSUME NEW range \in Ranges, NEW to \in Positions, RelocateRun(range, to)
       PROVE  AllStandsThen(Nat) /\ ReceiptsAreLists(receipt')
  BY <1>1, <1>2, <1>18, RelocateRunStands
<1>19. CASE UNCHANGED vars
  BY <1>1, <1>2, <1>19 DEF vars, AllStands, AllStandsThen
<1>20. CASE Next
  BY <1>5, <1>6, <1>7, <1>8, <1>9, <1>10, <1>11, <1>12, <1>13, <1>14, <1>15, <1>16, <1>17, <1>18, <1>20 DEF Next
<1> QED BY <1>19, <1>20

LEMMA TypeOfStands ==
  ASSUME IInv
  PROVE  TypeOK
<1>1. AllStands(Nat)
  BY DEF IInv
<1>2. Sound(room, Nat) /\ standing \in WhereIn(room.named \cup {Nowhere})
  BY <1>1 DEF AllStands, Stands
<1>3. standing \in WhereIn(IdsOf(room.areas) \cup {Nowhere})
  BY <1>2, IdsAreNats, WhereGrows
<1>4. \A b \in Books : {standing[b].area, standing[b].assigned} \subseteq IdsOf(room.areas) \cup {Nowhere}
  BY <1>3 DEF WhereIn, StandingIn
<1> QED BY <1>2, <1>4 DEF TypeOK, Sound

\* Whatever is done to the furniture, its areas have their pieces, what the ledger
\* and the rules name is still there, and no two planks of a piece have one number.
THEOREM SchemaIsKept == Spec => []TypeOK
<1>1. Init => IInv
  BY InitStands
<1>2. IInv /\ [Next]_vars => IInv'
  BY NextStands
<1>3. IInv => TypeOK
  BY TypeOfStands
<1> QED BY <1>1, <1>2, <1>3, PTL DEF Spec

\* In a straight room the layout counted out from the boundaries, the area a key falls
\* in and the area the rules answer are one plank for every book, whatever the room,
\* the books and their keys: at the end of the run no boundary reaches, the three
\* walks have stepped over the same planks.
THEOREM WalksAlwaysAgree == Spec => []WalksAgree
<1>1. Init => IInv
  BY InitStands
<1>2. IInv /\ [Next]_vars => IInv'
  BY NextStands
<1>3. IInv => WalksAgree
  BY WalksOfARoom DEF IInv, AllStands, Stands
<1> QED BY <1>1, <1>2, <1>3, PTL DEF Spec
=============================================================================
