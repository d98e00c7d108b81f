-------------------------- MODULE UnitsOfWorkProofs --------------------------
(***************************************************************************)
(* Proofs about AdvisoryLocks and UnitsOfWork.                             *)
(*                                                                         *)
(* The first part is about any set of transactions, any number of lock     *)
(* names, any calls and any depth of nesting.  LockInv holds whether or    *)
(* not work may outlive the failure of an inner `tx`; it gives mutual      *)
(* exclusion.  OrderInv holds when it may not: then the belief `held` is   *)
(* exact, every call goes up the lock order, and no circle of waiting      *)
(* transactions can close.                                                 *)
(*                                                                         *)
(* The second part is about any number of handlers at work.  They use      *)
(* transactions as AdvisoryLocks describes them, so what is proved there   *)
(* holds of them.  RoomInv adds what their locks protect: nobody changes   *)
(* the room without the furniture, so whoever takes the plank off, owning  *)
(* the furniture and every run the plank stands in, owns all of them until *)
(* the commit.  PlanInv says what a handler has still to ask for beside    *)
(* what it holds: that order is what LOCK_ORDER is about.                  *)
(***************************************************************************)
EXTENDS UnitsOfWork, TLAPS, FiniteSetTheorems

-----------------------------------------------------------------------------
(* The inductive invariants *)

\* A transaction has levels exactly while it is open, and only then locks.
Open(t) ==
  /\ pc[t] = "idle" => depth[t] = 0 /\ took[t] = Nothing /\ asked[t] = Nothing
  /\ pc[t] # "idle" => depth[t] >= 1
  /\ pc[t] = "begin" => depth[t] = 1

\* No lock is taken, and no name asked for, at a level that is not open; what
\* a level serialises on was taken at that level or further out.
Guarded(t, n) ==
  /\ took[t][n] <= depth[t] /\ asked[t][n] <= depth[t]
  /\ asked[t][n] > 0 => took[t][n] > 0 /\ took[t][n] <= asked[t][n]

\* The names of a call that are no longer wanted have been taken.
Called(t, n) ==
  pc[t] \in Locking /\ n \in calling[t] /\ n \notin wanted[t] => took[t][n] > 0

\* An advisory lock has one owner.
Exclusive == \A t, u \in Txs : t # u => Owned(t) \cap Owned(u) = {}

LockInv ==
  /\ TypeOK
  /\ \A t \in Txs : Open(t)
  /\ \A t \in Txs, n \in Names : Guarded(t, n) /\ Called(t, n)
  /\ Exclusive

LEMMA InitLockInv == Init => LockInv
  BY NamesAssumption DEF Init, LockInv, TypeOK, Open, Guarded, Called, Exclusive, Owned,
     Nothing, Levels, PCs, Locking

-----------------------------------------------------------------------------
(* Every step preserves LockInv *)

LEMMA BeginKeepsLockInv ==
  ASSUME LockInv, NEW s \in Txs, NEW names \in Calls, Begin(s, names)
  PROVE  LockInv'
<1> USE DEF Locking, PCs
<1>1. TypeOK'
  BY NamesAssumption DEF LockInv, TypeOK, Begin, Call
<1>2. \A t \in Txs : Open(t)'
  BY DEF LockInv, TypeOK, Begin, Call, Open
<1>3. \A t \in Txs, n \in Names : Guarded(t, n)'
  BY DEF LockInv, TypeOK, Begin, Call, Open, Guarded, Nothing, Levels
<1>4. \A t \in Txs, n \in Names : Called(t, n)'
  BY DEF LockInv, TypeOK, Begin, Call, Called
<1>5. Exclusive'
  BY DEF LockInv, Begin, Exclusive, Owned
<1> QED BY <1>1, <1>2, <1>3, <1>4, <1>5 DEF LockInv

LEMMA CallKeepsLockInv ==
  ASSUME LockInv, NEW s \in Txs, NEW names \in SUBSET Names, NEW how \in {"nest", "take"},
         pc[s] = "work", Call(s, names, how), UNCHANGED <<depth, took, asked, held>>
  PROVE  LockInv'
<1> USE DEF Locking, PCs
<1>1. TypeOK'
  BY DEF LockInv, TypeOK, Call
<1>2. \A t \in Txs : Open(t)'
  BY DEF LockInv, TypeOK, Call, Open
<1>3. \A t \in Txs, n \in Names : Guarded(t, n)'
  BY DEF LockInv, Guarded
<1>4. \A t \in Txs, n \in Names : Called(t, n)'
  BY DEF LockInv, TypeOK, Call, Called
<1>5. Exclusive'
  BY DEF LockInv, Exclusive, Owned
<1> QED BY <1>1, <1>2, <1>3, <1>4, <1>5 DEF LockInv

\* Refused, or a statement failed: the transaction is still open.
LEMMA FailKeepsLockInv ==
  ASSUME LockInv, NEW s \in Txs, pc[s] # "idle",
         pc' = [pc EXCEPT ![s] = "failing"], wanted' \in [Txs -> SUBSET Names],
         \A t \in Txs \ {s} : wanted'[t] = wanted[t] /\ calling'[t] = calling[t],
         calling' \in [Txs -> SUBSET Names], UNCHANGED <<depth, took, asked, held>>
  PROVE  LockInv'
<1> USE DEF Locking, PCs
<1>1. TypeOK'
  BY DEF LockInv, TypeOK
<1>2. \A t \in Txs : Open(t)'
  BY DEF LockInv, TypeOK, Open
<1>3. \A t \in Txs, n \in Names : Guarded(t, n)'
  BY DEF LockInv, Guarded
<1>4. \A t \in Txs, n \in Names : Called(t, n)'
  BY DEF LockInv, TypeOK, Called
<1>5. Exclusive'
  BY DEF LockInv, Exclusive, Owned
<1> QED BY <1>1, <1>2, <1>3, <1>4, <1>5 DEF LockInv

LEMMA TakeKeepsLockInv ==
  ASSUME LockInv, NEW s \in Txs, NEW n \in Names, Take(s, n)
  PROVE  LockInv'
<1> USE DEF Locking, PCs
<1> DEFINE now == IF took[s][n] = 0 THEN depth[s] ELSE took[s][n]
           own == [took[s] EXCEPT ![n] = now]
<1>0. /\ took \in [Txs -> Levels] /\ took[s] \in [Names -> Nat]
      /\ depth[s] \in Nat /\ now \in Nat
      /\ took' = [took EXCEPT ![s] = own]
  <2>1. /\ took \in [Txs -> Levels] /\ took[s] \in [Names -> Nat]
        /\ depth[s] \in Nat
    BY DEF LockInv, TypeOK, Levels
  <2>2. now \in Nat
    BY <2>1
  <2>3. took' = [took EXCEPT ![s] = own]
    BY DEF Take, TookFirst
  <2> QED BY <2>1, <2>2, <2>3
<1>1. /\ took' \in [Txs -> Levels]
      /\ took'[s][n] = IF took[s][n] = 0 THEN depth[s] ELSE took[s][n]
      /\ \A t \in Txs, m \in Names : t # s \/ m # n => took'[t][m] = took[t][m]
  <2>1. /\ own \in Levels /\ own[n] = now
        /\ \A m \in Names : m # n => own[m] = took[s][m]
    BY <1>0 DEF Levels
  <2> HIDE DEF own
  <2> QED BY <1>0, <2>1
<1> HIDE DEF own, now
<1>2. /\ held' \in [Txs -> SUBSET Names] /\ wanted' \in [Txs -> SUBSET Names]
      /\ wanted'[s] = wanted[s] \ {n}
      /\ \A t \in Txs \ {s} : wanted'[t] = wanted[t]
  BY DEF LockInv, TypeOK, Take, NowHeld
<1>3. UNCHANGED <<pc, depth, asked, calling>>
  BY DEF Take
<1>4. TypeOK'
  BY <1>1, <1>2, <1>3 DEF LockInv, TypeOK
<1>5. pc[s] # "idle" /\ depth[s] >= 1 /\ depth[s] \in Nat
  BY DEF LockInv, TypeOK, Open, Take
<1>6. \A t \in Txs : Open(t)'
  <2> TAKE t \in Txs
  <2>1. CASE t = s
    BY <1>3, <1>5, <2>1 DEF LockInv, Open
  <2>2. CASE t # s
    <3>1. took'[t] = took[t]
      BY <2>2 DEF LockInv, TypeOK, Take, TookFirst
    <3> QED BY <1>3, <3>1 DEF LockInv, Open, Nothing
  <2> QED BY <2>1, <2>2
<1>7. \A t \in Txs, m \in Names : Guarded(t, m)'
  <2> TAKE t \in Txs, m \in Names
  <2>1. /\ took[t][m] \in Nat /\ asked[t][m] \in Nat /\ depth[t] \in Nat
        /\ Guarded(t, m)
    BY DEF LockInv, TypeOK, Levels
  <2> QED BY <1>1, <1>3, <1>5, <2>1 DEF Guarded
<1>8. \A t \in Txs, m \in Names : Called(t, m)'
  <2> TAKE t \in Txs, m \in Names
  <2>1. took[t][m] \in Nat /\ Called(t, m)
    BY DEF LockInv, TypeOK, Levels
  <2> QED BY <1>1, <1>2, <1>3, <1>5, <2>1 DEF Called
<1>9. Exclusive'
  <2> SUFFICES ASSUME NEW t \in Txs, NEW u \in Txs, t # u, NEW m \in Names,
                      took'[t][m] > 0, took'[u][m] > 0
               PROVE  FALSE
    BY DEF Exclusive, Owned
  <2>1. took[t][m] = 0 \/ took[u][m] = 0
    BY DEF LockInv, TypeOK, Levels, Exclusive, Owned
  <2>2. m = n /\ (t = s \/ u = s)
    BY <1>1, <2>1
  <2>3. \A v \in Txs \ {s} : ~(took[v][n] > 0)
    BY DEF Take, Free, Owned
  <2> QED BY <1>1, <2>2, <2>3
<1> QED BY <1>4, <1>6, <1>7, <1>8, <1>9 DEF LockInv

LEMMA LockedKeepsLockInv ==
  ASSUME LockInv, NEW s \in Txs, Locked(s)
  PROVE  LockInv'
<1> USE DEF Locking, PCs
<1> DEFINE level == IF pc[s] = "nest" THEN depth[s] + 1 ELSE depth[s]
<1>1. /\ pc[s] \in Locking /\ wanted[s] = {}
      /\ pc' = [pc EXCEPT ![s] = "work"]
      /\ depth' = [depth EXCEPT ![s] = level]
      /\ calling' = [calling EXCEPT ![s] = {}]
      /\ UNCHANGED <<took, held, wanted>>
  BY DEF Locked
<1>2. depth[s] \in Nat /\ depth[s] >= 1 /\ level \in Nat /\ level >= depth[s]
  BY <1>1 DEF LockInv, TypeOK, Open
<1>3. /\ asked' \in [Txs -> Levels]
      /\ \A n \in Names : asked'[s][n] =
           IF n \in calling[s] /\ asked[s][n] = 0 THEN level ELSE asked[s][n]
      /\ \A t \in Txs \ {s} : asked'[t] = asked[t]
  BY <1>2 DEF LockInv, TypeOK, Levels, Locked
<1> HIDE DEF level
<1>4. TypeOK'
  BY <1>1, <1>2, <1>3 DEF LockInv, TypeOK
<1>5. \A t \in Txs : Open(t)'
  BY <1>1, <1>2, <1>3 DEF LockInv, TypeOK, Open, Nothing
<1>6. \A t \in Txs, n \in Names : Guarded(t, n)'
  <2> TAKE t \in Txs, n \in Names
  <2>1. /\ took[t][n] \in Nat /\ asked[t][n] \in Nat /\ depth[t] \in Nat
        /\ Guarded(t, n)
    BY DEF LockInv, TypeOK, Levels
  <2>2. CASE t # s
    BY <1>1, <1>3, <2>1, <2>2 DEF LockInv, TypeOK, Guarded
  <2>3. CASE t = s
    <3>1. n \in calling[s] => took[s][n] > 0
      BY <1>1 DEF LockInv, Called
    <3>2. depth'[s] = level /\ took' = took
      BY <1>1 DEF LockInv, TypeOK
    <3> QED BY <1>2, <1>3, <2>1, <2>3, <3>1, <3>2 DEF Guarded
  <2> QED BY <2>2, <2>3
<1>7. \A t \in Txs, n \in Names : Called(t, n)'
  BY <1>1 DEF LockInv, TypeOK, Called
<1>8. Exclusive'
  BY <1>1 DEF LockInv, Exclusive, Owned
<1> QED BY <1>4, <1>5, <1>6, <1>7, <1>8 DEF LockInv

LEMMA EndedKeepsLockInv ==
  ASSUME LockInv, NEW s \in Txs, Ended(s)
  PROVE  LockInv'
<1> USE DEF Locking, PCs
<1>1. Nothing \in Levels
  BY DEF Nothing, Levels
<1>2. TypeOK'
  BY <1>1 DEF LockInv, TypeOK, Ended
<1>3. \A t \in Txs : Open(t)'
  BY DEF LockInv, TypeOK, Ended, Open, Nothing
<1>4. \A t \in Txs, n \in Names : Guarded(t, n)'
  BY DEF LockInv, TypeOK, Ended, Guarded, Nothing
<1>5. \A t \in Txs, n \in Names : Called(t, n)'
  BY DEF LockInv, TypeOK, Ended, Called
<1>6. Exclusive'
  <2>1. \A t \in Txs : took'[t] = took[t] \/ took'[t] = Nothing
    BY DEF LockInv, TypeOK, Ended
  <2>2. \A t \in Txs, n \in Names : took'[t][n] > 0 => took[t][n] > 0
    BY <2>1 DEF Nothing
  <2> QED BY <2>2 DEF LockInv, Exclusive, Owned
<1> QED BY <1>2, <1>3, <1>4, <1>5, <1>6 DEF LockInv

\* What the level that ends had goes to the level below, or is given up.
LEMMA LevelEndsKeepsLockInv ==
  ASSUME LockInv, NEW s \in Txs, NEW level \in {0, depth[s] - 1}, NEW next \in {"work", "failing"},
         depth[s] > 1, pc' = [pc EXCEPT ![s] = next],
         depth' = [depth EXCEPT ![s] = @ - 1],
         took' = MovedTo(took, s, level), asked' = MovedTo(asked, s, level),
         UNCHANGED <<held, wanted, calling>>
  PROVE  LockInv'
<1> USE DEF Locking, PCs
<1>1. depth[s] \in Nat /\ level \in Nat /\ depth'[s] = depth[s] - 1
      /\ \A t \in Txs \ {s} : depth'[t] = depth[t]
  BY DEF LockInv, TypeOK
<1>2. /\ took' \in [Txs -> Levels] /\ asked' \in [Txs -> Levels]
      /\ \A n \in Names :
           /\ took'[s][n] = IF took[s][n] = depth[s] THEN level ELSE took[s][n]
           /\ asked'[s][n] = IF asked[s][n] = depth[s] THEN level ELSE asked[s][n]
      /\ \A t \in Txs \ {s} : took'[t] = took[t] /\ asked'[t] = asked[t]
  BY <1>1 DEF LockInv, TypeOK, Levels, MovedTo
<1>3. TypeOK'
  <2>1. pc' \in [Txs -> PCs] /\ depth' \in [Txs -> Nat]
    BY DEF LockInv, TypeOK
  <2> QED BY <1>2, <2>1 DEF LockInv, TypeOK
<1>4. \A t \in Txs : Open(t)'
  BY <1>1, <1>2 DEF LockInv, TypeOK, Open, Nothing
<1>5. \A t \in Txs, n \in Names : Guarded(t, n)'
  <2> TAKE t \in Txs, n \in Names
  <2>1. /\ took[t][n] \in Nat /\ asked[t][n] \in Nat /\ depth[t] \in Nat
        /\ Guarded(t, n)
    BY DEF LockInv, TypeOK, Levels
  <2>2. CASE t # s
    BY <1>1, <1>2, <2>1, <2>2 DEF Guarded
  <2>3. CASE t = s
    BY <1>1, <1>2, <2>1, <2>3 DEF Guarded
  <2> QED BY <2>2, <2>3
<1>6. \A t \in Txs, n \in Names : Called(t, n)'
  BY <1>2 DEF LockInv, TypeOK, Called
<1>7. Exclusive'
  <2>1. \A t \in Txs, n \in Names : took'[t][n] > 0 => took[t][n] > 0
    BY <1>1, <1>2
  <2> QED BY <2>1 DEF LockInv, Exclusive, Owned
<1> QED BY <1>3, <1>4, <1>5, <1>6, <1>7 DEF LockInv

LEMMA NextKeepsLockInv == LockInv /\ [Next]_vars => LockInv'
<1> SUFFICES ASSUME LockInv, [Next]_vars PROVE LockInv'
  OBVIOUS
<1>1. ASSUME NEW s \in Txs, NEW names \in Calls, Begin(s, names)
      PROVE  LockInv'
  BY <1>1, BeginKeepsLockInv
<1>2. ASSUME NEW s \in Txs, NEW names \in Calls, Nest(s, names)
      PROVE  LockInv'
  BY <1>2, NamesAssumption, CallKeepsLockInv DEF Nest
<1>3. ASSUME NEW s \in Txs, NEW n \in Names, SerialiseOn(s, n)
      PROVE  LockInv'
  BY <1>3, CallKeepsLockInv DEF SerialiseOn
<1>4. ASSUME NEW s \in Txs, NEW names \in Calls, Refuse(s, names)
      PROVE  LockInv'
  <2>1. wanted' \in [Txs -> SUBSET Names] /\ calling' \in [Txs -> SUBSET Names]
    BY <1>4 DEF Refuse, LockInv, TypeOK
  <2> QED BY <1>4, <2>1, FailKeepsLockInv DEF Refuse
<1>5. ASSUME NEW s \in Txs, NEW n \in Names, Take(s, n)
      PROVE  LockInv'
  BY <1>5, TakeKeepsLockInv
<1>6. ASSUME NEW s \in Txs, Locked(s)
      PROVE  LockInv'
  BY <1>6, LockedKeepsLockInv
<1>7. ASSUME NEW s \in Txs, Commit(s) \/ Rollback(s)
      PROVE  LockInv'
  BY <1>7, EndedKeepsLockInv DEF Commit, Rollback
<1>8. ASSUME NEW s \in Txs, Release(s)
      PROVE  LockInv'
  <2>1. pc' = [pc EXCEPT ![s] = "work"]
    BY <1>8 DEF Release, LockInv, TypeOK
  <2> QED BY <1>8, <2>1, LevelEndsKeepsLockInv DEF Release
<1>9. ASSUME NEW s \in Txs, RollbackTo(s)
      PROVE  LockInv'
  <2>1. PICK next \in {"work", "failing"} : pc' = [pc EXCEPT ![s] = next]
    BY <1>9 DEF RollbackTo
  <2> QED BY <1>9, <2>1, LevelEndsKeepsLockInv DEF RollbackTo
<1>10. ASSUME NEW s \in Txs, StatementFails(s)
       PROVE  LockInv'
  <2>1. /\ wanted' \in [Txs -> SUBSET Names] /\ calling' \in [Txs -> SUBSET Names]
        /\ \A t \in Txs \ {s} : wanted'[t] = wanted[t] /\ calling'[t] = calling[t]
    BY <1>10 DEF StatementFails, LockInv, TypeOK
  <2> QED BY <1>10, <2>1, FailKeepsLockInv DEF StatementFails, Locking
<1>11. CASE UNCHANGED vars
  BY <1>11 DEF vars, LockInv, TypeOK, Open, Guarded, Called, Exclusive, Owned
<1> QED
  BY <1>1, <1>2, <1>3, <1>4, <1>5, <1>6, <1>7, <1>8, <1>9, <1>10, <1>11
  DEF Next, Step

LEMMA LockInvAlways == Spec => []LockInv
  BY InitLockInv, NextKeepsLockInv, PTL DEF Spec

\* PgDb keeps every connection's levels, locks and pending calls well formed.
THEOREM TypeCorrect == Spec => []TypeOK
<1>1. LockInv => TypeOK
  BY DEF LockInv
<1> QED BY <1>1, LockInvAlways, PTL

\* TxOptions.serialiseOn: two pieces of work that serialise on one name are
\* never open at once, even when savepoints around them have been rolled back
\* and the work went on.
THEOREM MutualExclusion == Spec => []Serialised
<1>1. LockInv => Serialised
  BY DEF LockInv, TypeOK, Levels, Guarded, Exclusive, Owned, Serialised, SerialisedOn
<1> QED BY <1>1, LockInvAlways, PTL

-----------------------------------------------------------------------------
(* When no work outlives the failure of an inner `tx` *)

\* Every lock it owns is one it believes to hold, and may be asked for again.
Known(t, n) == took[t][n] > 0 => n \in held[t]

\* A name still wanted is owned already or comes after every name owned.
Ordered(t, n) ==
  pc[t] \in Locking /\ n \in wanted[t] =>
    took[t][n] > 0 \/ \A m \in Owned(t) : m < n

OrderInv ==
  /\ LockInv
  /\ HeldIsHeld
  /\ \A t \in Txs, n \in Names : Known(t, n) /\ Ordered(t, n)

LEMMA InitOrderInv == Init => OrderInv
  BY InitLockInv DEF Init, OrderInv, HeldIsHeld, Known, Ordered, Nothing, Locking

\* A call that is not refused, and the first call of a transaction.
LEMMA CallKeepsOrder ==
  ASSUME OrderInv, LockInv', NEW s \in Txs, NEW names \in SUBSET Names,
         NEW how \in Locking, Call(s, names, how), UNCHANGED <<took, asked>>,
         \/ pc[s] = "work" /\ ~OutOfOrder(s, names) /\ UNCHANGED <<held, depth>>
         \/ pc[s] = "idle" /\ held' = [held EXCEPT ![s] = {}]
  PROVE  OrderInv'
<1>0. Names \subseteq Nat
  BY NamesAssumption DEF Names
<1>1. /\ \A t \in Txs \ {s} : pc'[t] = pc[t] /\ wanted'[t] = wanted[t] /\ held'[t] = held[t]
      /\ wanted'[s] = names /\ pc'[s] = how
  BY DEF Call, OrderInv, LockInv, TypeOK
<1>2. HeldIsHeld'
  BY <1>1 DEF OrderInv, LockInv, TypeOK, HeldIsHeld, Owned, Locking
<1>3. \A t \in Txs, n \in Names : Known(t, n)'
  BY <1>1 DEF OrderInv, LockInv, TypeOK, Known, Open, Nothing
<1>4. \A t \in Txs, n \in Names : Ordered(t, n)'
  <2> TAKE t \in Txs, n \in Names
  <2>1. CASE t # s
    BY <1>1, <2>1 DEF OrderInv, Ordered, Owned
  <2>2. CASE t = s /\ pc[s] = "idle"
    BY <2>2 DEF OrderInv, LockInv, Open, Nothing, Ordered, Owned
  <2>3. CASE t = s /\ pc[s] = "work"
    <3>1. held[s] \subseteq Owned(s) /\ held[s] \subseteq Names
      BY <2>3 DEF OrderInv, HeldIsHeld, LockInv, TypeOK
    <3>2. \A m \in Owned(s) : m \in held[s]
      BY DEF OrderInv, Known, Owned
    <3>3. \A k \in names \ held[s] : \A m \in held[s] : ~(k < m)
      BY <2>3 DEF OutOfOrder
    <3>4. \A k \in names \ held[s] : \A m \in Owned(s) : m < k
      BY <1>0, <3>1, <3>2, <3>3 DEF Owned
    <3>5. n \in held[s] => took[s][n] > 0
      BY <3>1 DEF Owned
    <3> QED BY <1>1, <2>3, <3>4, <3>5 DEF Ordered, Owned
  <2> QED BY <2>1, <2>2, <2>3
<1> QED BY <1>2, <1>3, <1>4 DEF OrderInv

\* Refused, failed, or the end of a savepoint that did: no more calls.
LEMMA FailKeepsOrder ==
  ASSUME OrderInv, LockInv', NEW s \in Txs, pc' = [pc EXCEPT ![s] = "failing"],
         \A t \in Txs, n \in Names : took'[t][n] > 0 => took[t][n] > 0,
         \A t \in Txs \ {s} : took'[t] = took[t] /\ wanted'[t] = wanted[t],
         UNCHANGED held
  PROVE  OrderInv'
<1>1. /\ \A t \in Txs \ {s} : pc'[t] = pc[t]
      /\ pc'[s] = "failing"
  BY DEF OrderInv, LockInv, TypeOK
<1>2. HeldIsHeld'
  BY <1>1 DEF OrderInv, HeldIsHeld, Owned
<1>3. \A t \in Txs, n \in Names : Known(t, n)'
  BY DEF OrderInv, Known
<1>4. \A t \in Txs, n \in Names : Ordered(t, n)'
  BY <1>1 DEF OrderInv, Ordered, Owned, Locking
<1> QED BY <1>2, <1>3, <1>4 DEF OrderInv

LEMMA TakeKeepsOrder ==
  ASSUME OrderInv, LockInv', NEW s \in Txs, NEW n \in Names, Take(s, n)
  PROVE  OrderInv'
<1>0. Names \subseteq Nat
  BY NamesAssumption DEF Names
<1>1. /\ depth[s] >= 1
      /\ took[s] \in [Names -> Nat]
      /\ \A t \in Txs \ {s} : took'[t] = took[t] /\ wanted'[t] = wanted[t] /\ held'[t] = held[t]
      /\ held'[s] = held[s] \cup {n} /\ wanted'[s] = wanted[s] \ {n}
      /\ \A m \in Names \ {n} : took'[s][m] = took[s][m]
      /\ UNCHANGED pc
  BY DEF OrderInv, LockInv, TypeOK, Levels, Open, Take, TookFirst, NowHeld, Locking
<1>2. took'[s][n] > 0
  BY <1>1 DEF OrderInv, LockInv, TypeOK, Levels, Take, TookFirst
<1>3. HeldIsHeld'
  BY <1>1, <1>2 DEF OrderInv, LockInv, TypeOK, HeldIsHeld, Owned
<1>4. \A t \in Txs, m \in Names : Known(t, m)'
  BY <1>1 DEF OrderInv, Known
<1>5. \A t \in Txs, m \in Names : Ordered(t, m)'
  <2> TAKE t \in Txs, m \in Names
  <2>1. CASE t # s
    BY <1>1, <2>1 DEF OrderInv, Ordered, Owned
  <2>2. CASE t = s /\ m \in wanted'[s]
    <3>1. m \in wanted[s] /\ m # n /\ n <= m
      BY <1>1, <2>2 DEF Take, FirstWanted
    <3>2. n < m
      BY <1>0, <3>1
    <3>3. pc[s] \in Locking
      BY DEF Take
    <3>4. took[s][m] > 0 \/ \A k \in Owned(s) : k < m
      BY <3>1, <3>3 DEF OrderInv, Ordered
    <3> QED BY <1>1, <2>2, <3>1, <3>2, <3>4 DEF Ordered, Owned
  <2> QED BY <2>1, <2>2 DEF Ordered
<1> QED BY <1>3, <1>4, <1>5 DEF OrderInv

LEMMA LockedKeepsOrder ==
  ASSUME OrderInv, LockInv', NEW s \in Txs, Locked(s)
  PROVE  OrderInv'
<1>1. /\ pc' = [pc EXCEPT ![s] = "work"] /\ pc[s] \in Locking
      /\ UNCHANGED <<took, held, wanted>>
  BY DEF Locked
<1>2. HeldIsHeld'
  BY <1>1 DEF OrderInv, LockInv, TypeOK, HeldIsHeld, Owned, Locking
<1>3. \A t \in Txs, n \in Names : Known(t, n)' /\ Ordered(t, n)'
  BY <1>1 DEF OrderInv, LockInv, TypeOK, Known, Ordered, Owned, Locking
<1> QED BY <1>2, <1>3 DEF OrderInv

LEMMA EndedKeepsOrder ==
  ASSUME OrderInv, LockInv', NEW s \in Txs, Ended(s)
  PROVE  OrderInv'
<1>1. /\ \A t \in Txs \ {s} : /\ pc'[t] = pc[t] /\ took'[t] = took[t]
                              /\ wanted'[t] = wanted[t] /\ held'[t] = held[t]
      /\ pc'[s] = "idle" /\ took'[s] = Nothing
  BY DEF OrderInv, LockInv, TypeOK, Ended
<1>2. HeldIsHeld'
  BY <1>1 DEF OrderInv, HeldIsHeld, Owned
<1>3. \A t \in Txs, n \in Names : Known(t, n)' /\ Ordered(t, n)'
  BY <1>1 DEF OrderInv, Known, Ordered, Owned, Locking, Nothing
<1> QED BY <1>2, <1>3 DEF OrderInv

\* A savepoint released keeps every lock, one level further out.
LEMMA ReleaseKeepsOrder ==
  ASSUME OrderInv, LockInv', NEW s \in Txs, Release(s)
  PROVE  OrderInv'
<1>1. \A t \in Txs, n \in Names : took'[t][n] > 0 <=> took[t][n] > 0
  BY DEF OrderInv, LockInv, TypeOK, Levels, Release, MovedTo
<1>2. UNCHANGED <<pc, held, wanted>>
  BY DEF Release
<1>3. HeldIsHeld'
  BY <1>1, <1>2 DEF OrderInv, HeldIsHeld, Owned
<1>4. \A t \in Txs, n \in Names : Known(t, n)' /\ Ordered(t, n)'
  BY <1>1, <1>2 DEF OrderInv, Known, Ordered, Owned
<1> QED BY <1>3, <1>4 DEF OrderInv

LEMMA NextKeepsOrderInv ==
  ASSUME Catches = FALSE
  PROVE  OrderInv /\ [Next]_vars => OrderInv'
<1> SUFFICES ASSUME OrderInv, [Next]_vars PROVE OrderInv'
  OBVIOUS
<1>0. LockInv'
  BY NextKeepsLockInv DEF OrderInv
<1>1. ASSUME NEW s \in Txs, NEW names \in Calls, Begin(s, names)
      PROVE  OrderInv'
  BY <1>0, <1>1, NamesAssumption, CallKeepsOrder DEF Begin, Locking
<1>2. ASSUME NEW s \in Txs, NEW names \in Calls, Nest(s, names)
      PROVE  OrderInv'
  BY <1>0, <1>2, NamesAssumption, CallKeepsOrder DEF Nest, Locking
<1>3. ASSUME NEW s \in Txs, NEW n \in Names, SerialiseOn(s, n)
      PROVE  OrderInv'
  BY <1>0, <1>3, CallKeepsOrder DEF SerialiseOn, Locking
<1>4. ASSUME NEW s \in Txs, NEW names \in Calls, Refuse(s, names)
      PROVE  OrderInv'
  BY <1>0, <1>4, FailKeepsOrder DEF Refuse
<1>5. ASSUME NEW s \in Txs, NEW n \in Names, Take(s, n)
      PROVE  OrderInv'
  BY <1>0, <1>5, TakeKeepsOrder
<1>6. ASSUME NEW s \in Txs, Locked(s)
      PROVE  OrderInv'
  BY <1>0, <1>6, LockedKeepsOrder
<1>7. ASSUME NEW s \in Txs, Commit(s) \/ Rollback(s)
      PROVE  OrderInv'
  BY <1>0, <1>7, EndedKeepsOrder DEF Commit, Rollback
<1>8. ASSUME NEW s \in Txs, Release(s)
      PROVE  OrderInv'
  BY <1>0, <1>8, ReleaseKeepsOrder
<1>9. ASSUME NEW s \in Txs, RollbackTo(s)
      PROVE  OrderInv'
  <2>1. pc' = [pc EXCEPT ![s] = "failing"]
    BY <1>9 DEF RollbackTo
  <2>2. /\ \A n \in Names : took'[s][n] > 0 => took[s][n] > 0
        /\ \A t \in Txs \ {s} : took'[t] = took[t]
    BY <1>9 DEF OrderInv, LockInv, TypeOK, Levels, RollbackTo, MovedTo
  <2>3. UNCHANGED <<held, wanted>>
    BY <1>9 DEF RollbackTo
  <2>4. \A t \in Txs, n \in Names : took'[t][n] > 0 => took[t][n] > 0
    BY <2>2
  <2>5. \A t \in Txs \ {s} : took'[t] = took[t] /\ wanted'[t] = wanted[t]
    BY <2>2, <2>3
  <2> QED BY <1>0, <2>1, <2>3, <2>4, <2>5, FailKeepsOrder
<1>10. ASSUME NEW s \in Txs, StatementFails(s)
       PROVE  OrderInv'
  <2>1. \A t \in Txs \ {s} : wanted'[t] = wanted[t]
    BY <1>10 DEF StatementFails, OrderInv, LockInv, TypeOK
  <2> QED BY <1>0, <1>10, <2>1, FailKeepsOrder DEF StatementFails
<1>11. CASE UNCHANGED vars
  BY <1>0, <1>11 DEF vars, OrderInv, HeldIsHeld, Known, Ordered, Owned
<1> QED
  BY <1>1, <1>2, <1>3, <1>4, <1>5, <1>6, <1>7, <1>8, <1>9, <1>10, <1>11
  DEF Next, Step

-----------------------------------------------------------------------------
(* The order leaves no circle of waiting transactions *)

\* The largest of some lock names: the one with the fewest above it.
LEMMA LargestName ==
  ASSUME NEW W, W \subseteq Names, W # {}
  PROVE  \E n \in W : \A m \in W : m <= n
<1> DEFINE above(n) == {m \in W : n < m}
           T == {above(n) : n \in W}
           R == StrictSubsetOrdering(Names)
<1>1. IsFiniteSet(Names) /\ Names \subseteq Nat
  BY NamesAssumption, FS_Interval DEF Names
<1>2. \A V \in SUBSET Names : V \in FiniteSubsetsOf(Names)
  BY <1>1, FS_Subset DEF FiniteSubsetsOf
<1>3. T \subseteq FiniteSubsetsOf(Names) /\ T # {}
  BY <1>2
<1>4. PICK x \in T : \A y \in T : ~(<<y, x>> \in R)
  <2>1. IsWellFoundedOn(R, FiniteSubsetsOf(Names))
    BY FS_StrictSubsetOrderingWellFounded
  <2> HIDE DEF T, R
  <2> QED BY <1>3, <2>1, WFMin
<1>5. PICK n \in W : x = above(n)
  OBVIOUS
<1>6. ASSUME NEW m \in W, n < m
      PROVE  FALSE
  <2>0. W \subseteq Nat /\ n \in Nat /\ m \in Nat
    BY <1>1
  <2>1. above(m) \subseteq above(n) /\ m \in above(n) /\ m \notin above(m)
    <3>1. \A k \in W : m < k => n < k
      BY <1>6, <2>0
    <3>2. ~(m < m)
      BY <2>0
    <3> QED BY <1>6, <3>1, <3>2
  <2>2. above(m) \in SUBSET Names /\ above(n) \in SUBSET Names
    OBVIOUS
  <2>3. <<above(m), above(n)>> \in R
    BY <2>1, <2>2 DEF StrictSubsetOrdering
  <2> QED BY <1>4, <1>5, <2>3
<1> QED BY <1>1, <1>6

\* Whoever waits for the last name waited for leaves its owner waiting for
\* none: a name its owner waited for would have to come later still.
LEMMA OrderedNeverDeadlocks == OrderInv => NoDeadlock
<1> SUFFICES ASSUME OrderInv, NEW stuck \in SUBSET Txs, stuck # {},
                    \A t \in stuck : \E n \in Names :
                      Waiting(t, n) /\ \E u \in stuck \ {t} : n \in Owned(u)
             PROVE  FALSE
  BY DEF NoDeadlock
<1> DEFINE W == {n \in Names : \E t \in stuck : Waiting(t, n) /\ \E u \in stuck \ {t} : n \in Owned(u)}
<1>1. W \subseteq Names /\ W # {}
  OBVIOUS
<1>2. PICK n \in W : \A m \in W : m <= n
  BY <1>1, LargestName
<1>3. PICK u \in stuck : n \in Owned(u)
  OBVIOUS
<1>4. PICK m \in Names : Waiting(u, m) /\ \E v \in stuck \ {u} : m \in Owned(v)
  OBVIOUS
<1>5. m \in W
  BY <1>4
<1>6. ~(took[u][m] > 0)
  BY <1>4 DEF OrderInv, LockInv, Exclusive, Owned
<1>7. n < m
  BY <1>3, <1>4, <1>6 DEF OrderInv, Ordered, Waiting, FirstWanted
<1> HIDE DEF W
<1> QED BY <1>1, <1>2, <1>5, <1>7, NamesAssumption DEF Names

\* inLockOrder and outOfOrder: while a failure of an inner `tx` is never
\* outlived, no set of transactions waits on itself for lock names.
THEOREM TransactionsNeverDeadlock ==
  ASSUME Catches = FALSE
  PROVE  Spec => []NoDeadlock
<1>1. OrderInv /\ [Next]_vars => OrderInv'
  BY NextKeepsOrderInv
<1> QED BY <1>1, InitOrderInv, OrderedNeverDeadlocks, PTL DEF Spec

\* TxContext.held is exact under the same condition: a name is believed to be
\* held only by a transaction that owns its lock.
THEOREM HeldIsExact ==
  ASSUME Catches = FALSE
  PROVE  Spec => []HeldIsHeld
<1>1. OrderInv /\ [Next]_vars => OrderInv'
  BY NextKeepsOrderInv
<1>2. OrderInv => HeldIsHeld
  BY DEF OrderInv
<1> QED BY <1>1, <1>2, InitOrderInv, PTL DEF Spec

-----------------------------------------------------------------------------
(* What the handlers ask for *)

LEMMA NamesOfTheModel ==
  /\ Names = 1 .. 5 /\ Ranges \subseteq Names /\ Furniture \in Names
  /\ Calls = SUBSET Names /\ Catches = FALSE
BY UnitsAssumption DEF Names, Ranges, Fiction, NonFiction, Furniture

LEMMA RoomsAreRanges == \A room \in Rooms : room \subseteq Ranges
BY DEF Rooms

LEMMA UpToThreeCalls ==
  ASSUME NEW a \in Asking, NEW b \in Asking, NEW c \in Asking
  PROVE  /\ <<a>> \in Seq(Asking) /\ <<a>> # <<>>
         /\ <<a, b>> \in Seq(Asking) /\ <<a, b>> # <<>>
         /\ <<a, b, c>> \in Seq(Asking) /\ <<a, b, c>> # <<>>
OBVIOUS

LEMMA UnitsAreCalls == \A unit \in Units : unit \in Seq(Asking) /\ unit # <<>>
<1>1. \A names \in SUBSET Names : InTx(names) \in Asking
  BY DEF InTx, Asking
<1>2. \A n \in Names : Also(n) \in Asking
  BY DEF Also, Asking
<1>3. Separator \in Asking /\ Drop \in Asking
  BY DEF Separator, Drop, Asking
<1>4. Isbn \in Names /\ Book \in Names /\ Furniture \in Names /\ Ranges \subseteq Names
  BY NamesOfTheModel DEF Isbn, Book
<1> HIDE DEF Asking, Names, Ranges, Isbn, Book, Furniture, InTx, Also, Separator, Drop
<1>5. \A range \in Ranges : BoundaryLocks(range) \in SUBSET Names
  BY <1>4 DEF BoundaryLocks
<1>6. ASSUME NEW unit \in Saves
      PROVE  unit \in Seq(Asking) /\ unit # <<>>
  <2>1. PICK first \in SUBSET {Isbn, Book}, range \in Ranges : unit = <<InTx(first), Also(range)>>
    BY DEF Saves
  <2>2. InTx(first) \in Asking /\ Also(range) \in Asking
    BY <1>1, <1>2, <1>4
  <2> QED BY <2>1, <2>2, UpToThreeCalls
<1>7. ASSUME NEW unit \in Revisions \cup Deletions
      PROVE  unit \in Seq(Asking) /\ unit # <<>>
  <2>1. PICK range \in Ranges :
          \/ unit = <<InTx({Book}), Also(range), Also(Furniture)>>
          \/ unit = <<InTx({Book}), Also(Furniture)>>
          \/ unit = <<InTx({Book}), InTx({range})>>
    BY DEF Revisions, Deletions, Ranges
  <2>2. /\ InTx({Book}) \in Asking /\ InTx({range}) \in Asking
        /\ Also(range) \in Asking /\ Also(Furniture) \in Asking
    BY <1>1, <1>2, <1>4
  <2> QED BY <2>1, <2>2, UpToThreeCalls
<1>8. ASSUME NEW unit \in Refilings \cup Rearrangements
      PROVE  unit \in Seq(Asking) /\ unit # <<>>
  <2>1. PICK names \in SUBSET Names : unit = <<InTx(names)>>
    BY <1>4, <1>5 DEF Refilings, Rearrangements
  <2> QED BY <1>1, <2>1, UpToThreeCalls
<1>9. ASSUME NEW unit \in Removals
      PROVE  unit \in Seq(Asking) /\ unit # <<>>
  <2>1. PICK range \in Ranges :
          \/ unit = <<Drop>> \/ unit = <<Separator, Drop>>
          \/ unit = <<InTx(BoundaryLocks(range)), Separator, Drop>>
    BY DEF Removals, Ranges
  <2>2. InTx(BoundaryLocks(range)) \in Asking
    BY <1>1, <1>5
  <2> QED BY <1>3, <2>1, <2>2, UpToThreeCalls
<1> QED BY <1>6, <1>7, <1>8, <1>9 DEF Units

-----------------------------------------------------------------------------
(* The handlers use transactions as AdvisoryLocks describes them *)

CallsOK ==
  /\ left \in [Txs -> Seq(Asking)] /\ changes \in [Txs -> BOOLEAN]
  /\ known \in [Txs -> SUBSET Ranges]
  /\ plank \in [Txs -> {"stays", "going", "gone"}]
  /\ standing \in Rooms

LEMMA InitCallsOK == UnitsInit => CallsOK
<1>1. <<>> \in Seq(Asking)
  OBVIOUS
<1> QED BY <1>1 DEF UnitsInit, CallsOK

LEMMA FoundRanges ==
  ASSUME CallsOK, NEW call \in Asking
  PROVE  Found(call) \subseteq Ranges
BY RoomsAreRanges DEF CallsOK, Found, RangeOf, Ranges, Asking

LEMMA MadeKeepsCallsOK ==
  ASSUME CallsOK, NEW s \in Txs, NEW call \in Asking, NEW rest \in Seq(Asking),
         Made(s, call, rest), changes' \in [Txs -> BOOLEAN]
  PROVE  CallsOK'
<1>1. Found(call) \in SUBSET Ranges
  BY FoundRanges
<1> QED BY <1>1 DEF CallsOK, Made

LEMMA NextKeepsCallsOK == CallsOK /\ [UnitsNext]_unitVars => CallsOK'
<1> SUFFICES ASSUME CallsOK, [UnitsNext]_unitVars PROVE CallsOK'
  OBVIOUS
<1>0. <<>> \in Seq(Asking)
  OBVIOUS
<1>1. ASSUME NEW t \in Txs, NEW unit \in Units, Start(t, unit)
      PROVE  CallsOK'
  <2>1. Head(unit) \in Asking /\ Tail(unit) \in Seq(Asking)
    BY UnitsAreCalls
  <2>2. changes' \in [Txs -> BOOLEAN]
    BY <1>1 DEF Start, CallsOK
  <2> QED BY <1>1, <2>1, <2>2, MadeKeepsCallsOK DEF Start
<1>2. ASSUME NEW t \in Txs, Ask(t)
      PROVE  CallsOK'
  <2>1. Head(left[t]) \in Asking /\ Tail(left[t]) \in Seq(Asking)
    BY <1>2 DEF Ask, CallsOK
  <2> QED BY <1>2, <2>1, MadeKeepsCallsOK DEF Ask, CallsOK
<1>3. ASSUME NEW t \in Txs, Refused(t) \/ Locks(t) \/ Close(t) \/ Throw(t)
      PROVE  CallsOK'
  BY <1>3 DEF Refused, Locks, Close, Throw, work, CallsOK
<1>4. ASSUME NEW t \in Txs, NoMore(t)
      PROVE  CallsOK'
  BY <1>0, <1>4 DEF NoMore, CallsOK
<1>5. ASSUME NEW t \in Txs, DropArea(t)
      PROVE  CallsOK'
  <2>1. PICK next \in {"gone", "stays"} : plank' = [plank EXCEPT ![t] = next]
    BY <1>5 DEF DropArea
  <2> QED BY <1>5, <2>1 DEF DropArea, CallsOK
<1>6. ASSUME NEW t \in Txs, Finish(t) \/ Undo(t)
      PROVE  CallsOK'
  <2>1. standing' \in Rooms
    BY <1>6 DEF Finish, Undo, CallsOK, Rooms
  <2> QED BY <1>0, <1>6, <2>1 DEF Finish, Undo, Forgotten, CallsOK
<1>7. CASE UNCHANGED unitVars
  BY <1>7 DEF unitVars, work, CallsOK
<1> QED BY <1>1, <1>2, <1>3, <1>4, <1>5, <1>6, <1>7 DEF UnitsNext, UnitStep

LEMMA CallsAlwaysOK == UnitsSpec => []CallsOK
BY InitCallsOK, NextKeepsCallsOK, PTL DEF UnitsSpec

LEMMA AskedNames ==
  ASSUME CallsOK, NEW call \in Asking
  PROVE  Asks(call) \in Calls
<1>1. BoundaryLocks(RangeOf) \subseteq Names
  BY NamesOfTheModel DEF BoundaryLocks, RangeOf, Ranges
<1>2. standing \cup {Furniture} \subseteq Names
  BY NamesOfTheModel, RoomsAreRanges DEF CallsOK
<1> QED BY <1>1, <1>2, NamesOfTheModel DEF Asks, Asking

\* Every step of a handler is a step of its transaction, or leaves it alone.
LEMMA UnitStepIsStep ==
  ASSUME CallsOK, NEW t \in Txs, UnitStep(t)
  PROVE  Step(t) \/ UNCHANGED vars
<1>1. ASSUME NEW unit \in Units, Start(t, unit)
      PROVE  Step(t)
  <2>1. Head(unit) \in Asking
    BY UnitsAreCalls
  <2> QED BY <1>1, <2>1, AskedNames DEF Start, Step
<1>2. CASE Ask(t)
  <2>1. Head(left[t]) \in Asking
    BY <1>2 DEF Ask, CallsOK
  <2>2. Asks(Head(left[t])) \in Calls
    BY <2>1, AskedNames
  <2>3. Head(left[t]).names \subseteq Names
    BY <2>1 DEF Asking
  <2> QED BY <1>2, <2>2, <2>3 DEF Ask, Step
<1>3. CASE Refused(t)
  <2>1. Head(left[t]) \in Asking
    BY <1>3 DEF Refused, CallsOK
  <2> QED BY <1>3, <2>1, AskedNames DEF Refused, Step
<1>4. CASE Locks(t) \/ Close(t) \/ Finish(t) \/ Throw(t) \/ Undo(t)
  BY <1>4 DEF Locks, Close, Finish, Throw, Undo, Step
<1>5. CASE NoMore(t) \/ DropArea(t)
  BY <1>5 DEF NoMore, DropArea
<1> QED BY <1>1, <1>2, <1>3, <1>4, <1>5 DEF UnitStep

LEMMA UnitsStepTransactions == CallsOK /\ [UnitsNext]_unitVars => [Next]_vars
BY UnitStepIsStep DEF UnitsNext, unitVars, Next

\* UnitOfWork over Db.tx: whatever the handlers do, their transactions behave
\* as those of AdvisoryLocks.
THEOREM UnitsUseTransactions == UnitsSpec => Spec
<1>1. UnitsInit => Init
  BY DEF UnitsInit
<1> QED BY <1>1, InitCallsOK, NextKeepsCallsOK, UnitsStepTransactions, PTL DEF UnitsSpec, Spec

\* The handlers keep what they have still to ask, and the room, well formed.
THEOREM UnitsTypeCorrect == UnitsSpec => []UnitsTypeOK
<1>1. TypeOK /\ CallsOK => UnitsTypeOK
  BY DEF CallsOK, UnitsTypeOK
<1> QED BY <1>1, UnitsUseTransactions, TypeCorrect, CallsAlwaysOK, PTL

\* LOCK_ORDER: no set of handlers, however they call each other, waits on itself.
THEOREM UnitsNeverDeadlock == UnitsSpec => []NoDeadlock
BY UnitsUseTransactions, TransactionsNeverDeadlock, NamesOfTheModel, PTL

\* TxContext.held: no handler believes to hold a lock it does not own.
THEOREM UnitsHoldWhatTheyThink == UnitsSpec => []HeldIsHeld
BY UnitsUseTransactions, HeldIsExact, NamesOfTheModel, PTL

-----------------------------------------------------------------------------
(* What the locks protect *)

\* It owns these names, or will once the call it is making has its locks.
Firm(t, names) ==
  /\ pc[t] \in Locking => names \subseteq calling[t] \cup Owned(t)
  /\ pc[t] = "work" => names \subseteq Owned(t)

Safe(t) ==
  /\ changes[t] => Firm(t, {Furniture})
  /\ plank[t] = "going" => Firm(t, known[t] \cup {Furniture})
  /\ plank[t] = "gone" /\ pc[t] \in Locking \cup {"work"} =>
       standing \cup {Furniture} \subseteq Owned(t)
  /\ pc[t] = "idle" => plank[t] = "stays"

RoomInv == \A t \in Txs : Safe(t)

LEMMA InitRoomInv == UnitsInit => RoomInv
BY DEF UnitsInit, Init, RoomInv, Safe, Firm, Locking

\* A handler is safe as long as nothing of its own, nor the room, changes.
LEMMA LeftAloneIsSafe ==
  ASSUME NEW t, Safe(t), pc'[t] = pc[t], calling'[t] = calling[t], took'[t] = took[t],
         known'[t] = known[t], plank'[t] = plank[t], changes'[t] = changes[t],
         standing' = standing
  PROVE  Safe(t)'
BY DEF Safe, Firm, Owned

\* A step changes the locks, the calls and the plan of one handler only.
LEMMA OnlyItsOwn ==
  ASSUME LockInv, CallsOK, NEW s \in Txs, NEW t \in Txs, t # s, UnitStep(s)
  PROVE  /\ pc'[t] = pc[t] /\ calling'[t] = calling[t] /\ took'[t] = took[t]
         /\ known'[t] = known[t] /\ plank'[t] = plank[t] /\ changes'[t] = changes[t]
<1>1. Step(s) \/ UNCHANGED vars
  BY UnitStepIsStep
<1>2. pc'[t] = pc[t] /\ calling'[t] = calling[t] /\ took'[t] = took[t]
  <2>1. CASE UNCHANGED vars
    BY <2>1 DEF vars
  <2>2. CASE Step(s)
    BY <2>2 DEF Step, Begin, Nest, SerialiseOn, Refuse, Call, Take, TookFirst, Locked,
       Commit, Rollback, Ended, Release, RollbackTo, MovedTo, StatementFails,
       LockInv, TypeOK
  <2> QED BY <1>1, <2>1, <2>2
<1>3. known'[t] = known[t] /\ plank'[t] = plank[t] /\ changes'[t] = changes[t]
  BY DEF UnitStep, Start, Ask, Made, Refused, NoMore, DropArea, Locks, Close, Finish, Throw,
     Undo, Forgotten, work, CallsOK
<1> QED BY <1>2, <1>3

\* A step of one handler that leaves the room as it is, is felt by no other.
LEMMA OwnStepKeepsRoomInv ==
  ASSUME LockInv, CallsOK, RoomInv, NEW s \in Txs, UnitStep(s), standing' = standing, Safe(s)'
  PROVE  RoomInv'
<1> SUFFICES ASSUME NEW t \in Txs, t # s PROVE Safe(t)'
  BY DEF RoomInv
<1>1. pc'[t] = pc[t] /\ calling'[t] = calling[t] /\ took'[t] = took[t]
  BY OnlyItsOwn
<1>2. known'[t] = known[t] /\ plank'[t] = plank[t] /\ changes'[t] = changes[t]
  BY OnlyItsOwn
<1> QED BY <1>1, <1>2, LeftAloneIsSafe DEF RoomInv

\* What a level has goes to the level below when it is released.
LEMMA ReleaseKeepsOwned ==
  ASSUME LockInv, NEW s \in Txs, Release(s)
  PROVE  Owned(s)' = Owned(s)
<1>1. \A n \in Names : took'[s][n] > 0 <=> took[s][n] > 0
  <2> TAKE n \in Names
  <2>1. took[s][n] \in Nat /\ depth[s] \in Nat /\ depth[s] > 1
    BY DEF LockInv, TypeOK, Levels, Release
  <2>2. took'[s][n] = IF took[s][n] = depth[s] THEN depth[s] - 1 ELSE took[s][n]
    BY DEF LockInv, TypeOK, Release, MovedTo
  <2> QED BY <2>1, <2>2
<1> QED BY <1>1 DEF Owned

LEMMA TakeKeepsOwned ==
  ASSUME LockInv, NEW s \in Txs, NEW n \in Names, Take(s, n)
  PROVE  Owned(s) \subseteq Owned(s)'
<1>1. \A m \in Names : took[s][m] > 0 => took'[s][m] = took[s][m]
  BY DEF LockInv, TypeOK, Levels, Take, TookFirst
<1> QED BY <1>1 DEF Owned

\* Who rearranges the room asks for the furniture first of all.
LEMMA RearrangementsAskFurniture ==
  ASSUME CallsOK, NEW unit \in Rearrangements
  PROVE  Furniture \in Asks(Head(unit))
BY DEF Rearrangements, InTx, Asks, BoundaryLocks

LEMMA StartIsSafe ==
  ASSUME LockInv, CallsOK, RoomInv, NEW s \in Txs, NEW unit \in Units, Start(s, unit)
  PROVE  Safe(s)'
<1> DEFINE call == Head(unit)
<1>1. pc[s] = "idle" /\ plank[s] = "stays"
  BY DEF Start, Begin, RoomInv, Safe
<1>2. pc'[s] = "begin" /\ calling'[s] = Asks(call)
  BY DEF Start, Begin, Call, LockInv, TypeOK
<1>3. changes'[s] => Furniture \in Asks(call)
  BY RearrangementsAskFurniture DEF Start, CallsOK
<1>4. plank'[s] = IF call.how = "drop" THEN "going" ELSE "stays"
  BY <1>1 DEF Start, Made, CallsOK
<1>5. call.how = "drop" => known'[s] \cup {Furniture} = Asks(call)
  BY DEF Start, Made, CallsOK, Found, Asks
<1> QED BY <1>2, <1>3, <1>4, <1>5 DEF Safe, Firm, Locking

LEMMA AskIsSafe ==
  ASSUME LockInv, CallsOK, RoomInv, NEW s \in Txs, Ask(s)
  PROVE  Safe(s)'
<1> DEFINE call == Head(left[s])
<1>1. Safe(s) /\ pc[s] = "work" /\ plank[s] # "going"
  BY DEF Ask, Ready, RoomInv
<1>2. Owned(s)' = Owned(s) /\ standing' = standing /\ changes'[s] = changes[s]
  BY DEF Ask, SerialiseOn, Nest, Made, Owned
<1>3. pc'[s] \in Locking
  BY DEF Ask, SerialiseOn, Nest, Call, LockInv, TypeOK, Locking
<1>4. plank'[s] = IF call.how = "drop" THEN "going" ELSE plank[s]
  BY DEF Ask, Made, CallsOK
<1>5. call.how = "drop" => calling'[s] = known'[s] \cup {Furniture}
  <2> HAVE call.how = "drop"
  <2>1. Nest(s, Asks(call))
    BY DEF Ask
  <2>2. calling'[s] = Asks(call)
    BY <2>1 DEF Nest, Call, LockInv, TypeOK
  <2> QED BY <2>2 DEF Ask, Made, CallsOK, Found, Asks
<1>6. pc'[s] # "work" /\ pc'[s] # "idle"
  BY <1>3 DEF Locking
<1> QED BY <1>1, <1>2, <1>3, <1>4, <1>5, <1>6 DEF Safe, Firm

LEMMA LocksIsSafe ==
  ASSUME LockInv, CallsOK, RoomInv, NEW s \in Txs, Locks(s)
  PROVE  Safe(s)'
<1>1. /\ standing' = standing /\ changes'[s] = changes[s]
      /\ known'[s] = known[s] /\ plank'[s] = plank[s]
  BY DEF Locks, work
<1>2. Safe(s)
  BY DEF RoomInv
<1>3. ASSUME NEW n \in Names, Take(s, n)
      PROVE  Safe(s)'
  <2>1. Owned(s) \subseteq Owned(s)' /\ pc' = pc /\ calling' = calling
    BY <1>3, TakeKeepsOwned DEF Take
  <2> QED BY <1>1, <1>2, <2>1 DEF Safe, Firm
<1>4. CASE Locked(s)
  <2>1. Owned(s)' = Owned(s) /\ pc[s] \in Locking /\ pc'[s] = "work"
    BY <1>4 DEF Locked, Owned, LockInv, TypeOK
  <2>2. calling[s] \subseteq Owned(s)
    BY <1>4 DEF Locked, LockInv, TypeOK, Called, Owned
  <2> QED BY <1>1, <1>2, <2>1, <2>2 DEF Safe, Firm, Locking
<1> QED BY <1>3, <1>4 DEF Locks

LEMMA DropAreaIsSafe ==
  ASSUME CallsOK, RoomInv, NEW s \in Txs, DropArea(s)
  PROVE  Safe(s)'
<1>1. /\ Safe(s) /\ pc[s] = "work" /\ plank[s] = "going"
      /\ plank'[s] = "gone" => standing \subseteq known[s]
  BY DEF DropArea, RoomInv, CallsOK
<1>2. plank'[s] \in {"gone", "stays"} /\ UNCHANGED <<pc, calling, took, changes, standing>>
  BY DEF DropArea, CallsOK, vars
<1> QED BY <1>1, <1>2 DEF Safe, Firm, Owned, Locking

LEMMA OthersAreSafe ==
  ASSUME LockInv, CallsOK, RoomInv, NEW s \in Txs,
         Refused(s) \/ NoMore(s) \/ Close(s) \/ Throw(s) \/ Undo(s)
  PROVE  Safe(s)' /\ standing' = standing
<1>0. Safe(s)
  BY DEF RoomInv
<1>1. CASE Refused(s) \/ Throw(s)
  <2>1. pc'[s] = "failing"
    BY <1>1, NamesOfTheModel DEF Refused, Refuse, Throw, StatementFails, RollbackTo, LockInv, TypeOK
  <2> QED BY <1>1, <2>1 DEF Refused, Throw, Safe, Firm, Locking
<1>2. CASE NoMore(s)
  BY <1>0, <1>2, LeftAloneIsSafe DEF NoMore, vars
<1>3. CASE Close(s)
  <2>1. Owned(s)' = Owned(s) /\ pc' = pc /\ calling' = calling
    BY <1>3, ReleaseKeepsOwned DEF Close, Release
  <2> QED BY <1>0, <1>3, <2>1 DEF Close, work, Safe, Firm
<1>4. CASE Undo(s)
  BY <1>4 DEF Undo, Rollback, Ended, Forgotten, Safe, Firm, Locking, LockInv, TypeOK, CallsOK
<1> QED BY <1>1, <1>2, <1>3, <1>4

\* Who commits a change of the room owns the furniture, so that nobody else
\* has the plank off and not yet committed.
LEMMA FinishKeepsRoomInv ==
  ASSUME LockInv, CallsOK, RoomInv, NEW s \in Txs, Finish(s)
  PROVE  RoomInv'
<1>1. Safe(s)'
  BY DEF Finish, Commit, Ended, Forgotten, Safe, Firm, Locking, LockInv, TypeOK, CallsOK
<1>2. CASE standing' = standing
  BY <1>1, <1>2, OwnStepKeepsRoomInv DEF UnitStep
<1>3. CASE standing' # standing
  <2>1. Furniture \in Owned(s)
    BY <1>3 DEF Finish, Commit, RoomInv, Safe, Firm
  <2> SUFFICES ASSUME NEW t \in Txs, t # s PROVE Safe(t)'
    BY <1>1 DEF RoomInv
  <2>2. Safe(t) /\ Furniture \notin Owned(t)
    BY <2>1 DEF RoomInv, LockInv, Exclusive
  <2>3. /\ pc'[t] = pc[t] /\ calling'[t] = calling[t] /\ took'[t] = took[t]
        /\ known'[t] = known[t] /\ plank'[t] = plank[t] /\ changes'[t] = changes[t]
    BY OnlyItsOwn DEF UnitStep
  <2> QED BY <2>2, <2>3 DEF Safe, Firm, Owned
<1> QED BY <1>2, <1>3

LEMMA NextKeepsRoomInv == LockInv /\ CallsOK /\ RoomInv /\ [UnitsNext]_unitVars => RoomInv'
<1> SUFFICES ASSUME LockInv, CallsOK, RoomInv, [UnitsNext]_unitVars PROVE RoomInv'
  OBVIOUS
<1>1. CASE UNCHANGED unitVars
  BY <1>1, LeftAloneIsSafe DEF unitVars, vars, work, RoomInv
<1>2. ASSUME NEW s \in Txs, UnitStep(s)
      PROVE  RoomInv'
  <2>1. ASSUME NEW unit \in Units, Start(s, unit)
        PROVE  RoomInv'
    BY <1>2, <2>1, StartIsSafe, OwnStepKeepsRoomInv DEF Start, Made
  <2>2. CASE Ask(s)
    BY <1>2, <2>2, AskIsSafe, OwnStepKeepsRoomInv DEF Ask, Made
  <2>3. CASE DropArea(s)
    BY <1>2, <2>3, DropAreaIsSafe, OwnStepKeepsRoomInv DEF DropArea
  <2>4. CASE Locks(s)
    BY <1>2, <2>4, LocksIsSafe, OwnStepKeepsRoomInv DEF Locks
  <2>5. CASE Refused(s) \/ NoMore(s) \/ Close(s) \/ Throw(s) \/ Undo(s)
    BY <1>2, <2>5, OthersAreSafe, OwnStepKeepsRoomInv
  <2>6. CASE Finish(s)
    BY <2>6, FinishKeepsRoomInv
  <2> QED BY <1>2, <2>1, <2>2, <2>3, <2>4, <2>5, <2>6 DEF UnitStep
<1> QED BY <1>1, <1>2 DEF UnitsNext

\* dropArea: when the removal of a plank commits, its handler owns every run the
\* plank stands in, and the furniture, whatever the others did meanwhile.
THEOREM RemovalHoldsItsRuns == UnitsSpec => DropHoldsItsRuns
<1>1. UnitsSpec => []LockInv
  BY UnitsUseTransactions, LockInvAlways, PTL
<1>2. RoomInv => [\A t \in Txs : Finish(t) /\ plank[t] = "gone"
                    => standing \cup {Furniture} \subseteq Owned(t)]_unitVars
  BY DEF RoomInv, Safe, Finish, Commit
<1> QED
  BY <1>1, <1>2, InitRoomInv, NextKeepsRoomInv, CallsAlwaysOK, PTL
  DEF UnitsSpec, DropHoldsItsRuns
-----------------------------------------------------------------------------
(* What a handler may still ask for *)

\* The names it is believed to hold, or will be once the call has its locks.
Reach(t) == held[t] \cup calling[t]

\* Outside the removals, what is still asked for comes after what is held.
Ascends(t) ==
  \E range \in Ranges :
    \/ /\ left[t] \in {<<Also(range)>>, <<InTx({range})>>, <<Also(range), Also(Furniture)>>}
       /\ Reach(t) \subseteq {Isbn, Book}
    \/ left[t] = <<Also(Furniture)>> /\ Furniture \notin Reach(t)

\* A removal that has locks has those of one run, the one it knows of.
Removes(t) ==
  \E range \in Ranges :
    /\ left[t] \in {<<Separator, Drop>>, <<Drop>>}
    /\ Reach(t) = BoundaryLocks(range) /\ known[t] = {range}

Planned(t) ==
  /\ pc[t] \notin Locking => calling[t] = {}
  /\ pc[t] \in Locking => calling[t] \ wanted[t] \subseteq held[t] /\ wanted[t] \subseteq calling[t]
  /\ pc[t] \in Locking \cup {"work"} => left[t] = <<>> \/ Ascends(t) \/ Removes(t)

PlanInv == \A t \in Txs : Planned(t)

LEMMA InitPlanInv == UnitsInit => PlanInv
BY DEF UnitsInit, Init, PlanInv, Planned, Locking

\* Every sort of call is what it was made to be.
LEMMA HowItAsks ==
  /\ \A names : InTx(names).how = "tx" /\ InTx(names).names = names
  /\ \A n : Also(n).how = "also" /\ Also(n).names = {n}
  /\ Separator.how = "separator" /\ Drop.how = "drop"
BY DEF InTx, Also, Separator, Drop

LEMMA WhatIsNamed ==
  /\ Isbn = 1 /\ Book = 2 /\ Ranges = {3, 4} /\ Fiction = 3 /\ NonFiction = 4 /\ Furniture = 5
  /\ \A range : BoundaryLocks(range) = {range, 5}
BY DEF Isbn, Book, Ranges, Fiction, NonFiction, Furniture, BoundaryLocks

\* What is left of one call, two or three when the first is made.
LEMMA FirstAndRest ==
  ASSUME NEW a \in Asking, NEW b \in Asking, NEW c \in Asking
  PROVE  /\ Head(<<a>>) = a /\ Tail(<<a>>) = <<>>
         /\ Head(<<a, b>>) = a /\ Tail(<<a, b>>) = <<b>>
         /\ Head(<<a, b, c>>) = a /\ Tail(<<a, b, c>>) = <<b, c>>
OBVIOUS

LEMMA AskingOfTheModel ==
  /\ \A range \in Ranges : /\ Also(range) \in Asking /\ InTx({range}) \in Asking
                           /\ InTx(BoundaryLocks(range)) \in Asking
  /\ \A first \in SUBSET {Isbn, Book} : InTx(first) \in Asking
  /\ InTx({Book}) \in Asking /\ Also(Furniture) \in Asking
  /\ Separator \in Asking /\ Drop \in Asking
<1>1. /\ \A names \in SUBSET (1 .. 5) : InTx(names) \in Asking
      /\ \A n \in 1 .. 5 : Also(n) \in Asking
      /\ Separator \in Asking /\ Drop \in Asking
  BY NamesOfTheModel DEF InTx, Also, Separator, Drop, Asking
<1>2. /\ \A range \in Ranges : {range} \subseteq 1 .. 5 /\ BoundaryLocks(range) \subseteq 1 .. 5
      /\ {Isbn, Book} \subseteq 1 .. 5 /\ Book \in 1 .. 5 /\ Furniture \in 1 .. 5
  BY WhatIsNamed
<1> QED BY <1>1, <1>2

\* A handler keeps to its plan as long as it goes on with the call it makes.
LEMMA SamePlan ==
  ASSUME NEW t, Planned(t), left'[t] = left[t], known'[t] = known[t],
         pc[t] \in Locking \cup {"work"}, pc'[t] \in Locking \cup {"work"},
         Reach(t)' = Reach(t),
         pc'[t] \notin Locking => calling'[t] = {},
         pc'[t] \in Locking => /\ calling'[t] \ wanted'[t] \subseteq held'[t]
                              /\ wanted'[t] \subseteq calling'[t]
  PROVE  Planned(t)'
<1>1. Ascends(t) => Ascends(t)'
  BY DEF Ascends
<1>2. Removes(t) => Removes(t)'
  BY DEF Removes
<1> QED BY <1>1, <1>2 DEF Planned

\* The first call of a unit reaches for no name the rest of it comes before.
LEMMA StartIsPlanned ==
  ASSUME LockInv, CallsOK, NEW s \in Txs, NEW unit \in Units, Start(s, unit)
  PROVE  Planned(s)'
<1> DEFINE call == Head(unit)
<1>1. /\ pc'[s] = "begin" /\ held'[s] = {} /\ calling'[s] = Asks(call) /\ wanted'[s] = Asks(call)
      /\ left'[s] = Tail(unit) /\ known'[s] = Found(call)
  BY DEF Start, Begin, Call, Made, LockInv, TypeOK, CallsOK
<1>2. Reach(s)' = Asks(call)
  BY <1>1 DEF Reach
<1>3. left'[s] = <<>> \/ Ascends(s)' \/ Removes(s)'
  <2>1. ASSUME NEW first \in SUBSET {Isbn, Book}, NEW range \in Ranges,
               unit = <<InTx(first), Also(range)>>
        PROVE  Ascends(s)'
    <3>1. call = InTx(first) /\ left'[s] = <<Also(range)>>
      BY <1>1, <2>1
    <3>2. Asks(call) = first
      BY <3>1, HowItAsks DEF Asks
    <3> QED BY <1>2, <3>1, <3>2 DEF Ascends
  <2>2. ASSUME NEW range \in Ranges,
               \/ unit = <<InTx({Book}), Also(range), Also(Furniture)>>
               \/ unit = <<InTx({Book}), InTx({range})>>
        PROVE  Ascends(s)'
    <3>1. call = InTx({Book}) /\ left'[s] \in {<<InTx({range})>>, <<Also(range), Also(Furniture)>>}
      <4>1. CASE unit = <<InTx({Book}), Also(range), Also(Furniture)>>
        BY <1>1, <4>1, FirstAndRest, AskingOfTheModel
      <4>2. CASE unit = <<InTx({Book}), InTx({range})>>
        BY <1>1, <4>2, FirstAndRest, AskingOfTheModel
      <4> QED BY <2>2, <4>1, <4>2
    <3>2. Asks(call) = {Book}
      BY <3>1, HowItAsks DEF Asks
    <3> QED BY <1>2, <3>1, <3>2 DEF Ascends
  <2>3. CASE unit = <<InTx({Book}), Also(Furniture)>>
    <3>1. call = InTx({Book}) /\ left'[s] = <<Also(Furniture)>>
      BY <1>1, <2>3
    <3>2. Asks(call) = {Book}
      BY <3>1, HowItAsks DEF Asks
    <3> QED BY <1>2, <3>1, <3>2, WhatIsNamed DEF Ascends
  <2>4. CASE Len(unit) = 1
    BY <1>1, <2>4, UnitsAreCalls
  <2>5. CASE unit = <<Separator, Drop>>
    <3>1. call = Separator /\ left'[s] = <<Drop>>
      BY <1>1, <2>5
    <3>2. Asks(call) = BoundaryLocks(RangeOf) /\ Found(call) = {RangeOf} /\ RangeOf \in Ranges
      BY <3>1, HowItAsks DEF Asks, Found, RangeOf, Ranges
    <3> QED BY <1>1, <1>2, <3>1, <3>2 DEF Removes
  <2>6. ASSUME NEW range \in Ranges, unit = <<InTx(BoundaryLocks(range)), Separator, Drop>>
        PROVE  Removes(s)'
    <3>1. call = InTx(BoundaryLocks(range)) /\ left'[s] = <<Separator, Drop>>
      BY <1>1, <2>6
    <3>2. Asks(call) = BoundaryLocks(range) /\ Found(call) = {range}
      BY <3>1, HowItAsks, WhatIsNamed DEF Asks, Found
    <3> QED BY <1>1, <1>2, <3>1, <3>2 DEF Removes
  <2>7. CASE unit \in Saves
    BY <2>1, <2>7 DEF Saves
  <2>8. CASE unit \in Revisions \cup Deletions
    BY <2>2, <2>3, <2>8 DEF Revisions, Deletions
  <2>9. CASE unit \in Refilings \cup Rearrangements
    <3>1. \E names : unit = <<InTx(names)>>
      BY <2>9 DEF Refilings, Rearrangements
    <3> QED BY <2>4, <3>1
  <2>10. CASE unit \in Removals
    <3>1. \/ unit = <<Drop>> \/ unit = <<Separator, Drop>>
          \/ \E range \in Ranges : unit = <<InTx(BoundaryLocks(range)), Separator, Drop>>
      BY <2>10 DEF Removals
    <3> QED BY <2>4, <2>5, <2>6, <3>1
  <2> QED BY <2>7, <2>8, <2>9, <2>10 DEF Units
<1> QED BY <1>1, <1>3 DEF Planned, Locking

\* Reading off the plan which call is next, and what is left after it.
LEMMA NextCall ==
  ASSUME NEW t \in Txs, Planned(t), pc[t] = "work", left[t] # <<>>
  PROVE  /\ Reach(t) = held[t]
         /\ \/ \E range \in Ranges :
                 /\ Head(left[t]) \in {Also(range), InTx({range})}
                 /\ Tail(left[t]) \in {<<>>, <<Also(Furniture)>>}
                 /\ held[t] \subseteq {Isbn, Book}
            \/ /\ Head(left[t]) = Also(Furniture) /\ Tail(left[t]) = <<>>
               /\ Furniture \notin held[t]
            \/ \E range \in Ranges :
                 /\ \/ Head(left[t]) = Separator /\ Tail(left[t]) = <<Drop>>
                    \/ Head(left[t]) = Drop /\ Tail(left[t]) = <<>>
                 /\ held[t] = BoundaryLocks(range) /\ known[t] = {range}
<1>1. Reach(t) = held[t]
  BY DEF Planned, Reach, Locking
<1>2. CASE Ascends(t)
  <2>1. PICK range \in Ranges :
          \/ /\ left[t] \in {<<Also(range)>>, <<InTx({range})>>, <<Also(range), Also(Furniture)>>}
             /\ held[t] \subseteq {Isbn, Book}
          \/ left[t] = <<Also(Furniture)>> /\ Furniture \notin held[t]
    BY <1>1, <1>2 DEF Ascends
  <2>2. CASE left[t] = <<Also(range), Also(Furniture)>> /\ held[t] \subseteq {Isbn, Book}
    <3>1. Head(left[t]) = Also(range) /\ Tail(left[t]) = <<Also(Furniture)>>
      BY <2>2
    <3> QED BY <1>1, <2>2, <3>1
  <2>3. CASE left[t] \in {<<Also(range)>>, <<InTx({range})>>} /\ held[t] \subseteq {Isbn, Book}
    <3>1. Head(left[t]) \in {Also(range), InTx({range})} /\ Tail(left[t]) = <<>>
      BY <2>3, FirstAndRest, AskingOfTheModel
    <3> QED BY <1>1, <2>3, <3>1
  <2>4. CASE left[t] = <<Also(Furniture)>> /\ Furniture \notin held[t]
    BY <1>1, <2>4
  <2> QED BY <2>1, <2>2, <2>3, <2>4
<1>3. CASE Removes(t)
  <2>1. PICK range \in Ranges :
          /\ left[t] \in {<<Separator, Drop>>, <<Drop>>}
          /\ held[t] = BoundaryLocks(range) /\ known[t] = {range}
    BY <1>1, <1>3 DEF Removes
  <2>2. \/ Head(left[t]) = Separator /\ Tail(left[t]) = <<Drop>>
        \/ Head(left[t]) = Drop /\ Tail(left[t]) = <<>>
    <3>1. CASE left[t] = <<Separator, Drop>>
      BY <3>1, FirstAndRest, AskingOfTheModel
    <3>2. CASE left[t] = <<Drop>>
      BY <3>2, FirstAndRest, AskingOfTheModel
    <3> QED BY <2>1, <3>1, <3>2
  <2> QED BY <1>1, <2>1, <2>2
<1> QED BY <1>2, <1>3 DEF Planned

\* A plank that stands in a run the handler knows of, and not in both, stands
\* in that run alone: what it asks for next it already has.
LEMMA AskedAlready ==
  ASSUME CallsOK, NEW range \in Ranges, {range} \subseteq standing, standing # Ranges
  PROVE  standing = {range} /\ RangeOf = range
<1>1. standing \subseteq Ranges
  BY RoomsAreRanges DEF CallsOK
<1> QED BY <1>1 DEF RangeOf, Ranges

LEMMA AskIsPlanned ==
  ASSUME LockInv, CallsOK, NEW s \in Txs, Planned(s), Ask(s)
  PROVE  Planned(s)'
<1> DEFINE call == Head(left[s])
<1>1. /\ pc[s] = "work" /\ left[s] # <<>> /\ Applies(s, call)
      /\ left'[s] = Tail(left[s]) /\ known'[s] = Found(call)
  BY DEF Ask, Ready, Made, CallsOK
<1>2. /\ pc'[s] \in Locking /\ wanted'[s] = calling'[s] /\ held'[s] = held[s]
      /\ call.how = "also" => calling'[s] = call.names
      /\ call.how # "also" => calling'[s] = Asks(call) /\ ~OutOfOrder(s, Asks(call))
  <2>1. CASE call.how = "also"
    <3>1. PICK n \in call.names : SerialiseOn(s, n)
      BY <2>1 DEF Ask
    <3>2. call.names = {n}
      <4>1. \E m : call = Also(m)
        BY <1>1, <2>1, NextCall, HowItAsks
      <4> QED BY <3>1, <4>1, HowItAsks
    <3> QED BY <2>1, <3>1, <3>2 DEF SerialiseOn, Call, LockInv, TypeOK, Locking
  <2>2. CASE call.how # "also"
    <3>1. Nest(s, Asks(call))
      BY <2>2 DEF Ask
    <3> QED BY <2>2, <3>1 DEF Nest, Call, LockInv, TypeOK, Locking
  <2> QED BY <2>1, <2>2
<1>3. Reach(s)' = held[s] \cup calling'[s]
  BY <1>2 DEF Reach
<1>4. left'[s] = <<>> \/ Ascends(s)' \/ Removes(s)'
  <2>1. ASSUME NEW range \in Ranges, call \in {Also(range), InTx({range})},
               Tail(left[s]) \in {<<>>, <<Also(Furniture)>>}, held[s] \subseteq {Isbn, Book}
        PROVE  left'[s] = <<>> \/ Ascends(s)'
    <3>1. calling'[s] = {range}
      BY <1>2, <2>1, HowItAsks DEF Asks
    <3>2. Furniture \notin Reach(s)'
      BY <1>3, <2>1, <3>1, WhatIsNamed
    <3> QED BY <1>1, <2>1, <3>2 DEF Ascends
  <2>2. ASSUME NEW range \in Ranges, call = Separator, Tail(left[s]) = <<Drop>>,
               held[s] = BoundaryLocks(range), known[s] = {range}
        PROVE  Removes(s)'
    <3>1. {range} \subseteq standing /\ known'[s] = {RangeOf} /\ calling'[s] = BoundaryLocks(RangeOf)
      BY <1>1, <1>2, <2>2, HowItAsks DEF Applies, Found, Asks
    <3>2. ~OutOfOrder(s, BoundaryLocks(RangeOf))
      BY <1>2, <2>2, HowItAsks DEF Asks
    <3>3. RangeOf = range
      <4>1. CASE standing = Ranges
        <5>1. RangeOf = 3
          BY <4>1, WhatIsNamed DEF RangeOf
        <5>2. 3 \notin held[s] => OutOfOrder(s, BoundaryLocks(RangeOf))
          <6>1. 5 \in held[s] /\ 3 \in BoundaryLocks(RangeOf)
            BY <2>2, <5>1, WhatIsNamed
          <6> QED BY <6>1 DEF OutOfOrder
        <5> QED BY <2>2, <3>2, <5>1, <5>2, WhatIsNamed
      <4> QED BY <3>1, <4>1, AskedAlready
    <3>4. Reach(s)' = BoundaryLocks(range) /\ known'[s] = {range} /\ left'[s] = <<Drop>>
      BY <1>1, <1>3, <2>2, <3>1, <3>3
    <3> QED BY <3>4 DEF Removes
  <2> QED BY <1>1, <2>1, <2>2, NextCall
<1> QED BY <1>2, <1>4 DEF Planned

LEMMA LocksIsPlanned ==
  ASSUME LockInv, CallsOK, NEW s \in Txs, Planned(s), Locks(s)
  PROVE  Planned(s)'
<1>1. left'[s] = left[s] /\ known'[s] = known[s]
  BY DEF Locks, work
<1>2. ASSUME NEW n \in Names, Take(s, n)
      PROVE  Planned(s)'
  <2>1. /\ pc'[s] = pc[s] /\ pc[s] \in Locking /\ calling'[s] = calling[s]
        /\ held'[s] = held[s] \cup {n} /\ wanted'[s] = wanted[s] \ {n} /\ n \in wanted[s]
    BY <1>2 DEF Take, NowHeld, FirstWanted, LockInv, TypeOK
  <2>2. calling'[s] \ wanted'[s] \subseteq held'[s] /\ wanted'[s] \subseteq calling'[s]
    BY <2>1 DEF Planned
  <2>3. Reach(s)' = Reach(s)
    BY <2>1 DEF Planned, Reach
  <2> QED BY <1>1, <2>1, <2>2, <2>3, SamePlan
<1>3. CASE Locked(s)
  <2>1. /\ pc[s] \in Locking /\ wanted[s] = {} /\ pc'[s] = "work"
        /\ calling'[s] = {} /\ held'[s] = held[s]
    BY <1>3 DEF Locked, LockInv, TypeOK
  <2>2. Reach(s)' = Reach(s)
    BY <2>1 DEF Planned, Reach
  <2> QED BY <1>1, <2>1, <2>2, SamePlan DEF Locking
<1> QED BY <1>2, <1>3 DEF Locks
\* A step leaves every other handler to its plan.
LEMMA OthersKeepTheirPlan ==
  ASSUME LockInv, CallsOK, PlanInv, NEW s \in Txs, UnitStep(s), Planned(s)'
  PROVE  PlanInv'
<1> SUFFICES ASSUME NEW t \in Txs, t # s PROVE Planned(t)'
  BY DEF PlanInv
<1>1. pc'[t] = pc[t] /\ calling'[t] = calling[t] /\ known'[t] = known[t]
  BY OnlyItsOwn
<1>2. held'[t] = held[t] /\ wanted'[t] = wanted[t]
  <2>1. Step(s) \/ UNCHANGED vars
    BY UnitStepIsStep
  <2>2. CASE UNCHANGED vars
    BY <2>2 DEF vars
  <2>3. CASE Step(s)
    BY <2>3 DEF Step, Begin, Nest, SerialiseOn, Refuse, Call, Take, NowHeld, Locked,
       Commit, Rollback, Ended, Release, RollbackTo, StatementFails, LockInv, TypeOK
  <2> QED BY <2>1, <2>2, <2>3
<1>3. left'[t] = left[t]
  BY DEF UnitStep, Start, Ask, Made, Refused, NoMore, DropArea, Locks, Close, Finish, Throw,
     Undo, Forgotten, work, CallsOK
<1> QED BY <1>1, <1>2, <1>3 DEF PlanInv, Planned, Ascends, Removes, Reach

LEMMA NextKeepsPlanInv == LockInv /\ CallsOK /\ PlanInv /\ [UnitsNext]_unitVars => PlanInv'
<1> SUFFICES ASSUME LockInv, CallsOK, PlanInv, [UnitsNext]_unitVars PROVE PlanInv'
  OBVIOUS
<1>1. CASE UNCHANGED unitVars
  BY <1>1 DEF unitVars, vars, work, PlanInv, Planned, Ascends, Removes, Reach
<1>2. ASSUME NEW s \in Txs, UnitStep(s)
      PROVE  PlanInv'
  <2> SUFFICES Planned(s)'
    BY <1>2, OthersKeepTheirPlan
  <2>0. Planned(s)
    BY DEF PlanInv
  <2>1. ASSUME NEW unit \in Units, Start(s, unit)
        PROVE  Planned(s)'
    BY <2>1, StartIsPlanned
  <2>2. CASE Ask(s)
    BY <2>0, <2>2, AskIsPlanned
  <2>3. CASE Locks(s)
    BY <2>0, <2>3, LocksIsPlanned
  <2>4. CASE Refused(s) \/ Throw(s)
    <3>1. pc'[s] = "failing" /\ calling'[s] = {}
      <4>1. CASE Refused(s)
        BY <2>0, <4>1 DEF Refused, Refuse, Planned, Locking, LockInv, TypeOK
      <4>2. CASE Throw(s)
        BY <2>0, <4>2, NamesOfTheModel
        DEF Throw, StatementFails, RollbackTo, Planned, Locking, LockInv, TypeOK
      <4> QED BY <2>4, <4>1, <4>2
    <3> QED BY <3>1 DEF Planned, Locking
  <2>5. CASE NoMore(s)
    <3>1. left'[s] = <<>> /\ UNCHANGED <<pc, calling, wanted, held>>
      BY <2>5 DEF NoMore, CallsOK, vars
    <3> QED BY <2>0, <3>1 DEF Planned
  <2>6. CASE DropArea(s)
    BY <2>0, <2>6 DEF DropArea, vars, Planned, Ascends, Removes, Reach
  <2>7. CASE Close(s)
    <3>1. UNCHANGED <<pc, calling, wanted, held, left, known>>
      BY <2>7 DEF Close, Release, work
    <3> QED BY <2>0, <3>1 DEF Planned, Ascends, Removes, Reach
  <2>8. CASE Finish(s) \/ Undo(s)
    <3>1. pc'[s] = "idle" /\ calling'[s] = {}
      BY <2>0, <2>8 DEF Finish, Undo, Commit, Rollback, Ended, Planned, Locking, LockInv, TypeOK
    <3> QED BY <3>1 DEF Planned, Locking
  <2> QED BY <1>2, <2>1, <2>2, <2>3, <2>4, <2>5, <2>6, <2>7, <2>8 DEF UnitStep
<1> QED BY <1>1, <1>2 DEF UnitsNext

LEMMA PlanKeepsOrder == LockInv /\ CallsOK /\ PlanInv => RefusedOnSharedPlank
<1> SUFFICES ASSUME LockInv, CallsOK, PlanInv, NEW t \in Txs, OutOfTurn(t)
             PROVE  standing = Ranges /\ Head(left[t]).how \in {"separator", "drop"}
  BY DEF RefusedOnSharedPlank
<1> DEFINE call == Head(left[t])
<1>1. /\ pc[t] = "work" /\ left[t] # <<>> /\ Planned(t)
      /\ Applies(t, call) /\ OutOfOrder(t, Asks(call))
  BY DEF OutOfTurn, Ready, PlanInv
<1>2. PICK n \in Asks(call) \ held[t], m \in held[t] : n < m
  BY <1>1 DEF OutOfOrder
<1>3. ~\E range \in Ranges : call \in {Also(range), InTx({range})} /\ held[t] \subseteq {Isbn, Book}
  <2> SUFFICES ASSUME NEW range \in Ranges, call \in {Also(range), InTx({range})},
                      held[t] \subseteq {Isbn, Book}
               PROVE  FALSE
    OBVIOUS
  <2>1. n = range
    BY <1>2, HowItAsks DEF Asks
  <2> QED BY <1>2, <2>1, WhatIsNamed
<1>4. call # Also(Furniture)
  <2> SUFFICES ASSUME call = Also(Furniture) PROVE FALSE
    OBVIOUS
  <2>1. n = 5
    BY <1>2, HowItAsks, WhatIsNamed DEF Asks
  <2>2. m \in 1 .. 5
    BY <1>2, NamesOfTheModel DEF LockInv, TypeOK
  <2> QED BY <1>2, <2>1, <2>2
<1>5. ASSUME NEW range \in Ranges, call \in {Separator, Drop},
             held[t] = BoundaryLocks(range), known[t] = {range}, standing # Ranges
      PROVE  FALSE
  <2>1. {range} \subseteq standing
    BY <1>1, <1>5, HowItAsks DEF Applies
  <2>2. standing = {range} /\ RangeOf = range
    BY <1>5, <2>1, AskedAlready
  <2>3. Asks(call) = held[t]
    BY <1>5, <2>2, HowItAsks DEF Asks, BoundaryLocks
  <2> QED BY <1>2, <2>3
<1> QED BY <1>1, <1>3, <1>4, <1>5, NextCall, HowItAsks

\* LOCK_ORDER, as the handlers of application/ follow it: however they nest their
\* transactions, and whatever happens to the room in between, a handler is refused
\* a lock out of its turn only if it takes off a plank both runs stand on.
THEOREM RefusalsAreOfSharedPlanks == UnitsSpec => []RefusedOnSharedPlank
<1>1. UnitsSpec => []LockInv
  BY UnitsUseTransactions, LockInvAlways, PTL
<1>2. UnitsSpec => []PlanInv
  BY <1>1, InitPlanInv, NextKeepsPlanInv, CallsAlwaysOK, PTL DEF UnitsSpec
<1> QED BY <1>1, <1>2, CallsAlwaysOK, PlanKeepsOrder, PTL
=============================================================================
