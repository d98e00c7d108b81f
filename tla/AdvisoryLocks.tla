---------------------------- MODULE AdvisoryLocks ----------------------------
(***************************************************************************)
(* Transactions over Postgres and the advisory locks they serialise on     *)
(* (PgDb in server/db.pg.ts, the order in application/locks.ts, the unit   *)
(* of work of infrastructure/db/unit-of-work.ts).                          *)
(*                                                                         *)
(* A transaction is a stack of levels: BEGIN opens level 1, a `tx` inside  *)
(* a `tx` opens a SAVEPOINT.  A lock belongs to the level that was open    *)
(* when it was taken.  RELEASE SAVEPOINT hands it to the level below,      *)
(* ROLLBACK TO SAVEPOINT gives it up, COMMIT and ROLLBACK give up all.     *)
(* The set `held`, in the memory of the server, is what PgDb believes.     *)
(*                                                                         *)
(* A lock name is its place in the lock order: its namespace, then its     *)
(* spelling.  Two names are taken to have two keys (lockKey is a 64 bit    *)
(* hash), and every name to be in a namespace.                             *)
(***************************************************************************)
EXTENDS Naturals, FiniteSets

CONSTANTS Txs,          \* connections a transaction may be open on
          LastName,     \* how many lock names there are
          Calls,        \* the sets of names one call of `tx` may give
          Catches,      \* may work go on after an inner `tx` has thrown?
          MaxDepth      \* bound of the model: levels open at once

Names == 1 .. LastName

ASSUME NamesAssumption == LastName \in Nat /\ Calls \subseteq SUBSET Names
ASSUME CatchesAssumption == Catches \in BOOLEAN

VARIABLES pc,           \* where each transaction is
          depth,        \* TxContext.depth; 0 outside a transaction
          took,         \* outermost level that took each lock, 0 if none did
          held,         \* TxContext.held
          wanted,       \* names of the current call not yet taken
          calling,      \* names of the current call
          asked         \* outermost level whose work serialises on each name

vars == <<pc, depth, took, held, wanted, calling, asked>>

Owned(t) == {n \in Names : took[t][n] > 0}
SerialisedOn(t) == {n \in Names : asked[t][n] > 0}

Locking == {"begin", "nest", "take"}
PCs == Locking \cup {"idle", "work", "failing"}
Levels == [Names -> Nat]
Nothing == [n \in Names |-> 0]

TypeOK ==
  /\ pc \in [Txs -> PCs]
  /\ depth \in [Txs -> Nat]
  /\ took \in [Txs -> Levels] /\ asked \in [Txs -> Levels]
  /\ held \in [Txs -> SUBSET Names]
  /\ wanted \in [Txs -> SUBSET Names] /\ calling \in [Txs -> SUBSET Names]

Init ==
  /\ pc = [t \in Txs |-> "idle"]
  /\ depth = [t \in Txs |-> 0]
  /\ took = [t \in Txs |-> Nothing] /\ asked = [t \in Txs |-> Nothing]
  /\ held = [t \in Txs |-> {}]
  /\ wanted = [t \in Txs |-> {}] /\ calling = [t \in Txs |-> {}]

-----------------------------------------------------------------------------
(* Asking for locks *)

\* outOfOrder: a name already held may be named again, wherever it comes.
OutOfOrder(t, names) ==
  \E n \in names \ held[t] : \E m \in held[t] : n < m

Call(t, names, how) ==
  /\ pc' = [pc EXCEPT ![t] = how]
  /\ wanted' = [wanted EXCEPT ![t] = names]
  /\ calling' = [calling EXCEPT ![t] = names]

Begin(t, names) ==
  /\ pc[t] = "idle"
  /\ Call(t, names, "begin")
  /\ depth' = [depth EXCEPT ![t] = 1]
  /\ held' = [held EXCEPT ![t] = {}]
  /\ UNCHANGED <<took, asked>>

MutNest(t, names) ==
  /\ pc[t] = "work" /\ depth[t] < MaxDepth
  /\ ~OutOfOrder(t, names)
  /\ Call(t, names, "nest")
  /\ held' = [held EXCEPT ![t] = @ \cup names]
  /\ UNCHANGED <<depth, took, asked>>

\* A `tx` inside a `tx` takes its locks before its SAVEPOINT.
Nest(t, names) ==
  /\ pc[t] = "work" /\ depth[t] < MaxDepth
  /\ ~OutOfOrder(t, names)
  /\ Call(t, names, "nest")
  /\ UNCHANGED <<depth, took, asked, held>>

\* WorkScope.serialiseOn: an empty savepoint, so the locks are its caller's.
SerialiseOn(t, n) ==
  /\ pc[t] = "work"
  /\ ~OutOfOrder(t, {n})
  /\ Call(t, {n}, "take")
  /\ UNCHANGED <<depth, took, asked, held>>

\* Nothing has been taken when a call is refused, and the refusal is thrown.
Refuse(t, names) ==
  /\ pc[t] = "work"
  /\ OutOfOrder(t, names)
  /\ pc' = [pc EXCEPT ![t] = "failing"]
  /\ UNCHANGED <<depth, took, asked, held, wanted, calling>>

MutFirstWanted(t, n) == n \in wanted[t]
\* inLockOrder: one statement a name, the first in the order first.
FirstWanted(t, n) == n \in wanted[t] /\ \A m \in wanted[t] : n <= m
Free(t, n) == \A u \in Txs \ {t} : n \notin Owned(u)

TookFirst(t, n) ==
  took' = [took EXCEPT ![t][n] = IF @ = 0 THEN depth[t] ELSE @]
NowHeld(t, n) ==
  /\ held' = [held EXCEPT ![t] = @ \cup {n}]
  /\ wanted' = [wanted EXCEPT ![t] = @ \ {n}]

\* pg_advisory_xact_lock waits for every other transaction, and is re-entrant.
Take(t, n) ==
  /\ pc[t] \in Locking
  /\ FirstWanted(t, n)
  /\ Free(t, n)
  /\ TookFirst(t, n)
  /\ NowHeld(t, n)
  /\ UNCHANGED <<pc, depth, asked, calling>>

MutLocked(t) ==
  LET level == IF pc[t] = "nest" THEN depth[t] + 1 ELSE depth[t] IN
  /\ pc[t] \in Locking
  /\ pc' = [pc EXCEPT ![t] = "work"]
  /\ depth' = [depth EXCEPT ![t] = level]
  /\ asked' = [asked EXCEPT ![t] = [n \in Names |->
                 IF n \in calling[t] /\ asked[t][n] = 0 THEN level ELSE asked[t][n]]]
  /\ calling' = [calling EXCEPT ![t] = {}]
  /\ UNCHANGED <<took, held, wanted>>

\* All are taken: the SAVEPOINT of a nested call, and the work begins.
Locked(t) ==
  LET level == IF pc[t] = "nest" THEN depth[t] + 1 ELSE depth[t] IN
  /\ pc[t] \in Locking
  /\ wanted[t] = {}
  /\ pc' = [pc EXCEPT ![t] = "work"]
  /\ depth' = [depth EXCEPT ![t] = level]
  /\ asked' = [asked EXCEPT ![t] = [n \in Names |->
                 IF n \in calling[t] /\ asked[t][n] = 0 THEN level ELSE asked[t][n]]]
  /\ calling' = [calling EXCEPT ![t] = {}]
  /\ UNCHANGED <<took, held, wanted>>

-----------------------------------------------------------------------------
(* Ending a level *)

\* What is at the level that ends goes to `level`: the one below, or nowhere.
MovedTo(levels, t, level) ==
  [levels EXCEPT ![t] = [n \in Names |->
     IF levels[t][n] = depth[t] THEN level ELSE levels[t][n]]]

Ended(t) ==
  /\ pc' = [pc EXCEPT ![t] = "idle"]
  /\ depth' = [depth EXCEPT ![t] = 0]
  /\ took' = [took EXCEPT ![t] = Nothing] /\ asked' = [asked EXCEPT ![t] = Nothing]
  /\ held' = [held EXCEPT ![t] = {}]
  /\ UNCHANGED <<wanted, calling>>

Commit(t) == pc[t] = "work" /\ depth[t] = 1 /\ Ended(t)

MutRelease(t) ==
  /\ pc[t] = "work"
  /\ depth' = [depth EXCEPT ![t] = @ - 1]
  /\ took' = MovedTo(took, t, depth[t] - 1)
  /\ asked' = MovedTo(asked, t, depth[t] - 1)
  /\ UNCHANGED <<pc, held, wanted, calling>>

Release(t) ==
  /\ pc[t] = "work" /\ depth[t] > 1
  /\ depth' = [depth EXCEPT ![t] = @ - 1]
  /\ took' = MovedTo(took, t, depth[t] - 1)
  /\ asked' = MovedTo(asked, t, depth[t] - 1)
  /\ UNCHANGED <<pc, held, wanted, calling>>

Rollback(t) == pc[t] \in {"work", "failing"} /\ depth[t] = 1 /\ Ended(t)

\* `held` is one set for the whole transaction: nothing takes a name out of it.
RollbackTo(t) ==
  /\ pc[t] \in {"work", "failing"} /\ depth[t] > 1
  /\ depth' = [depth EXCEPT ![t] = @ - 1]
  /\ took' = MovedTo(took, t, 0)
  /\ asked' = MovedTo(asked, t, 0)
  /\ \E next \in {"failing"} \cup (IF Catches THEN {"work"} ELSE {}) :
       pc' = [pc EXCEPT ![t] = next]
  /\ UNCHANGED <<held, wanted, calling>>

\* A statement fails, a wait for a lock among them.  Postgres then refuses all
\* but a rollback, so that is how the level ends.
StatementFails(t) ==
  /\ pc[t] \in Locking \cup {"work"}
  /\ pc' = [pc EXCEPT ![t] = "failing"]
  /\ wanted' = [wanted EXCEPT ![t] = {}]
  /\ calling' = [calling EXCEPT ![t] = {}]
  /\ UNCHANGED <<depth, took, asked, held>>

-----------------------------------------------------------------------------
Step(t) ==
  \/ \E names \in Calls :
       \/ Begin(t, names)
       \/ Nest(t, names)
       \/ Refuse(t, names)
  \/ \E n \in Names : SerialiseOn(t, n) \/ Take(t, n)
  \/ Locked(t) \/ Commit(t) \/ Release(t)
  \/ Rollback(t) \/ RollbackTo(t) \/ StatementFails(t)

Next == \E t \in Txs : Step(t)

Spec == Init /\ [][Next]_vars

-----------------------------------------------------------------------------
(* Properties *)

\* "Serialise this transaction against every other one naming the same string"
\* (TxOptions): two pieces of work that serialise on one name are never open at
\* once, whatever savepoints have been rolled back in between.
Serialised ==
  \A t, u \in Txs : t # u => SerialisedOn(t) \cap SerialisedOn(u) = {}

Waiting(t, n) == pc[t] \in Locking /\ FirstWanted(t, n) /\ ~Free(t, n)

\* No set of transactions in which each waits for a lock another of them owns
\* (the order of inLockOrder, and the refusal of outOfOrder).
NoDeadlock ==
  \A stuck \in SUBSET Txs :
    (\A t \in stuck : \E n \in Names :
       Waiting(t, n) /\ \E u \in stuck \ {t} : n \in Owned(u)) => stuck = {}

\* "Every lock name the transaction holds" (TxContext.held): while work can still
\* ask for locks, it owns what it is believed to hold.
HeldIsHeld ==
  \A t \in Txs : pc[t] \notin {"idle", "failing"} => held[t] \subseteq Owned(t)
=============================================================================
