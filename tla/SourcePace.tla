----------------------------- MODULE SourcePace -----------------------------
(***************************************************************************)
(* How often one catalogue is asked (server/source-pace.ts and askOne of   *)
(* server/catalogue-sru.ts).  A lookup reserves a slot, or goes without;   *)
(* it waits for the slot and asks with what is left of its budget.  The    *)
(* clock counts in whole units and does not go back.  A timer never fires  *)
(* early, and at most Lag units late.                                      *)
(***************************************************************************)
EXTENDS Integers, FiniteSets

CONSTANTS Lookups,      \* lookups that ask the source
          Interval,     \* minIntervalMs of the source
          Budgets,      \* what a lookup may be prepared to wait
          Lag,          \* how late the event loop may run a timer
          MaxTime       \* bound of the model: the clock

ASSUME PaceAssumption ==
  /\ Interval \in Nat \ {0} /\ Lag \in Nat /\ MaxTime \in Nat
  /\ Budgets \subseteq Nat

VARIABLES now, nextFreeAt,
          lookup        \* stage, slot and deadline of each lookup

paceVars == <<now, nextFreeAt, lookup>>

Unasked == [stage |-> "none"]

PaceInit ==
  /\ now = 0 /\ nextFreeAt = 0
  /\ lookup = [c \in Lookups |-> Unasked]

Later(t, u) == IF t > u THEN t ELSE u

\* A lookup that goes at once asks at once, with all of its budget.
Reserved(c, at, deadline) ==
  lookup' = [lookup EXCEPT ![c] =
    IF at = now THEN [stage |-> "asked", at |-> at, by |-> deadline, sent |-> now]
    ELSE [stage |-> "waiting", at |-> at, by |-> deadline]]

MutReserveSlot(c, budget) ==
  LET at == Later(now, nextFreeAt) IN
  /\ lookup[c] = Unasked
  /\ IF at - now >= budget
     THEN lookup' = [lookup EXCEPT ![c] = [stage |-> "skipped"]] /\ UNCHANGED nextFreeAt
     ELSE /\ nextFreeAt' = now + Interval
          /\ Reserved(c, at, now + budget)
  /\ UNCHANGED now
\* The slot is taken before the wait for it; a lookup that is declined takes none.
ReserveSlot(c, budget) ==
  LET at == Later(now, nextFreeAt) IN
  /\ lookup[c] = Unasked
  /\ IF at - now >= budget
     THEN lookup' = [lookup EXCEPT ![c] = [stage |-> "skipped"]] /\ UNCHANGED nextFreeAt
     ELSE /\ nextFreeAt' = at + Interval
          /\ Reserved(c, at, now + budget)
  /\ UNCHANGED now

\* The timer of its slot: nothing left of the budget, and the source is not asked.
Awake(c) ==
  /\ lookup[c].stage = "waiting"
  /\ now >= lookup[c].at
  /\ lookup' = [lookup EXCEPT ![c] =
       IF now >= @.by THEN [stage |-> "skipped"]
       ELSE [stage |-> "asked", at |-> @.at, by |-> @.by, sent |-> now]]
  /\ UNCHANGED <<now, nextFreeAt>>

Tick ==
  /\ now < MaxTime
  /\ \A c \in Lookups : lookup[c].stage = "waiting" => now < lookup[c].at + Lag
  /\ now' = now + 1
  /\ UNCHANGED <<nextFreeAt, lookup>>

\* The map is empty in a process that starts.
PaceRestart ==
  /\ nextFreeAt' = 0
  /\ lookup' = [c \in Lookups |-> Unasked]
  /\ UNCHANGED now

PaceNext ==
  \/ \E c \in Lookups : Awake(c) \/ \E budget \in Budgets : ReserveSlot(c, budget)
  \/ Tick
  \/ PaceRestart

PaceSpec == PaceInit /\ [][PaceNext]_paceVars

-----------------------------------------------------------------------------
(* Properties *)

WentOut == {c \in Lookups : lookup[c].stage = "asked"}

\* "the shortest gap this app will leave between two requests": whoever lined up
\* behind whom, and though a lookup that came late wastes its slot, a process
\* sends no two requests closer than the interval, less what a timer may be late;
\* and none with no time left.
PaceKept ==
  /\ \A c, d \in WentOut : c # d =>
       \/ lookup[c].sent - lookup[d].sent >= Interval - Lag
       \/ lookup[d].sent - lookup[c].sent >= Interval - Lag
  /\ \A c \in WentOut : lookup[c].sent < lookup[c].by
=============================================================================
