---------------------------- MODULE ReadingChain ----------------------------
(***************************************************************************)
(* One reading at a time (identify and its chain in server/identify.ts,    *)
(* withDeadline in server/deadline.ts).  Each call waits for the promise   *)
(* of the call before it, reads, and is answered when the reading ends or  *)
(* when its deadline is past; an abandoned reading goes on, and may never  *)
(* end.  Timers are on time, and what a settled promise lets start starts  *)
(* before the clock moves.                                                 *)
(***************************************************************************)
EXTENDS Integers, FiniteSets

CONSTANTS Calls,        \* calls of identify
          NoCall,       \* the chain as it is when the process starts
          Bound,        \* READING_TIMEOUT_MS
          MaxClock      \* bound of the model: the clock

ASSUME ChainAssumption ==
  /\ NoCall \notin Calls
  /\ Bound \in Nat \ {0} /\ MaxClock \in Nat

VARIABLES clock,
          tail,         \* identifyChain: the call whose end it waits for
          call          \* of each call: stage, the call before it, times

chainVars == <<clock, tail, call>>

NotMade == [stage |-> "none"]

ChainInit ==
  /\ clock = 0 /\ tail = NoCall
  /\ call = [c \in Calls |-> NotMade]

Settled == {NoCall} \cup {d \in Calls : call[d].stage \in {"read", "abandoned", "ended"}}
Startable(c) == call[c].stage = "waiting" /\ call[c].after \in Settled
Unanswered == {d \in Calls : call[d].stage \in {"waiting", "reading"}}

MutIdentify(c) ==
  /\ call[c] = NotMade
  /\ call' = [call EXCEPT ![c] = [stage |-> "waiting", after |-> tail, at |-> clock,
                                  ahead |-> Cardinality(Unanswered)]]
  /\ tail' = IF tail \in Settled THEN c ELSE tail
  /\ UNCHANGED clock
\* serialise: the chain is what the next call waits for, also when this one fails.
Identify(c) ==
  /\ call[c] = NotMade
  /\ call' = [call EXCEPT ![c] = [stage |-> "waiting", after |-> tail, at |-> clock,
                                  ahead |-> Cardinality(Unanswered)]]
  /\ tail' = c
  /\ UNCHANGED clock

\* The deadline counts from here, not from the call.
Read(c) ==
  /\ Startable(c)
  /\ call' = [call EXCEPT ![c] = [stage |-> "reading", at |-> @.at, ahead |-> @.ahead,
                                  by |-> clock + Bound]]
  /\ UNCHANGED <<clock, tail>>

\* identifyNow returns or throws, and the caller is told.
Answer(c) ==
  /\ call[c].stage = "reading"
  /\ call' = [call EXCEPT ![c] = [stage |-> "read"]]
  /\ UNCHANGED <<clock, tail>>

\* ReadingTimedOut
TimeOut(c) ==
  /\ call[c].stage = "reading" /\ clock = call[c].by
  /\ call' = [call EXCEPT ![c] = [stage |-> "abandoned"]]
  /\ UNCHANGED <<clock, tail>>

\* An abandoned reading ends, and nobody hears of it.
EndUnheard(c) ==
  /\ call[c].stage = "abandoned"
  /\ call' = [call EXCEPT ![c] = [stage |-> "ended"]]
  /\ UNCHANGED <<clock, tail>>

TimePasses ==
  /\ clock < MaxClock
  /\ \A c \in Calls : ~Startable(c) /\ (call[c].stage = "reading" => clock < call[c].by)
  /\ clock' = clock + 1
  /\ UNCHANGED <<tail, call>>

ChainNext ==
  \/ \E c \in Calls : Identify(c) \/ Read(c) \/ Answer(c) \/ TimeOut(c) \/ EndUnheard(c)
  \/ TimePasses

ChainSpec == ChainInit /\ [][ChainNext]_chainVars

-----------------------------------------------------------------------------
(* Properties *)

\* "One identification at a time, process-wide", abandoned ones apart; and no
\* reading that hangs holds the chain: a call is answered once every call that was
\* ahead of it has had its time, and it its own.
InTurn ==
  /\ \A c, d \in Calls : call[c].stage = "reading" /\ call[d].stage = "reading" => c = d
  /\ \A c \in Calls : call[c].stage \in {"waiting", "reading"} =>
       clock - call[c].at <= (call[c].ahead + 1) * Bound
=============================================================================
