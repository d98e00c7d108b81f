--------------------------- MODULE DiscardWindow ---------------------------
(***************************************************************************)
(* The undo window of a discard (src/lib/discardWindow.ts, and the pane     *)
(* that drives it, src/components/QueuePane.tsx): a swipe is held in the    *)
(* browser and becomes a request when its timer runs out or the screen is   *)
(* left.  A swipe is known by its number; `timers` names the swipe held for *)
(* a scan, `armed` the timeouts the browser has not run or cleared.         *)
(***************************************************************************)
EXTENDS Naturals, Sequences

CONSTANTS Scans, MaxSwipes

ASSUME WindowAssumption == MaxSwipes \in Nat

VARIABLES swipes,       \* the scan of each swipe, in the order they were made
          timers, armed,
          undone,       \* swipes taken back or let go
          requests      \* how often each swipe went to the server

windowVars == <<swipes, timers, armed, undone, requests>>

None == 0
Held == {timers[s] : s \in Scans} \ {None}
Sent(ns) == [n \in DOMAIN requests |-> IF n \in ns THEN requests[n] + 1 ELSE requests[n]]

-----------------------------------------------------------------------------
WindowInit ==
  /\ swipes = <<>>
  /\ timers = [s \in Scans |-> None]
  /\ armed = {}
  /\ undone = {}
  /\ requests = <<>>

\* hold; one already held keeps the window it has.
Hold(s) ==
  /\ timers[s] = None
  /\ Len(swipes) < MaxSwipes
  /\ swipes' = Append(swipes, s)
  /\ requests' = Append(requests, 0)
  /\ timers' = [timers EXCEPT ![s] = Len(swipes) + 1]
  /\ armed' = armed \cup {Len(swipes) + 1}
  /\ UNCHANGED undone

\* The timeout runs: the entry of the scan goes, and the discard is sent.
Fire(n) ==
  /\ n \in armed
  /\ armed' = armed \ {n}
  /\ timers' = [timers EXCEPT ![swipes[n]] = None]
  /\ requests' = Sent({n})
  /\ UNCHANGED <<swipes, undone>>

MutRelease(s) ==
  /\ timers[s] # None
  /\ armed' = armed
  /\ timers' = [timers EXCEPT ![s] = None]
  /\ undone' = undone \cup {timers[s]}
  /\ UNCHANGED <<swipes, requests>>
\* release: taken back, or the scan left the queue some other way.
Release(s) ==
  /\ timers[s] # None
  /\ armed' = armed \ {timers[s]}
  /\ timers' = [timers EXCEPT ![s] = None]
  /\ undone' = undone \cup {timers[s]}
  /\ UNCHANGED <<swipes, requests>>

Abandon ==
  /\ Held # {}
  /\ armed' = armed \ Held
  /\ timers' = [s \in Scans |-> None]
  /\ undone' = undone \cup Held
  /\ UNCHANGED <<swipes, requests>>
\* flush: the screen is left.
Flush ==
  /\ Held # {}
  /\ armed' = armed \ Held
  /\ timers' = [s \in Scans |-> None]
  /\ requests' = Sent(Held)
  /\ UNCHANGED <<swipes, undone>>

WindowNext ==
  \/ \E s \in Scans : Hold(s) \/ Release(s)
  \/ \E n \in DOMAIN swipes : Fire(n)
  \/ Abandon \/ Flush

WindowSpec == WindowInit /\ [][WindowNext]_windowVars

-----------------------------------------------------------------------------
(* Properties *)

\* A swipe is sent once, or was taken back and is never sent, or is still held
\* with a timer that will send it, whatever the swipes of the same scan before
\* and after it came to ("Called at most once per hold, and never at all for a
\* hold that was released or abandoned").
SwipedOnce ==
  \A n \in DOMAIN swipes :
    IF n \in Held THEN n \in armed /\ n \notin undone /\ requests[n] = 0
    ELSE requests[n] = IF n \in undone THEN 0 ELSE 1
=============================================================================
