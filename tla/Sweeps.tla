-------------------------------- MODULE Sweeps --------------------------------
(***************************************************************************)
(* Who looks at the queue, and when (drain, wake, sweepPass and            *)
(* resumeOnStartup of server/queue.ts, and the three routes of             *)
(* server/index.ts that call them).  One process drains; captures are also *)
(* written by others.  A query reads at one moment and is answered at a    *)
(* later one.  What reading one capture does is CaptureQueue's; here it    *)
(* leaves the queue, or is left pending for a photograph that came.        *)
(***************************************************************************)
EXTENDS Naturals, FiniteSets

CONSTANTS Shots,        \* captures
          Passes        \* calls of sweepPass, a bound on those at once

ASSUME SweepAssumption == IsFiniteSet(Shots)

VARIABLES pending,      \* captures that wait, as the database has them
          worker,       \* draining: where its loop is, and what the query saw
          drainAgain,
          timer,        \* sweep: whether one is armed
          pass, boot,   \* where each pass is, and resumeOnStartup
          seen          \* captures that wait since somebody asked for a look

sweepVars == <<pending, worker, drainAgain, timer, pass, boot, seen>>

NoPass == [stage |-> "none", found |-> 0]
At(stage, saw) == [at |-> stage, saw |-> saw]
Resting == At("idle", {})

SweepInit ==
  /\ pending \in SUBSET Shots
  /\ worker = Resting /\ drainAgain = FALSE /\ timer = FALSE
  /\ pass = [p \in Passes |-> NoPass]
  /\ boot = "hash"
  /\ seen = {}

-----------------------------------------------------------------------------
(* drain *)

MutDrain ==
  IF worker = Resting THEN worker' = At("ask", {}) /\ UNCHANGED drainAgain
  ELSE UNCHANGED <<worker, drainAgain>>
\* Called while a pass runs, it is noted down for that pass.
Drain ==
  IF worker = Resting THEN worker' = At("ask", {}) /\ UNCHANGED drainAgain
  ELSE drainAgain' = TRUE /\ UNCHANGED worker

\* nextPending, in the database.
Look ==
  /\ worker.at = "ask"
  /\ worker' = At("answer", pending)
  /\ UNCHANGED <<pending, drainAgain, timer, pass, boot, seen>>

Take(c) ==
  /\ worker.at = "answer" /\ c \in worker.saw
  /\ worker' = At("read", {c})
  /\ UNCHANGED <<pending, drainAgain, timer, pass, boot, seen>>

\* process and derive: settled, or pending still.
Settle(left) ==
  /\ worker.at = "read"
  /\ pending' = IF left THEN pending ELSE pending \ worker.saw
  /\ seen' = seen \cap pending'
  /\ worker' = At("ask", {})
  /\ UNCHANGED <<drainAgain, timer, pass, boot>>

LookAgain ==
  /\ worker = At("answer", {}) /\ drainAgain
  /\ worker' = At("ask", {})
  /\ drainAgain' = FALSE
  /\ UNCHANGED <<pending, timer, pass, boot, seen>>

\* The call of drain that ran goes on: a pass counts again, the start looks once
\* more for what landed meanwhile.
Empty ==
  /\ worker = At("answer", {}) /\ ~drainAgain
  /\ worker' = Resting
  /\ pass' = [p \in Passes |->
       IF pass[p].stage = "waits" THEN [pass[p] EXCEPT !.stage = "recount"] ELSE pass[p]]
  /\ IF boot = "waits"
     THEN boot' = "over" /\ timer' = TRUE /\ seen' = seen \cup pending
     ELSE UNCHANGED <<boot, timer, seen>>
  /\ UNCHANGED <<pending, drainAgain>>

\* The database does not answer: drain throws, what was noted down is lost with it,
\* and nobody else takes it up.
DrainThrows ==
  /\ worker # Resting
  /\ worker' = Resting /\ drainAgain' = FALSE /\ seen' = {}
  /\ pass' = [p \in Passes |-> IF pass[p].stage = "waits" THEN NoPass ELSE pass[p]]
  /\ boot' = IF boot = "waits" THEN "over" ELSE boot
  /\ UNCHANGED <<pending, timer>>

-----------------------------------------------------------------------------
(* Who asks *)

\* POST /api/captures and POST /api/captures/:id/photo
Shutter(c) ==
  /\ pending' = pending \cup {c}
  /\ seen' = seen \cup pending'
  /\ Drain
  /\ UNCHANGED <<timer, pass, boot>>

\* Another process writes one, or it is saved or thrown away.
WriteElsewhere(c) ==
  /\ pending' = IF c \in pending THEN pending \ {c} ELSE pending \cup {c}
  /\ seen' = seen \cap pending'
  /\ UNCHANGED <<worker, drainAgain, timer, pass, boot>>

\* wake
Wake == timer' = TRUE /\ seen' = seen \cup pending

\* GET /api/captures
ListQueue ==
  /\ pending # {}
  /\ Wake
  /\ UNCHANGED <<pending, worker, drainAgain, pass, boot>>

\* resumeOnStartup, once the photographs without a hash have been hashed; if that
\* throws, the start looks at nothing.
Hashed ==
  /\ boot = "hash"
  /\ Drain
  /\ IF worker = Resting
     THEN boot' = "waits" /\ seen' = seen \cup pending /\ UNCHANGED timer
     ELSE boot' = "over" /\ Wake
  /\ UNCHANGED <<pending, pass>>

HashThrows ==
  /\ boot = "hash"
  /\ boot' = "over"
  /\ UNCHANGED <<pending, worker, drainAgain, timer, pass, seen>>

\* Also what a count that fails comes to: nobody catches it.
ProcessEnds ==
  /\ worker' = Resting /\ drainAgain' = FALSE /\ timer' = FALSE /\ seen' = {}
  /\ pass' = [p \in Passes |-> NoPass]
  /\ boot' = "hash"
  /\ UNCHANGED pending

-----------------------------------------------------------------------------
(* sweepPass *)

TimerFires(p) ==
  /\ timer /\ pass[p] = NoPass
  /\ timer' = FALSE
  /\ pass' = [pass EXCEPT ![p].stage = "count"]
  /\ UNCHANGED <<pending, worker, drainAgain, boot, seen>>

Count(p) ==
  /\ pass[p].stage = "count"
  /\ pass' = [pass EXCEPT ![p] = [stage |-> "counted", found |-> Cardinality(pending)]]
  /\ UNCHANGED <<pending, worker, drainAgain, timer, boot, seen>>

Counted(p) ==
  /\ pass[p].stage = "counted"
  /\ IF pass[p].found = 0
     THEN pass' = [pass EXCEPT ![p] = NoPass] /\ UNCHANGED <<worker, drainAgain, seen>>
     ELSE /\ Drain
          /\ seen' = seen \cup pending
          /\ pass' = [pass EXCEPT ![p].stage = IF worker = Resting THEN "waits" ELSE "recount"]
  /\ UNCHANGED <<pending, timer, boot>>

\* Fewer than it found: another pass, after a while.
Recount(p) ==
  /\ pass[p].stage = "recount"
  /\ pass' = [pass EXCEPT ![p] =
       IF Cardinality(pending) \in 1 .. (@.found - 1)
       THEN [stage |-> "rearm", found |-> 0] ELSE NoPass]
  /\ UNCHANGED <<pending, worker, drainAgain, timer, boot, seen>>

Rearm(p) ==
  /\ pass[p].stage = "rearm"
  /\ pass' = [pass EXCEPT ![p] = NoPass]
  /\ Wake
  /\ UNCHANGED <<pending, worker, drainAgain, boot>>

SweepNext ==
  \/ \E c \in Shots : Take(c) \/ Shutter(c) \/ WriteElsewhere(c)
  \/ Look \/ LookAgain \/ Empty \/ DrainThrows
  \/ \E left \in BOOLEAN : Settle(left)
  \/ ListQueue \/ Hashed \/ HashThrows \/ ProcessEnds
  \/ \E p \in Passes : TimerFires(p) \/ Count(p) \/ Counted(p) \/ Recount(p) \/ Rearm(p)

SweepSpec == SweepInit /\ [][SweepNext]_sweepVars

-----------------------------------------------------------------------------
(* Properties *)

\* What each variable holds; the captures somebody asked about are waiting.
SweepTypeOK ==
  /\ pending \subseteq Shots /\ seen \subseteq pending
  /\ worker \in [at : {"idle", "ask", "answer", "read"}, saw : SUBSET Shots]
  /\ worker.at = "idle" => worker = Resting
  /\ drainAgain \in BOOLEAN /\ timer \in BOOLEAN
  /\ pass \in [Passes -> [stage : {"none", "count", "counted", "waits", "recount", "rearm"},
                          found : Nat]]
  /\ boot \in {"hash", "waits", "over"}

\* The queue is not left standing: while a capture waits that was there when a
\* shutter, a screen, the start or a pass asked for a look, the worker has a look
\* before it, or a pass has.  Not after a drain that threw, and a pass that is on
\* its way out does not count.
SweepWillLook ==
  seen # {} =>
    \/ worker.at \in {"ask", "read"}
    \/ worker.at = "answer" /\ (worker.saw # {} \/ drainAgain)
    \/ timer
    \/ \E p \in Passes :
         pass[p].stage = "count" \/ (pass[p].stage = "counted" /\ pass[p].found > 0)
=============================================================================
