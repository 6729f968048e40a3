--------------------------- MODULE SidecarLifecycle ---------------------------
(***************************************************************************)
(* SidecarLifecycle (lifecycle.ts): spawning the sidecar, waiting for its  *)
(* "ready" line, restarting it after a crash within a budget, disposal;    *)
(* and the client the extension keeps from the first start (extension.ts). *)
(*                                                                         *)
(* Time is a count of ticks (one second in the code).  No absolute clock   *)
(* is kept: timers count down and ages count up to a cap, so that the      *)
(* state space is finite without bounding how long a behaviour runs.       *)
(* Timers may fire late, as Node's do: a timer that has reached 0 fires    *)
(* some time after.                                                        *)
(***************************************************************************)
EXTENDS Integers, Sequences, FiniteSets

CONSTANTS
  Procs,           \* process slots; a slot is reused once its process is gone
  None,            \* no process, no timer
  MaxRestarts,     \* MAX_RESTARTS
  Window,          \* RESTART_WINDOW_MS, in ticks
  ReadyTimeout     \* READY_TIMEOUT_MS, in ticks

ASSUME ConstantsAssumption ==
  /\ None \notin Procs \cup Nat
  /\ MaxRestarts \in Nat \ {0} /\ Window \in Nat \ {0}
  /\ ReadyTimeout \in Nat \ {0}

VARIABLES
  proc,        \* proc[p]: "free", "alive", "exited" (event not yet delivered)
  readySent,   \* the processes that have written the "ready" line
  watched,     \* the processes that have an 'exit' listener
  current,     \* _proc
  awaiting,    \* the process _awaitReady waits for, or None
  readyTimer,  \* ticks until the ready timeout
  restarts,    \* _restarts
  windowAge,   \* now - _windowStart, capped at Window + 1
  delay,       \* ticks until the delayed start(), or None
  disposed,    \* _disposed
  gaveUp,      \* the budget message was shown
  activation,  \* the first start(): "idle", "starting", "active", "failed"
  held,        \* the process of the client extension.ts keeps, or None
  recent,      \* history: ages of the restarts of the last Window ticks
  orphans,     \* history: the number of processes spawned after dispose()
  noBinary     \* history: a start() found no binary

procVars   == <<proc, readySent, watched, current>>
timerVars  == <<readyTimer, windowAge, delay>>
budgetVars == <<restarts, gaveUp>>
extVars    == <<activation, held>>
vars == <<procVars, timerVars, budgetVars, extVars, awaiting, disposed,
          recent, orphans, noBinary>>

Init == /\ proc = [p \in Procs |-> "free"]
        /\ readySent = {} /\ watched = {}
        /\ current = None /\ awaiting = None
        /\ readyTimer = 0 /\ windowAge = 0 /\ delay = None
        /\ restarts = 0 /\ gaveUp = FALSE
        /\ disposed = FALSE
        /\ activation = "idle" /\ held = None
        /\ recent = <<>> /\ orphans = 0 /\ noBinary = FALSE

-----------------------------------------------------------------------------

\* start() up to its await: a new process in a slot that nothing uses.  A
\* client held for the slot's earlier process stays the client of that one.
Start(p) ==
  /\ proc[p] = "free"
  /\ proc'      = [proc EXCEPT ![p] = "alive"]
  /\ readySent' = readySent \ {p}
  /\ watched'   = watched \ {p}
  /\ current'   = p
  /\ awaiting'  = p
  /\ readyTimer' = ReadyTimeout
  /\ held'      = IF held = p THEN None ELSE held
  /\ orphans'   = orphans + (IF disposed THEN 1 ELSE 0)

\* activate(): the first start().
Activate ==
  /\ activation = "idle" /\ ~disposed
  /\ activation' = "starting"
  /\ \E p \in Procs : Start(p)
  /\ UNCHANGED <<windowAge, delay, budgetVars, disposed, recent, noBinary>>

\* The sidecar has set itself up and writes "ready" (main.cpp).
SendReady(p) ==
  /\ proc[p] = "alive" /\ p \notin readySent
  /\ readySent' = readySent \cup {p}
  /\ UNCHANGED <<proc, watched, current, timerVars, budgetVars, extVars,
                 awaiting, disposed, recent, orphans, noBinary>>

\* The "ready" line is read: start() continues and only now listens for
\* 'exit'.  stdout may be read after the exit event, so p may be gone.
SeeReady(p) ==
  /\ awaiting = p /\ p \in readySent
  /\ awaiting' = None
  /\ watched'  = watched \cup {p}
  /\ IF activation = "starting"
       THEN activation' = "active" /\ held' = p
       ELSE UNCHANGED extVars
  /\ UNCHANGED <<proc, readySent, current, timerVars, budgetVars, disposed,
                 recent, orphans, noBinary>>

\* start() rejects.
StartFails(p) ==
  /\ awaiting = p /\ awaiting' = None
  /\ activation' = IF activation = "starting" THEN "failed" ELSE activation
  /\ UNCHANGED <<readySent, watched, current, timerVars, budgetVars, held,
                 disposed, recent, orphans, noBinary>>

\* Mutant: a start that timed out is tried again.
ReadyTimesOut_Retries(p) ==
  /\ readyTimer = 0 /\ awaiting = p /\ awaiting' = None
  /\ delay' = 1
  /\ activation' = IF activation = "starting" THEN "failed" ELSE activation
  /\ UNCHANGED <<procVars, readyTimer, windowAge, budgetVars, held, disposed,
                 recent, orphans, noBinary>>

\* The ready timer fires; the process is neither killed nor watched, and may
\* have died long ago.
ReadyTimesOut(p) == readyTimer = 0 /\ StartFails(p) /\ UNCHANGED proc

\* spawn() could not create the process: no exit event, only 'error'.
SpawnError(p) ==
  /\ proc[p] = "alive" /\ p \notin readySent
  /\ proc' = [proc EXCEPT ![p] = "free"]
  /\ StartFails(p)

Die(p) ==
  /\ proc[p] = "alive"
  /\ proc' = [proc EXCEPT ![p] = "exited"]
  /\ UNCHANGED <<readySent, watched, current, timerVars, budgetVars, extVars,
                 awaiting, disposed, recent, orphans, noBinary>>

\* Mutant: each crash opens a new window.
MaybeRestart_Forgets ==
  /\ windowAge' = 0 /\ restarts' = 1 /\ delay' = 1
  /\ UNCHANGED gaveUp

\* Mutant: the last attempt is used up and neither taken nor reported.
MaybeRestart_Silent ==
  LET attempts == (IF windowAge > Window THEN 0 ELSE restarts) + 1
  IN /\ windowAge' = (IF windowAge > Window THEN 0 ELSE windowAge)
     /\ restarts'  = attempts
     /\ IF attempts > MaxRestarts
          THEN gaveUp' = TRUE /\ UNCHANGED delay
        ELSE IF attempts = MaxRestarts
          THEN UNCHANGED <<gaveUp, delay>>
          ELSE delay' = attempts /\ UNCHANGED gaveUp

\* _maybeRestart up to its delay: a new window if the last one is over, then
\* one attempt is used up, then the delay grows with the attempts.
MaybeRestart ==
  LET fresh    == windowAge > Window
      attempts == (IF fresh THEN 0 ELSE restarts) + 1
  IN /\ windowAge' = (IF fresh THEN 0 ELSE windowAge)
     /\ restarts'  = attempts
     /\ IF attempts > MaxRestarts
          THEN gaveUp' = TRUE /\ UNCHANGED delay
          ELSE delay' = attempts /\ UNCHANGED gaveUp

\* Mutant: the exit listener does not look at _disposed.
DeliverExit_WhenDisposed(p) ==
  /\ proc[p] = "exited"
  /\ proc' = [proc EXCEPT ![p] = "free"]
  /\ IF p \in watched
       THEN MaybeRestart
       ELSE UNCHANGED <<windowAge, delay, budgetVars>>
  /\ UNCHANGED <<readySent, watched, current, readyTimer, extVars, awaiting,
                 disposed, recent, orphans, noBinary>>

\* The 'exit' event: it reaches the listener only if start() has attached it.
DeliverExit(p) ==
  /\ proc[p] = "exited"
  /\ proc' = [proc EXCEPT ![p] = "free"]
  /\ IF p \in watched /\ ~disposed
       THEN MaybeRestart
       ELSE UNCHANGED <<windowAge, delay, budgetVars>>
  /\ UNCHANGED <<readySent, watched, current, readyTimer, extVars, awaiting,
                 disposed, recent, orphans, noBinary>>

\* The delay is over: start(), with no look at _disposed.
DelayedStart ==
  /\ delay = 0
  /\ delay' = None
  /\ \E p \in Procs : Start(p)
  /\ recent' = Append(recent, 0)
  /\ UNCHANGED <<windowAge, budgetVars, activation, disposed, noBinary>>

\* _resolveBinary throws: the attempt ends before anything is spawned.
NoBinary ==
  /\ \/ /\ activation = "idle" /\ ~disposed
        /\ activation' = "failed" /\ UNCHANGED delay
     \/ /\ delay = 0
        /\ delay' = None /\ UNCHANGED activation
  /\ noBinary' = TRUE
  /\ UNCHANGED <<procVars, readyTimer, windowAge, budgetVars, held, awaiting,
                 disposed, recent, orphans>>

\* dispose(): the current process is killed, timers are left running.
Dispose ==
  /\ ~disposed
  /\ disposed' = TRUE
  /\ proc' = [p \in Procs |-> IF p = current /\ proc[p] = "alive"
                                THEN "exited" ELSE proc[p]]
  /\ current' = None
  /\ UNCHANGED <<readySent, watched, timerVars, budgetVars, extVars, awaiting,
                 recent, orphans, noBinary>>

Down(timer) == IF timer = None \/ timer = 0 THEN timer ELSE timer - 1

\* Each restart waits a tick at least, so that one at most leaves the last
\* Window ticks in a tick, and the oldest.
Aged == LET gone == IF recent # <<>> /\ Head(recent) = Window THEN 1 ELSE 0
        IN [k \in 1..(Len(recent) - gone) |-> recent[k + gone] + 1]

Tick ==
  /\ readyTimer' = Down(readyTimer)
  /\ delay'      = Down(delay)
  /\ windowAge'  = IF windowAge > Window THEN windowAge ELSE windowAge + 1
  /\ recent'     = Aged
  /\ UNCHANGED <<procVars, budgetVars, extVars, awaiting, disposed, orphans,
                 noBinary>>

Next == \/ Activate \/ DelayedStart \/ NoBinary \/ Dispose \/ Tick
        \/ \E p \in Procs : \/ SendReady(p) \/ SeeReady(p) \/ ReadyTimesOut(p)
                            \/ SpawnError(p) \/ Die(p) \/ DeliverExit(p)

Spec == Init /\ [][Next]_vars

\* Node delivers events and fires timers; time passes.
FairSpec == /\ Spec /\ WF_vars(Tick) /\ WF_vars(DelayedStart \/ NoBinary)
            /\ \A p \in Procs : WF_vars(DeliverExit(p)) /\ WF_vars(ReadyTimesOut(p))

-----------------------------------------------------------------------------

\* The types lifecycle.ts gives the variables.
TypeOK ==
  /\ proc \in [Procs -> {"free", "alive", "exited"}]
  /\ readySent \subseteq Procs /\ watched \subseteq Procs
  /\ current \in Procs \cup {None} /\ awaiting \in Procs \cup {None}
  /\ readyTimer \in 0..ReadyTimeout
  /\ windowAge \in 0..(Window + 1)
  /\ delay \in (0..MaxRestarts) \cup {None}
  /\ restarts \in Nat
  /\ disposed \in BOOLEAN /\ gaveUp \in BOOLEAN
  /\ activation \in {"idle", "starting", "active", "failed"}
  /\ held \in Procs \cup {None}
  /\ recent \in Seq(0..Window)
  /\ orphans \in Nat /\ noBinary \in BOOLEAN

\* The variables have their types, and two sidecars never run at once on the
\* workspace's databases: a start() that gave up waiting leaves its process running, yet is never followed by
\* another (lifecycle.ts:37-42, 100-110).
AtMostOneSidecar ==
  TypeOK /\ Cardinality({p \in Procs : proc[p] = "alive"}) <= 1

\* The window is fixed, not sliding, so the most a crash loop can do in any
\* Window is two budgets (lifecycle.ts:84-99).
BoundedRestartRate == Len(recent) <= 2 * MaxRestarts

\* dispose() does not cancel the delay: one process may still be spawned
\* after it, and that one is the last (lifecycle.ts:41, 103-106, 115-120).
AtMostOneOrphan == orphans <= 1

\* A crash of a watched sidecar leads to another start while the budget
\* lasts, unless the extension is disposed or its binary is gone.
CrashIsAnswered ==
  \A p \in Procs :
    (proc[p] = "exited" /\ p \in watched) ~>
      (awaiting # None \/ gaveUp \/ disposed \/ noBinary)

\* "Sidecar restarted successfully": once a restarted sidecar is up, the
\* client the extension uses is a client of it.
RestartRestoresService ==
  \A p \in Procs :
    (p \in watched /\ proc[p] = "alive" /\ awaiting = None /\ activation = "active")
      => held = p
=============================================================================
