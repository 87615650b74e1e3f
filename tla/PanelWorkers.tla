--------------------------- MODULE PanelWorkers ---------------------------
(***************************************************************************)
(* The uvicorn workers of one panel and the election of the worker that    *)
(* runs the schedulers (worker_leader.py, lifespan_workers.py, the         *)
(* lifespan of main.py, process_identity.py).                              *)
(*                                                                         *)
(* This module has the processes and their actions and no next-state       *)
(* relation of its own: TaskQueue and ServerReboot extend it with what a   *)
(* worker owns (background tasks, reboot timers) and with the one-shot     *)
(* startup actions that clean up after dead workers.                       *)
(*                                                                         *)
(* The kernel's flock and uvicorn's supervisor are external: the lock has  *)
(* one holder and is released when its process ends; a worker that ended   *)
(* may be started again at any time, worst case under the same PID.        *)
(***************************************************************************)
EXTENDS Naturals, FiniteSets

CONSTANTS Workers,       \* worker slots; a slot stands for a PID
          NoOne,         \* nobody holds the leader lock
          StartupSteps,  \* number of one-shot actions of a fresh start
          MaxStops,      \* bound: worker deaths and graceful stops
          MaxFaults      \* bound: commits given up, failed takeovers

ASSUME WorkersAssumption ==
    /\ NoOne \notin Workers
    /\ StartupSteps \in Nat \ {0}
    /\ MaxStops \in Nat
    /\ MaxFaults \in Nat

VARIABLES up,        \* life cycle of each worker process
          ticks,     \* its start time: tells two processes of one PID apart
          leader,    \* holder of the flock on <db>.leader.lock
          waiting,   \* workers whose leader_takeover task is polling the lock
          looping,   \* workers whose scheduler loops are in their tasks
          stray,     \* workers with loops that a failed start() left behind
          todo,      \* next startup action of a worker inside on_startup, or 0
          stops, faults

workerVars == <<up, ticks, leader, waiting, looping, stray, todo, stops, faults>>

WorkersTypeOK ==
    /\ up \in [Workers -> {"down", "starting", "serving", "stopping"}]
    /\ ticks \in [Workers -> 0 .. MaxStops + 1]
    /\ leader \in Workers \cup {NoOne}
    /\ waiting \subseteq Workers
    /\ looping \subseteq Workers
    /\ stray \subseteq Workers
    /\ todo \in [Workers -> 0 .. StartupSteps]
    /\ stops \in 0 .. MaxStops
    /\ faults \in 0 .. MaxFaults

WorkersInit ==
    /\ up = [w \in Workers |-> "down"]
    /\ ticks = [w \in Workers |-> 0]
    /\ leader = NoOne
    /\ waiting = {}
    /\ looping = {}
    /\ stray = {}
    /\ todo = [w \in Workers |-> 0]
    /\ stops = 0
    /\ faults = 0

---------------------------------------------------------------------------
(* Owner tokens.                                                           *)

Owners == Workers \X (1 .. MaxStops + 1)

\* Mutant: the token is made once, in the first process of the slot.
import_time_owner(w) == <<w, 1>>

current_process_owner(w) == <<w, ticks[w]>>

\* Mutants: only the PID is compared; every owner counts as dead.
is_pid_alive(o) == up[o[1]] # "down"
no_owner_alive(o) == FALSE

\* The token's process: the PID exists and was started at the token's time.
is_owner_alive(o) == up[o[1]] # "down" /\ ticks[o[1]] = o[2]

---------------------------------------------------------------------------
(* Start, takeover and end of a worker.                                    *)

Fault == faults < MaxFaults /\ faults' = faults + 1

WorkerStarts(w) ==
    /\ up[w] = "down"
    /\ up' = [up EXCEPT ![w] = "starting"]
    /\ ticks' = [ticks EXCEPT ![w] = @ + 1]
    /\ UNCHANGED <<leader, waiting, looping, stray, todo, stops, faults>>

\* start_leader_workers, lock free: the loops are created, on_startup follows.
LeadsFromStart(w) ==
    /\ up[w] = "starting" /\ todo[w] = 0
    /\ leader = NoOne
    /\ leader' = w
    /\ looping' = looping \cup {w}
    /\ todo' = [todo EXCEPT ![w] = 1]
    /\ UNCHANGED <<up, ticks, waiting, stray, stops, faults>>

\* Mutant: a worker that waits starts its loops without the lock.
WaitsForLeaderLooping(w) ==
    /\ up[w] = "starting" /\ todo[w] = 0
    /\ leader # NoOne
    /\ up' = [up EXCEPT ![w] = "serving"]
    /\ waiting' = waiting \cup {w}
    /\ looping' = looping \cup {w}
    /\ UNCHANGED <<ticks, leader, stray, todo, stops, faults>>

\* start_leader_workers, lock taken: serve requests and poll the lock.
WaitsForLeader(w) ==
    /\ up[w] = "starting" /\ todo[w] = 0
    /\ leader # NoOne
    /\ up' = [up EXCEPT ![w] = "serving"]
    /\ waiting' = waiting \cup {w}
    /\ UNCHANGED <<ticks, leader, looping, stray, todo, stops, faults>>

\* One action of on_startup is over; after the last one the worker serves.
StartupGoesOn(w) ==
    /\ todo' = [todo EXCEPT ![w] = IF @ < StartupSteps THEN @ + 1 ELSE 0]
    /\ up' = IF todo[w] < StartupSteps THEN up ELSE [up EXCEPT ![w] = "serving"]
    /\ UNCHANGED <<ticks, leader, waiting, looping, stray, stops>>

TakesOver(w) ==
    /\ w \in waiting
    /\ leader = NoOne
    /\ leader' = w
    /\ waiting' = waiting \ {w}
    /\ looping' = looping \cup {w}
    /\ UNCHANGED <<up, ticks, stray, todo, stops, faults>>

\* Mutant: the failed takeover keeps the lock.
TakeoverFailsKeepingLock(w) ==
    /\ w \in waiting
    /\ leader = NoOne
    /\ Fault
    /\ waiting' = waiting \ {w}
    /\ leader' = w
    /\ UNCHANGED <<up, ticks, looping, stray, todo, stops>>

\* start() raised: the lock is released for another worker and this one
\* never tries again (its leader_takeover task has ended). The loops that
\* start() had created are in no dict: nobody cancels them, they run on.
TakeoverFails(w) ==
    /\ w \in waiting
    /\ leader = NoOne
    /\ Fault
    /\ waiting' = waiting \ {w}
    /\ stray' \in {stray, stray \cup {w}}
    /\ UNCHANGED <<up, ticks, leader, looping, todo, stops>>

\* What ends with the event loop and the lock of w.
LeavesElection(w) ==
    /\ leader' = IF leader = w THEN NoOne ELSE leader
    /\ waiting' = waiting \ {w}
    /\ looping' = looping \ {w}
    /\ stray' = stray \ {w}
    /\ todo' = [todo EXCEPT ![w] = 0]

\* Shutdown half of the lifespan: cancel_background_tasks, then release; the
\* end of the event loop cancels stray loops too. The process lives on until
\* the threads of its pools are done.
Stops(w) ==
    /\ up[w] = "serving"
    /\ stops < MaxStops
    /\ stops' = stops + 1
    /\ up' = [up EXCEPT ![w] = "stopping"]
    /\ LeavesElection(w)
    /\ UNCHANGED <<ticks, faults>>

Exits(w) ==
    /\ up[w] = "stopping"
    /\ up' = [up EXCEPT ![w] = "down"]
    /\ UNCHANGED <<ticks, leader, waiting, looping, stray, todo, stops, faults>>

\* Killed or crashed at any point; a first start() that raises ends it too.
Dies(w) ==
    /\ up[w] # "down"
    /\ stops < MaxStops
    /\ stops' = stops + 1
    /\ up' = [up EXCEPT ![w] = "down"]
    /\ LeavesElection(w)
    /\ UNCHANGED <<ticks, faults>>

\* What a worker does by itself: uvicorn starts it, it takes the lock or waits.
ElectionRuns(w) ==
    \/ WorkerStarts(w)
    \/ LeadsFromStart(w)
    \/ WaitsForLeader(w)
    \/ TakesOver(w)
=============================================================================
