--------------------------- MODULE BackgroundGate ---------------------------
(***************************************************************************)
(* The gate between scheduled background steps and a backup restore        *)
(* (services/background_gate.py, and its callers in routers/backups.py).   *)
(*                                                                         *)
(* Two flock files lie beside the panel database.  A background step holds *)
(* the gate file shared while it runs, and takes it while holding the      *)
(* intent file shared.  A restore takes the intent file exclusively, then  *)
(* the gate file exclusively, replaces the database files, and keeps both  *)
(* locks until the panel restarts.                                         *)
(*                                                                         *)
(* A flock belongs to an open file, so every thread of every uvicorn       *)
(* worker is a separate holder; the kernel drops the locks of a worker     *)
(* that dies.  The descriptors a restore keeps are stored in _pause_fds,   *)
(* one list per worker process, and resume_background_work unlocks the     *)
(* whole list whoever filled it.                                           *)
(***************************************************************************)
EXTENDS FiniteSets

CONSTANTS
    Procs,      \* uvicorn worker processes
    Steps,      \* threads that run background steps
    Restores,   \* threads that serve a restore request, with their restart timer
    Home        \* the worker process a thread belongs to

ASSUME HomeAssumption == Home \in [Steps \cup Restores -> Procs]
ASSUME ThreadsAssumption == Steps \cap Restores = {}

VARIABLES
    stepPc,      \* where each background step is in _run_gated
    probing,     \* steps that hold the intent file inside background_pause_requested
    restorePc,   \* where each restore request is
    intentSh,    \* shared holders of <db>.bg-intent.lock taken by _run_gated
    intentEx,    \* exclusive holders of <db>.bg-intent.lock
    gateSh,      \* shared holders of <db>.bg-gate.lock
    gateEx,      \* exclusive holders of <db>.bg-gate.lock
    pauseFds,    \* _pause_fds: per process, the restores whose descriptors it lists
    taken        \* the descriptors a running resume_background_work took from the list

vars == <<stepPc, probing, restorePc, intentSh, intentEx, gateSh, gateEx, pauseFds, taken>>

StepPcs == {"idle", "waitGate", "dropIntent", "running"}

RestorePcs == {"idle", "intent", "gate", "stash", "replacing", "restartPending",
               "unlockGate", "unlockIntent"}

TypeOK ==
    /\ stepPc \in [Steps -> StepPcs]
    /\ probing \subseteq Steps
    /\ restorePc \in [Restores -> RestorePcs]
    /\ intentSh \subseteq Steps
    /\ intentEx \subseteq Restores
    /\ gateSh \subseteq Steps
    /\ gateEx \subseteq Restores
    /\ pauseFds \in [Procs -> SUBSET Restores]
    /\ taken \in [Restores -> SUBSET Restores]

Init ==
    /\ stepPc = [s \in Steps |-> "idle"]
    /\ probing = {}
    /\ restorePc = [r \in Restores |-> "idle"]
    /\ intentSh = {}
    /\ intentEx = {}
    /\ gateSh = {}
    /\ gateEx = {}
    /\ pauseFds = [p \in Procs |-> {}]
    /\ taken = [r \in Restores |-> {}]

-----------------------------------------------------------------------------
(* What flock grants.                                                      *)

IntentSharable == intentEx = {}
IntentFree     == intentEx = {} /\ intentSh = {} /\ probing = {}
GateSharable   == gateEx = {}
GateFree       == gateEx = {} /\ gateSh = {}

-----------------------------------------------------------------------------
(* _run_gated.  A step whose try of the intent file fails returns None and *)
(* leaves the state as it was.                                             *)

\* Fault for mutation: the result of the try on the intent file is ignored.
StepTakesIntentUnchecked(s) ==
    /\ stepPc[s] = "idle"
    /\ intentSh' = intentSh \cup {s}
    /\ stepPc' = [stepPc EXCEPT ![s] = "waitGate"]
    /\ UNCHANGED <<probing, restorePc, intentEx, gateSh, gateEx, pauseFds, taken>>

StepTakesIntent(s) ==
    /\ stepPc[s] = "idle"
    /\ IntentSharable
    /\ intentSh' = intentSh \cup {s}
    /\ stepPc' = [stepPc EXCEPT ![s] = "waitGate"]
    /\ UNCHANGED <<probing, restorePc, intentEx, gateSh, gateEx, pauseFds, taken>>

\* The blocking flock on the gate file.
StepTakesGate(s) ==
    /\ stepPc[s] = "waitGate"
    /\ GateSharable
    /\ gateSh' = gateSh \cup {s}
    /\ stepPc' = [stepPc EXCEPT ![s] = "dropIntent"]
    /\ UNCHANGED <<probing, restorePc, intentSh, intentEx, gateEx, pauseFds, taken>>

StepDropsIntent(s) ==
    /\ stepPc[s] = "dropIntent"
    /\ intentSh' = intentSh \ {s}
    /\ stepPc' = [stepPc EXCEPT ![s] = "running"]
    /\ UNCHANGED <<probing, restorePc, intentEx, gateSh, gateEx, pauseFds, taken>>

\* fn returned or raised: the finally clause unlocks the gate file.
StepEnds(s) ==
    /\ stepPc[s] = "running"
    /\ s \notin probing
    /\ gateSh' = gateSh \ {s}
    /\ stepPc' = [stepPc EXCEPT ![s] = "idle"]
    /\ UNCHANGED <<probing, restorePc, intentSh, intentEx, gateEx, pauseFds, taken>>

\* background_pause_requested inside a long step: it answers False after it
\* held the intent file for a moment.  When the try fails it answers True and
\* the step ends early, which is StepEnds.
ProbeTakesIntent(s) ==
    /\ stepPc[s] = "running"
    /\ s \notin probing
    /\ IntentSharable
    /\ probing' = probing \cup {s}
    /\ UNCHANGED <<stepPc, restorePc, intentSh, intentEx, gateSh, gateEx, pauseFds, taken>>

ProbeDropsIntent(s) ==
    /\ s \in probing
    /\ probing' = probing \ {s}
    /\ UNCHANGED <<stepPc, restorePc, intentSh, intentEx, gateSh, gateEx, pauseFds, taken>>

-----------------------------------------------------------------------------
(* pause_background_work: _flock_until polls each file; it looks at the    *)
(* deadline only after a try that failed.                                  *)

RestoreRequested(r) ==
    /\ restorePc[r] = "idle"
    /\ restorePc' = [restorePc EXCEPT ![r] = "intent"]
    /\ UNCHANGED <<stepPc, probing, intentSh, intentEx, gateSh, gateEx, pauseFds, taken>>

RestoreTakesIntent(r) ==
    /\ restorePc[r] = "intent"
    /\ IntentFree
    /\ intentEx' = intentEx \cup {r}
    /\ restorePc' = [restorePc EXCEPT ![r] = "gate"]
    /\ UNCHANGED <<stepPc, probing, intentSh, gateSh, gateEx, pauseFds, taken>>

\* Fault for mutation: a refused restore calls resume_background_work on its way out.
IntentTimeoutResumes(r) ==
    /\ restorePc[r] = "intent"
    /\ ~IntentFree
    /\ taken' = [taken EXCEPT ![r] = pauseFds[Home[r]]]
    /\ pauseFds' = [pauseFds EXCEPT ![Home[r]] = {}]
    /\ restorePc' = [restorePc EXCEPT ![r] = "unlockGate"]
    /\ UNCHANGED <<stepPc, probing, intentSh, intentEx, gateSh, gateEx>>

\* Fault for mutation: _flock_until without its deadline.
IntentPolledForever(r) ==
    /\ restorePc[r] = "intent"
    /\ FALSE
    /\ UNCHANGED vars

IntentTimeout(r) ==
    /\ restorePc[r] = "intent"
    /\ ~IntentFree
    /\ restorePc' = [restorePc EXCEPT ![r] = "idle"]
    /\ UNCHANGED <<stepPc, probing, intentSh, intentEx, gateSh, gateEx, pauseFds, taken>>

\* Fault for mutation: the gate file is not locked against shared holders.
RestoreTakesGateUnderShared(r) ==
    /\ restorePc[r] = "gate"
    /\ gateEx = {}
    /\ gateEx' = gateEx \cup {r}
    /\ restorePc' = [restorePc EXCEPT ![r] = "stash"]
    /\ UNCHANGED <<stepPc, probing, intentSh, intentEx, gateSh, pauseFds, taken>>

RestoreTakesGate(r) ==
    /\ restorePc[r] = "gate"
    /\ GateFree
    /\ gateEx' = gateEx \cup {r}
    /\ restorePc' = [restorePc EXCEPT ![r] = "stash"]
    /\ UNCHANGED <<stepPc, probing, intentSh, intentEx, gateSh, pauseFds, taken>>

\* Fault for mutation: the except clause does not unlock the intent file.
GateTimeoutKeepsIntent(r) ==
    /\ restorePc[r] = "gate"
    /\ ~GateFree
    /\ restorePc' = [restorePc EXCEPT ![r] = "idle"]
    /\ UNCHANGED <<stepPc, probing, intentSh, intentEx, gateSh, gateEx, pauseFds, taken>>

GateTimeout(r) ==
    /\ restorePc[r] = "gate"
    /\ ~GateFree
    /\ intentEx' = intentEx \ {r}
    /\ restorePc' = [restorePc EXCEPT ![r] = "idle"]
    /\ UNCHANGED <<stepPc, probing, intentSh, gateSh, gateEx, pauseFds, taken>>

RestoreStashesFds(r) ==
    /\ restorePc[r] = "stash"
    /\ pauseFds' = [pauseFds EXCEPT ![Home[r]] = @ \cup {r}]
    /\ restorePc' = [restorePc EXCEPT ![r] = "replacing"]
    /\ UNCHANGED <<stepPc, probing, intentSh, intentEx, gateSh, gateEx, taken>>

-----------------------------------------------------------------------------
(* The body of _background_work_paused and what follows it.                *)

\* apply_restore_payload returned: _schedule_panel_restart_after_restore
\* starts the timer and the locks stay held.
RestoreSucceeds(r) ==
    /\ restorePc[r] = "replacing"
    /\ restorePc' = [restorePc EXCEPT ![r] = "restartPending"]
    /\ UNCHANGED <<stepPc, probing, intentSh, intentEx, gateSh, gateEx, pauseFds, taken>>

\* resume_background_work empties the process's list under _pause_lock: the
\* restore raised, or the timer's restart_controller raised or reported
\* failure.
ResumeTakesFds(r) ==
    /\ restorePc[r] \in {"replacing", "restartPending"}
    /\ taken' = [taken EXCEPT ![r] = pauseFds[Home[r]]]
    /\ pauseFds' = [pauseFds EXCEPT ![Home[r]] = {}]
    /\ restorePc' = [restorePc EXCEPT ![r] = "unlockGate"]
    /\ UNCHANGED <<stepPc, probing, intentSh, intentEx, gateSh, gateEx>>

\* The list was extended with [gate_fd, intent_fd]: the gate goes first.
ResumeUnlocksGate(r) ==
    /\ restorePc[r] = "unlockGate"
    /\ gateEx' = gateEx \ taken[r]
    /\ restorePc' = [restorePc EXCEPT ![r] = "unlockIntent"]
    /\ UNCHANGED <<stepPc, probing, intentSh, intentEx, gateSh, pauseFds, taken>>

\* Fault for mutation: only the gate descriptor is unlocked.
ResumeLeavesIntent(r) ==
    /\ restorePc[r] = "unlockIntent"
    /\ taken' = [taken EXCEPT ![r] = {}]
    /\ restorePc' = [restorePc EXCEPT ![r] = "idle"]
    /\ UNCHANGED <<stepPc, probing, intentSh, intentEx, gateSh, gateEx, pauseFds>>

ResumeUnlocksIntent(r) ==
    /\ restorePc[r] = "unlockIntent"
    /\ intentEx' = intentEx \ taken[r]
    /\ taken' = [taken EXCEPT ![r] = {}]
    /\ restorePc' = [restorePc EXCEPT ![r] = "idle"]
    /\ UNCHANGED <<stepPc, probing, intentSh, gateSh, gateEx, pauseFds>>

-----------------------------------------------------------------------------
(* Processes end: a worker dies and is respawned, or systemd restarts the  *)
(* panel.  The kernel closes every descriptor of a dead process.           *)

ProcessesEnd(P) ==
    LET gone == {t \in Steps \cup Restores : Home[t] \in P} IN
    /\ stepPc' = [s \in Steps |-> IF s \in gone THEN "idle" ELSE stepPc[s]]
    /\ probing' = probing \ gone
    /\ restorePc' = [r \in Restores |-> IF r \in gone THEN "idle" ELSE restorePc[r]]
    /\ intentSh' = intentSh \ gone
    /\ intentEx' = intentEx \ gone
    /\ gateSh' = gateSh \ gone
    /\ gateEx' = gateEx \ gone
    /\ pauseFds' = [p \in Procs |-> IF p \in P THEN {} ELSE pauseFds[p]]
    /\ taken' = [r \in Restores |-> IF r \in gone THEN {} ELSE taken[r]]

WorkerDies(p) == ProcessesEnd({p})

\* The timer of a finished restore: systemctl restart stops every worker.
PanelRestarts(r) ==
    /\ restorePc[r] = "restartPending"
    /\ ProcessesEnd(Procs)

-----------------------------------------------------------------------------
Step(s) ==
    \/ StepTakesIntent(s)
    \/ StepTakesGate(s)
    \/ StepDropsIntent(s)
    \/ StepEnds(s)
    \/ ProbeTakesIntent(s)
    \/ ProbeDropsIntent(s)

Restore(r) ==
    \/ RestoreRequested(r)
    \/ RestoreTakesIntent(r)
    \/ IntentTimeout(r)
    \/ RestoreTakesGate(r)
    \/ GateTimeout(r)
    \/ RestoreStashesFds(r)
    \/ RestoreSucceeds(r)
    \/ ResumeTakesFds(r)
    \/ ResumeUnlocksGate(r)
    \/ ResumeUnlocksIntent(r)
    \/ PanelRestarts(r)

Next ==
    \/ \E s \in Steps : Step(s)
    \/ \E r \in Restores : Restore(r)
    \/ \E p \in Procs : WorkerDies(p)

Spec == Init /\ [][Next]_vars

(***************************************************************************)
(* Threads keep running: a step that got its locks finishes, a probe lets  *)
(* go, and a restore that was requested runs to its end.  Nothing makes a  *)
(* scheduler start a step, a step probe, or a client ask for a restore;    *)
(* nothing makes a worker die.                                             *)
(***************************************************************************)
StepRuns(s) ==
    \/ StepTakesGate(s)
    \/ StepDropsIntent(s)
    \/ StepEnds(s)

RestoreRuns(r) == restorePc[r] # "idle" /\ Restore(r)

Fairness ==
    /\ \A s \in Steps : WF_vars(StepRuns(s)) /\ WF_vars(ProbeDropsIntent(s))
    /\ \A r \in Restores : WF_vars(RestoreRuns(r))

FairSpec == Spec /\ Fairness

-----------------------------------------------------------------------------
(* Properties                                                              *)

HoldsIntentSh == {"waitGate", "dropIntent"}
HoldsGateSh   == {"dropIntent", "running"}
HoldsIntentEx == {"gate", "stash", "replacing", "restartPending", "unlockGate", "unlockIntent"}
HoldsGateEx   == {"stash", "replacing", "restartPending", "unlockGate"}

\* Who holds which file follows from where the threads are in the code.
LocksFollowPcs ==
    /\ \A s \in Steps :
          /\ s \in intentSh <=> stepPc[s] \in HoldsIntentSh
          /\ s \in gateSh <=> stepPc[s] \in HoldsGateSh
          /\ s \in probing => stepPc[s] = "running"
    /\ \A r \in Restores :
          /\ r \in intentEx <=> restorePc[r] \in HoldsIntentEx
          /\ r \in gateEx <=> restorePc[r] \in HoldsGateEx

\* An exclusive lock excludes every other holder of its file.
FlockExclusion ==
    /\ \A q, r \in Restores : q \in intentEx /\ r \in intentEx => q = r
    /\ \A r \in Restores : r \in intentEx => intentSh = {} /\ probing = {}
    /\ \A r \in Restores : r \in gateEx => gateSh = {}

\* _pause_fds lists the restores past the stash, and a resume took its own.
PauseListFollowsPcs ==
    /\ \A r \in Restores, p \in Procs :
          r \in pauseFds[p] <=> Home[r] = p /\ restorePc[r] \in {"replacing", "restartPending"}
    /\ \A r \in Restores :
          /\ restorePc[r] \in {"unlockGate", "unlockIntent"} => taken[r] = {r}
          /\ restorePc[r] \notin {"unlockGate", "unlockIntent"} => taken[r] = {}

\* The inductive invariant: the locks held, in every worker, are the ones the
\* program counters account for, and flock's exclusion holds between them.
GateInv == TypeOK /\ LocksFollowPcs /\ FlockExclusion /\ PauseListFollowsPcs

\* While a restore owns the database files (from the moment pause_background_work
\* returned until the locks are given back) no background step runs.
NoStepDuringRestore ==
    \A r \in Restores : restorePc[r] \in {"stash", "replacing", "restartPending"} =>
        \A s \in Steps : stepPc[s] \notin {"dropIntent", "running"}

\* At most one restore, of all workers, is past pause_background_work.
OneRestoreAtATime ==
    \A q, r \in Restores :
        /\ restorePc[q] \in {"stash", "replacing", "restartPending"}
        /\ restorePc[r] \in {"stash", "replacing", "restartPending"}
        => q = r

\* The comment in _run_gated: "A restore takes the gate only while holding the
\* intent lock, so this never waits" - the blocking flock finds the gate sharable.
GateNeverWaits ==
    \A s \in Steps : stepPc[s] = "waitGate" => GateSharable

\* resume_background_work closes the descriptors of the whole process, yet it
\* closes only those of the restore that calls it: a restore keeps both files
\* locked until it resumes or its process ends.
ResumeUnlocksOnlyItsOwn ==
    /\ \A r \in Restores : taken[r] \subseteq {r}
    /\ \A r \in Restores : restorePc[r] \in {"replacing", "restartPending"} =>
            r \in gateEx /\ r \in intentEx /\ pauseFds[Home[r]] = {r}

\* Nobody keeps a lock after the request is over: with no restore under way the
\* schedulers can start steps again.
NoLeakedPause ==
    (\A r \in Restores : restorePc[r] = "idle") => intentEx = {} /\ gateEx = {}

\* A restore request always comes to its end (done, refused with 409, failed,
\* or ended by the restart); it never waits forever for running steps.
RestoreResolves ==
    \A r \in Restores : restorePc[r] = "intent" ~> restorePc[r] = "idle"

\* After every pause the background steps can start again, even when the panel
\* restart fails.
PauseEnds == (intentEx # {}) ~> IntentSharable
-----------------------------------------------------------------------------
(* The two files implement the abstract lock that PanelRestore is built on *)
(* (shared holders of the gate file are the running steps, its exclusive   *)
(* holder the restore that owns the database).                             *)

Lock == INSTANCE PauseLock WITH running <- gateSh, owner <- gateEx

\* background_gate.py keeps its promise: every step of the implementation is a
\* step of the abstract readers-writer lock or leaves it alone.
ImplementsPauseLock == Lock!LockSpec
=============================================================================
