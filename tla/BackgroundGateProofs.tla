------------------------ MODULE BackgroundGateProofs ------------------------
(***************************************************************************)
(* For any number of workers, background threads and restore requests:     *)
(* background steps and a restore exclude each other, and the blocking     *)
(* flock of _run_gated never waits.                                        *)
(***************************************************************************)
EXTENDS BackgroundGate, TLAPS

\* Init of BackgroundGate: no lock file is held when the panel starts.
LEMMA InitGateInv == Init => GateInv
  BY HomeAssumption
  DEF Init, GateInv, TypeOK, LocksFollowPcs, FlockExclusion, PauseListFollowsPcs,
      StepPcs, RestorePcs, HoldsIntentSh, HoldsGateSh, HoldsIntentEx, HoldsGateEx

\* Every action of _run_gated, pause_background_work and resume_background_work,
\* and the end of a process, preserve the inductive invariant.
LEMMA NextGateInv == GateInv /\ [Next]_vars => GateInv'
  <1> SUFFICES ASSUME GateInv, [Next]_vars PROVE GateInv'
    OBVIOUS
  <1> USE HomeAssumption
      DEF GateInv, TypeOK, LocksFollowPcs, FlockExclusion, PauseListFollowsPcs,
          StepPcs, RestorePcs, HoldsIntentSh, HoldsGateSh, HoldsIntentEx, HoldsGateEx
  <1>1. ASSUME NEW s \in Steps, StepTakesIntent(s) PROVE GateInv'
    BY <1>1 DEF StepTakesIntent, IntentSharable
  <1>2. ASSUME NEW s \in Steps, StepTakesGate(s) PROVE GateInv'
    BY <1>2 DEF StepTakesGate, GateSharable
  <1>3. ASSUME NEW s \in Steps, StepDropsIntent(s) PROVE GateInv'
    BY <1>3 DEF StepDropsIntent
  <1>4. ASSUME NEW s \in Steps, StepEnds(s) PROVE GateInv'
    BY <1>4 DEF StepEnds
  <1>5. ASSUME NEW s \in Steps, ProbeTakesIntent(s) PROVE GateInv'
    BY <1>5 DEF ProbeTakesIntent, IntentSharable
  <1>6. ASSUME NEW s \in Steps, ProbeDropsIntent(s) PROVE GateInv'
    BY <1>6 DEF ProbeDropsIntent
  <1>7. ASSUME NEW r \in Restores, RestoreRequested(r) PROVE GateInv'
    BY <1>7 DEF RestoreRequested
  <1>8. ASSUME NEW r \in Restores, RestoreTakesIntent(r) PROVE GateInv'
    BY <1>8 DEF RestoreTakesIntent, IntentFree
  <1>9. ASSUME NEW r \in Restores, IntentTimeout(r) PROVE GateInv'
    BY <1>9 DEF IntentTimeout
  <1>10. ASSUME NEW r \in Restores, RestoreTakesGate(r) PROVE GateInv'
    BY <1>10 DEF RestoreTakesGate, GateFree
  <1>11. ASSUME NEW r \in Restores, GateTimeout(r) PROVE GateInv'
    BY <1>11 DEF GateTimeout
  <1>12. ASSUME NEW r \in Restores, RestoreStashesFds(r) PROVE GateInv'
    BY <1>12 DEF RestoreStashesFds
  <1>13. ASSUME NEW r \in Restores, RestoreSucceeds(r) PROVE GateInv'
    BY <1>13 DEF RestoreSucceeds
  <1>14. ASSUME NEW r \in Restores, ResumeTakesFds(r) PROVE GateInv'
    <2>1. \A q \in Restores : q \in pauseFds[Home[r]] <=> q = r
      BY <1>14 DEF ResumeTakesFds
    <2>2. pauseFds[Home[r]] = {r}
      BY <2>1
    <2>3. TypeOK' /\ LocksFollowPcs' /\ FlockExclusion'
      BY <1>14, <2>2 DEF ResumeTakesFds
    <2>4. \A q \in Restores, p \in Procs :
             (q \in pauseFds[p] <=> Home[q] = p /\ restorePc[q] \in {"replacing", "restartPending"})'
      BY <1>14, <2>1 DEF ResumeTakesFds
    <2>5. PauseListFollowsPcs'
      BY <1>14, <2>2, <2>4 DEF ResumeTakesFds
    <2> QED
      BY <2>3, <2>5
  <1>15. ASSUME NEW r \in Restores, ResumeUnlocksGate(r) PROVE GateInv'
    BY <1>15 DEF ResumeUnlocksGate
  <1>16. ASSUME NEW r \in Restores, ResumeUnlocksIntent(r) PROVE GateInv'
    <2>1. taken[r] = {r}
      BY <1>16 DEF ResumeUnlocksIntent
    <2>2. TypeOK' /\ LocksFollowPcs' /\ FlockExclusion'
      BY <1>16, <2>1 DEF ResumeUnlocksIntent
    <2>3. PauseListFollowsPcs'
      BY <1>16 DEF ResumeUnlocksIntent
    <2> QED
      BY <2>2, <2>3
  <1>17. ASSUME NEW P \in SUBSET Procs, ProcessesEnd(P) PROVE GateInv'
    <2>1. TypeOK'
      BY <1>17 DEF ProcessesEnd
    <2>2. LocksFollowPcs'
      BY <1>17 DEF ProcessesEnd
    <2>3. FlockExclusion'
      BY <1>17 DEF ProcessesEnd
    <2>4. PauseListFollowsPcs'
      BY <1>17 DEF ProcessesEnd
    <2> QED
      BY <2>1, <2>2, <2>3, <2>4
  <1>18. ASSUME NEW r \in Restores, PanelRestarts(r) PROVE GateInv'
    BY <1>17, <1>18 DEF PanelRestarts
  <1>19. ASSUME NEW p \in Procs, WorkerDies(p) PROVE GateInv'
    <2>1. {p} \in SUBSET Procs
      OBVIOUS
    <2> QED
      BY <1>17, <1>19, <2>1 DEF WorkerDies
  <1>20. CASE UNCHANGED vars
    BY <1>20 DEF vars
  <1> QED
    BY <1>1, <1>2, <1>3, <1>4, <1>5, <1>6, <1>7, <1>8, <1>9, <1>10, <1>11, <1>12,
       <1>13, <1>14, <1>15, <1>16, <1>18, <1>19, <1>20
    DEF Next, Step, Restore

\* The locks held are always the ones the threads' places in the code call for.
THEOREM GateInvariant == Spec => []GateInv
  BY InitGateInv, NextGateInv, PTL DEF Spec

\* No background step runs while a restore owns the database files.
THEOREM StepsExcludeRestore == Spec => []NoStepDuringRestore
  <1>1. GateInv => NoStepDuringRestore
    BY DEF GateInv, LocksFollowPcs, FlockExclusion, NoStepDuringRestore, HoldsGateSh, HoldsGateEx
  <1> QED
    BY <1>1, GateInvariant, PTL

\* Two restores, of one worker or of two, are never both past the pause.
THEOREM RestoresExcludeEachOther == Spec => []OneRestoreAtATime
  <1>1. GateInv => OneRestoreAtATime
    BY DEF GateInv, LocksFollowPcs, FlockExclusion, OneRestoreAtATime, HoldsIntentEx
  <1> QED
    BY <1>1, GateInvariant, PTL

\* The comment in _run_gated is right: the blocking flock never waits.
THEOREM BlockingFlockNeverWaits == Spec => []GateNeverWaits
  <1>1. GateInv => GateNeverWaits
    BY DEF GateInv, TypeOK, LocksFollowPcs, FlockExclusion, GateNeverWaits, GateSharable,
           HoldsIntentSh, HoldsIntentEx, HoldsGateEx
  <1> QED
    BY <1>1, GateInvariant, PTL

\* resume_background_work, which empties the list of its whole process, never
\* unlocks the files of another restore.
THEOREM ResumeIsOwn == Spec => []ResumeUnlocksOnlyItsOwn
  <1>1. GateInv => ResumeUnlocksOnlyItsOwn
    <2> SUFFICES ASSUME GateInv, NEW r \in Restores
                 PROVE  /\ taken[r] \subseteq {r}
                        /\ restorePc[r] \in {"replacing", "restartPending"} =>
                             r \in gateEx /\ r \in intentEx /\ pauseFds[Home[r]] = {r}
      BY DEF ResumeUnlocksOnlyItsOwn
    <2> USE HomeAssumption DEF GateInv, TypeOK
    <2>1. taken[r] \subseteq {r}
      BY DEF PauseListFollowsPcs
    <2>2. ASSUME restorePc[r] \in {"replacing", "restartPending"}
          PROVE  r \in gateEx /\ r \in intentEx
      BY <2>2 DEF LocksFollowPcs, HoldsGateEx, HoldsIntentEx
    <2>3. ASSUME restorePc[r] \in {"replacing", "restartPending"}
          PROVE  pauseFds[Home[r]] = {r}
      <3>1. r \in pauseFds[Home[r]]
        BY <2>3 DEF PauseListFollowsPcs
      <3>2. ASSUME NEW q \in pauseFds[Home[r]] PROVE q = r
        <4>1. q \in Restores /\ restorePc[q] \in {"replacing", "restartPending"}
          BY <3>2 DEF PauseListFollowsPcs
        <4> QED
          BY <2>2, <2>3, <4>1 DEF LocksFollowPcs, FlockExclusion, HoldsIntentEx
      <3> QED
        BY <3>1, <3>2
    <2> QED
      BY <2>1, <2>2, <2>3
  <1> QED
    BY <1>1, GateInvariant, PTL

\* With no restore under way neither file is held exclusively.
THEOREM PauseNeverLeaks == Spec => []NoLeakedPause
  <1>1. GateInv => NoLeakedPause
    BY DEF GateInv, TypeOK, LocksFollowPcs, NoLeakedPause, HoldsIntentEx, HoldsGateEx
  <1> QED
    BY <1>1, GateInvariant, PTL

-----------------------------------------------------------------------------
(* The refinement: the shared and exclusive holders of the gate file behave *)
(* as the abstract lock does.                                              *)

LEMMA LockInitMaps == Init => Lock!LockInit
  BY DEF Init, Lock!LockInit

LEMMA LockLeaves ==
  ASSUME NEW T \in SUBSET (Steps \cup Restores), gateSh' = gateSh \ T, gateEx' = gateEx \ T
  PROVE  Lock!LockNext
  BY DEF Lock!LockNext, Lock!Leave

LEMMA LockStepMaps == GateInv /\ [Next]_vars => [Lock!LockNext]_(Lock!lockVars)
  <1> SUFFICES ASSUME GateInv, [Next]_vars
               PROVE  Lock!LockNext \/ UNCHANGED <<gateSh, gateEx>>
    BY DEF Lock!lockVars
  <1> USE DEF GateInv, TypeOK
  <1>1. ASSUME NEW s \in Steps, StepTakesGate(s) PROVE Lock!LockNext
    BY <1>1 DEF StepTakesGate, GateSharable, Lock!LockNext, Lock!StepEnters
  <1>2. ASSUME NEW s \in Steps, StepEnds(s) PROVE Lock!LockNext
    <2>1. gateSh' = gateSh \ {s} /\ gateEx' = gateEx \ {s}
      BY <1>2, ThreadsAssumption DEF StepEnds
    <2> QED
      BY <2>1, LockLeaves
  <1>3. ASSUME NEW s \in Steps,
               \/ StepTakesIntent(s) \/ StepDropsIntent(s)
               \/ ProbeTakesIntent(s) \/ ProbeDropsIntent(s)
        PROVE  UNCHANGED <<gateSh, gateEx>>
    BY <1>3 DEF StepTakesIntent, StepDropsIntent, ProbeTakesIntent, ProbeDropsIntent
  <1>4. ASSUME NEW r \in Restores, RestoreTakesGate(r) PROVE Lock!LockNext
    <2>1. gateEx' = {r} /\ gateEx = {} /\ gateSh = {} /\ gateSh' = gateSh
      BY <1>4 DEF RestoreTakesGate, GateFree
    <2> QED
      BY <2>1 DEF Lock!LockNext, Lock!RestoreEnters
  <1>5. ASSUME NEW r \in Restores, ResumeUnlocksGate(r) PROVE Lock!LockNext
    <2>1. taken[r] \subseteq Restores
      BY <1>5
    <2>2. gateSh' = gateSh \ taken[r] /\ gateEx' = gateEx \ taken[r]
      BY <1>5, <2>1, ThreadsAssumption DEF ResumeUnlocksGate
    <2> QED
      BY <2>1, <2>2, LockLeaves
  <1>6. ASSUME NEW r \in Restores,
               \/ RestoreRequested(r) \/ RestoreTakesIntent(r) \/ IntentTimeout(r) \/ GateTimeout(r)
               \/ RestoreStashesFds(r) \/ RestoreSucceeds(r) \/ ResumeTakesFds(r)
               \/ ResumeUnlocksIntent(r)
        PROVE  UNCHANGED <<gateSh, gateEx>>
    BY <1>6 DEF RestoreRequested, RestoreTakesIntent, IntentTimeout, GateTimeout,
                RestoreStashesFds, RestoreSucceeds, ResumeTakesFds, ResumeUnlocksIntent
  <1>7. ASSUME NEW P \in SUBSET Procs, ProcessesEnd(P) PROVE Lock!LockNext
    <2> DEFINE gone == {t \in Steps \cup Restores : Home[t] \in P}
    <2>1. gone \in SUBSET (Steps \cup Restores)
      OBVIOUS
    <2>2. gateSh' = gateSh \ gone /\ gateEx' = gateEx \ gone
      BY <1>7 DEF ProcessesEnd
    <2> QED
      BY <2>1, <2>2, LockLeaves
  <1>8. ASSUME NEW r \in Restores, PanelRestarts(r) PROVE Lock!LockNext
    BY <1>8, <1>7 DEF PanelRestarts
  <1>9. ASSUME NEW p \in Procs, WorkerDies(p) PROVE Lock!LockNext
    BY <1>9, <1>7 DEF WorkerDies
  <1>10. ASSUME UNCHANGED vars PROVE UNCHANGED <<gateSh, gateEx>>
    BY <1>10 DEF vars
  <1> QED
    BY <1>1, <1>2, <1>3, <1>4, <1>5, <1>6, <1>8, <1>9, <1>10 DEF Next, Step, Restore

\* background_gate.py implements the abstract lock: the restore that owns the gate
\* file is alone, and the steps and restores come and go as PauseLock allows.
THEOREM GateImplementsLock == Spec => ImplementsPauseLock
  <1>1. Init => Lock!LockInit
    BY LockInitMaps
  <1>2. GateInv /\ [Next]_vars => [Lock!LockNext]_(Lock!lockVars)
    BY LockStepMaps
  <1> QED
    BY <1>1, <1>2, GateInvariant, PTL DEF Spec, ImplementsPauseLock, Lock!LockSpec
=============================================================================
