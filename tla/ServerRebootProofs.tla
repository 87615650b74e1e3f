------------------------ MODULE ServerRebootProofs -------------------------
(***************************************************************************)
(* Proofs about ServerReboot, for any workers, nodes, requests and records *)
(* and any number of deaths and lost updates: a cancelled reboot never     *)
(* reaches its node, outcomes are final, and two reboots of one node are   *)
(* not under way together.                                                 *)
(***************************************************************************)
EXTENDS ServerReboot, PanelWorkersProofs

Record == [status : ACTIVE_STATUSES \cup FinalStatuses, node : Nodes, owner : Owners]
ReadReq == [pc : {"read"}, worker : Workers, node : Nodes, ids : SUBSET Reboots]
CancelReq == [pc : {"cancelled"}, worker : Workers, reboot : Reboots]

\* A request is served by a worker that serves.
Served == \A q \in Requests : req[q] # Idle => up[req[q].worker] = "serving"

\* A timer belongs to a record whose process is alive; no record is from the future.
TimersOwned ==
    \A r \in Reboots : timer[r] # "none" => rec[r] # NoRec /\ is_owner_alive(rec[r].owner)
OwnersPast ==
    \A r \in Reboots : rec[r] # NoRec => rec[r].owner[2] <= ticks[rec[r].owner[1]]

\* The callback was called only under a claim, and a running one still has it
\* unless its record was given up as late.
RanClaimed == \A r \in ran : rec[r].status \in {"executing", "executed", "failed", "interrupted"}
RunningClaimed ==
    \A r \in Reboots : timer[r] = "running" => rec[r].status = "executing" \/ r \in late

\* What a schedule request read as abandoned is so for good.
ReadAbandoned ==
    \A q \in Requests : req[q].pc = "read" =>
        \A r \in req[q].ids : rec[r] # NoRec /\ (r \in late \/ ~is_owner_alive(rec[r].owner))

\* The unique index.
OneActive ==
    \A r, s \in Reboots : Active(r) /\ Active(s) /\ rec[r].node = rec[s].node => r = s

RebootIInv ==
    /\ TypeOK /\ TicksBounded /\ Served /\ TimersOwned /\ OwnersPast
    /\ RanClaimed /\ RunningClaimed /\ ReadAbandoned /\ OneActive

-----------------------------------------------------------------------------
(* Records and requests.                                                   *)

\* A record that has left "none" is a full one.
LEMMA FullRecord ==
  ASSUME TypeOK, NEW r \in Reboots
  PROVE  /\ rec[r] # NoRec => rec[r] \in Record
         /\ rec[r].status # "none" => rec[r] # NoRec
         /\ rec[r] # NoRec => rec[r].status # "none"
         /\ rec[r] # NoRec => rec[r].owner[1] \in Workers /\ rec[r].owner[2] \in Nat
  BY WorkersAssumption DEF TypeOK, Record, NoRec, ACTIVE_STATUSES, FinalStatuses, Owners

\* What a request in progress holds.
LEMMA FullRequest ==
  ASSUME TypeOK, NEW q \in Requests
  PROVE  /\ req[q].pc = "read" => req[q] \in ReadReq /\ req[q] # Idle
         /\ req[q].pc = "cancelled" => req[q] \in CancelReq /\ req[q] # Idle
         /\ req[q] # Idle => req[q].worker \in Workers
         /\ Idle.pc = "idle"
  BY DEF TypeOK, ReadReq, CancelReq, Idle

\* An active record is a full one.
LEMMA ActiveRecord ==
  ASSUME TypeOK, NEW r \in Reboots, Active(r)
  PROVE  rec[r] \in Record /\ rec[r] # NoRec
  BY FullRecord DEF Active, ACTIVE_STATUSES

-----------------------------------------------------------------------------
(* Processes.                                                              *)

\* No process ends, and the workers of requests go on serving.
Quiet == Calm /\ \A q \in Requests : req[q] # Idle => up'[req[q].worker] = "serving"

\* Quiet steps end no process, and bring back none that ended.
LEMMA AliveQuiet ==
  ASSUME TypeOK, Quiet, NEW r \in Reboots, rec[r] # NoRec, OwnersPast
  PROVE  /\ is_owner_alive(rec[r].owner) <=>
              (up'[rec[r].owner[1]] # "down" /\ ticks'[rec[r].owner[1]] = rec[r].owner[2])
         /\ rec[r].owner[2] <= ticks'[rec[r].owner[1]]
  <1>1. rec[r].owner[1] \in Workers /\ rec[r].owner[2] \in Nat
    BY FullRecord
  <1>2. ticks[rec[r].owner[1]] \in Nat
    BY <1>1, WorkersAssumption DEF TypeOK, WorkersTypeOK
  <1>3. rec[r].owner[2] <= ticks[rec[r].owner[1]]
    BY DEF OwnersPast
  <1>4. ASSUME NEW v \in Workers, NEW t \in Nat, ticks[v] \in Nat, t <= ticks[v]
        PROVE  /\ (up[v] # "down" /\ ticks[v] = t) <=> (up'[v] # "down" /\ ticks'[v] = t)
               /\ t <= ticks'[v]
    <2>1. CASE up[v] # "down"
      BY <1>4, <2>1 DEF Quiet, Calm
    <2>2. CASE up[v] = "down" /\ ticks'[v] = ticks[v] /\ up'[v] = "down"
      BY <1>4, <2>2
    <2>3. CASE up[v] = "down" /\ ticks'[v] > ticks[v]
      <3>0. ticks'[v] \in Nat
        BY DEF Quiet, Calm
      <3>1. ticks'[v] > t
        BY <1>4, <2>3, <3>0
      <3> QED
        BY <1>4, <2>3, <3>0, <3>1
    <2> QED
      BY <2>1, <2>2, <2>3 DEF Quiet, Calm
  <1> QED
    BY <1>1, <1>2, <1>3, <1>4 DEF is_owner_alive

\* The steps of a living worker are quiet; a worker stops when it has no requests.
LEMMA QuietSteps ==
  ASSUME RebootIInv, NEW w \in Workers, Alive(w), Stops(w) => \A q \in Requests : req[q].worker # w
  PROVE  WorkersTypeOK' /\ TicksBounded' /\ Quiet
  <1>0. WorkersTypeOK /\ TicksBounded /\ Served /\ \A q \in Requests : req[q] # Idle => req[q].worker \in Workers
    BY FullRequest DEF RebootIInv, TypeOK
  <1> QED
    BY <1>0, CalmSteps DEF Quiet, Served

\* A quiet step that touches no record keeps everything.
LEMMA QuietKeeps ==
  ASSUME RebootIInv, Quiet, WorkersTypeOK', TicksBounded', UNCHANGED rebootVars
  PROVE  RebootIInv'
  <1>0. TypeOK /\ OwnersPast /\ UNCHANGED <<rec, timer, late, ran, req>>
    BY DEF RebootIInv, rebootVars
  <1>1. TypeOK'
    BY <1>0 DEF TypeOK, NoRec, Idle
  <1>2. Served'
    BY <1>0 DEF Served, Quiet, Idle
  <1>3. TimersOwned' /\ OwnersPast'
    BY <1>0, AliveQuiet DEF RebootIInv, TimersOwned, OwnersPast, is_owner_alive, NoRec
  <1>4. ReadAbandoned'
    <2> SUFFICES ASSUME NEW q \in Requests, req[q].pc = "read", NEW r \in req[q].ids
                 PROVE  rec[r] # NoRec /\ (r \in late \/ ~is_owner_alive(rec[r].owner)')
      BY <1>0 DEF ReadAbandoned, NoRec
    <2>1. r \in Reboots
      BY <1>0, FullRequest DEF ReadReq
    <2> QED
      BY <1>0, <2>1, AliveQuiet DEF RebootIInv, ReadAbandoned, is_owner_alive
  <1>5. RanClaimed' /\ RunningClaimed' /\ OneActive'
    BY <1>0 DEF RebootIInv, RanClaimed, RunningClaimed, OneActive, Active
  <1> QED
    BY <1>1, <1>2, <1>3, <1>4, <1>5 DEF RebootIInv

\* The end of a process takes its timers and its requests with it.
LEMMA EndsKeep ==
  ASSUME RebootIInv, NEW w \in Workers, WorkerExits(w) \/ WorkerDies(w)
  PROVE  RebootIInv'
  <1> USE WorkersAssumption
  <1>0. /\ TypeOK /\ WorkersTypeOK /\ TicksBounded /\ Served /\ TimersOwned /\ OwnersPast
        /\ RanClaimed /\ RunningClaimed /\ ReadAbandoned /\ OneActive
    BY DEF RebootIInv, TypeOK
  <1>1. /\ up' = [up EXCEPT ![w] = "down"] /\ ticks' = ticks
        /\ timer' = [r \in Reboots |-> IF rec[r].owner[1] = w THEN "none" ELSE timer[r]]
        /\ UNCHANGED <<rec, late, ran>>
    BY DEF WorkerExits, WorkerDies, Exits, Dies, TimersEnd
  <1>2. WorkersTypeOK' /\ TicksBounded'
    BY <1>0, EndSteps DEF WorkerExits, WorkerDies
  <1>3. req' = [q \in Requests |-> IF req[q].worker = w THEN Idle ELSE req[q]]
    <2>1. CASE WorkerDies(w)
      BY <2>1 DEF WorkerDies
    <2>2. CASE WorkerExits(w)
      <3>1. req' = req /\ up[w] = "stopping"
        BY <2>2 DEF WorkerExits, Exits
      <3>2. \A q \in Requests : req[q].worker = w => req[q] = Idle
        BY <1>0, <3>1 DEF Served
      <3>3. req = [q \in Requests |-> req[q]]
        BY <1>0 DEF TypeOK
      <3> QED
        BY <3>1, <3>2, <3>3
    <2> QED
      BY <2>1, <2>2
  <1>4. TypeOK'
    BY <1>0, <1>1, <1>2, <1>3 DEF TypeOK, NoRec, Idle
  <1>5. Served'
    BY <1>0, <1>1, <1>3, FullRequest DEF Served, Idle, WorkersTypeOK
  <1>6. TimersOwned' /\ OwnersPast'
    BY <1>0, <1>1, FullRecord DEF TimersOwned, OwnersPast, is_owner_alive, NoRec, WorkersTypeOK
  <1>7. ReadAbandoned'
    <2> SUFFICES ASSUME NEW q \in Requests, req'[q].pc = "read", NEW r \in req'[q].ids
                 PROVE  rec[r] # NoRec /\ (r \in late \/ ~is_owner_alive(rec[r].owner)')
      BY <1>1 DEF ReadAbandoned, NoRec
    <2>1. req'[q] = req[q]
      BY <1>0, <1>3, FullRequest
    <2>2. r \in Reboots /\ rec[r] # NoRec /\ (r \in late \/ ~is_owner_alive(rec[r].owner))
      BY <1>0, <2>1, FullRequest DEF ReadAbandoned, ReadReq
    <2> QED
      BY <1>0, <1>1, <2>2, FullRecord DEF is_owner_alive, WorkersTypeOK
  <1>8. RanClaimed' /\ RunningClaimed' /\ OneActive'
    BY <1>0, <1>1 DEF RanClaimed, RunningClaimed, OneActive, Active, TypeOK
  <1> QED
    BY <1>2, <1>4, <1>5, <1>6, <1>7, <1>8 DEF RebootIInv

-----------------------------------------------------------------------------
(* Requests and timers: no process starts or ends.                         *)

\* Such a step is quiet.
LEMMA StillWorkers ==
  ASSUME RebootIInv, Still, UNCHANGED faults \/ Fault
  PROVE  WorkersTypeOK' /\ TicksBounded' /\ Quiet
  <1>1. WorkersTypeOK /\ TicksBounded /\ Served
    BY DEF RebootIInv, TypeOK
  <1>2. WorkersTypeOK' /\ TicksBounded' /\ Calm
    BY <1>1, StillSteps
  <1>3. Quiet
    BY <1>1, <1>2 DEF Still, Served, Quiet
  <1> QED
    BY <1>2, <1>3

\* Records only lose activity, nothing else about them changes but their status.
Subsides ==
    /\ rec' \in [Reboots -> Record \cup {NoRec}]
    /\ \A x \in Reboots : /\ rec'[x].owner = rec[x].owner
                          /\ rec'[x].node = rec[x].node
                          /\ rec'[x] = NoRec <=> rec[x] = NoRec
                          /\ rec'[x].status \in ACTIVE_STATUSES => Active(x)

\* Such a step keeps what is said of owners, requests and the index.
LEMMA SubsidesKeeps ==
  ASSUME RebootIInv, Quiet, WorkersTypeOK', TicksBounded', Subsides,
         timer' \in [Reboots -> {"none", "armed", "running"}],
         \A x \in Reboots : timer[x] = "none" => timer'[x] = "none",
         late \subseteq late', late' \subseteq Reboots, ran' \subseteq Reboots,
         req' \in [Requests -> ReadReq \cup CancelReq \cup {Idle}],
         \A q \in Requests : \/ req'[q] = req[q]
                             \/ req'[q] = Idle
                             \/ /\ up'[req'[q].worker] = "serving"
                                /\ req'[q].pc = "read" => req'[q].ids \subseteq AbandonedIds /\ rec' = rec,
         RanClaimed', RunningClaimed'
  PROVE  RebootIInv'
  <1>0. /\ TypeOK /\ TicksBounded /\ Served /\ TimersOwned /\ OwnersPast
        /\ RanClaimed /\ RunningClaimed /\ ReadAbandoned /\ OneActive
    BY DEF RebootIInv
  <1>2. TypeOK'
    BY DEF TypeOK, Subsides, Record, ReadReq, CancelReq
  <1>3. Served'
    BY <1>0 DEF Served, Quiet, Idle
  <1>4. TimersOwned' /\ OwnersPast'
    <2> SUFFICES ASSUME NEW r \in Reboots, rec'[r] # NoRec
                 PROVE  /\ timer'[r] # "none" => is_owner_alive(rec[r].owner)'
                        /\ (rec[r].owner[2] <= ticks[rec[r].owner[1]])'
      <3>1. \A r \in Reboots : timer'[r] # "none" => rec'[r] # NoRec
        BY <1>0 DEF TimersOwned, Subsides
      <3> QED
        BY <3>1 DEF TimersOwned, OwnersPast, NoRec
    <2>1. rec[r] # NoRec /\ rec'[r].owner = rec[r].owner
      BY DEF Subsides
    <2>2. timer'[r] # "none" => is_owner_alive(rec[r].owner)
      BY <1>0 DEF TimersOwned
    <2> QED
      BY <1>0, <2>1, <2>2, AliveQuiet DEF is_owner_alive
  <1>5. ReadAbandoned'
    <2> SUFFICES ASSUME NEW q \in Requests, req'[q].pc = "read", NEW r \in req'[q].ids
                 PROVE  rec'[r] # NoRec /\ (r \in late' \/ ~is_owner_alive(rec[r].owner)')
      BY DEF ReadAbandoned, NoRec
    <2>1. r \in Reboots /\ rec[r] # NoRec /\ (r \in late \/ ~is_owner_alive(rec[r].owner))
      <3>1. CASE req'[q] = req[q]
        BY <1>0, <3>1, FullRequest DEF ReadAbandoned, ReadReq
      <3>2. CASE req'[q].ids \subseteq AbandonedIds /\ rec' = rec
        BY <1>0, <3>2, ActiveRecord DEF AbandonedIds, is_abandoned
      <3> QED
        BY <3>1, <3>2 DEF Idle
    <2>2. rec'[r] # NoRec /\ rec'[r].owner = rec[r].owner
      BY <2>1 DEF Subsides
    <2> QED
      BY <1>0, <2>1, <2>2, AliveQuiet DEF is_owner_alive
  <1>6. OneActive'
    BY <1>0 DEF OneActive, Active, Subsides
  <1> QED
    BY <1>2, <1>3, <1>4, <1>5, <1>6 DEF RebootIInv

\* A step without records keeps them.
LEMMA SameRecords ==
  ASSUME RebootIInv, rec' = rec
  PROVE  Subsides
  BY DEF RebootIInv, TypeOK, Record, Subsides, Active

\* The compare-and-set changes an active record or nothing.
LEMMA SetStatusStep ==
  ASSUME RebootIInv, NEW r \in Reboots,
         NEW e \in ACTIVE_STATUSES, NEW s \in {"executing"} \cup FinalStatuses,
         s = "executing" => e = "pending",
         set_status(r, e, s)
  PROVE  /\ Subsides
         /\ \A x \in Reboots \ {r} : rec'[x] = rec[x]
         /\ rec'[r].status = IF rec[r].status = e THEN s ELSE rec[r].status
         /\ rec[r].status # e => rec'[r] = rec[r]
  <1>0. TypeOK
    BY DEF RebootIInv
  <1>1. CASE rec[r].status = e
    <2>1. /\ Active(r) /\ rec' = [rec EXCEPT ![r].status = s]
          /\ s \in ACTIVE_STATUSES \cup FinalStatuses /\ s \notin {"pending"}
          /\ s = "executing" => rec[r].status = "pending"
      BY <1>1 DEF set_status, Active, ACTIVE_STATUSES, FinalStatuses
    <2>2. \A x \in Reboots \ {r} : rec'[x] = rec[x]
      BY <1>0, <2>1 DEF TypeOK
    <2>3. Subsides /\ rec'[r].status = s
      <3>1. rec \in [Reboots -> Record \cup {NoRec}] /\ rec[r] \in Record
        BY <1>0, <2>1, ActiveRecord DEF TypeOK, Record
      <3>2. /\ [rec[r] EXCEPT !.status = s] \in Record
            /\ [rec[r] EXCEPT !.status = s].owner = rec[r].owner
            /\ [rec[r] EXCEPT !.status = s].node = rec[r].node
            /\ [rec[r] EXCEPT !.status = s].status = s
        BY <2>1, <3>1 DEF Record
      <3>3. s # "none" /\ NoRec.status = "none"
        BY <2>1 DEF NoRec, ACTIVE_STATUSES, FinalStatuses
      <3>4. \A x \in Reboots : rec'[x] = IF x = r THEN [rec[r] EXCEPT !.status = s] ELSE rec[x]
        BY <2>1, <3>1
      <3>5. rec' \in [Reboots -> Record \cup {NoRec}]
        BY <2>1, <3>1, <3>2
      <3> QED
        BY <1>0, <2>1, <3>1, <3>2, <3>3, <3>4, <3>5, ActiveRecord DEF Active, Subsides
    <2> QED
      BY <1>1, <2>2, <2>3
  <1>2. CASE rec[r].status # e
    BY <1>2, SameRecords DEF set_status
  <1> QED
    BY <1>1, <1>2

\* The clean-up changes active records of its ids, to interrupted.
LEMMA InterruptedStep ==
  ASSUME RebootIInv, NEW ids, NEW x \in Reboots
  PROVE  /\ Interrupted(ids)[x] \in Record \cup {NoRec}
         /\ Interrupted(ids)[x].owner = rec[x].owner
         /\ Interrupted(ids)[x].node = rec[x].node
         /\ Interrupted(ids)[x] = NoRec <=> rec[x] = NoRec
         /\ Interrupted(ids)[x].status \in ACTIVE_STATUSES => Active(x) /\ x \notin ids
         /\ Interrupted(ids)[x] = rec[x] \/ (Active(x) /\ x \in ids /\ Interrupted(ids)[x].status = "interrupted")
  <1>0. TypeOK /\ rec[x] \in Record \cup {NoRec}
    BY DEF RebootIInv, TypeOK, Record
  <1>1. CASE x \in ids /\ Active(x)
    <2>1. rec[x] \in Record /\ rec[x] # NoRec
      BY <1>0, <1>1, ActiveRecord
    <2>2. /\ [rec[x] EXCEPT !.status = "interrupted"] \in Record
          /\ [rec[x] EXCEPT !.status = "interrupted"].owner = rec[x].owner
          /\ [rec[x] EXCEPT !.status = "interrupted"].node = rec[x].node
          /\ [rec[x] EXCEPT !.status = "interrupted"].status = "interrupted"
      BY <2>1 DEF Record, FinalStatuses
    <2>3. Interrupted(ids)[x] = [rec[x] EXCEPT !.status = "interrupted"]
      BY <1>1 DEF Interrupted
    <2>4. NoRec.status = "none"
      BY DEF NoRec
    <2> QED
      BY <1>1, <2>1, <2>2, <2>3, <2>4 DEF ACTIVE_STATUSES
  <1>2. CASE ~(x \in ids /\ Active(x))
    <2>1. Interrupted(ids)[x] = rec[x]
      BY <1>2 DEF Interrupted
    <2> QED
      BY <1>0, <1>2, <2>1 DEF Active
  <1> QED
    BY <1>1, <1>2

-----------------------------------------------------------------------------
(* One step per action.                                                    *)

\* What a request reads as abandoned is so: its owner is dead, or it is late.
LEMMA ScheduleReadsKeeps ==
  ASSUME RebootIInv, NEW q \in Requests, NEW w \in Workers, NEW n \in Nodes,
         ScheduleReads(q, w, n)
  PROVE  RebootIInv'
  <1>0. TypeOK /\ RanClaimed /\ RunningClaimed
    BY DEF RebootIInv
  <1>1. /\ UNCHANGED <<rec, timer, late, ran>> /\ Still /\ faults' = faults /\ up[w] = "serving"
        /\ req' = [req EXCEPT ![q] = [pc |-> "read", worker |-> w, node |-> n, ids |-> AbandonedIds]]
    BY DEF ScheduleReads, workerVars, Still
  <1>2. WorkersTypeOK' /\ TicksBounded' /\ Quiet /\ Subsides
    BY <1>1, StillWorkers, SameRecords
  <1>3. AbandonedIds \subseteq Reboots
    BY DEF AbandonedIds
  <1>4. /\ req' \in [Requests -> ReadReq \cup CancelReq \cup {Idle}]
        /\ \A p \in Requests \ {q} : req'[p] = req[p]
        /\ up'[req'[q].worker] = "serving"
        /\ req'[q].pc = "read" => req'[q].ids \subseteq AbandonedIds /\ rec' = rec
    BY <1>0, <1>1, <1>3 DEF TypeOK, ReadReq, CancelReq, Still
  <1>5. RanClaimed' /\ RunningClaimed'
    BY <1>0, <1>1 DEF RanClaimed, RunningClaimed
  <1>6. /\ timer' \in [Reboots -> {"none", "armed", "running"}]
        /\ \A x \in Reboots : timer[x] = "none" => timer'[x] = "none"
        /\ late \subseteq late' /\ late' \subseteq Reboots /\ ran' \subseteq Reboots
    BY <1>0, <1>1 DEF TypeOK
  <1> QED
    BY <1>2, <1>4, <1>5, <1>6, SubsidesKeeps

\* A pending record, whose callback was not called, is cancelled.
LEMMA CancelKeeps ==
  ASSUME RebootIInv, NEW q \in Requests, NEW w \in Workers, NEW r \in Reboots,
         cancel_reboot(q, w, r)
  PROVE  RebootIInv'
  <1>0. TypeOK /\ RanClaimed /\ RunningClaimed
    BY DEF RebootIInv
  <1>1. /\ UNCHANGED <<timer, late, ran>> /\ Still /\ faults' = faults /\ up[w] = "serving"
        /\ req' = [req EXCEPT ![q] = [pc |-> "cancelled", worker |-> w, reboot |-> r]]
        /\ rec[r].status = "pending" /\ set_status(r, "pending", "cancelled")
    BY DEF cancel_reboot, workerVars, Still
  <1>2. WorkersTypeOK' /\ TicksBounded' /\ Quiet
    BY <1>1, StillWorkers
  <1>3. /\ Subsides /\ \A x \in Reboots \ {r} : rec'[x] = rec[x]
        /\ rec'[r].status = "cancelled"
    BY <1>1, SetStatusStep DEF ACTIVE_STATUSES, FinalStatuses
  <1>4. /\ req' \in [Requests -> ReadReq \cup CancelReq \cup {Idle}]
        /\ \A p \in Requests \ {q} : req'[p] = req[p]
        /\ up'[req'[q].worker] = "serving"
        /\ req'[q].pc # "read"
    BY <1>0, <1>1 DEF TypeOK, ReadReq, CancelReq, Still
  <1>5. RanClaimed' /\ RunningClaimed'
    BY <1>0, <1>1, <1>3 DEF RanClaimed, RunningClaimed, TypeOK
  <1>6. /\ timer' \in [Reboots -> {"none", "armed", "running"}]
        /\ \A x \in Reboots : timer[x] = "none" => timer'[x] = "none"
        /\ late \subseteq late' /\ late' \subseteq Reboots /\ ran' \subseteq Reboots
    BY <1>0, <1>1 DEF TypeOK
  <1> QED
    BY <1>2, <1>3, <1>4, <1>5, <1>6, SubsidesKeeps

\* The end of a cancel request stops at most one timer.
LEMMA CancelStopsTimerKeeps ==
  ASSUME RebootIInv, NEW q \in Requests, CancelStopsTimer(q)
  PROVE  RebootIInv'
  <1>0. TypeOK /\ RanClaimed /\ RunningClaimed
    BY DEF RebootIInv
  <1>1. /\ UNCHANGED <<rec, late, ran>> /\ Still /\ faults' = faults
        /\ req' = [req EXCEPT ![q] = Idle]
        /\ timer' = [timer EXCEPT ![req[q].reboot] = "none"] \/ timer' = timer
    BY DEF CancelStopsTimer, workerVars, Still
  <1>2. WorkersTypeOK' /\ TicksBounded' /\ Quiet /\ Subsides
    BY <1>1, StillWorkers, SameRecords
  <1>4. /\ req' \in [Requests -> ReadReq \cup CancelReq \cup {Idle}]
        /\ \A p \in Requests : req'[p] = req[p] \/ req'[p] = Idle
    BY <1>0, <1>1 DEF TypeOK, ReadReq, CancelReq
  <1>5. /\ timer' \in [Reboots -> {"none", "armed", "running"}]
        /\ \A x \in Reboots : timer'[x] = timer[x] \/ timer'[x] = "none"
    BY <1>0, <1>1 DEF TypeOK
  <1>6. RanClaimed' /\ RunningClaimed'
    BY <1>0, <1>1, <1>5 DEF RanClaimed, RunningClaimed
  <1>7. late \subseteq late' /\ late' \subseteq Reboots /\ ran' \subseteq Reboots
    BY <1>0, <1>1 DEF TypeOK
  <1> QED
    BY <1>2, <1>4, <1>5, <1>6, <1>7, SubsidesKeeps

\* Steps of a record's timer: no request changes.
LEMMA TimerKeeps ==
  ASSUME RebootIInv, NEW r \in Reboots,
         TimerFires(r) \/ RebootEnds(r) \/ RebootUpdateLost(r) \/ TimePasses(r)
  PROVE  RebootIInv'
  <1>0. TypeOK /\ RanClaimed /\ RunningClaimed
    BY DEF RebootIInv
  <1>1. req' = req /\ Still /\ (UNCHANGED faults \/ Fault)
    BY DEF TimerFires, RebootEnds, RebootUpdateLost, TimePasses, workerVars, Still
  <1>2. WorkersTypeOK' /\ TicksBounded' /\ Quiet
    BY <1>1, StillWorkers
  <1>3. req' \in [Requests -> ReadReq \cup CancelReq \cup {Idle}]
    BY <1>0, <1>1 DEF TypeOK, ReadReq, CancelReq
  <1>4. /\ Subsides
        /\ timer' \in [Reboots -> {"none", "armed", "running"}]
        /\ \A x \in Reboots : timer[x] = "none" => timer'[x] = "none"
        /\ late \subseteq late' /\ late' \subseteq Reboots /\ ran' \subseteq Reboots
        /\ RanClaimed' /\ RunningClaimed'
    <2>1. CASE TimerFires(r)
      <3>1. /\ Subsides /\ \A x \in Reboots \ {r} : rec'[x] = rec[x]
            /\ rec'[r].status = IF rec[r].status = "pending" THEN "executing" ELSE rec[r].status
        BY <2>1, SetStatusStep DEF TimerFires, ACTIVE_STATUSES
      <3>2. timer[r] = "armed" /\ late' = late
        BY <2>1 DEF TimerFires
      <3>3. CASE rec'[r].status = "executing"
        <4>1. timer' = [timer EXCEPT ![r] = "running"] /\ ran' = ran \cup {r}
          BY <2>1, <3>3 DEF TimerFires
        <4> QED
          BY <1>0, <3>1, <3>2, <3>3, <4>1 DEF TypeOK, RanClaimed, RunningClaimed
      <3>4. CASE rec'[r].status # "executing"
        <4>1. timer' = [timer EXCEPT ![r] = "none"] /\ ran' = ran
          BY <2>1, <3>4 DEF TimerFires
        <4> QED
          BY <1>0, <3>1, <3>2, <3>4, <4>1 DEF TypeOK, RanClaimed, RunningClaimed
      <3> QED
        BY <3>3, <3>4
    <2>2. CASE RebootEnds(r)
      <3>1. PICK s \in {"executed", "failed"} : set_status(r, "executing", s)
        BY <2>2 DEF RebootEnds
      <3>2. /\ Subsides /\ \A x \in Reboots \ {r} : rec'[x] = rec[x]
            /\ rec'[r].status = IF rec[r].status = "executing" THEN s ELSE rec[r].status
        <4>1. "executing" \in ACTIVE_STATUSES /\ s \in {"executing"} \cup FinalStatuses /\ s # "executing"
          BY <3>1 DEF ACTIVE_STATUSES, FinalStatuses
        <4> QED
          BY <3>1, <4>1, SetStatusStep
      <3>3. timer' = [timer EXCEPT ![r] = "none"] /\ late' = late /\ ran' = ran
        BY <2>2 DEF RebootEnds
      <3> QED
        BY <1>0, <3>1, <3>2, <3>3 DEF TypeOK, RanClaimed, RunningClaimed
    <2>3. CASE RebootUpdateLost(r)
      BY <1>0, <2>3, SameRecords DEF RebootUpdateLost, TypeOK, RanClaimed, RunningClaimed
    <2>4. CASE TimePasses(r)
      BY <1>0, <2>4, SameRecords DEF TimePasses, TypeOK, RanClaimed, RunningClaimed
    <2> QED
      BY <2>1, <2>2, <2>3, <2>4
  <1> QED
    BY <1>1, <1>2, <1>3, <1>4, SubsidesKeeps

\* The startup action interrupts no record whose timer runs on time.
LEMMA InterruptKeeps ==
  ASSUME RebootIInv, NEW w \in Workers, interrupt_abandoned_reboots(w)
  PROVE  RebootIInv'
  <1>0. TypeOK /\ RanClaimed /\ RunningClaimed /\ TimersOwned
    BY DEF RebootIInv
  <1>1. /\ UNCHANGED <<timer, late, ran, req>>
        /\ todo[w] # 0 /\ StartupGoesOn(w) /\ UNCHANGED faults
        /\ rec' = Interrupted(AbandonedIds)
    BY DEF interrupt_abandoned_reboots
  <1>2. WorkersTypeOK' /\ TicksBounded' /\ Quiet
    BY <1>0, <1>1, NoStop, QuietSteps DEF Alive, TypeOK
  <1>3. DOMAIN rec' = Reboots /\ rec' = [x \in Reboots |-> rec'[x]]
    BY <1>1 DEF Interrupted
  <1>4. Subsides
    BY <1>1, <1>3, InterruptedStep DEF Subsides
  <1>5. RanClaimed'
    BY <1>0, <1>1, InterruptedStep DEF RanClaimed, TypeOK
  <1>6. RunningClaimed'
    <2> SUFFICES ASSUME NEW x \in Reboots, timer[x] = "running", x \notin late
                 PROVE  rec'[x].status = "executing"
      BY <1>1 DEF RunningClaimed
    <2>1. rec[x].status = "executing" /\ is_owner_alive(rec[x].owner)
      BY <1>0 DEF RunningClaimed, TimersOwned
    <2>2. x \notin AbandonedIds
      BY <2>1 DEF AbandonedIds, is_abandoned
    <2> QED
      BY <1>1, <2>1, <2>2, InterruptedStep
  <1>7. /\ timer' \in [Reboots -> {"none", "armed", "running"}]
        /\ late \subseteq late' /\ late' \subseteq Reboots /\ ran' \subseteq Reboots
        /\ req' \in [Requests -> ReadReq \cup CancelReq \cup {Idle}]
    BY <1>0, <1>1 DEF TypeOK, ReadReq, CancelReq
  <1> QED
    BY <1>1, <1>2, <1>4, <1>5, <1>6, <1>7, SubsidesKeeps

\* A schedule request inserts a record of a node that no active record has.
LEMMA ScheduleKeeps ==
  ASSUME RebootIInv, NEW q \in Requests, schedule_reboot(q)
  PROVE  RebootIInv'
  <1>0. /\ TypeOK /\ TicksBounded /\ Served /\ TimersOwned /\ OwnersPast
        /\ RanClaimed /\ RunningClaimed /\ ReadAbandoned /\ OneActive
    BY DEF RebootIInv
  <1>1. /\ UNCHANGED <<late, ran>> /\ Still /\ faults' = faults
        /\ req' = [req EXCEPT ![q] = Idle] /\ req[q].pc = "read" /\ Free # {}
    BY DEF schedule_reboot, workerVars, Still
  <1>2. WorkersTypeOK' /\ TicksBounded' /\ Quiet
    BY <1>1, StillWorkers
  <1>3. /\ req' \in [Requests -> ReadReq \cup CancelReq \cup {Idle}]
        /\ \A p \in Requests : req'[p] = req[p] \/ req'[p] = Idle
    BY <1>0, <1>1 DEF TypeOK, ReadReq, CancelReq
  <1>4. late \subseteq late' /\ late' \subseteq Reboots /\ ran' \subseteq Reboots
    BY <1>0, <1>1 DEF TypeOK
  <1>5. CASE NodeTaken(req[q].node, Interrupted(req[q].ids))
    <2>1. rec' = rec /\ timer' = timer
      BY <1>5 DEF schedule_reboot
    <2>2. RanClaimed' /\ RunningClaimed' /\ timer' \in [Reboots -> {"none", "armed", "running"}]
      BY <1>0, <1>1, <2>1 DEF RanClaimed, RunningClaimed, TypeOK
    <2> QED
      BY <1>2, <1>3, <1>4, <2>1, <2>2, SameRecords, SubsidesKeeps
  <1>6. CASE ~NodeTaken(req[q].node, Interrupted(req[q].ids))
    <2> DEFINE ids == req[q].ids
               w == req[q].worker
               new == [status |-> "pending", node |-> req[q].node, owner |-> <<w, ticks[w]>>]
    <2>1. (CHOOSE x \in Free : TRUE) \in Free
      BY <1>1
    <2>2. PICK r \in Reboots : /\ rec[r] = NoRec
                              /\ rec' = [Interrupted(ids) EXCEPT ![r] = new]
                              /\ timer' = [timer EXCEPT ![r] = "armed"]
      BY <1>6, <2>1 DEF schedule_reboot, current_process_owner, Free
    <2>3. /\ req[q] \in ReadReq /\ ids \subseteq Reboots
          /\ w \in Workers /\ req[q].node \in Nodes /\ up[w] = "serving"
      BY <1>0, <1>1, FullRequest DEF ReadReq, Served
    <2>4. /\ ticks[w] \in 1 .. MaxStops + 1
          /\ ticks'[w] = ticks[w] /\ up' = up /\ ticks' = ticks
      BY <1>0, <1>1, <2>3, WorkersAssumption DEF TypeOK, WorkersTypeOK, TicksBounded, Still
    <2>5. /\ new \in Record /\ new # NoRec
          /\ new.status = "pending" /\ new.node = req[q].node
          /\ new.owner = <<w, ticks[w]>> /\ new.owner[1] = w /\ new.owner[2] = ticks[w]
      BY <2>3, <2>4 DEF Record, NoRec, ACTIVE_STATUSES, Owners
    <2> HIDE DEF new, ids, w
    <2>6. /\ rec'[r] = new
          /\ \A x \in Reboots \ {r} : rec'[x] = Interrupted(ids)[x]
          /\ timer'[r] = "armed"
          /\ \A x \in Reboots \ {r} : timer'[x] = timer[x]
          /\ timer' \in [Reboots -> {"none", "armed", "running"}]
          /\ DOMAIN rec' = Reboots /\ rec' = [x \in Reboots |-> rec'[x]]
      BY <1>0, <2>2 DEF Interrupted, TypeOK
    <2>7. \A x \in Reboots : rec'[x] \in Record \cup {NoRec}
      BY <2>5, <2>6, InterruptedStep
    <2>8. TypeOK'
      BY <1>2, <1>3, <1>4, <2>6, <2>7 DEF TypeOK, Record, ReadReq, CancelReq
    <2>9. Served'
      BY <1>0, <1>3, <2>4 DEF Served, Idle
    <2>10. /\ rec'[r].owner[2] <= ticks'[rec'[r].owner[1]]
           /\ is_owner_alive(rec[r].owner)'
      BY <2>3, <2>4, <2>5, <2>6 DEF is_owner_alive
    <2>11. TimersOwned' /\ OwnersPast'
      <3> SUFFICES ASSUME NEW x \in Reboots, x # r
                   PROVE  /\ timer'[x] # "none" => rec'[x] # NoRec /\ is_owner_alive(rec[x].owner)'
                          /\ rec'[x] # NoRec => (rec[x].owner[2] <= ticks[rec[x].owner[1]])'
        BY <2>5, <2>6, <2>10 DEF TimersOwned, OwnersPast, NoRec
      <3>1. timer'[x] = timer[x] /\ rec'[x].owner = rec[x].owner /\ (rec'[x] = NoRec <=> rec[x] = NoRec)
        BY <2>6, InterruptedStep
      <3> QED
        BY <1>0, <2>4, <3>1 DEF TimersOwned, OwnersPast, is_owner_alive
    <2>12. RanClaimed'
      <3> SUFFICES ASSUME NEW x \in ran
                   PROVE  rec'[x].status \in {"executing", "executed", "failed", "interrupted"}
        BY <1>1 DEF RanClaimed
      <3>1. x \in Reboots /\ x # r /\ rec[x].status \in {"executing", "executed", "failed", "interrupted"}
        BY <1>0, <2>2 DEF TypeOK, RanClaimed, NoRec
      <3> QED
        BY <2>6, <3>1, InterruptedStep
    <2>13. RunningClaimed'
      <3> SUFFICES ASSUME NEW x \in Reboots, timer'[x] = "running", x \notin late
                   PROVE  rec'[x].status = "executing"
        BY <1>1 DEF RunningClaimed
      <3>1. x # r /\ timer[x] = "running" /\ rec[x].status = "executing"
            /\ is_owner_alive(rec[x].owner)
        BY <1>0, <2>6 DEF RunningClaimed, TimersOwned
      <3>2. x \notin ids
        BY <1>0, <1>1, <3>1 DEF ReadAbandoned, ids
      <3> QED
        BY <2>6, <3>1, <3>2, InterruptedStep
    <2>14. ReadAbandoned'
      <3> SUFFICES ASSUME NEW p \in Requests, req'[p].pc = "read", NEW x \in req'[p].ids
                   PROVE  rec'[x] # NoRec /\ (x \in late' \/ ~is_owner_alive(rec[x].owner)')
        BY DEF ReadAbandoned, NoRec
      <3>1. req'[p] = req[p]
        BY <1>3 DEF Idle
      <3>2. x \in Reboots /\ rec[x] # NoRec /\ (x \in late \/ ~is_owner_alive(rec[x].owner))
        BY <1>0, <3>1, FullRequest DEF ReadAbandoned, ReadReq
      <3>3. x # r /\ rec'[x].owner = rec[x].owner /\ rec'[x] # NoRec
        BY <2>2, <2>6, <3>2, InterruptedStep
      <3> QED
        BY <1>1, <2>4, <3>2, <3>3 DEF is_owner_alive
    <2>15. OneActive'
      <3>1. \A x \in Reboots \ {r} : rec'[x].status \in ACTIVE_STATUSES =>
               Active(x) /\ rec'[x].node = rec[x].node /\ rec'[x].node # rec'[r].node
        BY <1>6, <2>5, <2>6, InterruptedStep DEF NodeTaken, ids
      <3> QED
        BY <1>0, <3>1 DEF OneActive, Active
    <2> QED
      BY <1>2, <2>8, <2>9, <2>11, <2>12, <2>13, <2>14, <2>15 DEF RebootIInv
  <1> QED
    BY <1>5, <1>6

\* A panel that has never run satisfies the invariant.
LEMMA RebootInit ==
  ASSUME Init
  PROVE  RebootIInv
  <1> USE WorkersAssumption
  <1>1. WorkersTypeOK /\ TicksBounded
    BY DEF Init, WorkersInit, WorkersTypeOK, TicksBounded
  <1>2. TypeOK
    BY <1>1 DEF Init, TypeOK
  <1>3. Served /\ TimersOwned /\ OwnersPast /\ RanClaimed /\ RunningClaimed /\ ReadAbandoned
    BY DEF Init, Served, TimersOwned, OwnersPast, RanClaimed, RunningClaimed, ReadAbandoned, Idle
  <1>4. OneActive
    BY DEF Init, OneActive, Active, NoRec, ACTIVE_STATUSES
  <1> QED
    BY <1>1, <1>2, <1>3, <1>4 DEF RebootIInv

\* Every step keeps the invariant.
LEMMA RebootStep ==
  ASSUME RebootIInv, [Next]_vars
  PROVE  RebootIInv'
  <1>1. CASE UNCHANGED vars
    <2>1. Still /\ UNCHANGED faults /\ UNCHANGED rebootVars
      BY <1>1 DEF vars, workerVars, Still
    <2> QED
      BY <2>1, StillWorkers, QuietKeeps
  <1>2. ASSUME NEW w \in Workers,
               \/ WorkerRuns(w)
               \/ TakeoverFails(w) /\ UNCHANGED rebootVars
               \/ StartupActionFails(w) \/ WorkerStops(w) \/ WorkerDies(w)
        PROVE  RebootIInv'
    <2>1. CASE interrupt_abandoned_reboots(w)
      BY <2>1, InterruptKeeps
    <2>2. CASE WorkerExits(w) \/ WorkerDies(w)
      BY <2>2, EndsKeep
    <2>3. CASE (ElectionRuns(w) \/ TakeoverFails(w)) /\ UNCHANGED rebootVars
      BY <2>3, NoStop, QuietSteps, QuietKeeps DEF Alive, RebootIInv, TypeOK
    <2>5. CASE StartupActionFails(w)
      BY <2>5, NoStop, QuietSteps, QuietKeeps DEF StartupActionFails, Alive, RebootIInv, TypeOK
    <2>6. CASE WorkerStops(w)
      BY <2>6, QuietSteps, QuietKeeps DEF WorkerStops, Alive
    <2> QED
      BY <1>2, <2>1, <2>2, <2>3, <2>5, <2>6 DEF WorkerRuns
  <1>3. ASSUME NEW q \in Requests, NEW w \in Workers,
               \/ \E n \in Nodes : ScheduleReads(q, w, n)
               \/ \E r \in Reboots : cancel_reboot(q, w, r)
        PROVE  RebootIInv'
    BY <1>3, ScheduleReadsKeeps, CancelKeeps
  <1>4. ASSUME NEW q \in Requests, schedule_reboot(q) \/ CancelStopsTimer(q)
        PROVE  RebootIInv'
    BY <1>4, ScheduleKeeps, CancelStopsTimerKeeps
  <1>5. ASSUME NEW r \in Reboots, TimerFires(r) \/ RebootEnds(r) \/ RebootUpdateLost(r) \/ TimePasses(r)
        PROVE  RebootIInv'
    BY <1>5, TimerKeeps
  <1> QED
    BY <1>1, <1>2, <1>3, <1>4, <1>5 DEF Next

\* The inductive invariant: who owns a record, a timer and a request, what a claim
\* means, and what a clean-up may still rely on after its read.
THEOREM RebootInvariant == Spec => []RebootIInv
  BY RebootInit, RebootStep, PTL DEF Spec

-----------------------------------------------------------------------------
(* The properties.                                                         *)

\* Types hold, and an armed or running timer belongs to a process that is alive,
\* whatever workers die, exit or come back under the same PID.
THEOREM TimersHaveOwners == Spec => []RebootInv
  <1>1. RebootIInv => RebootInv
    BY DEF RebootIInv, TimersOwned, RebootInv
  <1> QED
    BY <1>1, RebootInvariant, PTL

\* A reboot cancelled in any worker never reaches its node, although its timer
\* may fire later in the worker that has it.
THEOREM CancelWins == Spec => []CancelledNeverReboots
  <1>1. RebootIInv => CancelledNeverReboots
    BY DEF RebootIInv, RanClaimed, CancelledNeverReboots
  <1> QED
    BY <1>1, RebootInvariant, PTL

\* Two reboots of one node run together only if one began late: the unique index
\* keeps one active record, and a running one was not interrupted on time.
THEOREM RebootsExcludeEachOther == Spec => []OneRebootAtATime
  <1>1. RebootIInv => OneRebootAtATime
    BY DEF RebootIInv, RunningClaimed, OneActive, Active, ACTIVE_STATUSES, OneRebootAtATime
  <1> QED
    BY <1>1, RebootInvariant, PTL

\* The outcome of a reboot is never changed again: not by a late timer, not by a
\* second cancel, not by a clean-up that had read the record while it was active.
THEOREM OutcomesAreFinal == Spec => FinalStays
  <1> DEFINE Final(r) == rec[r].status \in FinalStatuses => rec'[r] = rec[r]
  <1>1. ASSUME RebootIInv, Next, NEW r \in Reboots
        PROVE  Final(r)
    <2>0. \A e \in ACTIVE_STATUSES : e \notin FinalStatuses
      BY DEF ACTIVE_STATUSES, FinalStatuses
    <2>1. ASSUME NEW x \in Reboots, NEW e \in ACTIVE_STATUSES,
                 NEW s \in {"executing"} \cup FinalStatuses,
                 s = "executing" => e = "pending", set_status(x, e, s)
          PROVE  Final(r)
      BY <1>1, <2>0, <2>1, SetStatusStep
    <2>2. ASSUME NEW ids, rec[r].status \in FinalStatuses
          PROVE  Interrupted(ids)[r] = rec[r]
      BY <1>1, <2>0, <2>2, InterruptedStep DEF Active
    <2>3. ASSUME NEW w \in Workers,
                 \/ WorkerRuns(w)
                 \/ TakeoverFails(w) /\ UNCHANGED rebootVars
                 \/ StartupActionFails(w) \/ WorkerStops(w) \/ WorkerDies(w)
          PROVE  Final(r)
      <3>1. rec' = rec \/ rec' = Interrupted(AbandonedIds)
        BY <2>3 DEF WorkerRuns, WorkerExits, StartupActionFails, WorkerStops, WorkerDies,
                    interrupt_abandoned_reboots, rebootVars
      <3> QED
        BY <2>2, <3>1
    <2>4. ASSUME NEW q \in Requests, NEW w \in Workers, NEW x \in Reboots, cancel_reboot(q, w, x)
          PROVE  Final(r)
      BY <2>1, <2>4 DEF cancel_reboot, ACTIVE_STATUSES, FinalStatuses
    <2>5. ASSUME NEW x \in Reboots, TimerFires(x) \/ RebootEnds(x) \/ RebootUpdateLost(x) \/ TimePasses(x)
          PROVE  Final(r)
      <3>1. CASE TimerFires(x)
        BY <2>1, <3>1 DEF TimerFires, ACTIVE_STATUSES
      <3>2. CASE RebootEnds(x)
        BY <2>1, <3>2 DEF RebootEnds, ACTIVE_STATUSES, FinalStatuses
      <3> QED
        BY <2>5, <3>1, <3>2 DEF RebootUpdateLost, TimePasses
    <2>6. ASSUME NEW q \in Requests, schedule_reboot(q)
          PROVE  Final(r)
      <3> SUFFICES ASSUME rec[r].status \in FinalStatuses, rec' # rec
                   PROVE  rec'[r] = rec[r]
        OBVIOUS
      <3>1. Interrupted(req[q].ids)[r] = rec[r]
        BY <2>2
      <3>2. r \notin Free
        BY DEF Free, NoRec, FinalStatuses
      <3>3. PICK y : \E n : y \in Free /\ rec' = [Interrupted(req[q].ids) EXCEPT ![y] = n]
        BY <2>6 DEF schedule_reboot
      <3> QED
        BY <3>1, <3>2, <3>3 DEF Interrupted
    <2>7. ASSUME NEW q \in Requests, CancelStopsTimer(q)
          PROVE  Final(r)
      BY <2>7 DEF CancelStopsTimer
    <2>8. ASSUME NEW q \in Requests, NEW w \in Workers, NEW n \in Nodes, ScheduleReads(q, w, n)
          PROVE  Final(r)
      BY <2>8 DEF ScheduleReads
    <2>9. ASSUME NEW q \in Requests, NEW w \in Workers,
                 \/ \E n \in Nodes : ScheduleReads(q, w, n)
                 \/ \E x \in Reboots : cancel_reboot(q, w, x)
          PROVE  Final(r)
      BY <2>4, <2>8, <2>9
    <2>10. ASSUME NEW q \in Requests, schedule_reboot(q) \/ CancelStopsTimer(q)
           PROVE  Final(r)
      BY <2>6, <2>7, <2>10
    <2> HIDE DEF Final
    <2> QED
      BY <1>1, <2>3, <2>5, <2>9, <2>10 DEF Next
  <1>2. RebootIInv /\ [Next]_vars => [\A r \in Reboots : Final(r)]_vars
    BY <1>1
  <1> QED
    BY <1>2, RebootInvariant, PTL DEF Spec, FinalStays
=============================================================================
