-------------------------- MODULE TaskQueueProofs ---------------------------
(***************************************************************************)
(* Proofs about TaskQueue, for any workers, tasks, requests and types of   *)
(* tasks and any number of deaths and lost updates: schedulers run under   *)
(* the leader lock, except those of a failed takeover, which are out of    *)
(* the election; work is shown as long as it goes on, and the outcome of a *)
(* task is final.                                                          *)
(***************************************************************************)
EXTENDS TaskQueue, PanelWorkersProofs

TaskRow == [status : {"queued", "running", "completed", "failed"}, kind : Kinds, owner : Owners]
Threads == {"none", "queued", "working", "pushing", "reporting"}
Groups == [status : {"idle", "pending", "synced", "failed"}, task : Tasks \cup {NoOne}]

\* A request is served by a worker that serves.
Served == \A r \in Requests : req[r] # Idle => up[req[r].worker] = "serving"

\* A thread works on a row, in a process that is alive.
ThreadsOwned ==
    \A t \in Tasks : thread[t] # "none" => row[t] # NoRow /\ is_owner_alive(row[t].owner)

\* From the submission to its end, a task that has a thread is active.
ThreadsShown ==
    \A t \in Tasks : thread[t] # "none" /\ row[t].kind \notin CidrKinds => Active(t)

TaskIInv ==
    /\ TypeOK /\ TicksBounded /\ LoopsAreLed
    /\ Served /\ ThreadsOwned /\ ThreadsShown

-----------------------------------------------------------------------------
(* Rows and requests.                                                      *)

\* A row that is there is a full one.
LEMMA FullRow ==
  ASSUME TypeOK, NEW t \in Tasks
  PROVE  /\ row[t] # NoRow => row[t] \in TaskRow /\ row[t].owner[1] \in Workers
         /\ Active(t) => row[t] # NoRow
         /\ NoRow.status = "none"
  BY DEF TypeOK, Rows, TaskRow, NoRow, Owners, Active

\* What a request in progress holds.
LEMMA FullRequest ==
  ASSUME TypeOK, NEW r \in Requests
  PROVE  /\ req[r] # Idle => req[r].worker \in Workers /\ req[r].kind \in Kinds
         /\ req[r].pc # "idle" => req[r] # Idle
         /\ req[r].task \in Tasks \cup {NoOne}
         /\ Idle.pc = "idle" /\ Idle \in Reqs
  BY DEF TypeOK, Reqs, Idle

\* A fresh id is one without a row, and nothing works on it.
LEMMA Fresh ==
  ASSUME TaskIInv, RoomForTask
  PROVE  FreshTask \in Tasks /\ row[FreshTask] = NoRow /\ thread[FreshTask] = "none"
  BY DEF TaskIInv, RoomForTask, FreshTask, ThreadsOwned

\* A changed status keeps type and owner of its row.
LEMMA StatusOf ==
  ASSUME NEW x \in TaskRow, NEW s \in {"queued", "running", "completed", "failed"}
  PROVE  /\ [x EXCEPT !.status = s] \in TaskRow
         /\ [x EXCEPT !.status = s].owner = x.owner
         /\ [x EXCEPT !.status = s].kind = x.kind
         /\ [x EXCEPT !.status = s].status = s
         /\ [x EXCEPT !.status = s] # NoRow
  BY DEF TaskRow, NoRow

\* A row made by a worker that serves belongs to a living process.
LEMMA NewRowOwned ==
  ASSUME TaskIInv, NEW w \in Workers, up[w] = "serving", NEW k \in Kinds,
         NEW s \in {"queued", "running"}
  PROVE  /\ NewRow(w, k, s) \in TaskRow /\ NewRow(w, k, s) # NoRow
         /\ NewRow(w, k, s).kind = k /\ NewRow(w, k, s).status = s
         /\ is_owner_alive(NewRow(w, k, s).owner)
  <1>1. ticks[w] \in 1 .. MaxStops + 1
    BY WorkersAssumption DEF TaskIInv, TypeOK, WorkersTypeOK, TicksBounded
  <1> QED
    BY <1>1 DEF NewRow, current_process_owner, TaskRow, Owners, NoRow, is_owner_alive

-----------------------------------------------------------------------------
(* What a step has to show.                                                *)

\* While no process ends, a thread that was there keeps its living owner.
LEMMA Keeps ==
  ASSUME TaskIInv, Calm, WorkersTypeOK', TicksBounded', LoopsAreLed',
         row' \in [Tasks -> Rows], thread' \in [Tasks -> Threads],
         req' \in [Requests -> Reqs], group' \in Groups,
         \A r \in Requests : req'[r] # Idle => up'[req'[r].worker] = "serving",
         \A t \in Tasks : thread'[t] # "none" =>
            /\ row'[t] # NoRow
            /\ \/ thread[t] # "none" /\ row'[t].owner = row[t].owner
               \/ Still /\ is_owner_alive(row'[t].owner),
         ThreadsShown'
  PROVE  TaskIInv'
  <1>1. TypeOK'
    BY DEF TypeOK, Threads, Groups
  <1>2. Served'
    BY DEF Served, Idle
  <1>3. ThreadsOwned'
    <2> SUFFICES ASSUME NEW t \in Tasks, thread'[t] # "none"
                 PROVE  row'[t] # NoRow /\ is_owner_alive(row[t].owner)'
      BY DEF ThreadsOwned, NoRow
    <2>1. CASE thread[t] # "none" /\ row'[t].owner = row[t].owner
      <3>1. row[t].owner[1] \in Workers /\ is_owner_alive(row[t].owner)
        BY <2>1, FullRow DEF TaskIInv, ThreadsOwned
      <3> QED
        BY <2>1, <3>1 DEF Calm, is_owner_alive
    <2>2. CASE Still /\ is_owner_alive(row'[t].owner)
      BY <2>2 DEF Still, is_owner_alive
    <2> QED
      BY <2>1, <2>2
  <1> QED
    BY <1>1, <1>2, <1>3 DEF TaskIInv

\* A step of a living worker that leaves tasks alone, or changes the group only.
LEMMA GroupKeeps ==
  ASSUME TaskIInv, Calm, WorkersTypeOK', TicksBounded', LoopsAreLed',
         UNCHANGED <<row, thread, req>>, group' \in Groups,
         \A r \in Requests : req[r] # Idle => up'[req[r].worker] = "serving"
  PROVE  TaskIInv'
  <1>1. row' \in [Tasks -> Rows] /\ thread' \in [Tasks -> Threads] /\ req' \in [Requests -> Reqs]
    BY DEF TaskIInv, TypeOK, Threads
  <1>2. ThreadsShown' /\ \A t \in Tasks : thread'[t] # "none" => row'[t] # NoRow
    BY DEF TaskIInv, ThreadsShown, ThreadsOwned, Active
  <1> QED
    BY <1>1, <1>2, Keeps

\* A step that no worker process takes leaves the processes as they are.
LEMMA StillWorkers ==
  ASSUME TaskIInv, Still, UNCHANGED faults \/ Fault
  PROVE  /\ WorkersTypeOK' /\ TicksBounded' /\ Calm /\ LoopsAreLed'
         /\ \A r \in Requests : req[r] # Idle => up'[req[r].worker] = "serving"
  <1>1. WorkersTypeOK /\ TicksBounded /\ LoopsAreLed /\ Served
    BY DEF TaskIInv, TypeOK
  <1>2. faults > 0 => faults' > 0
    BY <1>1, WorkersAssumption DEF Fault, WorkersTypeOK
  <1>3. LoopsAreLed' /\ \A r \in Requests : req[r] # Idle => up'[req[r].worker] = "serving"
    BY <1>1, <1>2 DEF Still, LoopsAreLed, Served
  <1> QED
    BY <1>1, <1>3, StillSteps

\* A living worker lets its requests end before it stops.
LEMMA AliveWorkers ==
  ASSUME TaskIInv, NEW w \in Workers, Alive(w), Stops(w) => \A r \in Requests : req[r].worker # w
  PROVE  /\ WorkersTypeOK' /\ TicksBounded' /\ Calm /\ LoopsAreLed'
         /\ \A r \in Requests : req[r] # Idle => up'[req[r].worker] = "serving"
  <1>1. WorkersTypeOK /\ TicksBounded /\ LoopsAreLed /\ Served
    BY DEF TaskIInv, TypeOK
  <1>2. \A r \in Requests : req[r] # Idle => req[r].worker \in Workers
    BY FullRequest DEF TaskIInv
  <1> QED
    BY <1>1, <1>2, CalmSteps, LoopSteps DEF Served

-----------------------------------------------------------------------------
(* Requests.                                                               *)

\* A request that passed its check: only rows of CIDR types may have changed, from
\* active to failed.
LEMMA ChecksKeep ==
  ASSUME TaskIInv, NEW r \in Requests, NEW w \in Workers, NEW k \in Kinds,
         RequestChecks(r, w, k) \/ CidrRequestChecks(r, w, k) \/ SyncRequestChecks(r, w, k)
  PROVE  TaskIInv'
  <1>0. TypeOK /\ ThreadsOwned /\ ThreadsShown /\ Served
    BY DEF TaskIInv
  <1>1. /\ Still /\ UNCHANGED <<faults, thread, group>> /\ up[w] = "serving"
        /\ req' = [req EXCEPT ![r] = [pc |-> "checked", worker |-> w, kind |-> k, task |-> NoOne]]
    BY DEF RequestChecks, CidrRequestChecks, SyncRequestChecks, Checked, workerVars, Still
  <1>2. /\ req' \in [Requests -> Reqs]
        /\ \A q \in Requests : req'[q] # Idle => up'[req'[q].worker] = "serving"
    <2>1. [pc |-> "checked", worker |-> w, kind |-> k, task |-> NoOne] \in Reqs
      BY DEF Reqs
    <2> QED
      BY <1>0, <1>1, <2>1 DEF TypeOK, Served, Still
  <1>3. PICK old \in SUBSET Tasks :
           /\ row' = [t \in Tasks |-> IF t \in old THEN [row[t] EXCEPT !.status = "failed"] ELSE row[t]]
           /\ \A t \in old : Active(t) /\ row[t].kind \in CidrKinds
    <2>1. CASE row' = row
      <3>1. row' = [t \in Tasks |-> row[t]]
        BY <1>0, <2>1 DEF TypeOK
      <3>2. row' = [t \in Tasks |-> IF t \in {} THEN [row[t] EXCEPT !.status = "failed"] ELSE row[t]]
        BY <3>1, Zenon
      <3> WITNESS {} \in SUBSET Tasks
      <3> QED
        BY <3>2
    <2>2. CASE CidrRequestChecks(r, w, k)
      BY <2>2 DEF CidrRequestChecks, find_active_task
    <2> QED
      BY <2>1, <2>2 DEF RequestChecks, SyncRequestChecks
  <1>4. /\ row' \in [Tasks -> Rows]
        /\ \A t \in Tasks : /\ row'[t].owner = row[t].owner /\ row'[t].kind = row[t].kind
                            /\ row[t] # NoRow => row'[t] # NoRow
                            /\ row[t].kind \notin CidrKinds => row'[t] = row[t]
    <2> SUFFICES ASSUME NEW t \in Tasks
                 PROVE  /\ row'[t] \in Rows
                        /\ row'[t].owner = row[t].owner /\ row'[t].kind = row[t].kind
                        /\ row[t] # NoRow => row'[t] # NoRow
                        /\ row[t].kind \notin CidrKinds => row'[t] = row[t]
      BY <1>3
    <2>1. CASE t \in old
      <3>1. row[t] \in TaskRow
        BY <1>0, <1>3, <2>1, FullRow
      <3>2. row'[t] = [row[t] EXCEPT !.status = "failed"]
        BY <1>3, <2>1
      <3> QED
        BY <1>3, <2>1, <3>1, <3>2, StatusOf DEF Rows, TaskRow
    <2>2. CASE t \notin old
      BY <1>0, <1>3, <2>2 DEF TypeOK
    <2> QED
      BY <2>1, <2>2
  <1>5. /\ ThreadsShown' /\ thread' \in [Tasks -> Threads] /\ group' \in Groups
        /\ \A t \in Tasks : thread'[t] # "none" => thread[t] # "none" /\ row'[t] # NoRow
    BY <1>0, <1>1, <1>4 DEF ThreadsShown, ThreadsOwned, Active, TypeOK, Threads, Groups
  <1> QED
    BY <1>1, <1>2, <1>4, <1>5, StillWorkers, Keeps

\* The row, then the thread: both belong to the request's worker.
LEMMA EnqueueKeeps ==
  ASSUME TaskIInv, NEW r \in Requests, RequestEnqueues(r)
  PROVE  TaskIInv'
  <1>0. TypeOK /\ ThreadsOwned /\ ThreadsShown /\ Served
    BY DEF TaskIInv
  <1>1. req[r].pc = "checked" /\ RoomForTask /\ Still /\ UNCHANGED <<faults, group>>
    BY DEF RequestEnqueues, workerVars, Still
  <1>2. /\ req[r].worker \in Workers /\ req[r].kind \in Kinds /\ up[req[r].worker] = "serving"
        /\ req[r] \in [pc : {"checked", "submitted"}, worker : Workers, kind : Kinds, task : Tasks \cup {NoOne}]
    BY <1>0, <1>1, FullRequest DEF Served, TypeOK, Reqs, Idle
  <1>3. PICK t \in Tasks, s \in {"queued", "running"} :
           /\ row[t] = NoRow /\ thread[t] = "none"
           /\ row' = [row EXCEPT ![t] = NewRow(req[r].worker, req[r].kind, s)]
           /\ thread' = [thread EXCEPT ![t] = "queued"]
           /\ req' = [req EXCEPT ![r] = IF req[r].kind \in SyncKinds
                                        THEN [req[r] EXCEPT !.pc = "submitted", !.task = t] ELSE Idle]
    <2>1. FreshTask \in Tasks /\ row[FreshTask] = NoRow /\ thread[FreshTask] = "none"
      BY <1>1, Fresh
    <2> QED
      BY <2>1 DEF RequestEnqueues
  <1>4. /\ NewRow(req[r].worker, req[r].kind, s) \in TaskRow
        /\ NewRow(req[r].worker, req[r].kind, s) # NoRow
        /\ NewRow(req[r].worker, req[r].kind, s).status = s
        /\ is_owner_alive(NewRow(req[r].worker, req[r].kind, s).owner)
    BY <1>2, <1>3, NewRowOwned
  <1>5. /\ row' \in [Tasks -> Rows] /\ row'[t] = NewRow(req[r].worker, req[r].kind, s)
        /\ \A u \in Tasks \ {t} : row'[u] = row[u] /\ thread'[u] = thread[u]
        /\ thread' \in [Tasks -> Threads] /\ group' \in Groups
    BY <1>0, <1>1, <1>3, <1>4 DEF TypeOK, Rows, TaskRow, Threads, Groups
  <1>6. /\ req' \in [Requests -> Reqs]
        /\ \A q \in Requests : req'[q] # Idle => up'[req'[q].worker] = "serving"
    <2>1. /\ [req[r] EXCEPT !.pc = "submitted", !.task = t] \in Reqs
          /\ [req[r] EXCEPT !.pc = "submitted", !.task = t].worker = req[r].worker
      BY <1>2, <1>3 DEF Reqs
    <2> QED
      BY <1>0, <1>1, <1>2, <1>3, <2>1, FullRequest DEF TypeOK, Served, Still
  <1>7. ThreadsShown'
    BY <1>0, <1>4, <1>5 DEF ThreadsShown, Active
  <1>A. \A u \in Tasks : thread'[u] # "none" =>
            /\ row'[u] # NoRow
            /\ \/ thread[u] # "none" /\ row'[u].owner = row[u].owner
               \/ Still /\ is_owner_alive(row'[u].owner)
    BY <1>0, <1>1, <1>4, <1>5 DEF ThreadsOwned
  <1> QED
    BY <1>1, <1>5, <1>6, <1>7, <1>A, StillWorkers, Keeps

\* The commit of the group, and a request that gives up.
LEMMA RequestEndsKeep ==
  ASSUME TaskIInv, NEW r \in Requests, RequestCommitsGroup(r) \/ RequestFails(r)
  PROVE  TaskIInv'
  <1>0. TypeOK /\ ThreadsOwned /\ ThreadsShown /\ Served
    BY DEF TaskIInv
  <1>1. /\ req[r] # Idle /\ Still /\ (UNCHANGED faults \/ Fault) /\ thread' = thread
        /\ req' = [req EXCEPT ![r] = Idle]
    BY <1>0, FullRequest DEF RequestCommitsGroup, RequestFails, workerVars, Still
  <1>2. /\ req' \in [Requests -> Reqs]
        /\ \A q \in Requests : req'[q] # Idle => up'[req'[q].worker] = "serving"
    BY <1>0, <1>1, FullRequest DEF TypeOK, Served, Still
  <1>3. group' \in Groups /\ thread' \in [Tasks -> Threads]
    BY <1>0, <1>1, FullRequest DEF RequestCommitsGroup, RequestFails, TypeOK, Groups, Threads
  <1>4. /\ row' \in [Tasks -> Rows]
        /\ \A t \in Tasks : thread[t] # "none" => row'[t] = row[t]
    <2>1. CASE row' = row
      BY <1>0, <2>1 DEF TypeOK
    <2>2. CASE RoomForTask /\ row' = [row EXCEPT ![FreshTask] = NewRow(req[r].worker, req[r].kind, "queued")]
      <3>1. FreshTask \in Tasks /\ thread[FreshTask] = "none"
        BY <2>2, Fresh
      <3>2. NewRow(req[r].worker, req[r].kind, "queued") \in TaskRow
        BY <1>0, <1>1, FullRequest, NewRowOwned DEF Served
      <3> QED
        BY <1>0, <2>2, <3>1, <3>2 DEF TypeOK, Rows, TaskRow
    <2> QED
      BY <2>1, <2>2 DEF RequestCommitsGroup, RequestFails
  <1>5. /\ ThreadsShown'
        /\ \A t \in Tasks : thread'[t] # "none" =>
             thread[t] # "none" /\ row'[t] # NoRow /\ row'[t].owner = row[t].owner
    BY <1>0, <1>1, <1>4 DEF ThreadsShown, ThreadsOwned, Active
  <1> QED
    BY <1>1, <1>2, <1>3, <1>4, <1>5, StillWorkers, Keeps

-----------------------------------------------------------------------------
(* Threads, recovery and the ends of processes.                            *)

\* A thread shows its task as running until it ends.
LEMMA ThreadKeeps ==
  ASSUME TaskIInv, NEW t \in Tasks, ThreadStep(t) \/ TaskReportsProgress(t) \/ TaskUpdateLost(t)
  PROVE  TaskIInv'
  <1>0. TypeOK /\ ThreadsOwned /\ ThreadsShown /\ Served
    BY DEF TaskIInv
  <1>1. Still /\ (UNCHANGED faults \/ Fault) /\ req' = req /\ thread[t] # "none"
    BY DEF ThreadStep, TaskStarts, SetupPushes, SyncReportsGroup, TaskEnds, TaskReportsProgress,
           TaskUpdateLost, workerVars, Still
  <1>2. row[t] \in TaskRow /\ row[t] # NoRow
    BY <1>0, <1>1, FullRow DEF ThreadsOwned
  <1>3. PICK th \in Threads, s \in {"running", "completed", "failed"} :
           /\ thread' = [thread EXCEPT ![t] = th]
           /\ \/ row' = row
              \/ row' = [row EXCEPT ![t].status = s] /\ (th # "none" => s = "running")
    <2>1. CASE TaskReportsProgress(t)
      BY <1>0, <2>1 DEF TaskReportsProgress, update_background_task, TypeOK, Threads
    <2>2. CASE TaskEnds(t)
      <3>1. PICK o \in {"completed", "failed"} : row' = [row EXCEPT ![t].status = o]
        BY <2>2 DEF TaskEnds, update_background_task
      <3> QED
        BY <2>2, <3>1 DEF TaskEnds, Threads
    <2>3. CASE TaskStarts(t)
      BY <2>3 DEF TaskStarts, update_background_task, Threads
    <2> QED
      BY <2>1, <2>2, <2>3 DEF ThreadStep, SetupPushes, SyncReportsGroup, TaskUpdateLost, Threads
  <1>4. group' \in Groups
    <2>1. group \in Groups
      BY <1>0 DEF TypeOK, Groups
    <2>2. \A o \in {"idle", "pending", "synced", "failed"} : [group EXCEPT !.status = o] \in Groups
      BY <2>1 DEF Groups
    <2>3. CASE SyncReportsGroup(t)
      <3>1. SyncOutcomes(t) \subseteq {"idle", "pending", "synced", "failed"}
        BY <2>1 DEF SyncOutcomes, Groups
      <3> QED
        BY <2>2, <2>3, <3>1 DEF SyncReportsGroup
    <2>4. CASE SetupPushes(t)
      BY <2>2, <2>4 DEF SetupPushes
    <2> QED
      BY <2>1, <2>3, <2>4 DEF ThreadStep, TaskStarts, TaskEnds, TaskReportsProgress, TaskUpdateLost
  <1>A. /\ req' \in [Requests -> Reqs]
        /\ \A r \in Requests : req'[r] # Idle => up'[req'[r].worker] = "serving"
    BY <1>0, <1>1, StillWorkers DEF TypeOK
  <1>5. CASE row' = row
    <2>1. /\ ThreadsShown' /\ thread' \in [Tasks -> Threads] /\ row' \in [Tasks -> Rows]
          /\ \A u \in Tasks : thread'[u] # "none" =>
                thread[u] # "none" /\ row'[u] # NoRow /\ row'[u].owner = row[u].owner
      BY <1>0, <1>1, <1>2, <1>3, <1>5 DEF ThreadsShown, ThreadsOwned, Active, TypeOK, Threads
    <2> QED
      BY <1>1, <1>4, <1>A, <2>1, StillWorkers, Keeps
  <1>6. CASE row' = [row EXCEPT ![t].status = s] /\ (th # "none" => s = "running")
    <2>1. /\ row'[t] = [row[t] EXCEPT !.status = s] /\ \A u \in Tasks \ {t} : row'[u] = row[u]
          /\ DOMAIN row' = Tasks
      BY <1>0, <1>6 DEF TypeOK
    <2>2. /\ row'[t] \in TaskRow /\ row'[t].owner = row[t].owner /\ row'[t].kind = row[t].kind
          /\ row'[t].status = s /\ row'[t] # NoRow
      BY <1>2, <2>1 DEF TaskRow, NoRow
    <2>3. row' \in [Tasks -> Rows]
      <3>1. \A u \in Tasks : row'[u] \in Rows
        BY <1>0, <2>1, <2>2 DEF TypeOK, Rows, TaskRow
      <3>2. row' = [u \in Tasks |-> row'[u]]
        BY <1>0, <1>6 DEF TypeOK
      <3> QED
        BY <3>1, <3>2
    <2>4. thread' \in [Tasks -> Threads] /\ thread'[t] = th /\ \A u \in Tasks \ {t} : thread'[u] = thread[u]
      BY <1>0, <1>3 DEF TypeOK, Threads
    <2>5. ThreadsShown'
      BY <1>0, <1>6, <2>1, <2>2, <2>4 DEF ThreadsShown, Active
    <2>6. \A u \in Tasks : thread'[u] # "none" =>
              thread[u] # "none" /\ row'[u] # NoRow /\ row'[u].owner = row[u].owner
      BY <1>0, <1>1, <2>1, <2>2, <2>4 DEF ThreadsOwned
    <2> QED
      BY <1>1, <1>4, <1>A, <2>3, <2>4, <2>5, <2>6, StillWorkers, Keeps
  <1> QED
    BY <1>3, <1>5, <1>6

\* Recovery fails no task of a process that is alive.
LEMMA RecoveryKeeps ==
  ASSUME TaskIInv, NEW w \in Workers, recover_stale_running_tasks(w)
  PROVE  TaskIInv'
  <1>0. TypeOK /\ WorkersTypeOK /\ ThreadsOwned /\ ThreadsShown
    BY DEF TaskIInv, TypeOK
  <1>1. /\ UNCHANGED <<faults, thread, req, group>> /\ todo[w] # 0 /\ StartupGoesOn(w)
        /\ row' = [t \in Tasks |-> IF Active(t) /\ ~is_owner_alive(row[t].owner)
                                   THEN [row[t] EXCEPT !.status = "failed"] ELSE row[t]]
    BY DEF recover_stale_running_tasks
  <1>2. /\ WorkersTypeOK' /\ TicksBounded' /\ Calm /\ LoopsAreLed'
        /\ \A r \in Requests : req[r] # Idle => up'[req[r].worker] = "serving"
    BY <1>0, <1>1, NoStop, AliveWorkers DEF Alive
  <1>3. row' \in [Tasks -> Rows]
    <2> SUFFICES ASSUME NEW t \in Tasks PROVE row'[t] \in Rows
      BY <1>1
    <2>1. CASE Active(t) /\ ~is_owner_alive(row[t].owner)
      BY <1>0, <1>1, <2>1, FullRow, StatusOf DEF Rows, TaskRow
    <2>2. CASE ~(Active(t) /\ ~is_owner_alive(row[t].owner))
      BY <1>0, <1>1, <2>2 DEF TypeOK
    <2> QED
      BY <2>1, <2>2
  <1>4. \A t \in Tasks : thread[t] # "none" => row'[t] = row[t] /\ row[t] # NoRow
    BY <1>0, <1>1 DEF ThreadsOwned
  <1>5. ThreadsShown' /\ thread' \in [Tasks -> Threads] /\ req' \in [Requests -> Reqs] /\ group' \in Groups
    BY <1>0, <1>1, <1>4 DEF ThreadsShown, Active, TypeOK, Threads, Groups
  <1> QED
    BY <1>1, <1>2, <1>3, <1>4, <1>5, Keeps

\* The end of a process takes its threads and its requests with it; one that exits
\* has none left.
LEMMA EndsKeep ==
  ASSUME TaskIInv, NEW w \in Workers, WorkerExits(w) \/ WorkerDies(w)
  PROVE  TaskIInv'
  <1>0. TypeOK /\ WorkersTypeOK /\ TicksBounded /\ LoopsAreLed /\ ThreadsOwned /\ ThreadsShown /\ Served
    BY DEF TaskIInv, TypeOK
  <1>1. /\ Exits(w) \/ Dies(w)
        /\ UNCHANGED <<row, group>>
    BY DEF WorkerExits, WorkerDies, taskVars
  <1>2. WorkersTypeOK' /\ TicksBounded' /\ LoopsAreLed' /\ up' = [up EXCEPT ![w] = "down"] /\ ticks' = ticks
    BY <1>0, <1>1, EndSteps, LoopSteps
  <1>3. \A t \in Tasks : thread'[t] # "none" => thread'[t] = thread[t] /\ WorkerOf(t) # w
    BY <1>0 DEF WorkerExits, WorkerDies, taskVars, TypeOK
  <1>4. thread' \in [Tasks -> Threads] /\ req' \in [Requests -> Reqs]
    BY <1>0, FullRequest DEF WorkerExits, WorkerDies, taskVars, TypeOK, Threads
  <1>5. \A r \in Requests : req'[r] # Idle => req'[r] = req[r] /\ req[r].worker # w
    <2>1. CASE WorkerDies(w)
      BY <1>0, <2>1 DEF WorkerDies, TypeOK
    <2>2. CASE WorkerExits(w)
      BY <1>0, <2>2 DEF WorkerExits, Exits, taskVars, Served
    <2> QED
      BY <2>1, <2>2
  <1>6. Served'
    <2>1. \A r \in Requests : req[r] # Idle => req[r].worker \in Workers
      BY <1>0, FullRequest
    <2> QED
      BY <1>0, <1>2, <1>5, <2>1 DEF Served, Idle, WorkersTypeOK
  <1>7. ThreadsOwned'
    <2> SUFFICES ASSUME NEW t \in Tasks, thread'[t] # "none"
                 PROVE  row'[t] # NoRow /\ is_owner_alive(row[t].owner)'
      BY DEF ThreadsOwned, NoRow
    <2>1. /\ row[t] # NoRow /\ is_owner_alive(row[t].owner) /\ row[t].owner[1] # w
          /\ row[t].owner[1] \in Workers
      BY <1>0, <1>3, FullRow DEF ThreadsOwned, WorkerOf
    <2> QED
      BY <1>0, <1>1, <1>2, <2>1 DEF is_owner_alive, WorkersTypeOK
  <1>A. ThreadsShown'
    BY <1>0, <1>1, <1>3 DEF ThreadsShown, Active
  <1>9. TypeOK'
    BY <1>0, <1>1, <1>2, <1>4 DEF TypeOK, Threads
  <1> QED
    BY <1>2, <1>6, <1>7, <1>A, <1>9 DEF TaskIInv

-----------------------------------------------------------------------------
(* The invariant.                                                          *)

\* A panel that has never run satisfies it.
LEMMA TaskInit ==
  ASSUME Init
  PROVE  TaskIInv
  <1>1. WorkersTypeOK /\ TicksBounded /\ LoopsAreLed
    BY WorkersStart DEF Init
  <1>2. TypeOK
    BY <1>1 DEF Init, TypeOK, Rows, Reqs
  <1>3. Served /\ ThreadsOwned /\ ThreadsShown
    BY DEF Init, Served, ThreadsOwned, ThreadsShown
  <1> QED
    BY <1>1, <1>2, <1>3 DEF TaskIInv

\* Every step keeps it.
LEMMA TaskStep ==
  ASSUME TaskIInv, [Next]_vars
  PROVE  TaskIInv'
  <1>0. TypeOK /\ WorkersTypeOK /\ group \in Groups
    BY DEF TaskIInv, TypeOK, Groups
  <1>g. RecoveredGroup \in Groups /\ [group EXCEPT !.status = "failed"] \in Groups
    BY <1>0 DEF RecoveredGroup, Groups
  <1>1. CASE UNCHANGED vars
    <2>1. Still /\ UNCHANGED faults /\ UNCHANGED <<row, thread, req>> /\ group' \in Groups
      BY <1>0, <1>1 DEF vars, workerVars, taskVars, Still
    <2> QED
      BY <2>1, StillWorkers, GroupKeeps
  <1>2. ASSUME NEW w \in Workers, (ElectionRuns(w) \/ TakeoverFails(w)) /\ UNCHANGED taskVars
        PROVE  TaskIInv'
    <2>1. UNCHANGED <<row, thread, req>> /\ group' \in Groups
      BY <1>0, <1>2 DEF taskVars
    <2> QED
      BY <1>0, <1>2, <2>1, NoStop, AliveWorkers, GroupKeeps DEF Alive
  <1>3. ASSUME NEW w \in Workers, recover_stuck_pending_groups(w) \/ StartupActionFails(w)
        PROVE  TaskIInv'
    <2>1. /\ UNCHANGED <<row, thread, req>> /\ group' \in Groups
          /\ todo[w] # 0 /\ StartupGoesOn(w) /\ (UNCHANGED faults \/ Fault)
      BY <1>0, <1>g, <1>3 DEF recover_stuck_pending_groups, StartupActionFails, taskVars
    <2> QED
      BY <1>0, <2>1, NoStop, AliveWorkers, GroupKeeps DEF Alive
  <1>4. ASSUME NEW w \in Workers, Reconciles(w)
        PROVE  TaskIInv'
    <2>1. Still /\ UNCHANGED faults /\ UNCHANGED <<row, thread, req>> /\ group' \in Groups
      BY <1>g, <1>4 DEF Reconciles, workerVars, Still
    <2> QED
      BY <2>1, StillWorkers, GroupKeeps
  <1>5. ASSUME NEW w \in Workers, WorkerStops(w)
        PROVE  TaskIInv'
    <2>1. UNCHANGED <<row, thread, req>> /\ group' \in Groups
      BY <1>0, <1>5 DEF WorkerStops, taskVars
    <2> QED
      BY <1>5, <2>1, AliveWorkers, GroupKeeps DEF Alive, WorkerStops
  <1>6. ASSUME NEW w \in Workers,
               \/ (ElectionRuns(w) \/ TakeoverFails(w)) /\ UNCHANGED taskVars
               \/ StartupStep(w)
               \/ StartupActionFails(w)
               \/ Reconciles(w)
               \/ WorkerStops(w)
               \/ WorkerExits(w)
               \/ WorkerDies(w)
        PROVE  TaskIInv'
    BY <1>2, <1>3, <1>4, <1>5, <1>6, RecoveryKeeps, EndsKeep DEF StartupStep
  <1>7. ASSUME NEW r \in Requests, RequestStep(r) \/ RequestFails(r)
        PROVE  TaskIInv'
    BY <1>7, EnqueueKeeps, RequestEndsKeep DEF RequestStep
  <1> QED
    BY <1>1, <1>6, <1>7, ChecksKeep, ThreadKeeps DEF Next

\* The inductive invariant: every thread belongs to a living process and stands
\* behind an active row, and every request is served by a worker that serves.
THEOREM TaskInvariant == Spec => []TaskIInv
  BY TaskInit, TaskStep, PTL DEF Spec

-----------------------------------------------------------------------------
(* The properties.                                                         *)

\* Types hold, and the scheduler loops a worker keeps in its tasks exist only under the
\* leader lock, whatever workers die or stop. A takeover that fails may leave loops
\* running without the lock; the worker that has them serves on, neither holds the lock
\* nor waits for it, and so never gets a second set.
THEOREM SchedulersAreLed == Spec => []QueueInv
  <1>1. TaskIInv => QueueInv
    BY DEF TaskIInv, LoopsAreLed, QueueInv
  <1> QED
    BY <1>1, TaskInvariant, PTL

\* A task at work is shown as active, so requests of its type are refused: no recovery
\* fails the task of a worker that lives.
THEOREM WorkStaysShown == Spec => []WorkIsShown
  <1>1. TaskIInv => WorkIsShown
    BY DEF TaskIInv, ThreadsShown, WorkIsShown, AtWork
  <1> QED
    BY <1>1, TaskInvariant, PTL

\* A finished task keeps its outcome: no late progress report, recovery or restart
\* touches its row, since no thread is left that could.
THEOREM OutcomesAreFinal == Spec => FinishedStays
  <1> DEFINE Finished(t) == row[t].status \in {"completed", "failed"} /\ row[t].kind \notin CidrKinds
             Final(t) == Finished(t) => row'[t] = row[t]
  <1>1. ASSUME TaskIInv, Next, NEW t \in Tasks
        PROVE  Final(t)
    <2> SUFFICES ASSUME Finished(t) PROVE row'[t] = row[t]
      OBVIOUS
    <2>0. TypeOK /\ ~Active(t) /\ thread[t] = "none" /\ row[t] # NoRow
      BY <1>1 DEF TaskIInv, ThreadsShown, Active, NoRow
    <2>1. ASSUME NEW w \in Workers,
                 \/ (ElectionRuns(w) \/ TakeoverFails(w)) /\ UNCHANGED taskVars
                 \/ StartupStep(w)
                 \/ StartupActionFails(w)
                 \/ Reconciles(w)
                 \/ WorkerStops(w)
                 \/ WorkerExits(w)
                 \/ WorkerDies(w)
          PROVE  row'[t] = row[t]
      BY <2>0, <2>1 DEF StartupStep, recover_stale_running_tasks, recover_stuck_pending_groups,
         StartupActionFails, Reconciles, WorkerStops, WorkerExits, WorkerDies, taskVars
    <2>2. ASSUME NEW r \in Requests, NEW w \in Workers, NEW k \in Kinds,
                 RequestChecks(r, w, k) \/ CidrRequestChecks(r, w, k) \/ SyncRequestChecks(r, w, k)
          PROVE  row'[t] = row[t]
      BY <2>0, <2>2 DEF RequestChecks, CidrRequestChecks, SyncRequestChecks, find_active_task
    <2>3. ASSUME NEW r \in Requests, RequestStep(r) \/ RequestFails(r)
          PROVE  row'[t] = row[t]
      <3>1. RoomForTask => FreshTask # t
        BY <1>1, <2>0, Fresh
      <3> QED
        BY <2>0, <2>3, <3>1 DEF RequestStep, RequestEnqueues, RequestCommitsGroup, RequestFails, TypeOK
    <2>4. ASSUME NEW u \in Tasks, ThreadStep(u) \/ TaskReportsProgress(u) \/ TaskUpdateLost(u)
          PROVE  row'[t] = row[t]
      <3>1. thread[u] # "none" /\ (row' = row \/ \E s : row' = [row EXCEPT ![u].status = s])
        BY <2>4 DEF ThreadStep, TaskStarts, SetupPushes, SyncReportsGroup, TaskEnds, TaskReportsProgress,
           TaskUpdateLost, update_background_task
      <3> QED
        BY <2>0, <3>1 DEF TypeOK
    <2> QED
      BY <1>1, <2>1, <2>2, <2>3, <2>4 DEF Next
  <1>2. TaskIInv /\ [Next]_vars => [\A t \in Tasks : Final(t)]_vars
    BY <1>1
  <1> QED
    BY <1>2, TaskInvariant, PTL DEF Spec, FinishedStays
=============================================================================
