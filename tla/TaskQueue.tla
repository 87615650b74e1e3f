----------------------------- MODULE TaskQueue -----------------------------
(***************************************************************************)
(* The background tasks of the panel (background_tasks.py, cidr_tasks.py)  *)
(* and the HA group status that follows one of them (node_sync/setup.py,   *)
(* shared_domain.py, push_full.py, group_status.py), over the workers of   *)
(* PanelWorkers.                                                           *)
(*                                                                         *)
(* A request looks for an active task, inserts a row and submits the work  *)
(* to the thread pool of its own worker, in separate transactions. The     *)
(* work lives in that worker's memory, the row in the database: a worker   *)
(* that dies leaves rows no thread stands behind, and only the first       *)
(* leader of a panel start fails them.                                     *)
(***************************************************************************)
EXTENDS PanelWorkers

CONSTANTS Tasks,      \* ids of task rows (bounds the number of tasks)
          Requests,   \* concurrent requests
          Kinds,      \* task types that requests ask for
          PoolSize    \* threads of the pool of one worker (8 in the code)

\* _EXCLUSIVE_TASKS of routers/system.py: each is refused while any of them is active.
ExclusiveKinds == {"update_system", "rebuild_frontend", "server_config"}
CidrKinds == {"cidr_db_refresh", "antifilter_refresh"}
SyncKinds == {"node_sync_setup", "node_sync_shared_domain"}

ASSUME TasksAssumption ==
    /\ Kinds \subseteq ExclusiveKinds \cup CidrKinds \cup SyncKinds \cup {"run_doall"}
    /\ PoolSize \in Nat \ {0}
    /\ StartupSteps = 2   \* of run_leader_startup_actions: tasks, then HA groups

VARIABLES row,     \* background_tasks: [status, kind, owner], or NoRow
          thread,  \* what the worker's pool holds for a task
          req,     \* each request in progress
          group    \* one node_sync_groups row: [status, task]

taskVars == <<row, thread, req, group>>
vars == <<workerVars, taskVars>>

NoRow == [status |-> "none", kind |-> "none", owner |-> <<NoOne, 0>>]
Idle == [pc |-> "idle", worker |-> NoOne, kind |-> "none", task |-> NoOne]

Rows == [status : {"queued", "running", "completed", "failed"},
         kind : Kinds, owner : Owners] \cup {NoRow}
Reqs == [pc : {"checked", "submitted"}, worker : Workers, kind : Kinds,
         task : Tasks \cup {NoOne}] \cup {Idle}

TypeOK ==
    /\ WorkersTypeOK
    /\ row \in [Tasks -> Rows]
    /\ thread \in [Tasks -> {"none", "queued", "working", "pushing", "reporting"}]
    /\ req \in [Requests -> Reqs]
    /\ group \in [status : {"idle", "pending", "synced", "failed"},
                  task : Tasks \cup {NoOne}]

Init ==
    /\ WorkersInit
    /\ row = [t \in Tasks |-> NoRow]
    /\ thread = [t \in Tasks |-> "none"]
    /\ req = [r \in Requests |-> Idle]
    /\ group = [status |-> "idle", task |-> NoOne]

Active(t) == row[t].status \in {"queued", "running"}
WorkerOf(t) == row[t].owner[1]
AtWork(t) == thread[t] \in {"working", "pushing", "reporting"}

---------------------------------------------------------------------------
(* Requests.                                                               *)

\* The types whose active task refuses a request of type k.
Conflicts(k) == IF k \in ExclusiveKinds THEN ExclusiveKinds ELSE {k}

find_active_task(ks) == {t \in Tasks : Active(t) /\ row[t].kind \in ks}

\* secrets.token_hex: an id that no row has.
FreshTask == CHOOSE t \in Tasks : row[t] = NoRow
RoomForTask == \E t \in Tasks : row[t] = NoRow

Checked(r, w, k) ==
    req' = [req EXCEPT ![r] = [pc |-> "checked", worker |-> w, kind |-> k, task |-> NoOne]]

\* Mutant: any active task of the type may be given up as too old.
RequestChecksAged(r, w, k) ==
    /\ req[r] = Idle /\ up[w] = "serving" /\ RoomForTask
    /\ k \in Kinds \ (CidrKinds \cup SyncKinds)
    /\ row' = [t \in Tasks |-> IF t \in find_active_task(Conflicts(k))
                               THEN [row[t] EXCEPT !.status = "failed"] ELSE row[t]]
    /\ Checked(r, w, k)
    /\ UNCHANGED <<workerVars, thread, group>>

\* No active task of a conflicting type (otherwise 409 and nothing changes).
RequestChecks(r, w, k) ==
    /\ req[r] = Idle /\ up[w] = "serving" /\ RoomForTask
    /\ k \in Kinds \ (CidrKinds \cup SyncKinds)
    /\ find_active_task(Conflicts(k)) = {}
    /\ Checked(r, w, k)
    /\ UNCHANGED <<workerVars, row, thread, group>>

\* find_active_cidr_task: an active task over its age limit is failed and no
\* longer counts; its thread, if any, is not told.
CidrRequestChecks(r, w, k) ==
    /\ req[r] = Idle /\ up[w] = "serving" /\ RoomForTask
    /\ k \in Kinds \cap CidrKinds
    /\ \E old \in SUBSET find_active_task({k}) :
          /\ Cardinality(old) <= 1
          /\ old # {} \/ find_active_task({k}) = {}
          /\ row' = [t \in Tasks |->
                       IF t \in old THEN [row[t] EXCEPT !.status = "failed"] ELSE row[t]]
    /\ Checked(r, w, k)
    /\ UNCHANGED <<workerVars, thread, group>>

\* setup and apply-shared-domain look at the group, not at the tasks.
SyncRequestChecks(r, w, k) ==
    /\ req[r] = Idle /\ up[w] = "serving" /\ RoomForTask
    /\ k \in Kinds \cap SyncKinds
    /\ group.status # "pending"
    /\ Checked(r, w, k)
    /\ UNCHANGED <<workerVars, row, thread, group>>

NewRow(w, k, s) == [status |-> s, kind |-> k, owner |-> current_process_owner(w)]

\* create_queued_task and the submit to the pool. A CIDR task is marked
\* running before its thread starts. A sync request still has to commit.
RequestEnqueues(r) ==
    LET k == req[r].kind
        w == req[r].worker
        t == FreshTask
    IN  /\ req[r].pc = "checked"
        /\ RoomForTask
        /\ row' = [row EXCEPT ![t] =
                     NewRow(w, k, IF k \in CidrKinds THEN "running" ELSE "queued")]
        /\ thread' = [thread EXCEPT ![t] = "queued"]
        /\ req' = [req EXCEPT ![r] = IF k \in SyncKinds
                                     THEN [@ EXCEPT !.pc = "submitted", !.task = t]
                                     ELSE Idle]
        /\ UNCHANGED <<workerVars, group>>

\* The request's own transaction: pending and last_sync_task_id, committed
\* after the task was submitted.
RequestCommitsGroup(r) ==
    /\ req[r].pc = "submitted"
    /\ group' = [status |-> "pending", task |-> req[r].task]
    /\ req' = [req EXCEPT ![r] = Idle]
    /\ UNCHANGED <<workerVars, row, thread>>

\* A commit that stays locked for all its attempts ends the request: no row,
\* or a CIDR row that is never submitted, or a group left as it was.
RequestFails(r) ==
    /\ req[r] # Idle
    /\ Fault
    /\ req' = [req EXCEPT ![r] = Idle]
    /\ \/ row' = row
       \/ /\ req[r].kind \in CidrKinds
          /\ req[r].pc = "checked" /\ RoomForTask
          /\ row' = [row EXCEPT ![FreshTask] = NewRow(req[r].worker, req[r].kind, "queued")]
    /\ UNCHANGED <<up, ticks, leader, waiting, looping, stray, todo, stops, thread, group>>

---------------------------------------------------------------------------
(* Threads of a worker's pool.                                             *)

Busy(w) == {t \in Tasks : AtWork(t) /\ WorkerOf(t) = w}

\* update_background_task writes its fields whatever the row holds.
update_background_task(t, s) == row' = [row EXCEPT ![t].status = s]

TaskStarts(t) ==
    /\ thread[t] = "queued"
    /\ Cardinality(Busy(WorkerOf(t))) < PoolSize
    /\ update_background_task(t, "running")
    /\ thread' = [thread EXCEPT ![t] = "working"]
    /\ UNCHANGED <<workerVars, req, group>>

TaskReportsProgress(t) ==
    /\ thread[t] \in {"working", "pushing"}
    /\ update_background_task(t, "running")
    /\ UNCHANGED <<workerVars, thread, req, group>>

\* run_push_full commits pending for its group.
SetupPushes(t) ==
    /\ thread[t] = "working" /\ row[t].kind = "node_sync_setup"
    /\ group' = [group EXCEPT !.status = "pending"]
    /\ thread' = [thread EXCEPT ![t] = "pushing"]
    /\ UNCHANGED <<workerVars, row, req>>

\* What the work commits for its group before it returns or raises: synced or
\* failed by the push, failed by an exception (fail_group_on_error), and for
\* the shared domain synced only if the group is pending.
SyncOutcomes(t) ==
    CASE thread[t] = "pushing" -> {"synced", "failed"}
      [] row[t].kind = "node_sync_setup" -> {"failed"}
      [] OTHER -> {"failed", IF group.status = "pending" THEN "synced" ELSE group.status}

SyncReportsGroup(t) ==
    /\ thread[t] \in {"working", "pushing"} /\ row[t].kind \in SyncKinds
    /\ \E s \in SyncOutcomes(t) : group' = [group EXCEPT !.status = s]
    /\ thread' = [thread EXCEPT ![t] = "reporting"]
    /\ UNCHANGED <<workerVars, row, req>>

TaskEnds(t) ==
    /\ \/ thread[t] = "reporting"
       \/ thread[t] = "working" /\ row[t].kind \notin SyncKinds
    /\ \E s \in {"completed", "failed"} : update_background_task(t, s)
    /\ thread' = [thread EXCEPT ![t] = "none"]
    /\ UNCHANGED <<workerVars, req, group>>

\* A status update that gives up ends the thread and leaves the row behind.
TaskUpdateLost(t) ==
    /\ thread[t] # "none"
    /\ Fault
    /\ thread' = [thread EXCEPT ![t] = "none"]
    /\ UNCHANGED <<up, ticks, leader, waiting, looping, stray, todo, stops, row, req, group>>

---------------------------------------------------------------------------
(* Recovery and reconcile.                                                 *)

\* First startup action: active rows of dead workers are failed.
recover_stale_running_tasks(w) ==
    /\ todo[w] = 1
    /\ row' = [t \in Tasks |-> IF Active(t) /\ ~is_owner_alive(row[t].owner)
                               THEN [row[t] EXCEPT !.status = "failed"] ELSE row[t]]
    /\ StartupGoesOn(w)
    /\ UNCHANGED <<faults, thread, req, group>>

RecoveredGroup ==
    IF group.status = "pending" /\ (group.task = NoOne \/ ~Active(group.task))
    THEN [group EXCEPT !.status = "failed"] ELSE group

\* Second startup action: a pending group whose task is over is failed.
recover_stuck_pending_groups(w) ==
    /\ todo[w] = 2
    /\ group' = RecoveredGroup
    /\ StartupGoesOn(w)
    /\ UNCHANGED <<faults, row, thread, req>>

\* Each startup action is tried once: an exception is logged and skipped.
StartupActionFails(w) ==
    /\ todo[w] # 0
    /\ Fault
    /\ StartupGoesOn(w)
    /\ UNCHANGED taskVars

\* Mutant: the reconcile loop only skips pending groups.
ReconcilesWithoutRecovery(w) ==
    /\ w \in looping \cup stray /\ up[w] = "serving"
    /\ group.status # "pending"
    /\ group' = [group EXCEPT !.status = "failed"]
    /\ UNCHANGED <<workerVars, row, thread, req>>

\* reconcile_sync_groups_once in the leader, or in a loop that a failed takeover
\* left behind: recover, then verify a group that is not pending, which may
\* find drift and fail it.
Reconciles(w) ==
    /\ w \in looping \cup stray /\ up[w] = "serving"
    /\ \/ group' = RecoveredGroup
       \/ RecoveredGroup.status # "pending" /\ group' = [group EXCEPT !.status = "failed"]
    /\ UNCHANGED <<workerVars, row, thread, req>>

---------------------------------------------------------------------------
(* Workers with their threads and requests.                                *)

\* uvicorn lets requests end before the lifespan shuts down.
WorkerStops(w) ==
    /\ \A r \in Requests : req[r].worker # w
    /\ Stops(w)
    /\ UNCHANGED taskVars

\* The interpreter joins the pool: queued and running work is done first.
WorkerExits(w) ==
    /\ \A t \in Tasks : thread[t] # "none" => WorkerOf(t) # w
    /\ Exits(w)
    /\ UNCHANGED taskVars

WorkerDies(w) ==
    /\ Dies(w)
    /\ thread' = [t \in Tasks |-> IF WorkerOf(t) = w THEN "none" ELSE thread[t]]
    /\ req' = [r \in Requests |-> IF req[r].worker = w THEN Idle ELSE req[r]]
    /\ UNCHANGED <<row, group>>

ThreadStep(t) ==
    \/ TaskStarts(t)
    \/ SetupPushes(t)
    \/ SyncReportsGroup(t)
    \/ TaskEnds(t)

RequestStep(r) == RequestEnqueues(r) \/ RequestCommitsGroup(r)

StartupStep(w) == recover_stale_running_tasks(w) \/ recover_stuck_pending_groups(w)

Next ==
    \/ \E w \in Workers : \/ (ElectionRuns(w) \/ TakeoverFails(w)) /\ UNCHANGED taskVars
                          \/ StartupStep(w)
                          \/ StartupActionFails(w)
                          \/ Reconciles(w)
                          \/ WorkerStops(w)
                          \/ WorkerExits(w)
                          \/ WorkerDies(w)
    \/ \E r \in Requests, w \in Workers, k \in Kinds :
          RequestChecks(r, w, k) \/ CidrRequestChecks(r, w, k) \/ SyncRequestChecks(r, w, k)
    \/ \E r \in Requests : RequestStep(r) \/ RequestFails(r)
    \/ \E t \in Tasks : ThreadStep(t) \/ TaskReportsProgress(t) \/ TaskUpdateLost(t)

Spec == Init /\ [][Next]_vars

\* What the main thread of worker w does by itself, one phase after another.
WorkerRuns(w) ==
    \/ ElectionRuns(w) /\ UNCHANGED taskVars
    \/ StartupStep(w)
    \/ WorkerExits(w)

\* Processes that exist make progress: a worker is started, elects, runs its
\* startup actions and ends when it should; requests and threads finish what
\* they began; the leader's reconcile loop (NODE_SYNC_RECONCILE_ENABLED, on by
\* default) comes round again. A stray loop is promised nothing.
FairSpec ==
    /\ Spec
    /\ \A w \in Workers : WF_vars(WorkerRuns(w)) /\ WF_vars(w \in looping /\ Reconciles(w))
    /\ \A r \in Requests : WF_vars(RequestStep(r))
    /\ \A t \in Tasks : WF_vars(ThreadStep(t))

---------------------------------------------------------------------------
(* Properties.                                                             *)

\* Types; the loops of a worker that started or took over exist only under the
\* leader lock. The loops a failed takeover left behind are in a worker that
\* serves and is out of the election for good: it neither holds the lock nor
\* waits for it, so it is never given a second set.
QueueInv ==
    /\ TypeOK
    /\ \A w \in looping : leader = w
    /\ \A w \in stray : up[w] = "serving" /\ leader # w /\ w \notin waiting
    /\ stray # {} => faults > 0

\* start_leader_workers, "Run schedulers in one worker": violated, because a
\* takeover that fails after it created loops only gives the lock back.
OneWorkerSchedules == Cardinality(looping \cup stray) <= 1

\* A task that is doing its work is shown as active, so that requests of its
\* type are refused: recovery never fails the task of a worker that lives.
\* (A CIDR task over its age limit is failed while its thread goes on.)
WorkIsShown == \A t \in Tasks : AtWork(t) /\ row[t].kind \notin CidrKinds => Active(t)

\* A finished task stays finished with the outcome it has, whatever late
\* progress reports, recoveries and restarts happen.
FinishedStays ==
    [][\A t \in Tasks : row[t].status \in {"completed", "failed"}
                        /\ row[t].kind \notin CidrKinds => row'[t] = row[t]]_vars

\* An active task that no thread stands behind: its type stays refused.
OrphanedTask(t) == Active(t) /\ thread[t] = "none"

\* A start of the whole panel (every worker was down) clears the tasks that
\* died with it, if no worker dies again and no commit is given up.
RestartClearsTasks ==
    (stops = MaxStops /\ \A w \in Workers : up[w] = "down")
        ~> (faults > 0 \/ \A t \in Tasks : ~OrphanedTask(t))

\* While a worker waits for the lock the schedulers are running or will be.
SchedulersPickedUp == (waiting # {}) ~> (looping # {} \/ waiting = {})

\* group_status.py: an HA group does not stay pending once its task is over, if
\* the reconcile loop is enabled and no fault happened (a status update that is
\* given up, a failed takeover: faults > 0 ends the promise). A task whose
\* worker died alone still counts as running and holds the group.
GroupLeavesPending ==
    (group.status = "pending")
        ~> \/ group.status # "pending"
           \/ faults > 0
           \/ group.task # NoOne /\ OrphanedTask(group.task)
=============================================================================
