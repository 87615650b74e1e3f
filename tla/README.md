# AdminPanelAZ: a verification development

AdminPanelAZ is a FastAPI panel that manages AntiZapret VPN nodes: it keeps users,
clients and access policies in SQLite, runs schedulers beside its HTTP requests, and
drives local and remote nodes through adapters. This directory holds TLA+ models of
the parts of it whose correctness depends on the order in which several actors act,
the TLC runs that check them on small instances, and TLAPS proofs of their main
safety properties for every size. `PROJECT.json` lists components, runs, mutants, the
definition-to-source map, findings, hazards and theorems; this file explains them.

## 1. Inventory

What the components share: one SQLite database in WAL mode (`busy_timeout` 30 s,
`autoflush` off), so a write waits for the write lock and never fails half-way;
SQLAlchemy sessions that keep the attributes of a loaded row until a commit and then
write only the changed columns; one or more uvicorn workers; network calls to nodes
in the middle of operations.

| Component (paths under `src/backend/app/`) | State | Operations | What is hard | What makes it correct |
|---|---|---|---|---|
| Background gate: `services/background_gate.py`, `routers/backups.py` | two flock files, `_pause_fds` of each worker | run a step, probe, pause, resume, restart | blocking lock taken under another lock, timeouts, worker death, a list shared by requests | restore excludes steps and restores; every pause ends |
| Web sessions: `services/refresh_token.py`, `active_web_session.py`, `auth.py`, `routers/auth.py` | `refresh_tokens`, `active_web_session`, `token_version`, unexpired JWTs | login, refresh, logout, revoke, change password, disable, touch, clean up | checks and writes in different transactions, grace window, clean-up against token lifetime | a family never forks, dead families and revoked sessions stay dead, a new password ends old sessions |
| OpenVPN client access: `services/access_policy.py`, `access_until.py`, `unlock_codes.py`, `node_sync/client_ops_sync.py` | policy rows, `banned_clients` on the node, `_cooldown_bans` | block, unblock, limits, deadlines, redeem, kick, tick, expire | rows minutes old when written, whole-file read-modify-write over the network, faults between commit and write | a manual block is lifted by nobody else, the file follows the rows |
| Buffer Guard: `services/openvpn_buffer_guard*.py` | ban events, the same file | ban, expire | same file, second writer | bans end, and end once |
| WireGuard / AWG 2 / AWG 3 access: `access_policy.py`, `awg3_access.py` | policy rows, runtime peers | as above, with runtime calls | partial failure of a batch | peers follow the rows |
| Unlock codes, subscriptions: `unlock_codes.py`, `user_subscription.py`, `client_portal.py` | codes, redemptions, `users.access_until`, deadlines of profiles | create, revoke, redeem, PATCH, sync, expire | deadlines read before the write lock, the last activation, cascade in a second transaction | the counter is exact and bounded, revoked codes are dead, a redeem gives what it counted |
| Backups and restore: `backup_manager.py`, `atomic_file.py`, `backup_overlays.py`, `telegram_update_dedup.py`, `backup_scheduler.py` | live files, WAL sidecars, archives, pre-restore copies, claimed updates | back up, upload, delete, restore, roll back, retain | one of several replacements fails, a copy pruned while in use, ungated requests, redelivered bot command | all files or none, complete backups outlive interrupted ones |
| Leader election: `worker_leader.py`, `lifespan_workers.py`, `main.py`, `process_identity.py` | leader flock, scheduler loops, startup actions, owner tokens | start, lead, wait, take over, stop, die | failed takeover, PID reuse | schedulers run in the lock's holder and are picked up again; what a failed takeover leaves is known |
| Background tasks and HA group status: `background_tasks.py`, `cidr/cidr_tasks.py`, `node_sync/group_status.py` | task rows with owners, thread pools, group status | check, enqueue, run, report, recover, reconcile | work in memory and its row in the database, death of one worker, lost commits | work is shown, finished tasks stay finished, a start clears the dead, groups leave pending |
| Server reboots: `server_reboot.py`, `routers/settings_reboot.py` | records with owners, timers of each worker | schedule, cancel, fire, end, interrupt | timer in one worker and cancel in another, abandoned records | a cancelled reboot never runs, one at a time, a record is over in the end unless its own update was lost |
| SSH tunnel pool: `ssh_tunnel_pool.py` | sessions per node, two kinds of locks, a cleaner | ensure, drop, expire, shut down | cleaner against a caller that just got a port | no leaked and no dead tunnel handed out |
| Failover pools: `failover_pool.py`, `failover_scheduler.py` | peers on members | sync, schedule | two syncs allocate from the same copy | no address given twice |
| Traffic collector: `traffic/collector.py` | counters per session, totals | persist a snapshot | counter resets, reconnects | totals never shrink and count nothing twice |
| Node groups: `node_sync/` | primary, replicas, fingerprints | replicate, verify, reconcile | drift during replication | replicas converge |
| Others (`PROJECT.json`, components) | | | mostly I/O, text or data processing | |

All but Buffer Guard, the WireGuard family, the tunnel and failover pools, the
traffic collector and replication are modelled (sections 3 and 7).

## 2. Plan

Done, in the order of what an error costs: `BackgroundGate`, `WebSessions`,
`ClientAccess`, each with a module of proofs; `PauseLock`, the abstract lock that
`BackgroundGate` implements and `PanelRestore` is built on; `PanelRestore`;
`PanelWorkers` with `TaskQueue` and `ServerReboot` on top of it; `UnlockCodes`. Every
component modelled has its proofs, and every safety property a passing run checks is
stated by a theorem.

Left, in this order:

1. `PeerAccess`: WireGuard and AWG 2/3 policies with runtime calls; Buffer Guard bans
   added to `ClientAccess`.
2. `SshTunnelPool` (cleaner against a caller that just got a port), `TrafficCollector`
   (deltas against a reference), `Failover` (two syncs allocate one address).
3. An abstract session {absent, open, closed} implemented by `WebSessions`.

## 3. The modules

### BackgroundGate

Two files lie beside the database. A background step (`_run_gated`) tries the *intent*
file shared, takes the *gate* file shared with a blocking flock, drops the intent and
runs. A restore (`pause_background_work`) takes the intent exclusively, then the gate
exclusively, stores both descriptors in the worker's `_pause_fds`, replaces the files
and keeps the locks until the restart its timer asks for; if the restore or the
restart fails, `resume_background_work` closes the whole list.

`stepPc` and `restorePc` say where threads are, `intentSh`, `intentEx`, `gateSh`,
`gateEx` who holds which file, `pauseFds` the lists, `taken` what a resume took. The
kernel drops the locks of a process that ends (`ProcessesEnd`). `Home` assigns threads
to workers, so two restores may share a list. A timeout is possible exactly when the
try failed, as `_flock_until` looks at the clock only then.

### WebSessions

One user. A refresh token has a family (also the web-session id) and a status; an
access token carries family and `token_version`. A request reads rows in one step and
writes in another; everything one transaction writes is one step. `auth` records the
password under which the chain of a token began, and `fate` marks access tokens that
existed when their session was revoked; both are history values no guard reads.

`Refresh*` follow the branches of `rotate_refresh_token`: live token, rotated inside
the grace window, rotated earlier (reuse). The two conditional UPDATEs (claim,
supersede) are atomic with the successor they commit. `Change*` has two transactions,
as `change_password` does. A logout with a bearer token of another session than its
cookie is a logout plus `RevokeActiveSession` of that session. `CleanupRevoked` may
remove a row once the access tokens that were issued before its revocation expired
(`_stale`).

### ClientAccess

A policy row has the columns that decide access; deadlines are `none`, `future` or
`past` and lapse by steps of the clock. `snap` is the session of each thread: `Load`
keeps what is already loaded, `Merge` writes the columns that changed, a commit
expires everything. A value that is a new moment (`NewMoments`) counts as changed even
if both moments are in the future. A reconcile is four steps: `ReadsRow`, `ReadsFile`,
`AppliesRow` (clean-up and commit; `Aged` lets a deadline pass after the load),
`WritesFile`; between them every other thread may act. The traffic worker loads all
rows at once and reconciles them one by one in the same session, so its rows may be
old. `NodeFails` covers an error of any call to the node, also one after the file was
written; `Crash` loses threads and cooldowns. A session that fails ends; a failed tick
is given up as `reconcile_traffic_limit_policies_safe` does.

### PauseLock and the refinement

`PauseLock` is what callers of the gate rely on: `running` steps share the database,
an `owner` has it alone, and any set of holders may leave at once. `BackgroundGate`
instantiates it with `running` = the steps past both locks and `owner` = the restores
past `pause_background_work`, and implements it (`ImplementsPauseLock`, checked and
proved). `PanelRestore` extends `PauseLock` itself: its auto-backups enter as steps and
its restores as owners, so what it shows rests on the gate only through this lock.

### PanelRestore

A file is the version of its content. `archives` and `copies` are sequences in order of
time; removed entries keep their place with the reason, which is what the retention
properties talk about. A backup reads the files one by one, appears by a rename, gets
its metadata, then lists and removes what retention dooms; it may die between any two.
A restore loads and checks everything, waits for the pause, applies overlays, copies
the files it will replace (and prunes old copies), replaces them one by one and removes
the WAL of each database, carries the claimed Telegram updates over, syncs the portal
domain and restarts the panel. An archive with nothing but overlays skips the copy and
the files (`NothingToReplace`). Any write may fail; a failure rolls back what was
replaced, and a copy that fails leaves the files copied so far as a directory that
counts (`SnapshotFails`). `live` is the version of the file alone. `wal` says whose frames
lie beside a database: a file put in place, by the restore or by its rollback, makes
them *foreign* until `remove_sqlite_sidecars` runs, which is a step of its own in both
(`SidecarsRemoved`, `SidecarsUnwound`) with ungated requests in between. That function
passes over the error of an unlink: the frames are then *stuck* and the restore goes on.
`good`, `broken` and `ran` are history values no guard reads.

### PanelWorkers, TaskQueue, ServerReboot

`PanelWorkers` has the processes: a worker starts, takes the leader flock and runs the
one-shot startup actions, or waits and polls; it may stop (threads are joined), exit or
die at any point, and its slot, which stands for a PID, may be reused. An owner token is
the PID with its start time. `looping` are the workers whose loops are in their task dict.
`start()` creates the loops one by one and may raise after some or all of them: at the
first start this ends the process (`Dies`), during a takeover it only gives the lock back
(`TakeoverFails`), and the loops created so far run on in `stray`, in no dict and
cancelled by nobody until the event loop ends. The two modules above it add what a worker
owns.

`TaskQueue`: a request checks for an active task, inserts a row, submits to its worker's
pool and, for HA set-up and shared domain, commits the group's `pending` afterwards, all
in separate transactions. The first leader of a start fails the rows whose owner is
dead and then the pending groups whose task is over; `Reconciles` repeats the second
part in the leader's loop, or in a stray one. `Fault` is a commit given up after its
retries or a failed takeover.

`ServerReboot`: `schedule_reboot` interrupts what it read as abandoned, inserts a record
(one active per node by a unique index) and arms a timer in its worker; `cancel_reboot`
may come through any worker; `_run` claims the record by a conditional UPDATE before it
calls the node. `late` marks records more than `ABANDONED_AFTER` over their time. Either
status update of `_run` may be lost (`RebootUpdateLost`): the thread ends and the record
stays.

### UnlockCodes

One user with numbered clients and their profiles, moments as numbers, 0 for NULL. A
redeem reads (`RedeemReads`; a user portal goes on to its next client while the reason
allows), and everything from the reservation UPDATE on is one transaction
(`RedeemCommits`) which computes from what the session read before: `Seen`. PATCH of a
user and the sync of a client commit in two steps. `ExpiryReads` and `ExpirySeeds` are
the part of the expiry worker that writes deadlines.

External, modelled from their use: SQLAlchemy's unit of work and identity map (`Merge`,
`Changed`, `Load`, `Seen`), keys and write-ahead log of SQLite, uvicorn's supervisor, the
kernel's release of locks.

## 4. Runs

| Run | Instance | Checks |
|---|---|---|
| `gate` | 2 workers, 3 steps, 2 restores in one worker; fair | lock discipline `GateInv`, `NoStepDuringRestore`, `ImplementsPauseLock` (which has `OneRestoreAtATime` in it), `GateNeverWaits`, `ResumeUnlocksOnlyItsOwn`, `NoLeakedPause`, and that restores and pauses end |
| `sessions_rotate` | 4 tokens, 1 family, 2 refreshes, 1 login, 1 change of version | `SessionInv` (no fork), revoked sessions stay rejected and empty, dead families stay dead |
| `sessions_password` | 3 tokens, one of them without a family, 2 families, a refresh, a logout, a password change | `SessionInv` |
| `sessions_lost_claim` | a refresh, a login, an administrator sets the password | violated: `PasswordChangeEndsSessions` |
| `access` | 1 client, 2 request threads, both workers, 2 requests or usage changes, of 5 kinds | `AccessInv`, `PermanentBanHeld` (longer sequences and the other kinds: proved) |
| `access_repair` | 2 clients, 1 request thread, traffic worker, 2 requests of 7 kinds, 1 fault; fair | `Repair` |
| `restore` | auto-backup, backup by hand, 2 restores, 1 bot command, no CIDR database at first, 3 requests, 2 faults (a failed write and a failed rollback or unlink); retention 1, copies 1 | `RestoreInv`, `AllOrNothing`, `CopyProtectsRestore`, `RollbackSourceStays`, `BotCommandRunsOnce` (without faults), `GatedArchivesWhole`, `PrunedBehindNewer`, `DamagedStaysOut`, `NoForeignWal` |
| `tasks` | 2 workers, 2 tasks, 1 request at a time, one of each kind of task that behaves differently, pool of 1, 1 death or stop, 1 fault; fair | `QueueInv`, `WorkIsShown`, `FinishedStays`, `RestartClearsTasks`, `SchedulersPickedUp`, `GroupLeavesPending` |
| `tasks_stray` | 2 workers, 1 task, 1 death or stop, 1 fault | violated: `OneWorkerSchedules` |
| `reboot` | 2 workers, 2 reboots of one node, 2 requests, 1 death or stop, 1 fault; fair | `RebootInv`, `CancelledNeverReboots`, `OneRebootAtATime`, `FinalStays`, `RestartFreesNodes`, `RebootIsOver` |
| `unlock` | 2 clients with 3 profiles, an unrestricted and a bound code, 2 redeems, 1 administrator, expiry worker, 3 requests | `UnlockInv`, `RevokedCodeIsDead`, `UndisturbedRedeemPays` |
| `unlock_grow` | the same without the cascade, 2 requests | violated: `RedeemOnlyGrows` |

Bounds. Two of everything that races is enough for the races of interest: two
refreshes for the claim, two restores for the shared list, two clients for lost
updates of the shared file. `restore` keeps one copy where the code keeps three, and one
archive, so that retention has something to remove after two; the theorems are for every
number. Four tokens allow login, rotation, a replay inside the
grace window and one more successor. Two requests allow a block and an
operation that loaded its row before it; the workers disturb both. `MaxJwts`, `MaxVersion`,
`MaxCalls` and `MaxFaults` only cut counters. The sessions runs do not check deadlock:
a panel whose budget of tokens is used up, with no request under way, is quiet.
Every property of a passing run has a mutant of a mapped definition that breaks it.

What the violated runs show (quotations under `findings`):

- A refresh that loses its claim to a password change is answered with an access token
  of the *new* `token_version`, since the commit expired the loaded user.
- A redeem on the user portal computes the new subscription and the deadlines of its
  target from rows its session read before the reservation took the write lock. A longer
  deadline committed in between is shortened, though the docs say deadlines only grow. In
  the trace an administrator edits the deadline of the profile in between.
- The leader dies, another worker takes the lock and its `start()` raises after it created
  loops (`main.py:240` starts the monitor after them). `_take_over_leadership` logs and
  releases the lock, and that is all: the worker that takes the lock next runs a second
  set of schedulers beside the stray ones, though `start_leader_workers` says "Run
  schedulers in one worker".

### Deviations met while modelling

The same models show these; they have no run of their own.

- `change_password` puts its new refresh token into the family of the old session, so a
  token rotated just before the change is inside its grace window and gets a successor
  (`routers/auth.py:683`); a session revoked between its two transactions gets a live
  token. Hence `NoTokenInRevokedSession` is for panels without a password change.
- A tick that read `banned_clients` during the cooldown of another client writes that
  client's ban back after its release; nothing reconciles a client without a policy row,
  so it stays banned (`access_policy.py:406`).
- A reconcile renames the reason `manual_temp` to `temp` (`access_policy.py:428`), which
  the check that unlock codes make for a manual block does not know.
- A tick that loaded a lapsed temporary block clears the one the administrator has set
  since (`access_policy.py:349`); a change of the traffic limit lifts a permanent block
  (hence the limit operations among `LiftsPermanent`).
- A request that opens a database between `os.replace` and `remove_sqlite_sidecars` finds
  the WAL of the old file, during a restore (`backup_manager.py:446`) and again during its
  rollback (`backup_manager.py:522`); `NoForeignWal` names these two windows. Outside of
  them frames stay only where an unlink failed: `remove_sqlite_sidecars` passes over the
  error (`backup_manager.py:26`) and the restore reports success, although its docstring
  promises a database "opened cleanly" and the comment at `backup_manager.py:448` says that
  the leftover WAL "would be replayed onto the restored file". A crash, or a failed write
  in a rollback, ends the claim (`broken`). A backup by hand during a restore mixes
  versions; a deleted pre-restore copy may be the one a restore needs (both excluded by
  name).
- A lost second `_set_status` (`server_reboot.py:200`) leaves a record "executing" under a
  living owner, which `_is_abandoned` never gives up: the node refuses every new reboot
  until that worker ends. A lost first one leaves it "pending" until it is
  `ABANDONED_AFTER` over its time and the next request or start clears it. `RebootIsOver`
  excuses these two and nothing else.
- Two requests may both find no active task and start two exclusive ones, which the
  comment at `routers/system.py:91` rules out.
- The expiry worker seeds profiles without a deadline with the subscription it read, even
  if that was extended since (`user_subscription.py:514`).

## 5. Fairness

`BackgroundGate`: weak fairness for a step that has its first lock, for the end of a
probe, and for a restore under way. Threads run to their end, `_flock_until` polls
with a deadline, the steps are finite; no fairness makes anybody start a step, a probe
or a restore, or a worker die. `ClientAccess`: weak fairness for a request under way
(its release thread included) and for both worker loops, which run every interval
while the panel is up and `traffic_sync_enabled` and
`traffic_limit_reconcile_after_sync` keep their defaults; none for requests, faults or
the clock. `TaskQueue` and `ServerReboot`: weak fairness for the main thread of each
worker (uvicorn restarts workers, the election polls, startup actions run, a stopping
process ends), for threads of the pool and fired timers, for a request past its check, for
the clock that makes a pending reboot late, and for the leader's reconcile loop, which
presumes `NODE_SYNC_RECONCILE_ENABLED` (on by default); none for stray loops, requests to arrive, progress reports, faults,
stops and deaths. The sessions, restore and unlock runs need none.

## 6. What is proved

All proofs are for arbitrary constants under the named assumptions of the modules
(threads of different kinds are different, bounds are naturals, `Home` is a function).

- `BackgroundGateProofs`. `GateInv` is inductive: who holds which file is a function of
  the program counters (`LocksFollowPcs`), exclusive locks exclude
  (`FlockExclusion`), and the list of a worker holds exactly its restores past the
  stash (`PauseListFollowsPcs`). None of the safety properties is inductive alone: that
  a resume closes only its own descriptors needs that no second restore can be in the
  list, which needs the intent lock, which needs the program counters. From it follow
  `NoStepDuringRestore`, `OneRestoreAtATime`, `GateNeverWaits`,
  `ResumeUnlocksOnlyItsOwn` and `NoLeakedPause`, and, with it as the invariant,
  `GateImplementsLock`: initial states map to initial states of `PauseLock` and each action
  to an entry, a leave or a stutter.
- `WebSessionsProofs`. `SessionInv`: a family has at most one unrevoked token. The
  strengthening says that requests remember tokens that exist, with the family they
  had (`HeldOK`), that families of sessions, access tokens and requests are in use
  (`NamesAreUsed`, so a fresh id is really fresh), and that a password change about to
  issue finds its family empty (`IssuesIntoDeadFamily`). The last holds only while at
  most one password change runs, the hypothesis of `RotationNeverForks` and
  `DeadFamilyTheorem`. `RevokedStaysRejectedTheorem` needs no hypothesis;
  `NoTokenInRevokedTheorem` assumes no password change, for the reason above.
- `ClientAccessProofs`. `AccessInv`: an idle thread has an empty session
  (`FreshSession`), a thread that will edit has loaded its row (`Loaded`), rows of
  sessions are still in the table (`RowsStay`), and a redeem about to commit holds a
  row without a permanent block (`RedeemChecked`). `PermanentBanTheorem` follows: an
  UPDATE changes `is_permanent_blocked` only if the value in the session changed, a
  redeem loaded 0 and writes 0, and a reconcile changes it only after a limit change.
- `UnlockCodesProofs`. `UnlockInv` is inductive as it stands; its step needs that holders
  are finitely many and that `Duplicate`, the unique index, is checked in the transaction
  that counts (`CommitCounts`), and its types that the least of the deadlines of a client
  exists (`LeastMoment`). `RedeemPays` needs one more fact, that a client portal never
  loads the subscription (`SubOfUser`), and then arithmetic on both portals.
- `ServerRebootProofs`. `RebootIInv` relates processes, records, timers and requests. A
  timer's process is alive (`TimersOwned`), which needs that start times only grow
  (`OwnersPast`): a PID that comes back is not the old owner. `RanClaimed` and
  `RunningClaimed` say what the conditional UPDATE of `_run` means later: a record whose
  callback was called is never pending or cancelled, and one whose callback still runs
  was interrupted only if it was late. The clean-up works on ids read in an earlier
  transaction; `ReadAbandoned` says why this is safe: an owner that was dead stays dead
  through any start or end of a worker (`AliveQuiet`, `EndsKeep`). With the unique index
  (`OneActive`) follow `RebootInv`, `CancelledNeverReboots`, `OneRebootAtATime` and
  `FinalStays`.
- `PanelWorkersProofs` has the lemmas that this proof and the next share: what each step
  of a worker process does to the set of living owners, to the leader lock and to the
  loops. `LoopsAreLed` adds to where loops are that holding the lock, waiting for it and
  starting exclude one another; without it a worker with stray loops might take over.
- `TaskQueueProofs`. A task is shown as long as it is worked on (`WorkStaysShown`)
  because a thread belongs to a living owner (`ThreadsOwned`) and stands behind an active
  row (`ThreadsShown`), and the recovery only fails rows whose owner it finds dead.
  Requests need `Served`: a request that is between two transactions has a worker that
  serves, so the row it inserts has a living owner. `SchedulersAreLed` and
  `OutcomesAreFinal` follow from the same invariant. `SchedulersAreLed` does not say that
  one worker schedules, which is false (`tasks_stray`): it says where loops without the
  lock can be, and that their worker never gets others.
- `PanelRestoreProofs` climbs in layers, each an invariant that uses those below.
  `Typed`: types, and a restore that replaces has a copy on record. `Alone`: only the
  owner of the pause is past it, with no background step; it gives
  `RestoreUsesPauseLock`. `Progress`: the files of a restore are divided into
  those `done` and those `left`, and a rollback goes over files that were replaced.
  `Whole`: every file is the restore's if done and the last consistent one if
  not; its copy holds the latter and has not been pruned. `AllOrNothing` alone
  is not inductive: that a rollback ends where the restore began needs the copy to be
  good, that needs the copy to outlive the retention that every later restore runs,
  and that needs that there is none. On top of these stand
  `RestoreInv`, `AllOrNothing`, `CopyProtectsRestore`, `RollbackSourceStays` (only the
  retention of the rollback itself could take its source, since it is alone), `NoForeignWal`
  (foreign frames lie only beside the file put in place last, by the restore or the
  rollback, and stuck ones only after a fault), `GatedArchivesWhole` (what an auto-backup
  has read so far is the last consistent set, for no restore replaces meanwhile,
  `ReadsWhole`) and `BotCommandRunsOnce`. The last needs what `OnceInv` says of updates
  already carried out: the panel knows them, or the copy of the restore that
  replaces the panel database does (`Known`), and a restore still to be carried out for an
  update is alone on its way to the restart (`Awaited`). Two proofs need only `Typed`.
  `PrunedBehindNewer`: what a retention run chose stays behind `Count` newer
  complete archives until it removes it, though others are added, deleted and pruned
  meanwhile (`RetentionInv`). `DamagedStaysOut`: nothing that is in place or loaded is
  damaged, so no copy and no backup is either (`CleanInv`). Assumed are disjoint
  kinds of threads, that the panel has its database and its settings at the start, that an
  upload called damaged has a database to be damaged, and that no Telegram update
  is called "http".

Only model-checked: the liveness properties, as the prover reasons neither about fairness
nor about ENABLED, and the violated properties.

## 7. What is not modelled

In `ClientAccess`: Buffer Guard bans, deletion of policy rows, rows whose
`updated_by` is empty (every writer sets it), the branch of a redeem for a portal user,
replication to the nodes of a group, amounts of time and of traffic, several workers
with cooldowns of their own, and a replaced deadline that lapses between load and
apply while its replacement is still in the future. In `WebSessions`: several users (every query
filters by token, family or user), rate limits, captcha and second factors before the
credentials are accepted, and disabled session tracking. In `BackgroundGate`: HTTP
requests, which are not gated.

In `PanelRestore`: archive formats, the content of overlays, free-space arithmetic, the
clean-up of stale partial files, clocks of archives (names are taken as ordered), and a
single file half written by a copy that fails (a failed copy has whole files). In
`TaskQueue`: messages and results of tasks, removal of old rows, the in-memory backend of
tests, the verification of a group beyond its outcome. In `ServerReboot`: who may reboot
and the call to the node beyond its outcome. In `UnlockCodes`: inheritance of a
subscription when a profile is created, replication to a group, the feature flag and
attempt limits. The other components of the inventory are listed in `PROJECT.json` with
the reason; the frontend, the installers, message texts, list downloads and agents are
I/O and data processing without control that TLC could add to a test of.

Steps of the code that a model merges into one:

- The bot's claim of an update and the load of its archive (`BotRestores`): an archive
  does not change between them, and a claim without a restore is `BotRefused`.
- A shared-domain task decides on the group status that its session loaded earlier
  (`node_sync/shared_domain.py:249`), `SyncOutcomes` on the current one; the states it may
  leave are reached otherwise.
- `interrupt_abandoned_reboots` at the start reads and updates in one step; the two steps
  are apart in `ScheduleReads` and `schedule_reboot`, where the race is looked at.
- A login mints its tokens and commits in one step (`LoginIssues`, `routers/auth.py:252`):
  nobody knows the family yet, and the race with an administrator who ends all sessions of
  the user is looked at between `LoginAuthenticates` and `LoginIssues`.
