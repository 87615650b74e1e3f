--------------------------- MODULE ServerReboot ---------------------------
(***************************************************************************)
(* Scheduled reboots of a node with a cancel window (server_reboot.py,     *)
(* routers/settings_reboot.py), over the workers of PanelWorkers.          *)
(*                                                                         *)
(* The record is in the database, the timer in the memory of the worker    *)
(* that scheduled it. Any worker may cancel: only the status decides, and  *)
(* every status change is a compare-and-set. A record whose worker is dead, *)
(* or that is two minutes over its time, no longer holds its node.         *)
(***************************************************************************)
EXTENDS PanelWorkers

CONSTANTS Reboots,   \* ids of reboot records (bounds their number)
          Nodes,
          Requests   \* concurrent schedule and cancel requests

\* interrupt_abandoned_reboots is the startup action modelled here.
ASSUME RebootAssumption == StartupSteps = 1

VARIABLES rec,    \* server_reboot_requests
          timer,  \* the threading.Timer of a record in its worker
          late,   \* records over their time by ABANDONED_AFTER
          ran,    \* history: records whose execute callback was called
          req     \* requests in progress

rebootVars == <<rec, timer, late, ran, req>>
vars == <<workerVars, rebootVars>>

ACTIVE_STATUSES == {"pending", "executing"}
FinalStatuses == {"cancelled", "executed", "failed", "interrupted"}

NoRec == [status |-> "none", node |-> NoOne, owner |-> <<NoOne, 0>>]
Idle == [pc |-> "idle", worker |-> NoOne]

TypeOK ==
    /\ WorkersTypeOK
    /\ rec \in [Reboots -> [status : ACTIVE_STATUSES \cup FinalStatuses,
                            node : Nodes, owner : Owners] \cup {NoRec}]
    /\ timer \in [Reboots -> {"none", "armed", "running"}]
    /\ late \subseteq Reboots
    /\ ran \subseteq Reboots
    /\ req \in [Requests ->
                   [pc : {"read"}, worker : Workers, node : Nodes, ids : SUBSET Reboots]
                   \cup [pc : {"cancelled"}, worker : Workers, reboot : Reboots]
                   \cup {Idle}]

Init ==
    /\ WorkersInit
    /\ rec = [r \in Reboots |-> NoRec]
    /\ timer = [r \in Reboots |-> "none"]
    /\ late = {}
    /\ ran = {}
    /\ req = [q \in Requests |-> Idle]

Active(r) == rec[r].status \in ACTIVE_STATUSES

\* _set_status: a compare-and-set.
set_status(r, expected, new) ==
    rec' = IF rec[r].status = expected THEN [rec EXCEPT ![r].status = new] ELSE rec

is_abandoned(r) ==
    \/ ~is_owner_alive(rec[r].owner)
    \/ rec[r].status = "pending" /\ r \in late

\* SELECT of _interrupt_abandoned.
AbandonedIds == {r \in Reboots : Active(r) /\ is_abandoned(r)}

\* Mutant: the update takes every record that was read.
InterruptedAll(ids) ==
    [r \in Reboots |-> IF r \in ids THEN [rec[r] EXCEPT !.status = "interrupted"] ELSE rec[r]]

\* UPDATE of _interrupt_abandoned: the ids read before, if still active.
Interrupted(ids) ==
    [r \in Reboots |-> IF r \in ids /\ Active(r)
                       THEN [rec[r] EXCEPT !.status = "interrupted"] ELSE rec[r]]

---------------------------------------------------------------------------
(* Requests.                                                               *)

Free == {r \in Reboots : rec[r] = NoRec}

\* The read is its own transaction in SQLite: statuses may change after it.
ScheduleReads(q, w, n) ==
    /\ req[q] = Idle /\ up[w] = "serving" /\ Free # {}
    /\ req' = [req EXCEPT ![q] = [pc |-> "read", worker |-> w, node |-> n, ids |-> AbandonedIds]]
    /\ UNCHANGED <<workerVars, rec, timer, late, ran>>

\* The unique index refuses a second active record of the node.
NodeTaken(n, recs) == \E r \in Reboots : recs[r].node = n /\ recs[r].status \in ACTIVE_STATUSES

\* Update and insert commit together, then the timer is started. A duplicate
\* rolls both back (409).
schedule_reboot(q) ==
    LET recs == Interrupted(req[q].ids)
        r == CHOOSE x \in Free : TRUE
        new == [status |-> "pending", node |-> req[q].node,
                owner |-> current_process_owner(req[q].worker)]
    IN  /\ req[q].pc = "read" /\ Free # {}
        /\ IF NodeTaken(req[q].node, recs)
           THEN UNCHANGED <<rec, timer>>
           ELSE /\ rec' = [recs EXCEPT ![r] = new]
                /\ timer' = [timer EXCEPT ![r] = "armed"]
        /\ req' = [req EXCEPT ![q] = Idle]
        /\ UNCHANGED <<workerVars, late, ran>>

\* Mutant: a reboot that executes can be cancelled too.
cancel_reboot_executing(q, w, r) ==
    /\ req[q] = Idle /\ up[w] = "serving"
    /\ Active(r)
    /\ rec' = [rec EXCEPT ![r].status = "cancelled"]
    /\ req' = [req EXCEPT ![q] = [pc |-> "cancelled", worker |-> w, reboot |-> r]]
    /\ UNCHANGED <<workerVars, timer, late, ran>>

\* cancel_reboot in any worker: only a pending record can be cancelled.
cancel_reboot(q, w, r) ==
    /\ req[q] = Idle /\ up[w] = "serving"
    /\ rec[r].status = "pending"
    /\ set_status(r, "pending", "cancelled")
    /\ req' = [req EXCEPT ![q] = [pc |-> "cancelled", worker |-> w, reboot |-> r]]
    /\ UNCHANGED <<workerVars, timer, late, ran>>

\* The timer can be stopped only in the worker that has it.
CancelStopsTimer(q) ==
    /\ req[q].pc = "cancelled"
    /\ timer' = IF timer[req[q].reboot] = "armed" /\ rec[req[q].reboot].owner[1] = req[q].worker
                THEN [timer EXCEPT ![req[q].reboot] = "none"] ELSE timer
    /\ req' = [req EXCEPT ![q] = Idle]
    /\ UNCHANGED <<workerVars, rec, late, ran>>

---------------------------------------------------------------------------
(* The timer thread.                                                       *)

\* _run: claim the record, and call the node only with the claim.
TimerFires(r) ==
    /\ timer[r] = "armed"
    /\ set_status(r, "pending", "executing")
    /\ IF rec'[r].status = "executing"
       THEN timer' = [timer EXCEPT ![r] = "running"] /\ ran' = ran \cup {r}
       ELSE timer' = [timer EXCEPT ![r] = "none"] /\ ran' = ran
    /\ UNCHANGED <<workerVars, late, req>>

\* Mutant: the outcome is not written.
RebootEndsSilently(r) ==
    /\ timer[r] = "running"
    /\ timer' = [timer EXCEPT ![r] = "none"]
    /\ UNCHANGED <<workerVars, rec, late, ran, req>>

RebootEnds(r) ==
    /\ timer[r] = "running"
    /\ \E s \in {"executed", "failed"} : set_status(r, "executing", s)
    /\ timer' = [timer EXCEPT ![r] = "none"]
    /\ UNCHANGED <<workerVars, late, ran, req>>

\* A status update raises: the thread ends and the record stays.
RebootUpdateLost(r) ==
    /\ timer[r] # "none"
    /\ Fault
    /\ timer' = [timer EXCEPT ![r] = "none"]
    /\ UNCHANGED <<up, ticks, leader, waiting, looping, stray, todo, stops, rec, late, ran, req>>

\* A pending record is not run in time: its timer thread starves or is gone.
TimePasses(r) ==
    /\ rec[r].status = "pending" /\ r \notin late
    /\ late' = late \cup {r}
    /\ UNCHANGED <<workerVars, rec, timer, ran, req>>

---------------------------------------------------------------------------
(* Workers with their timers.                                              *)

interrupt_abandoned_reboots(w) ==
    /\ todo[w] = 1
    /\ rec' = Interrupted(AbandonedIds)
    /\ StartupGoesOn(w)
    /\ UNCHANGED <<faults, timer, late, ran, req>>

StartupActionFails(w) ==
    /\ todo[w] # 0
    /\ Fault
    /\ StartupGoesOn(w)
    /\ UNCHANGED rebootVars

WorkerStops(w) ==
    /\ \A q \in Requests : req[q].worker # w
    /\ Stops(w)
    /\ UNCHANGED rebootVars

\* Timers are daemon threads: they end with the process, fired or not.
TimersEnd(w) ==
    timer' = [r \in Reboots |-> IF rec[r].owner[1] = w THEN "none" ELSE timer[r]]

WorkerExits(w) ==
    /\ Exits(w)
    /\ TimersEnd(w)
    /\ UNCHANGED <<rec, late, ran, req>>

WorkerDies(w) ==
    /\ Dies(w)
    /\ TimersEnd(w)
    /\ req' = [q \in Requests |-> IF req[q].worker = w THEN Idle ELSE req[q]]
    /\ UNCHANGED <<rec, late, ran>>

WorkerRuns(w) ==
    \/ ElectionRuns(w) /\ UNCHANGED rebootVars
    \/ interrupt_abandoned_reboots(w)
    \/ WorkerExits(w)

Next ==
    \/ \E w \in Workers : \/ WorkerRuns(w)
                          \/ TakeoverFails(w) /\ UNCHANGED rebootVars
                          \/ StartupActionFails(w)
                          \/ WorkerStops(w)
                          \/ WorkerDies(w)
    \/ \E q \in Requests, w \in Workers : \/ \E n \in Nodes : ScheduleReads(q, w, n)
                                          \/ \E r \in Reboots : cancel_reboot(q, w, r)
    \/ \E q \in Requests : schedule_reboot(q) \/ CancelStopsTimer(q)
    \/ \E r \in Reboots : TimerFires(r) \/ RebootEnds(r) \/ RebootUpdateLost(r) \/ TimePasses(r)

Spec == Init /\ [][Next]_vars

\* A worker that exists runs; a timer fires and its callback returns; the clock
\* goes on, so a record that stays pending is ABANDONED_AFTER over its time.
FairSpec ==
    /\ Spec
    /\ \A w \in Workers : WF_vars(WorkerRuns(w))
    /\ \A r \in Reboots : WF_vars(TimerFires(r) \/ RebootEnds(r)) /\ WF_vars(TimePasses(r))

---------------------------------------------------------------------------
(* Properties.                                                             *)

\* Types; an armed or running timer belongs to a process that is alive.
RebootInv == TypeOK /\ \A r \in Reboots : timer[r] # "none" => is_owner_alive(rec[r].owner)

\* A reboot that was cancelled, in whichever worker, never reaches the node.
CancelledNeverReboots == \A r \in ran : rec[r].status # "cancelled"

\* cancelled, executed, failed and interrupted are final: a late timer, a
\* second cancel or a clean-up that read the record earlier changes nothing.
FinalStays ==
    [][\A r \in Reboots : rec[r].status \in FinalStatuses => rec'[r] = rec[r]]_vars

\* Two reboots of one node are never under way together, unless the first was
\* more than ABANDONED_AFTER over its time when it began.
OneRebootAtATime ==
    \A r, s \in Reboots :
        /\ r # s /\ rec[r].node = rec[s].node
        /\ timer[r] = "running" /\ timer[s] = "running"
        => r \in late \/ s \in late

\* A start of the whole panel frees the nodes that records without a timer
\* hold, if no worker dies again and no update is given up.
RestartFreesNodes ==
    (stops = MaxStops /\ \A w \in Workers : up[w] = "down")
        ~> (faults > 0 \/ \A r \in Reboots : Active(r) => timer[r] # "none")

HeldByLiving(r) == Active(r) /\ is_owner_alive(rec[r].owner)

\* A status update of the timer thread was given up: the thread is gone and the
\* record stays as it was.
Stranded(r) == Active(r) /\ timer[r] = "none" /\ faults > 0

\* A scheduled reboot of a worker that lives is over in the end: executed, failed,
\* cancelled or interrupted; or its worker ended and the record waits for the
\* next request or start. A record whose own status update was lost is excused
\* in two ways only. Lost before the call, it stays pending, is abandoned in
\* time and holds its node no longer than to the next clean-up. Lost after the
\* call, it stays "executing", which is_abandoned never gives up while the
\* worker lives: the node is refused until that worker ends.
RebootIsOver ==
    \A r \in Reboots :
        HeldByLiving(r)
            ~> \/ ~HeldByLiving(r)
               \/ Stranded(r) /\ (is_abandoned(r) \/ rec[r].status = "executing")
=============================================================================
