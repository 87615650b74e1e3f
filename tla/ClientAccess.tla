---------------------------- MODULE ClientAccess ----------------------------
(***************************************************************************)
(* Access of OpenVPN clients on one node: the policy rows of the database  *)
(* (services/access_policy.py, access_until.py, unlock_codes.py), the      *)
(* banned_clients file of the node that the OpenVPN connect hook reads,    *)
(* and the in-memory disconnect cooldowns.                                 *)
(*                                                                         *)
(* Every operation loads a row into its ORM session, later writes the      *)
(* columns it changed in one transaction, and then reconciles: it loads    *)
(* the row again, reads the file over the network, commits the cleaned up  *)
(* row and writes the whole file back.  Other threads run in between.      *)
(*                                                                         *)
(* A deadline is none, future or past; the clock is the pair of Lapse      *)
(* actions.  Usage is above or below the lower of two traffic limits.      *)
(* updated_by is set by every writer, so the branch of                     *)
(* _cleanup_ovpn_traffic_limit for rows without an author is dead here.    *)
(***************************************************************************)
EXTENDS Naturals, FiniteSets

CONSTANTS
    Clients,     \* names of OpenVPN clients
    Api,         \* request threads, and the release thread a kick leaves behind
    Traffic,     \* the traffic worker, which reconciles every row on each tick
    Expiry,      \* the access-expiry worker
    Jobs,        \* the requests that arrive
    MaxCalls,    \* bound on requests and on changes of the usage
    MaxFaults    \* bound on node failures and process crashes

ASSUME BoundsAssumption == MaxCalls \in Nat /\ MaxFaults \in Nat
ASSUME ThreadsAssumption ==
    Api \cap Traffic = {} /\ Api \cap Expiry = {} /\ Traffic \cap Expiry = {}

VARIABLES
    db,         \* openvpn_access_policy: the row of each client
    over,       \* the clients that used more than the lower limit
    banned,     \* the banned_clients file
    cooldown,   \* _cooldown_bans
    pc,         \* where each thread is
    job,        \* the operation it runs
    client,     \* the client it works on
    snap,       \* rows loaded in its ORM session
    file,       \* the set it read from the file, then the set it will write
    todo,       \* clients left in a tick of the traffic worker
    calls,      \* requests so far
    faults      \* faults so far

thread == <<pc, job, client, snap, file, todo>>
vars == <<db, over, banned, cooldown, thread, calls, faults>>

Threads == Api \cup Traffic \cup Expiry

LimitJobs == {"limitLow", "limitHigh", "clearLimit"}
AllJobs == LimitJobs \cup {"temp", "perm", "unblock", "deadline", "noDeadline", "redeem", "kick"}
Deadlines == {"none", "future", "past"}
Modes     == {"none", "permanent", "access_expired", "temp", "traffic_limit"}
Reasons   == Modes \cup {"manual_temp", "manual_permanent"}

Bits == {0, 1}   \* how SQLite stores a Boolean column

Rows == [until : Deadlines, temp : Bits, blockUntil : Deadlines, perm : Bits,
         reason : Reasons, limit : {"none", "low", "high"}]

Row(u, t, b, p, r, l) ==
    [until |-> u, temp |-> t, blockUntil |-> b, perm |-> p, reason |-> r, limit |-> l]

Blank   == Row("none", 0, "none", 0, "none", "none")
NoRow   == Row("none", 0, "none", 0, "no row", "none")    \* the query finds nothing
Expired == Row("none", 0, "none", 0, "expired", "none")   \* not loaded

TypeOK ==
    /\ db \in [Clients -> Rows \cup {NoRow}]
    /\ over \subseteq Clients
    /\ banned \subseteq Clients
    /\ cooldown \subseteq Clients
    /\ pc \in [Threads -> {"idle", "commit", "loop", "row", "file", "apply", "allow",
                           "write", "disconnect", "cooling"}]
    /\ job \in [Threads -> AllJobs \cup {"release", "tick", "expire", "none"}]
    /\ client \in [Threads -> Clients]
    /\ snap \in [Threads -> [Clients -> Rows \cup {NoRow, Expired}]]
    /\ file \in [Threads -> SUBSET Clients]
    /\ todo \in [Threads -> SUBSET Clients]
    /\ calls \in 0..MaxCalls
    /\ faults \in 0..MaxFaults

NothingLoaded == [c \in Clients |-> Expired]

Init ==
    /\ db = [c \in Clients |-> NoRow]
    /\ over = {}
    /\ banned = {}
    /\ cooldown = {}
    /\ pc = [t \in Threads |-> "idle"]
    /\ job = [t \in Threads |-> "none"]
    /\ client \in [Threads -> Clients]
    /\ \A t, u \in Threads : client[t] = client[u]
    /\ snap = [t \in Threads |-> NothingLoaded]
    /\ file = [t \in Threads |-> {}]
    /\ todo = [t \in Threads |-> {}]
    /\ calls = 0
    /\ faults = 0

-----------------------------------------------------------------------------
(* What a row means                                                        *)

\* _ovpn_traffic_state: traffic_limit_exceeded
Exceeded(c, row) == row.limit = "low" /\ c \in over

TempActive(row) == row.temp = 1 /\ row.blockUntil = "future"

\* _ovpn_state: block_mode; the client is blocked unless it is "none".
BlockMode(c, row) ==
    IF row.perm = 1 THEN "permanent"
    ELSE IF row.until = "past" THEN "access_expired"
    ELSE IF TempActive(row) THEN "temp"
    ELSE IF Exceeded(c, row) THEN "traffic_limit"
    ELSE "none"

\* _is_manual_admin_block
ManualBlock(row) == row.perm = 1 \/ row.reason \in {"manual_permanent", "manual_temp"}

\* _cleanup_ovpn_temp_block
CleanTemp(row) ==
    IF row.temp = 1 /\ row.blockUntil = "past"
    THEN Row(row.until, 0, "none", row.perm,
             IF row.reason = "manual_temp" THEN "none" ELSE row.reason, row.limit)
    ELSE row

\* _cleanup_ovpn_traffic_limit
CleanLimit(c, row, limitChanged) ==
    LET lifts  == limitChanged /\ row.perm = 1 /\ row.temp = 0
        resets == lifts \/ row.reason = "traffic_limit"
    IN  IF Exceeded(c, row) THEN row
        ELSE Row(row.until, row.temp, IF resets THEN "none" ELSE row.blockUntil,
                 IF lifts THEN 0 ELSE row.perm, row.reason, row.limit)

\* The row that reconcile_openvpn leaves.
Reconciled(c, row, limitChanged) ==
    LET cleaned == CleanLimit(c, CleanTemp(row), limitChanged)
    IN  Row(cleaned.until, cleaned.temp, cleaned.blockUntil, cleaned.perm,
            BlockMode(c, cleaned), cleaned.limit)

\* now is taken after the row was loaded: a deadline may have passed since.
Aged(c, row) ==
    LET Seen(loaded, stored) == IF loaded = "future" /\ stored = "past" THEN "past" ELSE loaded
    IN  Row(Seen(row.until, db[c].until), row.temp, Seen(row.blockUntil, db[c].blockUntil),
            row.perm, row.reason, row.limit)

\* The row an operation leaves in its session; an absent row was added blank.
Edited(j, row) ==
    CASE j = "temp"       -> Row(row.until, 1, "future", 0, "manual_temp", row.limit)
      [] j = "perm"       -> Row(row.until, 0, "none", 1, "manual_permanent", row.limit)
      [] j = "unblock"    -> Row(row.until, 0, "none", 0, "none", row.limit)
      [] j = "limitLow"   -> Row(row.until, row.temp, row.blockUntil, row.perm, row.reason, "low")
      [] j = "limitHigh"  -> Row(row.until, row.temp, row.blockUntil, row.perm, row.reason, "high")
      [] j = "clearLimit" -> Row(row.until, row.temp, row.blockUntil, row.perm, row.reason, "none")
      [] j = "deadline"   -> Row("future", row.temp, row.blockUntil, row.perm, row.reason, row.limit)
      [] j = "noDeadline" -> Row("none", row.temp, row.blockUntil, row.perm, row.reason, row.limit)
      [] OTHER            -> Row("future", 0, "none", 0, "none", row.limit)   \* redeem

\* The columns to which an operation gives a moment that no row held before.
NewMoments(j) ==
    CASE j = "temp" -> {"blockUntil"} [] j \in {"deadline", "redeem"} -> {"until"} [] OTHER -> {}

\* An UPDATE sets the columns whose value in the session changed.
Changed(stored, loaded, edited) == IF edited # loaded THEN edited ELSE stored

\* Fault for mutation: the UPDATE writes every column of the loaded row back.
MergeWholeRow(stored, loaded, edited, moments) == edited

Merge(stored, loaded, edited, moments) ==
    Row(IF "until" \in moments THEN edited.until ELSE Changed(stored.until, loaded.until, edited.until),
        Changed(stored.temp, loaded.temp, edited.temp),
        IF "blockUntil" \in moments THEN edited.blockUntil
        ELSE Changed(stored.blockUntil, loaded.blockUntil, edited.blockUntil),
        Changed(stored.perm, loaded.perm, edited.perm),
        Changed(stored.reason, loaded.reason, edited.reason),
        Changed(stored.limit, loaded.limit, edited.limit))

-----------------------------------------------------------------------------
(* Threads                                                                 *)

\* A query keeps the attributes of a row the session already holds.
Load(t, c) == snap' = [snap EXCEPT ![t][c] = IF @ \in {Expired, NoRow} THEN db[c] ELSE @]

\* The thread is done and its session closed.
Closes(t) ==
    /\ pc' = [pc EXCEPT ![t] = "idle"]
    /\ job' = [job EXCEPT ![t] = "none"]
    /\ snap' = [snap EXCEPT ![t] = NothingLoaded]
    /\ file' = [file EXCEPT ![t] = {}]
    /\ todo' = [todo EXCEPT ![t] = {}]

\* A request ends, or the traffic worker goes to the next client of its tick.
Finish(t) ==
    IF pc[t] \in {"apply", "write"} /\ job[t] = "tick"
    THEN /\ pc' = [pc EXCEPT ![t] = "loop"]
         /\ file' = [file EXCEPT ![t] = {}]
         /\ UNCHANGED <<job, snap, todo>>
    ELSE Closes(t)

Goto(t, l) == pc' = [pc EXCEPT ![t] = l]

Called == calls < MaxCalls /\ calls' = calls + 1

\* Fault for mutation: an unlock code does not look for a manual block.
AllowedUnchecked(j, c, row) == j = "unblock" => ~Exceeded(c, row)

\* Does the loaded row allow the operation?  Unblocking raises while the
\* traffic limit is exceeded, and a manual block refuses an unlock code.
Allowed(j, c, row) ==
    /\ j = "unblock" => ~Exceeded(c, row)
    /\ j = "redeem"  => ~ManualBlock(row)

\* A request loads the row of its client and checks it.
JobLoads(t, j, c) ==
    /\ pc[t] = "idle"
    /\ j \in Jobs \ {"kick"}
    /\ Called
    /\ Allowed(j, c, db[c])
    /\ Load(t, c)
    /\ Goto(t, "commit")
    /\ job' = [job EXCEPT ![t] = j]
    /\ client' = [client EXCEPT ![t] = c]
    /\ UNCHANGED <<db, over, banned, cooldown, file, todo, faults>>

\* It commits.  Unblocking a client whose deadline is past only takes the
\* client out of the file; everything else reconciles.
JobCommits(t) ==
    LET c == client[t]
        loaded == IF snap[t][c] = NoRow THEN Blank ELSE snap[t][c]
        stored == IF db[c] = NoRow THEN Blank ELSE db[c]
    IN  /\ pc[t] = "commit"
        /\ snap[t][c] = NoRow => db[c] = NoRow \/ job[t] = "redeem"
        /\ db' = [db EXCEPT ![c] =
                    Merge(stored, loaded, Edited(job[t], loaded), NewMoments(job[t]))]
        /\ snap' = [snap EXCEPT ![t] = NothingLoaded]
        /\ Goto(t, IF job[t] = "unblock" /\ loaded.until = "past" THEN "allow" ELSE "row")
        /\ UNCHANGED <<over, banned, cooldown, job, client, file, todo, calls, faults>>

\* Another request added the row first: the unique constraint refuses ours.
\* (An unlock code queries again once it holds the write lock.)
JobCollides(t) ==
    LET c == client[t]
    IN  /\ pc[t] = "commit"
        /\ snap[t][c] = NoRow /\ db[c] # NoRow /\ job[t] # "redeem"
        /\ Finish(t)
        /\ UNCHANGED <<db, over, banned, cooldown, client, calls, faults>>

\* apply_openvpn_disconnect_on_node with a cooldown.
KickRegisters(t, c) ==
    /\ pc[t] = "idle"
    /\ "kick" \in Jobs
    /\ Called
    /\ cooldown' = cooldown \cup {c}
    /\ job' = [job EXCEPT ![t] = "kick"]
    /\ client' = [client EXCEPT ![t] = c]
    /\ Goto(t, "row")
    /\ UNCHANGED <<db, over, banned, snap, file, todo, faults>>

\* The session was killed (or, for a node of a group, there was none):
\* schedule_disconnect_cooldown_release starts a thread that sleeps.
KickSucceeds(t) ==
    /\ pc[t] = "disconnect"
    /\ snap' = [snap EXCEPT ![t] = NothingLoaded]
    /\ Goto(t, "cooling")
    /\ UNCHANGED <<db, over, banned, cooldown, job, client, file, todo, calls, faults>>

\* The kick failed (the same session goes on), or the cooldown is over (a
\* session of its own): clear the cooldown and reconcile.
CooldownReleases(t) ==
    /\ pc[t] \in {"disconnect", "cooling"}
    /\ cooldown' = cooldown \ {client[t]}
    /\ job' = [job EXCEPT ![t] = "release"]
    /\ Goto(t, "row")
    /\ UNCHANGED <<db, over, banned, client, snap, file, todo, calls, faults>>

\* reconcile_all_traffic_limits loads every row.
TickLoads(t) ==
    /\ pc[t] = "idle"
    /\ todo' = [todo EXCEPT ![t] = {c \in Clients : db[c] # NoRow}]
    /\ snap' = [snap EXCEPT ![t] = db]
    /\ job' = [job EXCEPT ![t] = "tick"]
    /\ Goto(t, "loop")
    /\ UNCHANGED <<db, over, banned, cooldown, client, file, calls, faults>>

TickTakes(t, c) ==
    /\ pc[t] = "loop"
    /\ c \in todo[t]
    /\ todo' = [todo EXCEPT ![t] = @ \ {c}]
    /\ client' = [client EXCEPT ![t] = c]
    /\ Goto(t, "row")
    /\ UNCHANGED <<db, over, banned, cooldown, job, snap, file, calls, faults>>

TickEnds(t) ==
    /\ pc[t] = "loop"
    /\ todo[t] = {}
    /\ Finish(t)
    /\ UNCHANGED <<db, over, banned, cooldown, client, calls, faults>>

\* apply_due_access_blocks: the claim is one UPDATE whose WHERE clause repeats
\* the test that made the row due.
ExpiryClaims(t, c) ==
    /\ pc[t] = "idle"
    /\ db[c] # NoRow
    /\ db[c].until = "past"
    /\ db[c].reason # "access_expired"
    /\ job' = [job EXCEPT ![t] = "expire"]
    /\ client' = [client EXCEPT ![t] = c]
    /\ Goto(t, "row")
    /\ UNCHANGED <<db, over, banned, cooldown, snap, file, todo, calls, faults>>

-----------------------------------------------------------------------------
(* reconcile_openvpn                                                       *)

\* A row that the session holds is not read again.
ReadsRow(t) ==
    /\ pc[t] = "row"
    /\ Load(t, client[t])
    /\ Goto(t, "file")
    /\ UNCHANGED <<db, over, banned, cooldown, job, client, file, todo, calls, faults>>

ReadsFile(t) ==
    /\ pc[t] \in {"file", "allow"}
    /\ file' = [file EXCEPT ![t] = IF pc[t] = "allow" THEN banned \ {client[t]} ELSE banned]
    /\ Goto(t, IF pc[t] = "allow" THEN "write" ELSE "apply")
    /\ UNCHANGED <<db, over, banned, cooldown, job, client, snap, todo, calls, faults>>

\* Fault for mutation: a ban is added but never discarded.
WithBanAdds(S, c, ban) == IF ban THEN S \cup {c} ELSE S

\* The set to write: only the membership of the client itself is decided.
WithBan(S, c, ban) == IF ban THEN S \cup {c} ELSE S \ {c}

AppliesRow(t) ==
    /\ pc[t] = "apply"
    /\ snap[t][client[t]] # NoRow
    /\ \E row \in {Aged(client[t], snap[t][client[t]])} :
       \E new \in {Reconciled(client[t], row, job[t] \in LimitJobs)} :
          LET c   == client[t]
              ban == BlockMode(c, new) # "none" \/ c \in cooldown
          IN  /\ file' = [file EXCEPT ![t] = WithBan(@, c, ban)]
              /\ db' = [db EXCEPT ![c] = Merge(@, row, new, {})]
              /\ snap' = IF new # row THEN [snap EXCEPT ![t] = NothingLoaded] ELSE snap
    /\ Goto(t, "write")
    /\ UNCHANGED <<over, banned, cooldown, job, client, todo, calls, faults>>

\* Without a row the file is written only when the cooldown asks for a change.
AppliesNoRow(t) ==
    LET c == client[t]
    IN  /\ pc[t] = "apply"
        /\ snap[t][c] = NoRow
        /\ file' = [file EXCEPT ![t] = WithBan(@, c, c \in cooldown)]
        /\ (c \in file[t]) # (c \in cooldown)
        /\ Goto(t, "write")
        /\ UNCHANGED <<db, over, banned, cooldown, job, client, snap, todo, calls, faults>>

\* The reconcile returns to its caller: a kick goes on to the disconnect.
Returns(t) ==
    IF job[t] = "kick"
    THEN Goto(t, "disconnect") /\ UNCHANGED <<job, snap, file, todo>>
    ELSE Finish(t)

KeepsFile(t) ==
    LET c == client[t]
    IN  /\ pc[t] = "apply"
        /\ snap[t][c] = NoRow
        /\ (c \in file[t]) = (c \in cooldown)
        /\ Returns(t)
        /\ UNCHANGED <<db, over, banned, cooldown, client, calls, faults>>

\* write_banned_clients
WritesFile(t) ==
    /\ pc[t] = "write"
    /\ banned' = file[t]
    /\ Returns(t)
    /\ UNCHANGED <<db, over, cooldown, client, calls, faults>>

-----------------------------------------------------------------------------
(* Faults and the clock                                                    *)

Faulty == faults < MaxFaults /\ faults' = faults + 1

\* The node answers with an error.  The file may have been written before
\* (ensure_openvpn_ban_check follows the write); a tick is given up whole.
NodeFails(t) ==
    /\ pc[t] \in {"file", "allow", "write"}
    /\ Faulty
    /\ \/ banned' = banned
       \/ pc[t] = "write" /\ banned' = file[t]
    /\ Closes(t)
    /\ UNCHANGED <<db, over, cooldown, client, calls>>

\* The panel process dies: threads and cooldowns go, the database and the
\* file stay.
Crash ==
    /\ Faulty
    /\ cooldown' = {}
    /\ pc' = [t \in Threads |-> "idle"]
    /\ job' = [t \in Threads |-> "none"]
    /\ snap' = [t \in Threads |-> NothingLoaded]
    /\ file' = [t \in Threads |-> {}]
    /\ todo' = [t \in Threads |-> {}]
    /\ UNCHANGED <<db, over, banned, client, calls>>

AccessLapses(c) ==
    /\ db[c].until = "future"
    /\ db' = [db EXCEPT ![c] = Row("past", @.temp, @.blockUntil, @.perm, @.reason, @.limit)]
    /\ UNCHANGED <<over, banned, cooldown, thread, calls, faults>>

BlockLapses(c) ==
    /\ db[c].blockUntil = "future"
    /\ db' = [db EXCEPT ![c] = Row(@.until, @.temp, "past", @.perm, @.reason, @.limit)]
    /\ UNCHANGED <<over, banned, cooldown, thread, calls, faults>>

\* is_cooldown_ban_active drops an entry whose time has come.
CooldownLapses(c) ==
    /\ c \in cooldown
    /\ cooldown' = cooldown \ {c}
    /\ UNCHANGED <<db, over, banned, thread, calls, faults>>

\* Traffic is collected, or a limit period begins anew.
UsageChanges(c) ==
    /\ Jobs \cap LimitJobs # {}
    /\ Called
    /\ over' = (over \ {c}) \cup ({c} \ over)
    /\ UNCHANGED <<db, banned, cooldown, thread, faults>>

-----------------------------------------------------------------------------

Reconciles(t) ==
    ReadsRow(t) \/ ReadsFile(t) \/ AppliesRow(t) \/ AppliesNoRow(t) \/ KeepsFile(t) \/ WritesFile(t)

Arrives(t) ==
    \E c \in Clients : KickRegisters(t, c) \/ \E j \in AllJobs : JobLoads(t, j, c)

Proceeds(t) ==
    JobCommits(t) \/ JobCollides(t) \/ KickSucceeds(t) \/ CooldownReleases(t) \/ Reconciles(t)

Ticks(t) ==
    TickLoads(t) \/ TickEnds(t) \/ Reconciles(t) \/ \E c \in Clients : TickTakes(t, c)

Expires(t) == Reconciles(t) \/ \E c \in Clients : ExpiryClaims(t, c)

Clock(c) == AccessLapses(c) \/ BlockLapses(c) \/ CooldownLapses(c) \/ UsageChanges(c)

Next ==
    \/ \E t \in Api : Arrives(t) \/ Proceeds(t)
    \/ \E t \in Traffic : Ticks(t)
    \/ \E t \in Expiry : Expires(t)
    \/ \E t \in Threads : NodeFails(t)
    \/ Crash
    \/ \E c \in Clients : Clock(c)

Spec == Init /\ [][Next]_vars

\* Threads run on and both workers loop; requests, faults and the ends of
\* deadlines are owed by nobody, but the release thread does wake up.
Fairness ==
    /\ \A t \in Api : WF_vars(Proceeds(t))
    /\ \A t \in Traffic : WF_vars(Ticks(t))
    /\ \A t \in Expiry : WF_vars(Expires(t))

FairSpec == Spec /\ Fairness

-----------------------------------------------------------------------------
(* Properties                                                              *)

\* A code is redeemed only from a row that carried no permanent block.
RedeemChecked ==
    \A t \in Threads : pc[t] = "commit" /\ job[t] = "redeem" => snap[t][client[t]].perm = 0

\* An operation begins with a fresh session.
FreshSession == \A t \in Threads : pc[t] = "idle" => snap[t] = NothingLoaded

\* A thread edits only a row its session has loaded, and only some requests
\* edit a row before they reconcile.
Loaded ==
    \A t \in Threads :
        /\ pc[t] \in {"commit", "file", "apply"} => snap[t][client[t]] # Expired
        /\ pc[t] = "commit" => job[t] \in AllJobs \ {"kick"}

\* A row that a session holds is still in the table.
RowsStay ==
    \A t \in Threads, c \in Clients : snap[t][c] \in Rows => db[c] \in Rows

\* Rows, sessions and threads are well formed; no thread edits a row it has
\* not loaded or that is gone; and between its check and its commit
\* redeem_unlock_code holds a row without a permanent block.
AccessInv == TypeOK /\ FreshSession /\ Loaded /\ RowsStay /\ RedeemChecked

\* What takes a permanent block away from a row: openvpn_temp_block and
\* openvpn_unblock when they commit, and the reconcile that follows a change
\* of the traffic limit.
LiftsPermanent(t, c) ==
    /\ client[t] = c
    /\ \/ pc[t] = "commit" /\ job[t] \in {"temp", "unblock"}
       \/ pc[t] = "apply" /\ job[t] \in LimitJobs

\* A permanent block survives unlock codes, deadlines, ticks, kicks and
\* expiry, whatever row the thread loaded before the block was set: only an
\* administrator's block, unblock or limit operation lifts it.
PermanentBanHeld ==
    [][\A c \in Clients : db[c].perm = 1 /\ db'[c].perm = 0
            => \E t \in Threads : LiftsPermanent(t, c)]_vars

InStep(c) == (c \in banned) = (BlockMode(c, db[c]) # "none" \/ c \in cooldown)

\* Whatever races, failed writes and crashes did to banned_clients, ticks of
\* the traffic worker bring it back in step with the policy of each client
\* that has a row.
Repair == \A c \in Clients : db[c] # NoRow ~> InStep(c)

=============================================================================
