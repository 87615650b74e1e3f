---------------------------- MODULE PanelRestore ----------------------------
(***************************************************************************)
(* Backups of the panel and their restore: services/backup_manager.py,     *)
(* services/backup_overlays.py, services/telegram_update_dedup.py, the     *)
(* auto-backup step of services/backup_scheduler.py and the handlers of    *)
(* routers/backups.py.                                                     *)
(*                                                                         *)
(* A file is known by the version of its content.  Archives and pre-       *)
(* restore copies are sequences in the order of their times; an entry that *)
(* is no longer on disk keeps its place and says why.  Auto-backups are    *)
(* background steps and enter through PauseLock, restores own it, and      *)
(* backups ordered by hand pass it by, as HTTP requests do.                *)
(***************************************************************************)
EXTENDS PauseLock, Naturals, Sequences, FiniteSets

CONSTANTS
    Manuals,      \* requests that create a backup
    Updates,      \* Telegram updates that carry a restore command
    Uploads,      \* archives an administrator may upload: the roles in it and their version
    Missing,      \* files the panel does not have yet, as a new one has no CIDR database
    Written,      \* databases that requests write while the panel runs
    Count,        \* backup_retention
    KeepCopies,   \* PRE_RESTORE_KEEP
    MaxCalls,     \* bound: backups, uploads, restores and deletions ever asked for
    MaxFaults     \* bound: I/O errors and crashes

ASSUME CountAssumption == Count \in Nat \ {0} /\ KeepCopies \in Nat \ {0}
ASSUME BoundsAssumption == MaxCalls \in Nat /\ MaxFaults \in Nat
ASSUME UploadsAssumption ==
    /\ Uploads \subseteq (SUBSET {"db", "cidr", "env"}) \X {"other", "damaged"}
    /\ \A a \in Uploads : a[2] = "damaged" => a[1] \cap {"db", "cidr"} # {}
    /\ Written \subseteq {"db", "cidr"} /\ Missing \subseteq {"cidr"}
ASSUME ActorsAssumption ==
    /\ Steps \cap Restores = {} /\ Steps \cap Manuals = {} /\ Restores \cap Manuals = {}
    /\ "http" \notin Updates

VARIABLES
    live,       \* role -> version of the file in place
    wal,        \* database -> whose frames its -wal file holds: none, its own, those of the
                \* file it replaced, or such frames that could not be removed
    claimed,    \* Telegram updates recorded in the panel database
    overlay,    \* version of the lists and AWG layers last sent to the node
    archives,   \* the backup directory
    copies,     \* the .pre-restore directory
    job,        \* backup under way, per creator
    rst,        \* restore under way, per restore thread
    good,       \* history: versions after the last finished restore
    broken,     \* history: a restore lost its way back: a crash or a failed rollback
                \* left files half replaced, or its copy was deleted under it
    ran,        \* history: how often a bot command's restore was carried out
    calls,      \* requests so far
    faults      \* errors and crashes so far

fileVars == <<live, wal, claimed, overlay>>
histVars == <<good, broken, ran, faults>>
vars == <<running, owner, fileVars, archives, copies, job, rst, calls, histVars>>

Roles == {"db", "cidr", "env"}
SqliteRoles == {"db", "cidr"}

\* The order in which archives are written and files replaced.
RoleOrder == <<"db", "cidr", "env">>

\* Versions: the panel starts with "local"; an upload brings "other", or a
\* database that fails integrity_check.
Versions == {"local", "other", "damaged"}
Absent == "absent"

Creators == Steps \cup Manuals

NoParts == [x \in Roles |-> Absent]

NoJob == [pc |-> "idle", parts |-> NoParts, claims |-> {}, lists |-> Absent,
          left |-> <<>>, at |-> 0, doomed |-> {}, world |-> NoParts]

NoRestore == [pc |-> "idle", parts |-> NoParts, claims |-> {}, lists |-> Absent, left |-> <<>>,
              done |-> <<>>, copy |-> 0, source |-> 0, by |-> "http"]

JobPcs == {"idle", "writing", "metadata", "retention", "removing"}
RestorePcs == {"idle", "pause", "overlays", "snapshot", "replace", "sidecars", "carry", "portal",
               "rollback", "unwind", "restart"}

Archive == [st : {"bare", "complete", "pruned", "deleted"}, parts : [Roles -> Versions \cup {Absent}],
            claims : SUBSET Updates, lists : Versions \cup {Absent}, gated : BOOLEAN, whole : BOOLEAN]
Copy == [st : {"kept", "pruned", "deleted"}, parts : [Roles -> Versions \cup {Absent}],
         claims : SUBSET Updates]

TypeOK ==
    /\ running \subseteq Steps
    /\ owner \subseteq Restores
    /\ live \in [Roles -> Versions \cup {Absent}]
    /\ wal \in [SqliteRoles -> {"none", "own", "foreign", "stuck"}]
    /\ claimed \subseteq Updates
    /\ overlay \in Versions
    /\ \A i \in DOMAIN archives : archives[i] \in Archive
    /\ \A i \in DOMAIN copies : copies[i] \in Copy
    /\ \A c \in Creators : job[c].pc \in JobPcs /\ job[c].at \in 0..Len(archives)
    /\ \A r \in Restores : rst[r].pc \in RestorePcs /\ rst[r].copy \in 0..Len(copies)
    /\ good \in [Roles -> Versions \cup {Absent}]
    /\ broken \in BOOLEAN
    /\ ran \in [Updates -> Nat]
    /\ calls \in 0..MaxCalls
    /\ faults \in 0..MaxFaults

Init ==
    /\ LockInit
    /\ live = [x \in Roles |-> IF x \in Missing THEN Absent ELSE "local"]
    /\ wal = [x \in SqliteRoles |-> "none"]
    /\ claimed = {}
    /\ overlay = "local"
    /\ archives = <<>>
    /\ copies = <<>>
    /\ job = [c \in Creators |-> NoJob]
    /\ rst = [r \in Restores |-> NoRestore]
    /\ good = live
    /\ broken = FALSE
    /\ ran = [u \in Updates |-> 0]
    /\ calls = 0
    /\ faults = 0

Call == calls < MaxCalls /\ calls' = calls + 1
Fault == faults < MaxFaults /\ faults' = faults + 1

-----------------------------------------------------------------------------
(* The backup directory.                                                   *)

\* An archive or a copy that is no longer on disk; its place says why.
Gone(entry, why) == [entry EXCEPT !.st = why, !.parts = NoParts, !.claims = {}]

OnDisk(i) == archives[i].st \in {"bare", "complete"}
HasMetadata(i) == archives[i].st = "complete"

\* Fault for mutation: an interrupted archive counts among the newest.
DoomedByAny ==
    LET newer(i) == {j \in DOMAIN archives : OnDisk(j) /\ j > i}
    IN {i \in DOMAIN archives : OnDisk(i) /\ Cardinality(newer(i)) >= Count}

\* The archives a retention run removes: complete ones behind the Count newest
\* complete ones, and those without metadata older than the oldest one kept.
Doomed ==
    LET complete == {i \in DOMAIN archives : HasMetadata(i)}
        newer(i) == {j \in complete : j > i}
    IN {i \in DOMAIN archives : /\ Cardinality(complete) > Count
                                /\ OnDisk(i) /\ Cardinality(newer(i)) >= Count}

\* Fault for mutation: the auto-backup runs outside run_long_background_step.
BackupStartsUngated(c) ==
    /\ Call
    /\ job[c].pc = "idle"
    /\ job' = [job EXCEPT ![c] = [NoJob EXCEPT !.pc = "writing", !.lists = overlay,
                                             !.left = RoleOrder, !.world = good]]
    /\ UNCHANGED <<running, owner, fileVars, archives, copies, rst, histVars>>

\* create_backup, or _run_auto_backup_once inside its background step.
BackupStarts(c) ==
    /\ Call
    /\ job[c].pc = "idle"
    /\ IF c \in Steps THEN StepEnters(c) ELSE UNCHANGED lockVars
    /\ job' = [job EXCEPT ![c] = [NoJob EXCEPT !.pc = "writing", !.lists = overlay,
                                             !.left = RoleOrder, !.world = good]]
    /\ UNCHANGED <<fileVars, archives, copies, rst, histVars>>

\* _write_archive adds one file; a database is read through SQLite's online
\* backup, so its own WAL is part of it.  A missing file is left out.
BackupReads(c) ==
    /\ job[c].pc = "writing" /\ job[c].left # <<>>
    /\ LET x == Head(job[c].left) IN
       job' = [job EXCEPT ![c].parts[x] = live[x],
                          ![c].claims = IF x = "db" THEN claimed ELSE @,
                          ![c].left = Tail(@)]
    /\ UNCHANGED <<running, owner, fileVars, archives, copies, rst, histVars, calls>>

\* os.replace gives the partial file its name; the metadata are not there yet.
BackupAppears(c) ==
    /\ job[c].pc = "writing" /\ job[c].left = <<>>
    /\ archives' = Append(archives, [st |-> "bare", parts |-> job[c].parts, claims |-> job[c].claims,
                                     lists |-> job[c].lists,
                                     gated |-> c \in Steps,
                                     whole |-> job[c].parts \in {job[c].world, good}])
    /\ job' = [job EXCEPT ![c].pc = "metadata", ![c].at = Len(archives) + 1]
    /\ UNCHANGED <<running, owner, fileVars, copies, rst, histVars, calls>>

BackupDescribed(c) ==
    /\ job[c].pc = "metadata"
    /\ archives' = [archives EXCEPT ![job[c].at].st = IF @ = "bare" THEN "complete" ELSE @]
    /\ job' = [job EXCEPT ![c].pc = "retention"]
    /\ UNCHANGED <<running, owner, fileVars, copies, rst, histVars, calls>>

\* _enforce_retention lists the directory and then removes what it chose.
RetentionLists(c) ==
    /\ job[c].pc = "retention"
    /\ job' = [job EXCEPT ![c].pc = "removing", ![c].doomed = Doomed]
    /\ UNCHANGED <<running, owner, fileVars, archives, copies, rst, histVars, calls>>

RetentionRemoves(c) ==
    /\ job[c].pc = "removing"
    /\ archives' = [i \in DOMAIN archives |->
                      IF i \in job[c].doomed /\ OnDisk(i) THEN Gone(archives[i], "pruned")
                      ELSE archives[i]]
    /\ job' = [job EXCEPT ![c] = NoJob]
    /\ Leave({c})
    /\ UNCHANGED <<fileVars, copies, rst, histVars, calls>>

\* An error before os.replace removes the partial file, one while writing the
\* metadata removes the archive; either way the request or the step is over.
BackupFails(c) ==
    /\ job[c].pc \in {"writing", "metadata"}
    /\ Fault
    /\ archives' = IF job[c].pc = "writing" THEN archives
                   ELSE [archives EXCEPT ![job[c].at] = IF @.st = "bare" THEN Gone(@, "deleted") ELSE @]
    /\ job' = [job EXCEPT ![c] = NoJob]
    /\ Leave({c})
    /\ UNCHANGED <<fileVars, copies, rst, good, broken, ran, calls>>

\* import_uploaded_backup moves the file, then describes it; inspect_backup_archive
\* looks at names, not at contents.  A crash in between leaves it bare.
Upload(roles, version, described) ==
    /\ Call
    /\ IF described THEN UNCHANGED faults ELSE Fault
    /\ archives' = Append(archives,
            [st |-> IF described THEN "complete" ELSE "bare",
             parts |-> [x \in Roles |-> IF x \in roles THEN version ELSE Absent],
             claims |-> {}, lists |-> version,
             gated |-> FALSE, whole |-> TRUE])
    /\ UNCHANGED <<running, owner, fileVars, copies, job, rst, good, broken, ran>>

\* delete_backup.
DeleteArchive(i) ==
    /\ Call
    /\ OnDisk(i)
    /\ archives' = [archives EXCEPT ![i] = Gone(@, "deleted")]
    /\ UNCHANGED <<running, owner, fileVars, copies, job, rst, histVars>>
-----------------------------------------------------------------------------
(* A restore: load, pause, overlays, copy, replace, carry over, restart.   *)

\* The files in an archive or a copy, in the order of RoleOrder.
Present(parts) ==
    LET found(x) == IF parts[x] # Absent THEN <<x>> ELSE <<>>
    IN  found("db") \o found("cidr") \o found("env")

\* Fault for mutation: only the panel database is checked.
SoundPanelDb(parts) == parts["db"] # "damaged"

\* validate_sqlite_bytes: header and integrity_check of both databases.
Sound(parts) == \A x \in SqliteRoles : parts[x] # "damaged"

Loaded(from, lists, source, by) ==
    [NoRestore EXCEPT !.pc = "pause", !.parts = from.parts, !.claims = from.claims,
                      !.lists = lists, !.source = source, !.by = by]

\* An archive with files or with overlays, its databases sound.
Restorable(i) ==
    /\ OnDisk(i)
    /\ archives[i].parts # NoParts \/ archives[i].lists # Absent
    /\ Sound(archives[i].parts)

\* load_restore_payload reads everything into memory before the pause; a damaged
\* archive or a full disk refuses the request, which changes nothing.
RestoreLoads(r, i) ==
    /\ Call
    /\ rst[r].pc = "idle"
    /\ Restorable(i)
    /\ rst' = [rst EXCEPT ![r] = Loaded(archives[i], archives[i].lists, 0, "http")]
    /\ UNCHANGED <<running, owner, fileVars, archives, copies, job, histVars>>

\* The bot's restore command: claim_telegram_update commits the update's id before the
\* archive is loaded, and a redelivery of a claimed update is dropped.
BotRestores(r, i, u) ==
    /\ Call
    /\ rst[r].pc = "idle"
    /\ u \notin claimed
    /\ Restorable(i)
    /\ claimed' = claimed \cup {u}
    /\ rst' = [rst EXCEPT ![r] = Loaded(archives[i], archives[i].lists, 0, u)]
    /\ UNCHANGED <<running, owner, live, wal, overlay, archives, copies, job, histVars>>

\* The archive of the command is refused or no longer there: the claim stays.
BotRefused(u) ==
    /\ Call
    /\ u \notin claimed
    /\ claimed' = claimed \cup {u}
    /\ UNCHANGED <<running, owner, live, wal, overlay, archives, copies, job, rst, histVars>>

\* rollback_to_pre_restore_snapshot: the same with the files of a copy.
RollbackLoads(r, k) ==
    /\ Call
    /\ rst[r].pc = "idle"
    /\ copies[k].st = "kept" /\ copies[k].parts # NoParts /\ Sound(copies[k].parts)
    /\ rst' = [rst EXCEPT ![r] = Loaded(copies[k], Absent, k, "http")]
    /\ UNCHANGED <<running, owner, fileVars, archives, copies, job, histVars>>

\* Fault for mutation: the restore does not wait for the other one's pause.
PausedAnyway(r) ==
    /\ rst[r].pc = "pause" /\ running = {}
    /\ owner' = owner \cup {r}
    /\ rst' = [rst EXCEPT ![r].pc = IF rst[r].source = 0 THEN "overlays" ELSE "snapshot"]
    /\ UNCHANGED <<running, fileVars, archives, copies, job, histVars, calls>>

\* pause_background_work returned.
Paused(r) ==
    /\ rst[r].pc = "pause"
    /\ RestoreEnters(r)
    /\ rst' = [rst EXCEPT ![r].pc = IF rst[r].source = 0 THEN "overlays" ELSE "snapshot"]
    /\ UNCHANGED <<fileVars, archives, copies, job, histVars, calls>>

\* The pause timed out: 409.
Refused(r) ==
    /\ rst[r].pc = "pause"
    /\ owner # {} \/ running # {}
    /\ rst' = [rst EXCEPT ![r] = NoRestore]
    /\ UNCHANGED <<running, owner, fileVars, archives, copies, job, histVars, calls>>

\* apply_backup_overlays; an error is logged and the restore goes on.
OverlaysApplied(r) ==
    /\ rst[r].pc = "overlays"
    /\ \/ /\ overlay' = IF rst[r].lists = Absent THEN overlay ELSE rst[r].lists
          /\ UNCHANGED faults
       \/ rst[r].lists # Absent /\ Fault /\ UNCHANGED overlay
    /\ rst' = [rst EXCEPT ![r].pc = "snapshot"]
    /\ UNCHANGED <<running, owner, live, wal, claimed, archives, copies, job, good, broken, ran, calls>>

\* Faults for mutation: the copies are sorted the wrong way round; the oldest go without
\* looking which one is being rolled back to.
RetainOldestCopies(cs, source) ==
    [k \in DOMAIN cs |->
       IF /\ cs[k].st = "kept" /\ k # source
          /\ Cardinality({j \in DOMAIN cs : j < k /\ cs[j].st = "kept"}) >= KeepCopies
       THEN Gone(cs[k], "pruned") ELSE cs[k]]

RetainNewestCopies(cs, source) ==
    [k \in DOMAIN cs |->
       IF cs[k].st = "kept" /\ Cardinality({j \in DOMAIN cs : j > k /\ cs[j].st = "kept"}) >= KeepCopies
       THEN Gone(cs[k], "pruned") ELSE cs[k]]

\* _enforce_pre_restore_retention after the copy under index n was made.
RetainCopies(cs, source) ==
    [k \in DOMAIN cs |->
       IF /\ cs[k].st = "kept" /\ k # source
          /\ Cardinality({j \in DOMAIN cs : j > k /\ cs[j].st = "kept"}) >= KeepCopies
       THEN Gone(cs[k], "pruned") ELSE cs[k]]

\* _snapshot_live_files copies only the files about to be replaced.
CopyOf(parts) ==
    [st |-> "kept", claims |-> IF parts["db"] # Absent THEN claimed ELSE {},
     parts |-> [x \in Roles |-> IF parts[x] # Absent THEN live[x] ELSE Absent]]

SnapshotTaken(r) ==
    /\ rst[r].pc = "snapshot" /\ rst[r].parts # NoParts
    /\ copies' = RetainCopies(Append(copies, CopyOf(rst[r].parts)), rst[r].source)
    /\ rst' = [rst EXCEPT ![r].pc = "replace", ![r].copy = Len(copies) + 1,
                          ![r].left = Present(rst[r].parts)]
    /\ UNCHANGED <<running, owner, fileVars, archives, job, histVars, calls>>

\* An archive with nothing but overlays: no copy is made and no file replaced.
NothingToReplace(r) ==
    /\ rst[r].pc = "snapshot" /\ rst[r].parts = NoParts
    /\ ran' = [u \in Updates |-> IF u = rst[r].by THEN ran[u] + 1 ELSE ran[u]]
    /\ rst' = [rst EXCEPT ![r].pc = "portal"]
    /\ UNCHANGED <<running, owner, fileVars, archives, copies, job, good, broken, faults, calls>>

\* The files of an archive among the first n roles.
FirstOf(parts, n) == [x \in Roles |-> IF \E m \in 1..n : RoleOrder[m] = x THEN parts[x] ELSE Absent]

\* The copy fails: nothing was replaced and the pause ends, but the directory may be
\* there with the files copied so far, and counts among the copies.
SnapshotFails(r) ==
    /\ rst[r].pc = "snapshot" /\ rst[r].parts # NoParts
    /\ Fault
    /\ \/ UNCHANGED copies
       \/ \E n \in 0..Len(RoleOrder) : copies' = Append(copies, CopyOf(FirstOf(rst[r].parts, n)))
    /\ rst' = [rst EXCEPT ![r] = NoRestore]
    /\ Leave({r})
    /\ UNCHANGED <<fileVars, archives, job, good, broken, ran, calls>>

\* A file gets another inode: the frames beside it are those of the old one.
Put(x, version, claims) ==
    /\ live' = [live EXCEPT ![x] = version]
    /\ claimed' = IF x = "db" THEN claims ELSE claimed
    /\ wal' = [y \in SqliteRoles |-> IF y = x /\ wal[y] # "none" THEN "foreign" ELSE wal[y]]

FileReplaced(r) ==
    /\ rst[r].pc = "replace" /\ rst[r].left # <<>>
    /\ LET x == Head(rst[r].left) IN
       /\ Put(x, rst[r].parts[x], rst[r].claims)
       /\ rst' = [rst EXCEPT ![r].pc = "sidecars", ![r].done = Append(@, x), ![r].left = Tail(@)]
    /\ UNCHANGED <<running, owner, overlay, archives, copies, job, histVars, calls>>

\* remove_sqlite_sidecars: the OSError of an unlink is passed over and the file stays.
RemoveSidecars(x) ==
    \/ /\ wal' = [y \in SqliteRoles |-> IF y = x THEN "none" ELSE wal[y]]
       /\ UNCHANGED faults
    \/ /\ Fault
       /\ x \in SqliteRoles /\ wal[x] # "none"
       /\ wal' = [y \in SqliteRoles |-> IF y = x /\ wal[y] # "own" THEN "stuck" ELSE wal[y]]

\* The sidecars of the database just replaced; the restore goes on either way.
SidecarsRemoved(r) ==
    /\ rst[r].pc = "sidecars"
    /\ RemoveSidecars(rst[r].done[Len(rst[r].done)])
    /\ rst' = [rst EXCEPT ![r].pc = IF rst[r].left # <<>> THEN "replace" ELSE "carry"]
    /\ UNCHANGED <<running, owner, live, claimed, overlay, archives, copies, job, good, broken, ran, calls>>

\* atomic_write_bytes raised: the target is as it was, the replaced ones go back.
ReplaceFails(r) ==
    /\ rst[r].pc = "replace" /\ rst[r].left # <<>>
    /\ Fault
    /\ rst' = [rst EXCEPT ![r].pc = "rollback", ![r].left = rst[r].done]
    /\ UNCHANGED <<running, owner, fileVars, archives, copies, job, good, broken, ran, calls>>

\* What the rollback finds in its copy; a file that is not there did not exist.
Saved(r, x) == copies[rst[r].copy].parts[x]

\* Fault for mutation: the rollback leaves out the last file that was replaced.
FileRolledBackButLast(r) ==
    /\ rst[r].pc = "rollback" /\ rst[r].left # <<>>
    /\ LET x == Head(rst[r].left) IN
       IF Len(rst[r].left) = 1 THEN UNCHANGED <<live, wal, claimed>>
       ELSE Put(x, Saved(r, x), copies[rst[r].copy].claims)
    /\ rst' = [rst EXCEPT ![r].pc = "unwind"]
    /\ UNCHANGED <<running, owner, overlay, archives, copies, job, histVars, calls>>

\* One file of _rollback_from_snapshot is written back or unlinked.
FileRolledBack(r) ==
    /\ rst[r].pc = "rollback" /\ rst[r].left # <<>>
    /\ LET x == Head(rst[r].left) IN Put(x, Saved(r, x), copies[rst[r].copy].claims)
    /\ rst' = [rst EXCEPT ![r].pc = "unwind"]
    /\ UNCHANGED <<running, owner, overlay, archives, copies, job, histVars, calls>>

\* Fault for mutation: the rollback leaves the databases beside the newer WAL.
SidecarsForgotten(r) ==
    /\ rst[r].pc = "unwind"
    /\ rst' = [rst EXCEPT ![r].pc = "rollback", ![r].left = Tail(@)]
    /\ UNCHANGED <<running, owner, fileVars, archives, copies, job, histVars, calls>>

\* Its sidecars follow, in a step of their own.
SidecarsUnwound(r) ==
    /\ rst[r].pc = "unwind" /\ rst[r].left # <<>>
    /\ RemoveSidecars(Head(rst[r].left))
    /\ rst' = [rst EXCEPT ![r].pc = "rollback", ![r].left = Tail(@)]
    /\ UNCHANGED <<running, owner, live, claimed, overlay, archives, copies, job, good, broken, ran, calls>>

\* An OSError for one file of the rollback is logged.
RollbackFails(r) ==
    /\ rst[r].pc = "rollback" /\ rst[r].left # <<>>
    /\ Fault
    /\ broken' = TRUE
    /\ rst' = [rst EXCEPT ![r].left = Tail(@)]
    /\ UNCHANGED <<running, owner, fileVars, archives, copies, job, good, ran, calls>>

\* The exception leaves _background_work_paused: resume_background_work.
RolledBack(r) ==
    /\ rst[r].pc = "rollback" /\ rst[r].left = <<>>
    /\ rst' = [rst EXCEPT ![r] = NoRestore]
    /\ Leave({r})
    /\ UNCHANGED <<fileVars, archives, copies, job, histVars, calls>>

\* The versions after a restore: its files, and the others as they were.
Restored(r) == [x \in Roles |-> IF rst[r].parts[x] # Absent THEN rst[r].parts[x] ELSE good[x]]

\* Fault for mutation: the restored database forgets the updates claimed since the backup.
NotCarriedOver(r) ==
    /\ rst[r].pc = "carry"
    /\ good' = Restored(r)
    /\ ran' = [u \in Updates |-> IF u = rst[r].by THEN ran[u] + 1 ELSE ran[u]]
    /\ rst' = [rst EXCEPT ![r].pc = "portal"]
    /\ UNCHANGED <<running, owner, fileVars, archives, copies, job, broken, faults, calls>>

\* _carry_over_telegram_updates from the copy of the old panel database; an error
\* is logged.  apply_restore_payload returns.
CarriedOver(r) ==
    /\ rst[r].pc = "carry"
    /\ LET hasCopy == copies[rst[r].copy].parts["db"] # Absent IN
       \/ /\ claimed' = IF hasCopy THEN claimed \cup copies[rst[r].copy].claims ELSE claimed
          /\ UNCHANGED faults
       \/ /\ hasCopy /\ Fault
          /\ UNCHANGED claimed
    /\ good' = Restored(r)
    /\ ran' = [u \in Updates |-> IF u = rst[r].by THEN ran[u] + 1 ELSE ran[u]]
    /\ rst' = [rst EXCEPT ![r].pc = "portal"]
    /\ UNCHANGED <<running, owner, live, wal, overlay, archives, copies, job, broken, calls>>

\* sync_portal_domain_after_restore, then the timer of the restart; if it raises,
\* the pause ends and nothing restarts.
PortalSynced(r) ==
    /\ rst[r].pc = "portal"
    /\ \/ /\ rst' = [rst EXCEPT ![r].pc = "restart"]
          /\ UNCHANGED <<running, owner, faults>>
       \/ /\ Fault
          /\ rst' = [rst EXCEPT ![r] = NoRestore]
          /\ Leave({r})
    /\ UNCHANGED <<fileVars, archives, copies, job, good, broken, ran, calls>>

\* restart_controller raised or reported failure.
RestartFails(r) ==
    /\ rst[r].pc = "restart"
    /\ Fault
    /\ rst' = [rst EXCEPT ![r] = NoRestore]
    /\ Leave({r})
    /\ UNCHANGED <<fileVars, archives, copies, job, good, broken, ran, calls>>

-----------------------------------------------------------------------------
\* Every thread of the panel ends.
PanelEnds ==
    /\ Leave(Steps \cup Restores)
    /\ job' = [c \in Creators |-> NoJob]
    /\ rst' = [r \in Restores |-> NoRestore]

Restarts(r) ==
    /\ rst[r].pc = "restart"
    /\ PanelEnds
    /\ UNCHANGED <<fileVars, archives, copies, histVars, calls>>

HalfDone(r) ==
    \/ rst[r].pc \in {"replace", "sidecars", "rollback", "unwind"} /\ rst[r].done # <<>>
    \/ rst[r].pc = "carry"

Crash ==
    /\ Fault
    /\ PanelEnds
    /\ broken' = (broken \/ \E r \in Restores : HalfDone(r))
    /\ UNCHANGED <<fileVars, archives, copies, good, ran, calls>>

\* delete_pre_restore_snapshot, at any time.
DeleteCopy(k) ==
    /\ Call
    /\ copies[k].st = "kept"
    /\ copies' = [copies EXCEPT ![k] = Gone(@, "deleted")]
    /\ broken' = (broken \/ \E r \in Restores : rst[r].copy = k)
    /\ UNCHANGED <<running, owner, fileVars, archives, job, rst, good, ran, faults>>

\* A request, which is not gated, opens a new connection and writes.  Frames of
\* another file are still beside it if the old WAL has not been removed.
RequestWrites(x) ==
    /\ live[x] # Absent
    /\ wal' = [wal EXCEPT ![x] = IF @ = "none" THEN "own" ELSE @]
    /\ UNCHANGED <<running, owner, live, claimed, overlay, archives, copies, job, rst, histVars, calls>>

-----------------------------------------------------------------------------
Backup(c) ==
    \/ BackupStarts(c)
    \/ BackupReads(c)
    \/ BackupAppears(c)
    \/ BackupDescribed(c)
    \/ RetentionLists(c)
    \/ RetentionRemoves(c)
    \/ BackupFails(c)

Restore(r) ==
    \/ \E i \in DOMAIN archives : RestoreLoads(r, i)
    \/ \E i \in DOMAIN archives, u \in Updates : BotRestores(r, i, u)
    \/ \E k \in DOMAIN copies : RollbackLoads(r, k)
    \/ Paused(r)
    \/ Refused(r)
    \/ OverlaysApplied(r)
    \/ SnapshotTaken(r)
    \/ NothingToReplace(r)
    \/ SnapshotFails(r)
    \/ FileReplaced(r)
    \/ SidecarsRemoved(r)
    \/ ReplaceFails(r)
    \/ FileRolledBack(r)
    \/ SidecarsUnwound(r)
    \/ RollbackFails(r)
    \/ RolledBack(r)
    \/ CarriedOver(r)
    \/ PortalSynced(r)
    \/ RestartFails(r)
    \/ Restarts(r)

Next ==
    \/ \E c \in Creators : Backup(c)
    \/ \E r \in Restores : Restore(r)
    \/ \E up \in Uploads, d \in BOOLEAN : Upload(up[1], up[2], d)
    \/ \E i \in DOMAIN archives : DeleteArchive(i)
    \/ \E k \in DOMAIN copies : DeleteCopy(k)
    \/ \E u \in Updates : BotRefused(u)
    \/ \E x \in Written : RequestWrites(x)
    \/ Crash

Spec == Init /\ [][Next]_vars

-----------------------------------------------------------------------------
(* Properties                                                              *)

Replacing == {"replace", "sidecars", "carry", "rollback", "unwind"}

\* Only the restore that owns the pause is between its copy and its end, and the
\* files it has replaced are the ones that differ from the last consistent set.
OwnerAlone ==
    \A r \in Restores :
        /\ rst[r].pc \notin {"idle", "pause"} => owner = {r} /\ running = {}
        /\ rst[r].pc \in Replacing /\ ~broken =>
             \A x \in Roles : live[x] # good[x] => \E n \in DOMAIN rst[r].done : rst[r].done[n] = x

RestoreInv == TypeOK /\ OwnerAlone

\* A restore replaces all of its files or none: when none is under way the files in
\* place are those of the last restore that finished, each role of which came from
\* it or was left alone, whatever single write failed.  ("Если запись одного из
\* файлов не удалась, уже заменённые возвращаются из копии.")
AllOrNothing ==
    (~broken /\ \A r \in Restores : rst[r].pc \notin Replacing) => live = good

\* As long as a restore may have to go back, retention has not taken away the copy
\* of the files it replaces, and that copy holds the last consistent set.
CopyProtectsRestore ==
    \A r \in Restores : rst[r].pc \in Replacing =>
        LET c == copies[rst[r].copy] IN
        /\ c.st # "pruned"
        /\ ~broken => \A x \in Roles : rst[r].parts[x] # Absent => c.parts[x] = good[x]

\* A restore ordered through the bot is carried out once as long as no step of any
\* restore fails and none loses its way back: the restored database still knows the
\* update that asked for it, so its redelivery is dropped.
BotCommandRunsOnce ==
    (faults = 0 /\ ~broken) => \A u \in Updates :
        /\ ran[u] <= 1
        /\ ran[u] = 1 /\ (\A r \in Restores : rst[r].pc \notin Replacing) => u \in claimed

\* An auto-backup holds files of one moment: it never sees half of a restore.
GatedArchivesWhole ==
    ~broken => \A i \in DOMAIN archives : archives[i].gated => archives[i].whole

\* Retention removes an archive only behind Count newer complete ones: interrupted
\* writes never push a complete backup out.
PrunedBehindNewer ==
    \A i \in DOMAIN archives : archives[i].st = "pruned" =>
        Cardinality({j \in DOMAIN archives : j > i /\ archives[j].st \in {"complete", "deleted"}}) >= Count

\* Nothing of an archive with a damaged database reaches the panel's files or the node.
DamagedStaysOut ==
    /\ \A x \in Roles : live[x] # "damaged"
    /\ overlay # "damaged"

\* The copy an administrator rolls back to outlives the rollback: retention, run by the
\* rollback's own new copy, does not take it, however old it is ("it may be the oldest,
\* yet the admin still needs it").
RollbackSourceStays ==
    [][\A r \in Restores :
         LET k == rst[r].source IN
         (rst[r].pc \notin {"idle", "pause"} /\ k \in DOMAIN copies /\ copies[k].st = "kept")
             => copies'[k].st # "pruned"]_vars

\* The step between os.replace and remove_sqlite_sidecars, in the restore or its rollback.
BesideOldFrames(r, x) ==
    \/ rst[r].pc = "sidecars" /\ rst[r].done[Len(rst[r].done)] = x
    \/ rst[r].pc = "unwind" /\ Head(rst[r].left) = x

\* "A leftover WAL of the old database would be replayed onto the restored file": a
\* database is beside the frames of the file it replaced only in these two windows.
\* Frames whose removal raised an OSError stay ("stuck") and nothing removes them before
\* the next restore of that database; a crash or a failed write in a rollback is broken.
NoForeignWal ==
    ~broken => \A x \in SqliteRoles :
        /\ wal[x] = "foreign" => \E r \in Restores : BesideOldFrames(r, x)
        /\ wal[x] = "stuck" => faults > 0
=============================================================================
