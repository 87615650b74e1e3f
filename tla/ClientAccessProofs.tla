------------------------- MODULE ClientAccessProofs -------------------------
(***************************************************************************)
(* AccessInv is inductive, and a permanent block is lifted only by the     *)
(* administrator's operations, for any number of clients, threads, jobs    *)
(* and faults.                                                             *)
(***************************************************************************)
EXTENDS ClientAccess, TLAPS

\* The part of TypeOK that speaks of the threads.
ThreadType ==
    /\ pc \in [Threads -> {"idle", "commit", "loop", "row", "file", "apply", "allow",
                           "write", "disconnect", "cooling"}]
    /\ job \in [Threads -> AllJobs \cup {"release", "tick", "expire", "none"}]
    /\ snap \in [Threads -> [Clients -> Rows \cup {NoRow, Expired}]]
    /\ file \in [Threads -> SUBSET Clients]
    /\ todo \in [Threads -> SUBSET Clients]

\* NoRow and Expired are no rows, and differ.
LEMMA Markers == NoRow \notin Rows /\ Expired \notin Rows /\ NoRow # Expired /\ Blank \in Rows
  BY DEF NoRow, Expired, Blank, Row, Rows, Reasons, Modes, Deadlines, Bits

\* What the queries read from the absent and from the new row.
LEMMA BlankColumns ==
    /\ NoRow.perm = 0 /\ NoRow.until = "none" /\ NoRow.blockUntil = "none"
    /\ Blank.perm = 0
  BY DEF NoRow, Blank, Row

\* An UPDATE leaves a row, whatever the session had loaded.
LEMMA MergeType ==
    ASSUME NEW stored \in Rows, NEW edited \in Rows, NEW loaded, NEW moments
    PROVE  Merge(stored, loaded, edited, moments) \in Rows
  <1> DEFINE m == Merge(stored, loaded, edited, moments)
  <1>1. m = Row(m.until, m.temp, m.blockUntil, m.perm, m.reason, m.limit)
    BY DEF Merge, Row
  <1>2. m.until \in Deadlines /\ m.blockUntil \in Deadlines
    BY DEF Merge, Row, Rows, Changed
  <1>3. m.temp \in Bits /\ m.perm \in Bits
    BY DEF Merge, Row, Rows, Changed
  <1>4. m.reason \in Reasons /\ m.limit \in {"none", "low", "high"}
    BY DEF Merge, Row, Rows, Changed
  <1> HIDE DEF m
  <1>5. m \in Rows
    BY <1>1, <1>2, <1>3, <1>4 DEF Row, Rows
  <1> QED BY <1>5 DEF m

\* The column that a permanent block lives in.
LEMMA MergePerm ==
    ASSUME NEW stored, NEW edited, NEW loaded, NEW moments
    PROVE  Merge(stored, loaded, edited, moments).perm =
              Changed(stored.perm, loaded.perm, edited.perm)
  BY DEF Merge, Row

\* Every operation turns a row into a row.
LEMMA EditedType ==
    ASSUME NEW j, NEW row \in Rows
    PROVE  Edited(j, row) \in Rows
  BY DEF Edited, Row, Rows, Deadlines, Bits, Reasons, Modes

\* Only a temporary block, an unblock and an unlock code clear is_permanent_blocked.
LEMMA EditedPerm ==
    ASSUME NEW j \in AllJobs, NEW row \in Rows, j \notin {"temp", "unblock", "redeem", "kick"}
    PROVE  Edited(j, row).perm \in {1, row.perm}
  BY DEF Edited, Row, Rows, AllJobs, LimitJobs

\* reconcile_openvpn turns a row into a row.
LEMMA ReconciledType ==
    ASSUME NEW c, NEW row \in Rows, NEW ch
    PROVE  Reconciled(c, row, ch) \in Rows
  <1>1. CleanTemp(row) \in Rows
    BY DEF CleanTemp, Row, Rows, Deadlines, Bits, Reasons, Modes
  <1>2. \A x \in Rows : CleanLimit(c, x, ch) \in Rows
    BY DEF CleanLimit, Row, Rows, Deadlines, Bits
  <1>3. \A x \in Rows : Row(x.until, x.temp, x.blockUntil, x.perm, BlockMode(c, x), x.limit) \in Rows
    BY DEF BlockMode, Row, Rows, Reasons, Modes
  <1> QED BY <1>1, <1>2, <1>3 DEF Reconciled

\* A row read later is a row, and carries the same permanent flag.
LEMMA AgedRow ==
    ASSUME NEW c, NEW row \in Rows
    PROVE  Aged(c, row) \in Rows /\ Aged(c, row).perm = row.perm
  BY DEF Aged, Row, Rows, Deadlines

\* The thread of a closed session is well formed.
LEMMA ClosesType ==
    ASSUME TypeOK, NEW t \in Threads, Closes(t)
    PROVE  ThreadType'
  BY DEF TypeOK, ThreadType, Closes, NothingLoaded

\* Returning from a reconcile, to the next client or to nothing, leaves every
\* thread well formed.
LEMMA FinishType ==
    ASSUME TypeOK, NEW t \in Threads, Finish(t)
    PROVE  ThreadType'
  <1>1. CASE Closes(t) BY <1>1, ClosesType
  <1>2. CASE ~Closes(t) BY <1>2 DEF TypeOK, ThreadType, Finish
  <1> QED BY <1>1, <1>2

\* The same for a reconcile that was part of a kick.
LEMMA ReturnsType ==
    ASSUME TypeOK, NEW t \in Threads, Returns(t)
    PROVE  ThreadType'
  <1>1. CASE Finish(t) BY <1>1, FinishType
  <1>2. CASE ~Finish(t) BY <1>2 DEF TypeOK, ThreadType, Returns, Goto
  <1> QED BY <1>1, <1>2

\* After Finish a thread is idle with an empty session, or in the loop.
LEMMA FinishRest ==
    ASSUME AccessInv, NEW t \in Threads, Finish(t), db' = db, client' = client
    PROVE  FreshSession' /\ Loaded' /\ RowsStay' /\ RedeemChecked'
  <1>1. CASE Closes(t)
    BY <1>1, Markers DEF AccessInv, TypeOK, FreshSession, Loaded, RowsStay, RedeemChecked, Closes, NothingLoaded
  <1>2. CASE ~Closes(t)
    BY <1>2 DEF AccessInv, TypeOK, FreshSession, Loaded, RowsStay, RedeemChecked, Finish
  <1> QED BY <1>1, <1>2

\* The same for a reconcile that was part of a kick.
LEMMA ReturnsRest ==
    ASSUME AccessInv, NEW t \in Threads, Returns(t), db' = db, client' = client
    PROVE  FreshSession' /\ Loaded' /\ RowsStay' /\ RedeemChecked'
  <1>1. CASE Finish(t) BY <1>1, FinishRest
  <1>2. CASE ~Finish(t)
    BY <1>2 DEF AccessInv, TypeOK, FreshSession, Loaded, RowsStay, RedeemChecked, Returns, Goto
  <1> QED BY <1>1, <1>2

\* A request loads a row.
LEMMA JobLoadsInv ==
    ASSUME AccessInv, NEW t \in Api, NEW j \in AllJobs, NEW c \in Clients, JobLoads(t, j, c)
    PROVE  AccessInv'
  <1> USE DEF AccessInv, TypeOK, Threads
  <1>1. TypeOK'
    BY BoundsAssumption DEF JobLoads, Goto, Load, Called
  <1>2. FreshSession'
    BY DEF FreshSession, JobLoads, Goto, Load
  <1>3. Loaded'
    BY Markers DEF Loaded, JobLoads, Goto, Load
  <1>4. RowsStay'
    BY Markers DEF RowsStay, JobLoads, Goto, Load
  <1>5. RedeemChecked'
    <2>1. snap'[t][c] = db[c] /\ pc'[t] = "commit" /\ job'[t] = j /\ client'[t] = c
      BY DEF JobLoads, Goto, Load, FreshSession, NothingLoaded
    <2>2. j = "redeem" => db[c].perm = 0
      BY BlankColumns DEF JobLoads, Allowed, ManualBlock, Rows, Bits
    <2>3. \A u \in Threads \ {t} :
             snap'[u] = snap[u] /\ pc'[u] = pc[u] /\ job'[u] = job[u] /\ client'[u] = client[u]
      BY DEF JobLoads, Goto, Load
    <2> QED BY <2>1, <2>2, <2>3 DEF RedeemChecked
  <1> QED BY <1>1, <1>2, <1>3, <1>4, <1>5

\* A request that lost the race to add the row gives up.
LEMMA JobCollidesInv ==
    ASSUME AccessInv, NEW t \in Api, JobCollides(t)
    PROVE  AccessInv'
  <1>1. ThreadType'
    BY FinishType DEF AccessInv, JobCollides, Threads
  <1>2. TypeOK'
    BY <1>1 DEF AccessInv, TypeOK, ThreadType, JobCollides
  <1>3. FreshSession' /\ Loaded' /\ RowsStay' /\ RedeemChecked'
    BY FinishRest DEF JobCollides, Threads
  <1> QED BY <1>2, <1>3 DEF AccessInv

\* A kick registers its cooldown.
LEMMA KickRegistersInv ==
    ASSUME AccessInv, NEW t \in Api, NEW c \in Clients, KickRegisters(t, c)
    PROVE  AccessInv'
  <1> USE DEF AccessInv, TypeOK, Threads
  <1>1. TypeOK'
    BY BoundsAssumption DEF KickRegisters, Goto, Called, AllJobs
  <1>2. FreshSession'
    BY DEF FreshSession, KickRegisters, Goto
  <1>3. Loaded'
    BY Markers DEF Loaded, KickRegisters, Goto
  <1>4. RowsStay'
    BY Markers DEF RowsStay, KickRegisters, Goto
  <1>5. RedeemChecked'
    BY DEF RedeemChecked, KickRegisters, Goto
  <1> QED BY <1>1, <1>2, <1>3, <1>4, <1>5

\* The release thread of a kick starts.
LEMMA KickSucceedsInv ==
    ASSUME AccessInv, NEW t \in Api, KickSucceeds(t)
    PROVE  AccessInv'
  <1> USE DEF AccessInv, TypeOK, Threads
  <1>1. TypeOK'
    BY DEF KickSucceeds, Goto, NothingLoaded
  <1>2. FreshSession'
    BY DEF FreshSession, KickSucceeds, Goto, NothingLoaded
  <1>3. Loaded'
    BY Markers DEF Loaded, KickSucceeds, Goto, NothingLoaded
  <1>4. RowsStay'
    BY Markers DEF RowsStay, KickSucceeds, Goto, NothingLoaded
  <1>5. RedeemChecked'
    BY DEF RedeemChecked, KickSucceeds, Goto, NothingLoaded
  <1> QED BY <1>1, <1>2, <1>3, <1>4, <1>5

\* A cooldown is released.
LEMMA CooldownReleasesInv ==
    ASSUME AccessInv, NEW t \in Api, CooldownReleases(t)
    PROVE  AccessInv'
  <1> USE DEF AccessInv, TypeOK, Threads
  <1>1. TypeOK'
    BY DEF CooldownReleases, Goto
  <1>2. FreshSession'
    BY DEF FreshSession, CooldownReleases, Goto
  <1>3. Loaded'
    BY Markers DEF Loaded, CooldownReleases, Goto
  <1>4. RowsStay'
    BY Markers DEF RowsStay, CooldownReleases, Goto
  <1>5. RedeemChecked'
    BY DEF RedeemChecked, CooldownReleases, Goto
  <1> QED BY <1>1, <1>2, <1>3, <1>4, <1>5

\* A tick loads every row.
LEMMA TickLoadsInv ==
    ASSUME AccessInv, NEW t \in Traffic, TickLoads(t)
    PROVE  AccessInv'
  <1> USE DEF AccessInv, TypeOK, Threads
  <1>1. TypeOK'
    BY DEF TickLoads, Goto
  <1>2. FreshSession'
    BY DEF FreshSession, TickLoads, Goto
  <1>3. Loaded'
    BY Markers DEF Loaded, TickLoads, Goto
  <1>4. RowsStay'
    BY Markers DEF RowsStay, TickLoads, Goto
  <1>5. RedeemChecked'
    BY DEF RedeemChecked, TickLoads, Goto
  <1> QED BY <1>1, <1>2, <1>3, <1>4, <1>5

\* A tick turns to its next client.
LEMMA TickTakesInv ==
    ASSUME AccessInv, NEW t \in Traffic, NEW c \in Clients, TickTakes(t, c)
    PROVE  AccessInv'
  <1> USE DEF AccessInv, TypeOK, Threads
  <1>1. TypeOK'
    BY DEF TickTakes, Goto
  <1>2. FreshSession'
    BY DEF FreshSession, TickTakes, Goto
  <1>3. Loaded'
    BY Markers DEF Loaded, TickTakes, Goto
  <1>4. RowsStay'
    BY Markers DEF RowsStay, TickTakes, Goto
  <1>5. RedeemChecked'
    BY DEF RedeemChecked, TickTakes, Goto
  <1> QED BY <1>1, <1>2, <1>3, <1>4, <1>5

\* A tick ends.
LEMMA TickEndsInv ==
    ASSUME AccessInv, NEW t \in Traffic, TickEnds(t)
    PROVE  AccessInv'
  <1>1. ThreadType'
    BY FinishType DEF AccessInv, TickEnds, Threads
  <1>2. TypeOK'
    BY <1>1 DEF AccessInv, TypeOK, ThreadType, TickEnds
  <1>3. FreshSession' /\ Loaded' /\ RowsStay' /\ RedeemChecked'
    BY FinishRest DEF TickEnds, Threads
  <1> QED BY <1>2, <1>3 DEF AccessInv

\* The expiry worker claims a due row.
LEMMA ExpiryClaimsInv ==
    ASSUME AccessInv, NEW t \in Expiry, NEW c \in Clients, ExpiryClaims(t, c)
    PROVE  AccessInv'
  <1> USE DEF AccessInv, TypeOK, Threads
  <1>1. TypeOK'
    BY DEF ExpiryClaims, Goto
  <1>2. FreshSession'
    BY DEF FreshSession, ExpiryClaims, Goto
  <1>3. Loaded'
    BY Markers DEF Loaded, ExpiryClaims, Goto
  <1>4. RowsStay'
    BY Markers DEF RowsStay, ExpiryClaims, Goto
  <1>5. RedeemChecked'
    BY DEF RedeemChecked, ExpiryClaims, Goto
  <1> QED BY <1>1, <1>2, <1>3, <1>4, <1>5

\* A reconcile loads its row.
LEMMA ReadsRowInv ==
    ASSUME AccessInv, NEW t \in Threads, ReadsRow(t)
    PROVE  AccessInv'
  <1> USE DEF AccessInv, TypeOK, Threads
  <1>1. TypeOK'
    BY DEF ReadsRow, Goto, Load
  <1>2. FreshSession'
    BY DEF FreshSession, ReadsRow, Goto, Load
  <1>3. Loaded'
    BY Markers DEF Loaded, ReadsRow, Goto, Load
  <1>4. RowsStay'
    BY Markers DEF RowsStay, ReadsRow, Goto, Load
  <1>5. RedeemChecked'
    BY DEF RedeemChecked, ReadsRow, Goto, Load
  <1> QED BY <1>1, <1>2, <1>3, <1>4, <1>5

\* A reconcile reads the file.
LEMMA ReadsFileInv ==
    ASSUME AccessInv, NEW t \in Threads, ReadsFile(t)
    PROVE  AccessInv'
  <1> USE DEF AccessInv, TypeOK, Threads
  <1>1. TypeOK'
    BY DEF ReadsFile, Goto
  <1>2. FreshSession'
    BY DEF FreshSession, ReadsFile, Goto
  <1>3. Loaded'
    BY Markers DEF Loaded, ReadsFile, Goto
  <1>4. RowsStay'
    BY Markers DEF RowsStay, ReadsFile, Goto
  <1>5. RedeemChecked'
    BY DEF RedeemChecked, ReadsFile, Goto
  <1> QED BY <1>1, <1>2, <1>3, <1>4, <1>5

\* A reconcile without a row decides to write.
LEMMA AppliesNoRowInv ==
    ASSUME AccessInv, NEW t \in Threads, AppliesNoRow(t)
    PROVE  AccessInv'
  <1> USE DEF AccessInv, TypeOK, Threads
  <1>1. TypeOK'
    BY DEF AppliesNoRow, Goto, WithBan
  <1>2. FreshSession'
    BY DEF FreshSession, AppliesNoRow, Goto
  <1>3. Loaded'
    BY Markers DEF Loaded, AppliesNoRow, Goto
  <1>4. RowsStay'
    BY Markers DEF RowsStay, AppliesNoRow, Goto
  <1>5. RedeemChecked'
    BY DEF RedeemChecked, AppliesNoRow, Goto
  <1> QED BY <1>1, <1>2, <1>3, <1>4, <1>5

\* A reconcile without a row has nothing to write.
LEMMA KeepsFileInv ==
    ASSUME AccessInv, NEW t \in Threads, KeepsFile(t)
    PROVE  AccessInv'
  <1>1. ThreadType'
    BY ReturnsType DEF AccessInv, KeepsFile, Threads
  <1>2. TypeOK'
    BY <1>1 DEF AccessInv, TypeOK, ThreadType, KeepsFile
  <1>3. FreshSession' /\ Loaded' /\ RowsStay' /\ RedeemChecked'
    BY ReturnsRest DEF KeepsFile, Threads
  <1> QED BY <1>2, <1>3 DEF AccessInv

\* A reconcile writes the file.
LEMMA WritesFileInv ==
    ASSUME AccessInv, NEW t \in Threads, WritesFile(t)
    PROVE  AccessInv'
  <1>1. ThreadType'
    BY ReturnsType DEF AccessInv, WritesFile, Threads
  <1>2. TypeOK'
    BY <1>1 DEF AccessInv, TypeOK, ThreadType, WritesFile
  <1>3. FreshSession' /\ Loaded' /\ RowsStay' /\ RedeemChecked'
    BY ReturnsRest DEF WritesFile, Threads
  <1> QED BY <1>2, <1>3 DEF AccessInv

\* The node fails.
LEMMA NodeFailsInv ==
    ASSUME AccessInv, NEW t \in Threads, NodeFails(t)
    PROVE  AccessInv'
  <1> USE DEF AccessInv, TypeOK, Threads
  <1>1. TypeOK'
    BY BoundsAssumption DEF NodeFails, Closes, NothingLoaded, Faulty
  <1>2. FreshSession'
    BY DEF FreshSession, NodeFails, Closes, NothingLoaded
  <1>3. Loaded'
    BY Markers DEF Loaded, NodeFails, Closes, NothingLoaded
  <1>4. RowsStay'
    BY Markers DEF RowsStay, NodeFails, Closes, NothingLoaded
  <1>5. RedeemChecked'
    BY DEF RedeemChecked, NodeFails, Closes, NothingLoaded
  <1> QED BY <1>1, <1>2, <1>3, <1>4, <1>5

\* A request commits.
LEMMA JobCommitsInv ==
    ASSUME AccessInv, NEW t \in Api, JobCommits(t)
    PROVE  AccessInv'
  <1> DEFINE c == client[t]
             loaded == IF snap[t][c] = NoRow THEN Blank ELSE snap[t][c]
             stored == IF db[c] = NoRow THEN Blank ELSE db[c]
             row == Merge(stored, loaded, Edited(job[t], loaded), NewMoments(job[t]))
  <1> USE DEF AccessInv, TypeOK, Threads
  <1>1. loaded \in Rows /\ stored \in Rows
    BY Markers DEF JobCommits, Loaded
  <1>2. row \in Rows
    BY <1>1, EditedType, MergeType
  <1>3. db' = [db EXCEPT ![c] = row] /\ snap' = [snap EXCEPT ![t] = NothingLoaded]
    BY DEF JobCommits
  <1>4. \E l \in {"allow", "row"} : pc' = [pc EXCEPT ![t] = l]
    BY DEF JobCommits, Goto
  <1> HIDE DEF row
  <1>5. TypeOK'
    BY <1>2, <1>3, <1>4 DEF JobCommits, NothingLoaded
  <1>6. FreshSession' /\ Loaded' /\ RedeemChecked'
    BY <1>3, <1>4 DEF FreshSession, Loaded, RedeemChecked, JobCommits
  <1>7. RowsStay'
    BY <1>2, <1>3, Markers DEF RowsStay, NothingLoaded
  <1> QED BY <1>5, <1>6, <1>7

\* A reconcile commits the row it cleaned up.
LEMMA AppliesRowInv ==
    ASSUME AccessInv, NEW t \in Threads, AppliesRow(t)
    PROVE  AccessInv'
  <1> DEFINE c == client[t]
             old == Aged(c, snap[t][c])
             new == Reconciled(c, old, job[t] \in LimitJobs)
             row == Merge(db[c], old, new, {})
  <1> USE DEF AccessInv, TypeOK
  <1>1. old \in Rows /\ db[c] \in Rows
    BY Markers, AgedRow DEF AppliesRow, Loaded, RowsStay
  <1>2. row \in Rows
    BY <1>1, ReconciledType, MergeType
  <1>3. db' = [db EXCEPT ![c] = row]
    BY DEF AppliesRow
  <1>4. snap' \in {snap, [snap EXCEPT ![t] = NothingLoaded]}
    BY DEF AppliesRow
  <1>5. file' \in [Threads -> SUBSET Clients]
    BY DEF AppliesRow, WithBan
  <1>6. pc' = [pc EXCEPT ![t] = "write"]
    BY DEF AppliesRow, Goto
  <1> HIDE DEF row
  <1>7. TypeOK'
    BY <1>2, <1>3, <1>4, <1>5, <1>6 DEF AppliesRow, NothingLoaded
  <1>8. FreshSession' /\ Loaded' /\ RedeemChecked'
    BY <1>4, <1>6 DEF FreshSession, Loaded, RedeemChecked, AppliesRow
  <1>9. RowsStay'
    <2>1. \A u \in Threads, d \in Clients : snap'[u][d] \in Rows => snap[u][d] \in Rows
      BY <1>4, Markers DEF NothingLoaded
    <2> QED BY <1>2, <1>3, <2>1 DEF RowsStay
  <1> QED BY <1>7, <1>8, <1>9

\* The panel process dies.
LEMMA CrashInv ==
    ASSUME AccessInv, Crash
    PROVE  AccessInv'
  BY BoundsAssumption, Markers DEF AccessInv, TypeOK, FreshSession, Loaded, RowsStay,
     RedeemChecked, Crash, Faulty, NothingLoaded

\* Time passes or traffic is counted.
LEMMA ClockInv ==
    ASSUME AccessInv, NEW c \in Clients, Clock(c)
    PROVE  AccessInv'
  <1> USE DEF AccessInv, TypeOK
  <1>1. CASE AccessLapses(c) \/ BlockLapses(c)
    <2>1. PICK row \in Rows : db' = [db EXCEPT ![c] = row] /\ UNCHANGED <<over, banned, cooldown, thread, calls, faults>>
      <3>1. db[c] \in Rows
        BY <1>1, BlankColumns DEF AccessLapses, BlockLapses
      <3> QED BY <1>1, <3>1 DEF AccessLapses, BlockLapses, Row, Rows, Deadlines
    <2> QED BY <2>1 DEF FreshSession, Loaded, RowsStay, RedeemChecked, thread
  <1>2. CASE CooldownLapses(c) \/ UsageChanges(c)
    BY <1>2, BoundsAssumption DEF CooldownLapses, UsageChanges, Called, FreshSession, Loaded,
       RowsStay, RedeemChecked, thread
  <1> QED BY <1>1, <1>2 DEF Clock

\* Every step of a reconcile.
LEMMA ReconcilesInv ==
    ASSUME AccessInv, NEW t \in Threads, Reconciles(t)
    PROVE  AccessInv'
  BY ReadsRowInv, ReadsFileInv, AppliesRowInv, AppliesNoRowInv, KeepsFileInv, WritesFileInv
     DEF Reconciles

\* Every step keeps the invariant.
LEMMA StepInv == AccessInv /\ [Next]_vars => AccessInv'
  <1> SUFFICES ASSUME AccessInv, [Next]_vars PROVE AccessInv'
    OBVIOUS
  <1>1. ASSUME NEW t \in Api, Arrives(t) PROVE AccessInv'
    BY <1>1, KickRegistersInv, JobLoadsInv DEF Arrives
  <1>2. ASSUME NEW t \in Api, Proceeds(t) PROVE AccessInv'
    BY <1>2, JobCommitsInv, JobCollidesInv, KickSucceedsInv, CooldownReleasesInv, ReconcilesInv
       DEF Proceeds, Threads
  <1>3. ASSUME NEW t \in Traffic, Ticks(t) PROVE AccessInv'
    BY <1>3, TickLoadsInv, TickTakesInv, TickEndsInv, ReconcilesInv DEF Ticks, Threads
  <1>4. ASSUME NEW t \in Expiry, Expires(t) PROVE AccessInv'
    BY <1>4, ExpiryClaimsInv, ReconcilesInv DEF Expires, Threads
  <1>5. CASE UNCHANGED vars
    BY <1>5 DEF AccessInv, TypeOK, FreshSession, Loaded, RowsStay, RedeemChecked, vars, thread
  <1> QED BY <1>1, <1>2, <1>3, <1>4, <1>5, NodeFailsInv, CrashInv, ClockInv DEF Next

\* No thread ever edits a row it has not loaded or that is gone, and an unlock
\* code is only ever applied from a row that carried no permanent block
\* (redeem_unlock_code), however requests, workers, failures and crashes
\* interleave.
THEOREM AccessInvariant == Spec => []AccessInv
  <1>1. Init => AccessInv
    BY BoundsAssumption, Markers DEF Init, AccessInv, TypeOK, FreshSession, Loaded, RowsStay,
       RedeemChecked, NothingLoaded
  <1> QED BY <1>1, StepInv, PTL DEF Spec

\* The changes of a row that a commit can make to is_permanent_blocked.
LEMMA CommitKeepsPermanent ==
    ASSUME AccessInv, NEW t \in Api, JobCommits(t), NEW c \in Clients,
           db[c].perm = 1, db'[c].perm = 0
    PROVE  LiftsPermanent(t, c)
  <1> DEFINE k == client[t]
             loaded == IF snap[t][k] = NoRow THEN Blank ELSE snap[t][k]
             stored == IF db[k] = NoRow THEN Blank ELSE db[k]
             edited == Edited(job[t], loaded)
             row == Merge(stored, loaded, edited, NewMoments(job[t]))
  <1> USE DEF AccessInv, TypeOK, Threads
  <1>1. db' = [db EXCEPT ![k] = row]
    BY DEF JobCommits
  <1>2. c = k /\ row.perm = 0
    BY <1>1
  <1>3. stored.perm = 1
    BY <1>2, BlankColumns
  <1>4. edited.perm = 0 /\ loaded.perm # 0
    BY <1>2, <1>3, MergePerm DEF Changed
  <1>5. loaded \in Rows
    BY Markers DEF JobCommits, Loaded
  <1>6. loaded.perm = 1
    BY <1>4, <1>5 DEF Rows, Bits
  <1>7. job[t] # "redeem"
    BY <1>6, BlankColumns DEF RedeemChecked, JobCommits
  <1>8. job[t] \in AllJobs \ {"kick"}
    BY DEF JobCommits, Loaded
  <1>9. job[t] \in {"temp", "unblock"}
    BY <1>4, <1>5, <1>6, <1>7, <1>8, EditedPerm
  <1> QED BY <1>2, <1>9 DEF LiftsPermanent, JobCommits

\* A reconcile lifts a permanent block only after a change of the limit.
LEMMA ReconcileKeepsPermanent ==
    ASSUME AccessInv, NEW t \in Threads, AppliesRow(t), NEW c \in Clients,
           db[c].perm = 1, db'[c].perm = 0
    PROVE  LiftsPermanent(t, c)
  <1> DEFINE k == client[t]
             old == Aged(k, snap[t][k])
             new == Reconciled(k, old, job[t] \in LimitJobs)
             row == Merge(db[k], old, new, {})
  <1> USE DEF AccessInv, TypeOK
  <1>1. db' = [db EXCEPT ![k] = row]
    BY DEF AppliesRow
  <1>2. c = k /\ row.perm = 0
    BY <1>1
  <1>3. new.perm # old.perm
    BY <1>2, MergePerm DEF Changed
  <1>4. old \in Rows
    BY Markers, AgedRow DEF AppliesRow, Loaded
  <1>5. job[t] \in LimitJobs
    <2>1. ASSUME job[t] \notin LimitJobs PROVE new.perm = old.perm
      <3>1. CleanTemp(old).perm = old.perm
        BY DEF CleanTemp, Row
      <3>2. \A x : CleanLimit(k, x, job[t] \in LimitJobs).perm = x.perm
        BY <2>1 DEF CleanLimit, Row
      <3> QED BY <3>1, <3>2 DEF Reconciled, Row
    <2> QED BY <1>3, <2>1
  <1> QED BY <1>2, <1>5 DEF LiftsPermanent, AppliesRow

\* Whatever row a redeem, a tick, a kick, a deadline change or the expiry
\* worker loaded before an administrator blocked the client for good, its
\* later UPDATE leaves is_permanent_blocked set.
THEOREM PermanentBanTheorem == Spec => PermanentBanHeld
  <1> DEFINE Held == \A c \in Clients : db[c].perm = 1 /\ db'[c].perm = 0
                        => \E t \in Threads : LiftsPermanent(t, c)
  <1>1. AccessInv /\ [Next]_vars => [Held]_vars
    <2> SUFFICES ASSUME AccessInv, Next, NEW c \in Clients, db[c].perm = 1, db'[c].perm = 0
                 PROVE  \E t \in Threads : LiftsPermanent(t, c)
      OBVIOUS
    <2>1. db' # db
      OBVIOUS
    <2>2. CASE \E t \in Api : JobCommits(t)
      BY <2>2, CommitKeepsPermanent DEF Threads
    <2>3. CASE \E t \in Threads : AppliesRow(t)
      BY <2>3, ReconcileKeepsPermanent
    <2>4. CASE \E k \in Clients : AccessLapses(k) \/ BlockLapses(k)
      BY <2>4 DEF AccessLapses, BlockLapses, Row, AccessInv, TypeOK
    <2>5. ASSUME NEW t \in Threads, Reconciles(t) PROVE AppliesRow(t)
      BY <2>1, <2>5 DEF Reconciles, ReadsRow, ReadsFile, AppliesNoRow, KeepsFile, WritesFile
    <2>6. ASSUME NEW t \in Api, Arrives(t) \/ Proceeds(t) PROVE JobCommits(t) \/ AppliesRow(t)
      BY <2>1, <2>5, <2>6 DEF Arrives, Proceeds, KickRegisters, JobLoads, JobCollides,
         KickSucceeds, CooldownReleases, Threads
    <2>7. ASSUME NEW t \in Traffic, Ticks(t) PROVE AppliesRow(t)
      BY <2>1, <2>5, <2>7 DEF Ticks, TickLoads, TickEnds, TickTakes, Threads
    <2>8. ASSUME NEW t \in Expiry, Expires(t) PROVE AppliesRow(t)
      BY <2>1, <2>5, <2>8 DEF Expires, ExpiryClaims, Threads
    <2>9. ASSUME NEW k \in Clients, Clock(k) PROVE AccessLapses(k) \/ BlockLapses(k)
      BY <2>1, <2>9 DEF Clock, CooldownLapses, UsageChanges
    <2>10. ~(Crash \/ \E t \in Threads : NodeFails(t))
      BY <2>1 DEF Crash, NodeFails
    <2> QED BY <2>2, <2>3, <2>4, <2>6, <2>7, <2>8, <2>9, <2>10 DEF Next, Threads
  <1> QED BY <1>1, AccessInvariant, PTL DEF Spec, PermanentBanHeld

=============================================================================
