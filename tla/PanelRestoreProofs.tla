------------------------- MODULE PanelRestoreProofs -------------------------
(***************************************************************************)
(* Proofs about PanelRestore.                                              *)
(***************************************************************************)
EXTENDS PanelRestore, SequenceTheorems, FiniteSetTheorems, WellFoundedInduction, TLAPS

Parts == [Roles -> Versions \cup {Absent}]
Job == [pc : JobPcs, parts : Parts, claims : SUBSET Updates, lists : Versions \cup {Absent},
        left : Seq(Roles), at : Nat, doomed : SUBSET Nat, world : Parts]
RestoreRec == [pc : RestorePcs, parts : Parts, claims : SUBSET Updates,
               lists : Versions \cup {Absent}, left : Seq(Roles), done : Seq(Roles),
               copy : Nat, source : Nat, by : Updates \cup {"http"}]

LEMMA RolesAre == Roles = {"db", "cidr", "env"} /\ RoleOrder \in Seq(Roles)
  BY DEF Roles, RoleOrder

LEMMA PresentSeq ==
  ASSUME NEW parts \in Parts
  PROVE  /\ Present(parts) \in Seq(Roles)
         /\ Range(Present(parts)) = {x \in Roles : parts[x] # Absent}
  <1> DEFINE found(x) == IF parts[x] # Absent THEN <<x>> ELSE <<>>
  <1>1. ASSUME NEW x \in Roles
        PROVE  found(x) \in Seq(Roles) /\ Range(found(x)) = IF parts[x] # Absent THEN {x} ELSE {}
    BY <1>1 DEF Range
  <1> HIDE DEF found
  <1>a. "db" \in Roles /\ "cidr" \in Roles /\ "env" \in Roles
    BY DEF Roles
  <1> DEFINE d == found("db")
             c == found("cidr")
             e == found("env")
  <1>2. d \in Seq(Roles) /\ c \in Seq(Roles) /\ e \in Seq(Roles)
    BY <1>1, <1>a
  <1>b. /\ Range(d) = IF parts["db"] # Absent THEN {"db"} ELSE {}
        /\ Range(c) = IF parts["cidr"] # Absent THEN {"cidr"} ELSE {}
        /\ Range(e) = IF parts["env"] # Absent THEN {"env"} ELSE {}
    BY <1>1, <1>a
  <1>5. Present(parts) = (d \o c) \o e
    BY DEF Present, found
  <1> HIDE DEF d, c, e
  <1>3. d \o c \in Seq(Roles) /\ Range(d \o c) = Range(d) \cup Range(c)
    BY <1>2, RangeConcatenation, ConcatProperties
  <1> DEFINE dc == d \o c
  <1> HIDE DEF dc
  <1>c. dc \in Seq(Roles) /\ Range(dc) = Range(d) \cup Range(c)
    BY <1>3 DEF dc
  <1>4. dc \o e \in Seq(Roles) /\ Range(dc \o e) = Range(dc) \cup Range(e)
    BY <1>2, <1>c, RangeConcatenation, ConcatProperties
  <1>6. Range(dc \o e) = {x \in Roles : parts[x] # Absent}
    BY <1>b, <1>c, <1>4, RolesAre, Zenon
  <1> QED
    BY <1>4, <1>5, <1>6 DEF dc

LEMMA TailRange ==
  ASSUME NEW S, NEW s \in Seq(S), s # <<>>
  PROVE  /\ Head(s) \in S /\ Tail(s) \in Seq(S)
         /\ Range(s) = {Head(s)} \cup Range(Tail(s))
  <1>1. Head(s) \in S /\ Tail(s) \in Seq(S) /\ Len(s) >= 1 /\ Len(s) \in Nat /\ Head(s) = s[1]
    BY HeadTailProperties, EmptySeq
  <1>2. Len(Tail(s)) = Len(s) - 1 /\ \A i \in 1 .. Len(Tail(s)) : Tail(s)[i] = s[i+1]
    BY HeadTailProperties
  <1>3. Range(s) = {s[i] : i \in 1 .. Len(s)} /\ Range(Tail(s)) = {Tail(s)[i] : i \in 1 .. Len(Tail(s))}
    BY <1>1, RangeEquality
  <1>4. ASSUME NEW x \in Range(s), x # Head(s) PROVE x \in Range(Tail(s))
    <2>1. PICK i \in 1 .. Len(s) : x = s[i]
      BY <1>3
    <2>2. i - 1 \in 1 .. Len(Tail(s)) /\ Tail(s)[i - 1] = s[i]
      BY <1>1, <1>2, <1>4, <2>1
    <2> QED
      BY <1>3, <2>1, <2>2
  <1>5. ASSUME NEW x \in Range(Tail(s)) PROVE x \in Range(s)
    <2>1. PICK i \in 1 .. Len(Tail(s)) : x = Tail(s)[i]
      BY <1>3
    <2>2. i + 1 \in 1 .. Len(s) /\ Tail(s)[i] = s[i + 1]
      BY <1>1, <1>2
    <2> QED
      BY <1>3, <2>1, <2>2
  <1>6. Head(s) \in Range(s)
    BY <1>1, <1>3
  <1> QED
    BY <1>1, <1>4, <1>5, <1>6

LEMMA AppendRange ==
  ASSUME NEW S, NEW s \in Seq(S), NEW e \in S
  PROVE  /\ Append(s, e) \in Seq(S) /\ Append(s, e) # <<>>
         /\ Range(Append(s, e)) = Range(s) \cup {e}
         /\ Append(s, e)[Len(Append(s, e))] = e
  <1> DEFINE t == <<e>>
  <1>1. t \in Seq(S) /\ Range(t) = {e}
    BY DEF Range
  <1>2. Append(s, e) = s \o t
    BY AppendIsConcat
  <1> HIDE DEF t
  <1>3. Range(s \o t) = Range(s) \cup Range(t)
    BY <1>1, RangeConcatenation
  <1>4. Range(Append(s, e)) = Range(s) \cup {e}
    BY <1>1, <1>2, <1>3
  <1> QED
    BY <1>4, AppendProperties

LEMMA NoneYet == NoParts \in Parts /\ NoRestore \in RestoreRec /\ NoJob \in Job
  <1>1. NoParts \in Parts
    BY DEF NoParts, Parts, Versions
  <1>2. <<>> \in Seq(Roles)
    BY EmptySeq
  <1> QED
    BY <1>1, <1>2 DEF NoRestore, RestoreRec, RestorePcs, NoJob, Job, JobPcs

\* Replacing one entry of a sequence, and computing every entry anew.
LEMMA EntrySet ==
  ASSUME NEW S, NEW s \in Seq(S), NEW i \in DOMAIN s, NEW e \in S
  PROVE  /\ [s EXCEPT ![i] = e] \in Seq(S)
         /\ Len([s EXCEPT ![i] = e]) = Len(s)
         /\ DOMAIN [s EXCEPT ![i] = e] = DOMAIN s
         /\ \A j \in DOMAIN s : [s EXCEPT ![i] = e][j] = IF j = i THEN e ELSE s[j]
  BY ExceptSeq, LenProperties

LEMMA EntriesMapped ==
  ASSUME NEW S, NEW s \in Seq(S), NEW t, DOMAIN t = DOMAIN s, t = [i \in DOMAIN s |-> t[i]],
         \A i \in DOMAIN s : t[i] \in S
  PROVE  t \in Seq(S) /\ Len(t) = Len(s)
  <1>1. Len(s) \in Nat /\ DOMAIN s = 1 .. Len(s)
    BY LenProperties
  <1>2. t \in [1 .. Len(s) -> S]
    BY <1>1
  <1>3. t \in Seq(S)
    BY <1>1, <1>2, SeqDef
  <1>4. Len(t) \in Nat /\ DOMAIN t = 1 .. Len(t)
    BY <1>3, LenProperties
  <1> QED
    BY <1>1, <1>3, <1>4

-----------------------------------------------------------------------------
(* Types.                                                                  *)

FilesTyped ==
    /\ live \in Parts /\ good \in Parts
    /\ wal \in [SqliteRoles -> {"none", "own", "foreign", "stuck"}]
    /\ claimed \in SUBSET Updates /\ overlay \in Versions

CountersTyped ==
    /\ broken \in BOOLEAN /\ ran \in [Updates -> Nat]
    /\ calls \in 0..MaxCalls /\ faults \in 0..MaxFaults

CopiesTyped ==
    /\ copies \in Seq(Copy)
    /\ rst \in [Restores -> RestoreRec]
    /\ \A r \in Restores :
          /\ rst[r].copy <= Len(copies)
          /\ rst[r].pc \in Replacing => rst[r].copy >= 1

ArchivesTyped ==
    /\ archives \in Seq(Archive)
    /\ job \in [Creators -> Job]
    /\ \A c \in Creators :
          /\ job[c].at <= Len(archives)
          /\ job[c].pc = "metadata" => job[c].at >= 1

Typed == FilesTyped /\ CountersTyped /\ CopiesTyped /\ ArchivesTyped

\* A step of one restore leaves the others as they are.
OthersSame(r) == \A q \in Restores : q # r => rst'[q] = rst[q]

\* What a restore carries along from its load, and where its copy is.
PayloadSame(r) ==
    /\ rst'[r].parts = rst[r].parts /\ rst'[r].claims = rst[r].claims
    /\ rst'[r].lists = rst[r].lists /\ rst'[r].source = rst[r].source
    /\ rst'[r].by = rst[r].by

WorkSame(r) ==
    rst'[r].left = rst[r].left /\ rst'[r].done = rst[r].done /\ rst'[r].copy = rst[r].copy

LEMMA PcMoves ==
  ASSUME rst \in [Restores -> RestoreRec], NEW r \in Restores, NEW p \in RestorePcs,
         rst' = [rst EXCEPT ![r].pc = p]
  PROVE  /\ rst' \in [Restores -> RestoreRec] /\ OthersSame(r) /\ PayloadSame(r)
         /\ WorkSame(r) /\ rst'[r].pc = p
  BY DEF RestoreRec, OthersSame, PayloadSame, WorkSame

LEMMA RestoreSet ==
  ASSUME rst \in [Restores -> RestoreRec], NEW r \in Restores, NEW v \in RestoreRec,
         rst' = [rst EXCEPT ![r] = v]
  PROVE  rst' \in [Restores -> RestoreRec] /\ OthersSame(r) /\ rst'[r] = v
  BY DEF OthersSame

LEMMA ArchiveTypes ==
  ASSUME Typed
  PROVE  /\ DOMAIN archives = 1..Len(archives) /\ Len(archives) \in Nat
         /\ \A i \in DOMAIN archives :
              /\ archives[i] \in Archive /\ archives[i].parts \in Parts
              /\ archives[i].claims \in SUBSET Updates /\ archives[i].lists \in Versions \cup {Absent}
         /\ DOMAIN copies = 1..Len(copies) /\ Len(copies) \in Nat
         /\ \A k \in DOMAIN copies :
              /\ copies[k] \in Copy /\ copies[k].parts \in Parts /\ copies[k].claims \in SUBSET Updates
  <1>1. archives \in Seq(Archive) /\ copies \in Seq(Copy)
    BY DEF Typed, ArchivesTyped, CopiesTyped
  <1>2. /\ DOMAIN archives = 1..Len(archives) /\ Len(archives) \in Nat
        /\ DOMAIN copies = 1..Len(copies) /\ Len(copies) \in Nat
    BY <1>1, LenProperties
  <1>3. ASSUME NEW i \in DOMAIN archives PROVE archives[i] \in Archive
    BY <1>1, <1>2, ElementOfSeq
  <1>4. ASSUME NEW k \in DOMAIN copies PROVE copies[k] \in Copy
    BY <1>1, <1>2, ElementOfSeq
  <1> QED
    BY <1>2, <1>3, <1>4 DEF Archive, Copy, Parts

LEMMA LoadedType ==
  ASSUME NEW from, from.parts \in Parts, from.claims \in SUBSET Updates,
         NEW lists \in Versions \cup {Absent}, NEW source \in Nat, NEW by \in Updates \cup {"http"}
  PROVE  LET v == Loaded(from, lists, source, by) IN
         /\ v \in RestoreRec
         /\ v.pc = "pause" /\ v.parts = from.parts /\ v.claims = from.claims /\ v.lists = lists
         /\ v.left = <<>> /\ v.done = <<>> /\ v.copy = 0 /\ v.source = source /\ v.by = by
  <1>1. NoRestore \in RestoreRec
    BY NoneYet
  <1>2. NoRestore.left = <<>> /\ NoRestore.done = <<>> /\ NoRestore.copy = 0
    BY DEF NoRestore
  <1> QED
    BY <1>1, <1>2 DEF Loaded, RestoreRec, RestorePcs

LEMMA LoadedArchive ==
  ASSUME Typed, NEW i \in DOMAIN archives, NEW u \in Updates \cup {"http"}
  PROVE  LET v == Loaded(archives[i], archives[i].lists, 0, u) IN
         /\ v \in RestoreRec
         /\ v.pc = "pause" /\ v.parts = archives[i].parts /\ v.claims = archives[i].claims
         /\ v.lists = archives[i].lists /\ v.left = <<>> /\ v.done = <<>> /\ v.copy = 0 /\ v.by = u
  <1> DEFINE from == archives[i]
             lists == archives[i].lists
  <1>1. /\ from.parts \in Parts /\ from.claims \in SUBSET Updates
        /\ lists \in Versions \cup {Absent} /\ 0 \in Nat
    BY ArchiveTypes
  <1> HIDE DEF from, lists
  <1> DEFINE v == Loaded(from, lists, 0, u)
  <1>2. /\ v \in RestoreRec
        /\ v.pc = "pause" /\ v.parts = from.parts /\ v.claims = from.claims
        /\ v.lists = lists /\ v.left = <<>> /\ v.done = <<>> /\ v.copy = 0 /\ v.by = u
    BY <1>1, LoadedType
  <1> QED
    BY <1>2 DEF from, lists

\* What each of a restore's steps does to its own record.
LEMMA LoadMoves ==
  ASSUME Typed, NEW r \in Restores, NEW i \in DOMAIN archives, NEW u \in Updates \cup {"http"},
         (RestoreLoads(r, i) /\ u = "http") \/ BotRestores(r, i, u)
  PROVE  /\ rst' \in [Restores -> RestoreRec] /\ OthersSame(r)
         /\ rst'[r].pc = "pause" /\ rst'[r].parts = archives[i].parts /\ rst'[r].claims = archives[i].claims
         /\ rst'[r].lists = archives[i].lists /\ rst'[r].copy = 0 /\ rst'[r].by = u
         /\ rst'[r].left = <<>> /\ rst'[r].done = <<>>
  <1> DEFINE v == Loaded(archives[i], archives[i].lists, 0, u)
  <1>1. /\ v \in RestoreRec
        /\ v.pc = "pause" /\ v.parts = archives[i].parts /\ v.claims = archives[i].claims
        /\ v.lists = archives[i].lists /\ v.left = <<>> /\ v.done = <<>> /\ v.copy = 0 /\ v.by = u
    BY LoadedArchive
  <1> HIDE DEF v
  <1>2. rst' \in [Restores -> RestoreRec] /\ OthersSame(r) /\ rst'[r] = v
    BY <1>1, RestoreSet DEF Typed, CopiesTyped, v, RestoreLoads, BotRestores
  <1> QED
    BY <1>1, <1>2

LEMMA RollbackMoves ==
  ASSUME Typed, NEW r \in Restores, NEW k \in DOMAIN copies, RollbackLoads(r, k)
  PROVE  /\ rst' \in [Restores -> RestoreRec] /\ OthersSame(r)
         /\ rst'[r].pc = "pause" /\ rst'[r].parts = copies[k].parts /\ rst'[r].claims = copies[k].claims
         /\ rst'[r].lists = Absent /\ rst'[r].copy = 0 /\ rst'[r].by = "http"
         /\ rst'[r].left = <<>> /\ rst'[r].done = <<>>
  <1> DEFINE v == Loaded(copies[k], Absent, k, "http")
  <1>1. /\ v \in RestoreRec
        /\ v.pc = "pause" /\ v.parts = copies[k].parts /\ v.claims = copies[k].claims
        /\ v.lists = Absent /\ v.left = <<>> /\ v.done = <<>> /\ v.copy = 0 /\ v.by = "http"
    <2>1. /\ copies[k].parts \in Parts /\ copies[k].claims \in SUBSET Updates
          /\ Absent \in Versions \cup {Absent} /\ k \in Nat /\ "http" \in Updates \cup {"http"}
      BY ArchiveTypes
    <2> QED
      BY <2>1, LoadedType
  <1> HIDE DEF v
  <1>2. rst' \in [Restores -> RestoreRec] /\ OthersSame(r) /\ rst'[r] = v
    BY <1>1, RestoreSet DEF Typed, CopiesTyped, v, RollbackLoads
  <1> QED
    BY <1>1, <1>2

LEMMA IdleMoves ==
  ASSUME Typed, NEW r \in Restores, rst' = [rst EXCEPT ![r] = NoRestore]
  PROVE  /\ rst' \in [Restores -> RestoreRec] /\ OthersSame(r)
         /\ rst'[r] = NoRestore /\ rst'[r].pc = "idle" /\ rst'[r].copy = 0
  BY NoneYet, RestoreSet DEF Typed, CopiesTyped, NoRestore

LEMMA SnapshotMoves ==
  ASSUME Typed, NEW r \in Restores, SnapshotTaken(r)
  PROVE  /\ rst' \in [Restores -> RestoreRec] /\ OthersSame(r) /\ PayloadSame(r)
         /\ rst'[r].pc = "replace" /\ rst'[r].copy = Len(copies) + 1 /\ rst'[r].done = rst[r].done
         /\ rst'[r].left = Present(rst[r].parts)
  <1>1. rst \in [Restores -> RestoreRec] /\ Len(copies) + 1 \in Nat
    BY ArchiveTypes DEF Typed, CopiesTyped
  <1>2. Present(rst[r].parts) \in Seq(Roles)
    BY <1>1, PresentSeq DEF RestoreRec
  <1>3. rst' = [rst EXCEPT ![r].pc = "replace", ![r].copy = Len(copies) + 1,
                           ![r].left = Present(rst[r].parts)]
    BY DEF SnapshotTaken
  <1> DEFINE n == Len(copies) + 1
             p == Present(rst[r].parts)
  <1> HIDE DEF n, p
  <1>4. rst' = [rst EXCEPT ![r].pc = "replace", ![r].copy = n, ![r].left = p] /\ n \in Nat /\ p \in Seq(Roles)
    BY <1>1, <1>2, <1>3 DEF n, p
  <1> DEFINE v == [rst[r] EXCEPT !.pc = "replace", !.copy = n, !.left = p]
  <1>a. v \in RestoreRec
    <2>1. "replace" \in RestorePcs
      BY DEF RestorePcs
    <2> QED
      BY <1>1, <1>4, <2>1 DEF RestoreRec
  <1>b. rst' = [rst EXCEPT ![r] = v]
    BY <1>1, <1>4
  <1>5. rst' \in [Restores -> RestoreRec] /\ OthersSame(r) /\ PayloadSame(r)
    <2>1. v.parts = rst[r].parts /\ v.claims = rst[r].claims /\ v.lists = rst[r].lists
          /\ v.source = rst[r].source /\ v.by = rst[r].by
      BY <1>1 DEF RestoreRec
    <2> HIDE DEF v
    <2>2. rst' \in [Restores -> RestoreRec] /\ OthersSame(r) /\ rst'[r] = v
      BY <1>1, <1>a, <1>b, RestoreSet
    <2> QED
      BY <2>1, <2>2 DEF PayloadSame
  <1>6. rst'[r].pc = "replace" /\ rst'[r].copy = n /\ rst'[r].done = rst[r].done /\ rst'[r].left = p
    BY <1>1, <1>4 DEF RestoreRec
  <1> QED
    BY <1>5, <1>6 DEF n, p

\* A restore goes on with other files done and left.
Working(r, p, d, l) == [rst[r] EXCEPT !.pc = p, !.done = d, !.left = l]

LEMMA WorkingRec ==
  ASSUME rst \in [Restores -> RestoreRec], NEW r \in Restores, NEW p \in RestorePcs,
         NEW d \in Seq(Roles), NEW l \in Seq(Roles)
  PROVE  LET v == Working(r, p, d, l) IN
         /\ v \in RestoreRec
         /\ v.parts = rst[r].parts /\ v.claims = rst[r].claims /\ v.lists = rst[r].lists
         /\ v.source = rst[r].source /\ v.by = rst[r].by
         /\ v.pc = p /\ v.copy = rst[r].copy /\ v.left = l /\ v.done = d
  BY DEF RestoreRec, Working

LEMMA ReplaceMoves ==
  ASSUME Typed, NEW r \in Restores, FileReplaced(r)
  PROVE  /\ rst' \in [Restores -> RestoreRec] /\ OthersSame(r) /\ PayloadSame(r)
         /\ rst[r].left \in Seq(Roles) /\ rst[r].left # <<>> /\ rst[r].done \in Seq(Roles)
         /\ Head(rst[r].left) \in Roles
         /\ rst'[r].pc = "sidecars" /\ rst'[r].copy = rst[r].copy
         /\ rst'[r].left = Tail(rst[r].left) /\ rst'[r].done = Append(rst[r].done, Head(rst[r].left))
  <1>1. rst \in [Restores -> RestoreRec] /\ rst[r].left # <<>>
    BY DEF Typed, CopiesTyped, FileReplaced
  <1>2. rst[r].left \in Seq(Roles) /\ rst[r].done \in Seq(Roles)
    BY <1>1 DEF RestoreRec
  <1>3. Head(rst[r].left) \in Roles /\ Tail(rst[r].left) \in Seq(Roles)
    BY <1>1, <1>2, TailRange
  <1>4. Append(rst[r].done, Head(rst[r].left)) \in Seq(Roles)
    BY <1>2, <1>3, AppendProperties
  <1> DEFINE x == Head(rst[r].left)
             l == Tail(rst[r].left)
             d == Append(rst[r].done, x)
             v == Working(r, "sidecars", d, l)
  <1>5. rst' = [rst EXCEPT ![r] = v]
    BY <1>1 DEF FileReplaced, Working
  <1> HIDE DEF l, d
  <1>6. l \in Seq(Roles) /\ d \in Seq(Roles) /\ "sidecars" \in RestorePcs
    BY <1>3, <1>4 DEF l, d, RestorePcs
  <1>7. /\ rst' \in [Restores -> RestoreRec] /\ OthersSame(r) /\ PayloadSame(r)
        /\ rst'[r].pc = "sidecars" /\ rst'[r].copy = rst[r].copy
        /\ rst'[r].left = l /\ rst'[r].done = d
    <2>1. /\ v \in RestoreRec
          /\ v.parts = rst[r].parts /\ v.claims = rst[r].claims /\ v.lists = rst[r].lists
          /\ v.source = rst[r].source /\ v.by = rst[r].by
          /\ v.pc = "sidecars" /\ v.copy = rst[r].copy /\ v.left = l /\ v.done = d
      BY <1>1, <1>6, WorkingRec
    <2> HIDE DEF v
    <2>2. rst' \in [Restores -> RestoreRec] /\ OthersSame(r) /\ rst'[r] = v
      BY <1>1, <1>5, <2>1, RestoreSet
    <2> QED
      BY <2>1, <2>2 DEF PayloadSame
  <1> QED
    BY <1>1, <1>2, <1>3, <1>7 DEF l, d

LEMMA ReplaceFailMoves ==
  ASSUME Typed, NEW r \in Restores, ReplaceFails(r)
  PROVE  /\ rst' \in [Restores -> RestoreRec] /\ OthersSame(r) /\ PayloadSame(r)
         /\ rst'[r].pc = "rollback" /\ rst'[r].copy = rst[r].copy
         /\ rst'[r].left = rst[r].done /\ rst'[r].done = rst[r].done
  <1>1. rst \in [Restores -> RestoreRec]
    BY DEF Typed, CopiesTyped
  <1> DEFINE d == rst[r].done
             v == Working(r, "rollback", d, d)
  <1>2. d \in Seq(Roles) /\ "rollback" \in RestorePcs
    BY <1>1 DEF RestoreRec, RestorePcs
  <1>3. rst' = [rst EXCEPT ![r] = v]
    BY <1>1 DEF ReplaceFails, RestoreRec, Working
  <1> HIDE DEF d
  <1>4. /\ rst' \in [Restores -> RestoreRec] /\ OthersSame(r) /\ PayloadSame(r)
        /\ rst'[r].pc = "rollback" /\ rst'[r].copy = rst[r].copy
        /\ rst'[r].left = d /\ rst'[r].done = d
    <2>1. /\ v \in RestoreRec
          /\ v.parts = rst[r].parts /\ v.claims = rst[r].claims /\ v.lists = rst[r].lists
          /\ v.source = rst[r].source /\ v.by = rst[r].by
          /\ v.pc = "rollback" /\ v.copy = rst[r].copy /\ v.left = d /\ v.done = d
      BY <1>1, <1>2, WorkingRec
    <2> HIDE DEF v
    <2>2. rst' \in [Restores -> RestoreRec] /\ OthersSame(r) /\ rst'[r] = v
      BY <1>1, <1>3, <2>1, RestoreSet
    <2> QED
      BY <2>1, <2>2 DEF PayloadSame
  <1> QED
    BY <1>4 DEF d

LEMMA BackMoves ==
  ASSUME Typed, NEW r \in Restores, SidecarsUnwound(r) \/ RollbackFails(r)
  PROVE  /\ rst' \in [Restores -> RestoreRec] /\ OthersSame(r) /\ PayloadSame(r)
         /\ rst[r].left \in Seq(Roles) /\ rst[r].left # <<>> /\ Head(rst[r].left) \in Roles
         /\ rst[r].pc \in {"rollback", "unwind"} /\ rst'[r].pc = "rollback"
         /\ rst'[r].copy = rst[r].copy
         /\ rst'[r].left = Tail(rst[r].left) /\ rst'[r].done = rst[r].done
  <1>1. rst \in [Restores -> RestoreRec] /\ rst[r].left # <<>> /\ rst[r].pc \in {"rollback", "unwind"}
    BY DEF Typed, CopiesTyped, SidecarsUnwound, RollbackFails
  <1>2. rst[r].left \in Seq(Roles) /\ rst[r].done \in Seq(Roles)
    BY <1>1 DEF RestoreRec
  <1>3. Head(rst[r].left) \in Roles /\ Tail(rst[r].left) \in Seq(Roles)
    BY <1>1, <1>2, TailRange
  <1> DEFINE p == "rollback"
             l == Tail(rst[r].left)
             d == rst[r].done
             v == Working(r, p, d, l)
  <1>4. rst' = [rst EXCEPT ![r] = v] /\ p \in RestorePcs
    <2>1. CASE SidecarsUnwound(r)
      BY <1>1, <2>1 DEF RestoreRec, RestorePcs, Working, SidecarsUnwound
    <2>2. CASE RollbackFails(r)
      BY <1>1, <2>2 DEF RestoreRec, RestorePcs, Working, RollbackFails
    <2> QED
      BY <2>1, <2>2
  <1> HIDE DEF p, l, d
  <1>5. l \in Seq(Roles) /\ d \in Seq(Roles)
    BY <1>2, <1>3 DEF l, d
  <1>6. /\ rst' \in [Restores -> RestoreRec] /\ OthersSame(r) /\ PayloadSame(r)
        /\ rst'[r].pc = p /\ rst'[r].copy = rst[r].copy /\ rst'[r].left = l /\ rst'[r].done = d
    <2>1. /\ v \in RestoreRec
          /\ v.parts = rst[r].parts /\ v.claims = rst[r].claims /\ v.lists = rst[r].lists
          /\ v.source = rst[r].source /\ v.by = rst[r].by
          /\ v.pc = p /\ v.copy = rst[r].copy /\ v.left = l /\ v.done = d
      BY <1>1, <1>4, <1>5, WorkingRec
    <2> HIDE DEF v
    <2>2. rst' \in [Restores -> RestoreRec] /\ OthersSame(r) /\ rst'[r] = v
      BY <1>1, <1>4, <2>1, RestoreSet
    <2> QED
      BY <2>1, <2>2 DEF PayloadSame
  <1> QED
    BY <1>1, <1>2, <1>3, <1>6 DEF p, l, d

\* A file went back; its sidecars are next.
LEMMA UnwindMoves ==
  ASSUME Typed, NEW r \in Restores, FileRolledBack(r)
  PROVE  /\ rst' \in [Restores -> RestoreRec] /\ OthersSame(r) /\ PayloadSame(r) /\ WorkSame(r)
         /\ rst[r].left \in Seq(Roles) /\ rst[r].left # <<>> /\ Head(rst[r].left) \in Roles
         /\ rst[r].pc = "rollback" /\ rst'[r].pc = "unwind"
  <1>1. /\ rst \in [Restores -> RestoreRec] /\ rst[r].left # <<>> /\ rst[r].pc = "rollback"
        /\ rst' = [rst EXCEPT ![r].pc = "unwind"] /\ "unwind" \in RestorePcs
    BY DEF Typed, CopiesTyped, FileRolledBack, RestorePcs
  <1>2. rst[r].left \in Seq(Roles)
    BY <1>1 DEF RestoreRec
  <1>3. Head(rst[r].left) \in Roles
    BY <1>1, <1>2, TailRange
  <1>4. /\ rst' \in [Restores -> RestoreRec] /\ OthersSame(r) /\ PayloadSame(r) /\ WorkSame(r)
        /\ rst'[r].pc = "unwind"
    BY <1>1, PcMoves
  <1> QED
    BY <1>1, <1>2, <1>3, <1>4

LEMMA GoneType ==
  /\ \A e \in Copy : \A why \in {"pruned", "deleted"} :
       Gone(e, why) \in Copy /\ Gone(e, why).st = why /\ Gone(e, why).parts = NoParts
       /\ Gone(e, why).claims = {}
  /\ \A e \in Archive : \A why \in {"pruned", "deleted"} :
       Gone(e, why) \in Archive /\ Gone(e, why).st = why /\ Gone(e, why).parts = NoParts
       /\ Gone(e, why).gated = e.gated /\ Gone(e, why).whole = e.whole
  <1>1. NoParts \in [Roles -> Versions \cup {Absent}]
    BY NoneYet DEF Parts
  <1>2. ASSUME NEW e \in Copy, NEW why \in {"pruned", "deleted"}
        PROVE  Gone(e, why) \in Copy /\ Gone(e, why).st = why /\ Gone(e, why).parts = NoParts
               /\ Gone(e, why).claims = {}
    BY <1>1 DEF Gone, Copy
  <1>3. ASSUME NEW e \in Archive, NEW why \in {"pruned", "deleted"}
        PROVE  Gone(e, why) \in Archive /\ Gone(e, why).st = why /\ Gone(e, why).parts = NoParts
               /\ Gone(e, why).gated = e.gated /\ Gone(e, why).whole = e.whole
    BY <1>1 DEF Gone, Archive
  <1> QED
    BY <1>2, <1>3

\* The copy a restore makes is the newest one: retention, which keeps at least
\* one, does not remove it.
LEMMA CopyMade ==
  ASSUME Typed, NEW r \in Restores, SnapshotTaken(r)
  PROVE  /\ copies' \in Seq(Copy) /\ Len(copies') = Len(copies) + 1
         /\ copies'[Len(copies) + 1] = CopyOf(rst[r].parts) /\ CopyOf(rst[r].parts) \in Copy
         /\ \A k \in DOMAIN copies : copies'[k] \in {copies[k], Gone(copies[k], "pruned")}
         /\ \A k \in DOMAIN copies : k = rst[r].source => copies'[k] = copies[k]
  <1> DEFINE new == CopyOf(rst[r].parts)
             n == Len(copies)
             cs == Append(copies, new)
             kept == RetainCopies(cs, rst[r].source)
             newer(k) == {j \in DOMAIN cs : j > k /\ cs[j].st = "kept"}
  <1>1. copies' = kept
    BY DEF SnapshotTaken
  <1>2. new \in Copy
    BY DEF CopyOf, Copy, Typed, FilesTyped, Parts
  <1>3. n \in Nat /\ copies \in Seq(Copy) /\ DOMAIN copies = 1..n
    BY ArchiveTypes DEF Typed, CopiesTyped
  <1> HIDE DEF new
  <1>4. /\ cs \in Seq(Copy) /\ Len(cs) = n + 1 /\ cs[n + 1] = new
        /\ \A k \in 1..n : cs[k] = copies[k]
    BY <1>2, <1>3, AppendProperties
  <1> HIDE DEF cs, n
  <1>5. DOMAIN cs = 1..(n + 1) /\ \A k \in DOMAIN cs : cs[k] \in Copy
    BY <1>4, LenProperties, ElementOfSeq
  <1>6. DOMAIN kept = DOMAIN cs /\ kept = [k \in DOMAIN cs |-> kept[k]]
    BY DEF RetainCopies
  <1>7. ASSUME NEW k \in DOMAIN cs PROVE kept[k] \in {cs[k], Gone(cs[k], "pruned")}
    BY <1>7 DEF RetainCopies
  <1>8. kept[n + 1] = cs[n + 1]
    <2>1. newer(n + 1) = {}
      BY <1>3, <1>5
    <2>2. ~(Cardinality(newer(n + 1)) >= KeepCopies)
      BY <2>1, FS_EmptySet, CountAssumption
    <2> QED
      BY <1>3, <1>5, <2>2 DEF RetainCopies
  <1>s. \A k \in DOMAIN cs : k = rst[r].source => kept[k] = cs[k]
    BY DEF RetainCopies
  <1> HIDE DEF kept, newer
  <1>9. \A k \in DOMAIN cs : kept[k] \in Copy
    BY <1>5, <1>7, GoneType
  <1>10. kept \in Seq(Copy) /\ Len(kept) = n + 1
    BY <1>4, <1>6, <1>9, EntriesMapped
  <1>11. \A k \in 1..n : kept[k] \in {copies[k], Gone(copies[k], "pruned")}
    BY <1>3, <1>4, <1>5, <1>7
  <1>12. \A k \in 1..n : k = rst[r].source => kept[k] = copies[k]
    BY <1>3, <1>4, <1>5, <1>s
  <1> QED
    BY <1>1, <1>2, <1>3, <1>4, <1>8, <1>10, <1>11, <1>12 DEF new, n

\* A copy that failed may leave its directory behind; the other copies stay as they are.
LEMMA CopyFailed ==
  ASSUME Typed, NEW r \in Restores, SnapshotFails(r)
  PROVE  /\ copies' \in Seq(Copy) /\ Len(copies') \in Nat /\ Len(copies') >= Len(copies)
         /\ \A k \in DOMAIN copies : k \in DOMAIN copies' /\ copies'[k] = copies[k]
         /\ \A k \in DOMAIN copies' \ DOMAIN copies : \E q : copies'[k] = CopyOf(q)
  <1>0. Len(copies) \in Nat /\ copies \in Seq(Copy) /\ DOMAIN copies = 1..Len(copies)
    BY ArchiveTypes DEF Typed, CopiesTyped
  <1>1. CASE UNCHANGED copies
    BY <1>0, <1>1
  <1>2. ASSUME NEW n \in 0..Len(RoleOrder), copies' = Append(copies, CopyOf(FirstOf(rst[r].parts, n)))
        PROVE  /\ copies' \in Seq(Copy) /\ Len(copies') \in Nat /\ Len(copies') >= Len(copies)
               /\ \A k \in DOMAIN copies : k \in DOMAIN copies' /\ copies'[k] = copies[k]
               /\ \A k \in DOMAIN copies' \ DOMAIN copies : \E q : copies'[k] = CopyOf(q)
    <2> DEFINE q == FirstOf(rst[r].parts, n)
               new == CopyOf(q)
    <2> HIDE DEF q
    <2>1. new \in Copy /\ \E p : new = CopyOf(p)
      BY DEF CopyOf, Copy, Typed, FilesTyped, Parts
    <2> HIDE DEF new
    <2>2. copies' = Append(copies, new)
      BY <1>2 DEF new, q
    <2> DEFINE cs == Append(copies, new)
    <2>3. /\ cs \in Seq(Copy) /\ Len(cs) = Len(copies) + 1 /\ cs[Len(copies) + 1] = new
          /\ \A k \in 1..Len(copies) : cs[k] = copies[k]
      BY <1>0, <2>1, AppendProperties
    <2>a. copies' = cs
      BY <2>2
    <2> HIDE DEF cs
    <2>4. DOMAIN cs = 1..(Len(copies) + 1)
      BY <2>3, LenProperties
    <2> QED
      BY <1>0, <2>a, <2>1, <2>3, <2>4
  <1> QED
    BY <1>1, <1>2 DEF SnapshotFails

LEMMA CopyDeleted ==
  ASSUME Typed, NEW k \in DOMAIN copies, DeleteCopy(k)
  PROVE  /\ copies' \in Seq(Copy) /\ Len(copies') = Len(copies) /\ DOMAIN copies' = DOMAIN copies
         /\ \A j \in DOMAIN copies : copies'[j] = IF j = k THEN Gone(copies[j], "deleted") ELSE copies[j]
  <1>1. copies \in Seq(Copy) /\ copies[k] \in Copy
    BY ArchiveTypes DEF Typed, CopiesTyped
  <1> DEFINE e == Gone(copies[k], "deleted")
  <1>2. e \in Copy
    BY <1>1, GoneType
  <1>3. copies' = [copies EXCEPT ![k] = e]
    BY DEF DeleteCopy
  <1> HIDE DEF e
  <1>4. /\ copies' \in Seq(Copy) /\ Len(copies') = Len(copies) /\ DOMAIN copies' = DOMAIN copies
        /\ \A j \in DOMAIN copies : copies'[j] = IF j = k THEN e ELSE copies[j]
    BY <1>1, <1>2, <1>3, EntrySet
  <1> QED
    BY <1>4 DEF e

LEMMA NoReplaceAtStart == "idle" \notin Replacing /\ "pause" \notin Replacing
  BY DEF Replacing

LEMMA RestoreCopies ==
  ASSUME Typed, NEW r \in Restores, Restore(r)
  PROVE  CopiesTyped'
  <1>0. /\ copies \in Seq(Copy) /\ rst \in [Restores -> RestoreRec] /\ Len(copies) \in Nat
        /\ \A q \in Restores : rst[q].copy \in Nat /\ rst[q].copy <= Len(copies)
                               /\ (rst[q].pc \in Replacing => rst[q].copy >= 1)
    BY ArchiveTypes DEF Typed, CopiesTyped, RestoreRec
  <1>a. ASSUME UNCHANGED copies, rst' \in [Restores -> RestoreRec], OthersSame(r),
               rst'[r].copy \in Nat, rst'[r].copy <= Len(copies), rst'[r].pc \in Replacing => rst'[r].copy >= 1
        PROVE  CopiesTyped'
    BY <1>0, <1>a DEF CopiesTyped, OthersSame
  <1>1. ASSUME NEW i \in DOMAIN archives, NEW u \in Updates \cup {"http"},
               (RestoreLoads(r, i) /\ u = "http") \/ BotRestores(r, i, u)
        PROVE  CopiesTyped'
    <2>1. UNCHANGED copies
      BY <1>1 DEF RestoreLoads, BotRestores
    <2>2. rst' \in [Restores -> RestoreRec] /\ OthersSame(r) /\ rst'[r].copy = 0 /\ rst'[r].pc = "pause"
      BY <1>1, LoadMoves
    <2> QED
      BY <1>0, <1>a, <2>1, <2>2, NoReplaceAtStart
  <1>3. ASSUME NEW k \in DOMAIN copies, RollbackLoads(r, k) PROVE CopiesTyped'
    <2>1. UNCHANGED copies
      BY <1>3 DEF RollbackLoads
    <2>2. rst' \in [Restores -> RestoreRec] /\ OthersSame(r) /\ rst'[r].copy = 0 /\ rst'[r].pc = "pause"
      BY <1>3, RollbackMoves
    <2> QED
      BY <1>0, <1>a, <2>1, <2>2, NoReplaceAtStart
  <1>4. ASSUME rst' = [rst EXCEPT ![r] = NoRestore], UNCHANGED copies PROVE CopiesTyped'
    <2>1. rst' \in [Restores -> RestoreRec] /\ OthersSame(r) /\ rst'[r].copy = 0 /\ rst'[r].pc = "idle"
      BY <1>4, IdleMoves
    <2> QED
      BY <1>0, <1>4, <1>a, <2>1, NoReplaceAtStart
  <1>5. ASSUME NEW p \in RestorePcs, rst' = [rst EXCEPT ![r].pc = p], UNCHANGED copies,
               p \in Replacing => rst[r].pc \in Replacing
        PROVE  CopiesTyped'
    BY <1>0, <1>5, <1>a, PcMoves DEF WorkSame
  <1>6. CASE SnapshotTaken(r)
    <2>1. copies' \in Seq(Copy) /\ Len(copies') = Len(copies) + 1
      BY <1>6, CopyMade
    <2>2. rst' \in [Restores -> RestoreRec] /\ OthersSame(r) /\ rst'[r].copy = Len(copies) + 1
      BY <1>6, SnapshotMoves
    <2> QED
      BY <1>0, <2>1, <2>2 DEF CopiesTyped, OthersSame
  <1>7. CASE FileReplaced(r) \/ ReplaceFails(r)
    <2>1. UNCHANGED copies /\ rst[r].pc \in Replacing
      BY <1>7 DEF FileReplaced, ReplaceFails, Replacing
    <2>2. rst' \in [Restores -> RestoreRec] /\ OthersSame(r) /\ rst'[r].copy = rst[r].copy
      BY <1>7, ReplaceMoves, ReplaceFailMoves
    <2> QED
      BY <1>0, <1>a, <2>1, <2>2
  <1>8. CASE FileRolledBack(r) \/ SidecarsUnwound(r) \/ RollbackFails(r)
    <2>1. UNCHANGED copies /\ rst[r].pc \in Replacing
      BY <1>8 DEF FileRolledBack, SidecarsUnwound, RollbackFails, Replacing
    <2>2. rst' \in [Restores -> RestoreRec] /\ OthersSame(r) /\ rst'[r].copy = rst[r].copy
      BY <1>8, BackMoves, UnwindMoves DEF WorkSame
    <2> QED
      BY <1>0, <1>a, <2>1, <2>2
  <1>9. CASE Restarts(r)
    BY <1>9, <1>0, NoneYet, NoReplaceAtStart DEF Restarts, PanelEnds, CopiesTyped, NoRestore
  <1>10. CASE Refused(r) \/ RolledBack(r) \/ RestartFails(r)
    BY <1>10, <1>4 DEF Refused, RolledBack, RestartFails
  <1>11. CASE Paused(r)
    BY <1>11, <1>5 DEF Paused, RestorePcs, Replacing
  <1>12. CASE OverlaysApplied(r)
    BY <1>12, <1>5 DEF OverlaysApplied, RestorePcs, Replacing
  <1>13. CASE SidecarsRemoved(r)
    BY <1>13, <1>5 DEF SidecarsRemoved, RestorePcs, Replacing
  <1>14. CASE CarriedOver(r)
    BY <1>14, <1>5 DEF CarriedOver, RestorePcs, Replacing
  <1>15. CASE PortalSynced(r)
    <2>1. UNCHANGED copies /\ (rst' = [rst EXCEPT ![r].pc = "restart"] \/ rst' = [rst EXCEPT ![r] = NoRestore])
      BY <1>15 DEF PortalSynced
    <2> QED
      BY <1>4, <1>5, <2>1 DEF RestorePcs, Replacing
  <1>16. CASE SnapshotFails(r)
    <2>1. copies' \in Seq(Copy) /\ Len(copies') \in Nat /\ Len(copies') >= Len(copies)
      BY <1>16, CopyFailed
    <2>2. rst' \in [Restores -> RestoreRec] /\ OthersSame(r) /\ rst'[r].copy = 0 /\ rst'[r].pc = "idle"
      BY <1>16, IdleMoves DEF SnapshotFails
    <2> QED
      BY <1>0, <2>1, <2>2, NoReplaceAtStart DEF CopiesTyped, OthersSame
  <1>17. CASE NothingToReplace(r)
    BY <1>17, <1>5 DEF NothingToReplace, RestorePcs, Replacing
  <1> QED
    BY <1>1, <1>3, <1>6, <1>7, <1>8, <1>9, <1>10, <1>11, <1>12, <1>13, <1>14, <1>15, <1>16, <1>17
       DEF Restore

LEMMA RestoreFiles ==
  ASSUME Typed, NEW r \in Restores, Restore(r)
  PROVE  FilesTyped' /\ CountersTyped' /\ ArchivesTyped'
  <1>0. FilesTyped /\ CountersTyped /\ ArchivesTyped
    BY DEF Typed
  <1>a. rst[r] \in RestoreRec
    BY DEF Typed, CopiesTyped
  <1>b. /\ rst[r].parts \in Parts /\ rst[r].claims \in SUBSET Updates
        /\ rst[r].lists \in Versions \cup {Absent}
    BY <1>a DEF RestoreRec
  <1>c. rst[r].pc \in Replacing =>
           /\ rst[r].copy \in DOMAIN copies
           /\ copies[rst[r].copy].parts \in Parts /\ copies[rst[r].copy].claims \in SUBSET Updates
    <2>1. /\ rst[r].copy \in Nat /\ rst[r].copy <= Len(copies)
          /\ rst[r].pc \in Replacing => rst[r].copy >= 1
      BY <1>a DEF Typed, CopiesTyped, RestoreRec
    <2>2. DOMAIN copies = 1..Len(copies) /\ Len(copies) \in Nat
      BY ArchiveTypes
    <2>3. rst[r].pc \in Replacing => rst[r].copy \in DOMAIN copies
      BY <2>1, <2>2
    <2> QED
      BY <2>3, ArchiveTypes
  <1>d. ASSUME UNCHANGED <<archives, job>> PROVE ArchivesTyped'
    BY <1>0, <1>d DEF ArchivesTyped
  <1>e. ASSUME UNCHANGED fileVars, UNCHANGED good PROVE FilesTyped'
    BY <1>0, <1>e DEF FilesTyped, fileVars
  <1>f. ASSUME UNCHANGED <<broken, ran, calls>>, Fault \/ UNCHANGED faults PROVE CountersTyped'
    BY <1>0, <1>f, BoundsAssumption DEF CountersTyped, Fault
  <1>g. ASSUME UNCHANGED <<broken, ran, faults>>, Call PROVE CountersTyped'
    BY <1>0, <1>g, BoundsAssumption DEF CountersTyped, Call
  <1>1. ASSUME NEW i \in DOMAIN archives, RestoreLoads(r, i)
        PROVE  FilesTyped' /\ CountersTyped' /\ ArchivesTyped'
    BY <1>1, <1>d, <1>e, <1>g DEF RestoreLoads, histVars
  <1>2. ASSUME NEW i \in DOMAIN archives, NEW u \in Updates, BotRestores(r, i, u)
        PROVE  FilesTyped' /\ CountersTyped' /\ ArchivesTyped'
    BY <1>0, <1>2, <1>d, <1>g DEF BotRestores, histVars, FilesTyped
  <1>3. ASSUME NEW k \in DOMAIN copies, RollbackLoads(r, k)
        PROVE  FilesTyped' /\ CountersTyped' /\ ArchivesTyped'
    BY <1>3, <1>d, <1>e, <1>g DEF RollbackLoads, histVars
  <1>4. CASE Paused(r) \/ Refused(r) \/ SnapshotTaken(r) \/ RolledBack(r)
    BY <1>4, <1>d, <1>e, <1>f DEF Paused, Refused, SnapshotTaken, RolledBack, histVars
  <1>5. CASE SnapshotFails(r) \/ ReplaceFails(r) \/ RestartFails(r) \/ PortalSynced(r)
    BY <1>5, <1>d, <1>e, <1>f DEF SnapshotFails, ReplaceFails, RestartFails, PortalSynced
  <1>6. CASE OverlaysApplied(r)
    <2>1. FilesTyped'
      BY <1>0, <1>6, <1>b DEF OverlaysApplied, FilesTyped
    <2> QED
      BY <1>6, <2>1, <1>d, <1>f DEF OverlaysApplied
  <1>7. CASE FileReplaced(r)
    <2>1. Head(rst[r].left) \in Roles
      BY <1>7, ReplaceMoves
    <2>2. live' = [live EXCEPT ![Head(rst[r].left)] = rst[r].parts[Head(rst[r].left)]]
          /\ claimed' \in {claimed, rst[r].claims} /\ UNCHANGED <<overlay, good>>
          /\ wal' \in [SqliteRoles -> {"none", "own", "foreign", "stuck"}]
      BY <1>0, <1>7 DEF FileReplaced, Put, FilesTyped, histVars
    <2>3. live' \in Parts
      BY <1>0, <1>b, <2>1, <2>2 DEF FilesTyped, Parts
    <2>4. FilesTyped'
      BY <1>0, <1>b, <2>2, <2>3 DEF FilesTyped
    <2> QED
      BY <1>7, <2>4, <1>d, <1>f DEF FileReplaced, histVars
  <1>8. CASE SidecarsRemoved(r)
    <2>1. FilesTyped' /\ (Fault \/ UNCHANGED faults)
      BY <1>0, <1>8 DEF SidecarsRemoved, RemoveSidecars, FilesTyped
    <2> QED
      BY <1>8, <2>1, <1>d, <1>f DEF SidecarsRemoved
  <1>13. CASE SidecarsUnwound(r)
    <2>1. FilesTyped' /\ (Fault \/ UNCHANGED faults)
      BY <1>0, <1>13 DEF SidecarsUnwound, RemoveSidecars, FilesTyped
    <2> QED
      BY <1>13, <2>1, <1>d, <1>f DEF SidecarsUnwound
  <1>14. CASE NothingToReplace(r)
    <2>1. ran' \in [Updates -> Nat]
      BY <1>0, <1>14 DEF NothingToReplace, CountersTyped
    <2>2. CountersTyped'
      BY <1>0, <1>14, <2>1 DEF NothingToReplace, CountersTyped
    <2> QED
      BY <1>14, <2>2, <1>d, <1>e DEF NothingToReplace
  <1>9. CASE FileRolledBack(r)
    <2>1. Head(rst[r].left) \in Roles /\ rst[r].pc \in Replacing
      BY <1>9, UnwindMoves DEF Replacing
    <2>2. live' = [live EXCEPT ![Head(rst[r].left)] = copies[rst[r].copy].parts[Head(rst[r].left)]]
          /\ claimed' \in {claimed, copies[rst[r].copy].claims} /\ UNCHANGED <<overlay, good>>
          /\ wal' \in [SqliteRoles -> {"none", "own", "foreign", "stuck"}]
      BY <1>0, <1>9 DEF FileRolledBack, Put, Saved, FilesTyped, histVars
    <2>3. live' \in Parts
      BY <1>0, <1>c, <2>1, <2>2 DEF FilesTyped, Parts
    <2>4. FilesTyped'
      BY <1>0, <1>c, <2>1, <2>2, <2>3 DEF FilesTyped
    <2> QED
      BY <1>9, <2>4, <1>d, <1>f DEF FileRolledBack, histVars
  <1>10. CASE RollbackFails(r)
    <2>1. CountersTyped'
      BY <1>0, <1>10, BoundsAssumption DEF RollbackFails, CountersTyped, Fault
    <2> QED
      BY <1>10, <2>1, <1>d, <1>e DEF RollbackFails
  <1>11. CASE CarriedOver(r)
    <2>1. rst[r].pc \in Replacing
      BY <1>11 DEF CarriedOver, Replacing
    <2>2. good' \in Parts
      BY <1>0, <1>11, <1>b DEF CarriedOver, Restored, FilesTyped, Parts
    <2>3. claimed' \in SUBSET Updates /\ UNCHANGED <<live, wal, overlay>>
      BY <1>0, <1>11, <1>c, <2>1 DEF CarriedOver, FilesTyped
    <2>4. FilesTyped'
      BY <1>0, <2>2, <2>3 DEF FilesTyped
    <2>5. ran' \in [Updates -> Nat]
      BY <1>0, <1>11 DEF CarriedOver, CountersTyped
    <2>6. CountersTyped'
      BY <1>0, <1>11, <2>5, BoundsAssumption DEF CarriedOver, CountersTyped, Fault
    <2> QED
      BY <1>11, <2>4, <2>6, <1>d DEF CarriedOver
  <1>12. CASE Restarts(r)
    <2>1. FilesTyped' /\ CountersTyped'
      BY <1>12, <1>e, <1>f DEF Restarts, histVars
    <2>2. archives' = archives /\ job' = [c \in Creators |-> NoJob]
      BY <1>12 DEF Restarts, PanelEnds
    <2>3. Len(archives) \in Nat /\ NoJob \in Job /\ NoJob.at = 0 /\ NoJob.pc = "idle"
      BY ArchiveTypes, NoneYet DEF NoJob
    <2>4. ArchivesTyped'
      BY <1>0, <2>2, <2>3 DEF ArchivesTyped
    <2> QED
      BY <2>1, <2>4
  <1> QED
    BY <1>1, <1>2, <1>3, <1>4, <1>5, <1>6, <1>7, <1>8, <1>9, <1>10, <1>11, <1>12, <1>13, <1>14 DEF Restore

\* One backup at a time per creator; a step of one leaves the others alone.
JobsSame(c) == \A d \in Creators : d # c => job'[d] = job[d]

LEMMA JobTypes ==
  ASSUME Typed, NEW c \in Creators
  PROVE  /\ job[c] \in Job
         /\ job[c].parts \in Parts /\ job[c].claims \in SUBSET Updates /\ job[c].left \in Seq(Roles)
         /\ job[c].lists \in Versions \cup {Absent} /\ job[c].world \in Parts
         /\ job[c].at \in 0..Len(archives)
         /\ job[c].pc = "metadata" => job[c].at \in DOMAIN archives
  <1>1. job[c] \in Job /\ job[c].at <= Len(archives) /\ (job[c].pc = "metadata" => job[c].at >= 1)
    BY DEF Typed, ArchivesTyped
  <1>2. job[c].at \in Nat
    BY <1>1 DEF Job
  <1>3. DOMAIN archives = 1..Len(archives) /\ Len(archives) \in Nat
    BY ArchiveTypes
  <1>4. job[c].at \in 0..Len(archives) /\ (job[c].pc = "metadata" => job[c].at \in DOMAIN archives)
    BY <1>1, <1>2, <1>3
  <1> QED
    BY <1>1, <1>4 DEF Job

LEMMA StartMoves ==
  ASSUME Typed, NEW c \in Creators, BackupStarts(c)
  PROVE  /\ job' \in [Creators -> Job] /\ JobsSame(c)
         /\ job'[c].pc = "writing" /\ job'[c].lists = overlay /\ job'[c].left = RoleOrder
         /\ job'[c].world = good /\ job'[c].parts = NoParts /\ job'[c].at = 0 /\ job'[c].doomed = {}
         /\ UNCHANGED archives
  <1> DEFINE v == [NoJob EXCEPT !.pc = "writing", !.lists = overlay, !.left = RoleOrder, !.world = good]
  <1>1. NoJob \in Job /\ RoleOrder \in Seq(Roles) /\ overlay \in Versions /\ good \in Parts
    BY NoneYet, RolesAre DEF Typed, FilesTyped
  <1>2. NoJob.parts = NoParts /\ NoJob.at = 0 /\ NoJob.doomed = {}
    BY DEF NoJob
  <1>3. /\ v \in Job
        /\ v.pc = "writing" /\ v.lists = overlay /\ v.left = RoleOrder
        /\ v.world = good /\ v.parts = NoParts /\ v.at = 0 /\ v.doomed = {}
    BY <1>1, <1>2 DEF Job, JobPcs
  <1>4. job' = [job EXCEPT ![c] = v] /\ job \in [Creators -> Job] /\ UNCHANGED archives
    BY DEF BackupStarts, Typed, ArchivesTyped
  <1> HIDE DEF v
  <1>5. job' \in [Creators -> Job] /\ JobsSame(c) /\ job'[c] = v
    BY <1>3, <1>4 DEF JobsSame
  <1> QED
    BY <1>3, <1>4, <1>5

LEMMA ReadMoves ==
  ASSUME Typed, NEW c \in Creators, BackupReads(c)
  PROVE  /\ job' \in [Creators -> Job] /\ JobsSame(c)
         /\ job[c].pc = "writing" /\ job[c].left # <<>> /\ Head(job[c].left) \in Roles
         /\ job'[c].pc = "writing" /\ job'[c].lists = job[c].lists /\ job'[c].left = Tail(job[c].left)
         /\ job'[c].world = job[c].world /\ job'[c].at = job[c].at /\ job'[c].doomed = job[c].doomed
         /\ job'[c].parts = [job[c].parts EXCEPT ![Head(job[c].left)] = live[Head(job[c].left)]]
         /\ UNCHANGED archives
  <1> DEFINE x == Head(job[c].left)
             v == [job[c] EXCEPT !.parts[x] = live[x], !.claims = IF x = "db" THEN claimed ELSE @,
                                 !.left = Tail(@)]
  <1>1. job \in [Creators -> Job] /\ job[c].pc = "writing" /\ job[c].left # <<>> /\ UNCHANGED archives
    BY DEF BackupReads, Typed, ArchivesTyped
  <1>2. x \in Roles /\ Tail(job[c].left) \in Seq(Roles)
    BY <1>1, JobTypes, TailRange
  <1>3. job' = [job EXCEPT ![c] = v]
    BY <1>1 DEF BackupReads, Job
  <1>4. live[x] \in Versions \cup {Absent} /\ claimed \in SUBSET Updates
    BY <1>2 DEF Typed, FilesTyped, Parts
  <1> HIDE DEF x
  <1>5. [job[c].parts EXCEPT ![x] = live[x]] \in Parts
    BY <1>2, <1>4, JobTypes DEF Parts
  <1>6. v \in Job
    BY <1>2, <1>4, <1>5, JobTypes DEF Job
  <1>7. /\ v.pc = job[c].pc /\ v.lists = job[c].lists /\ v.left = Tail(job[c].left)
        /\ v.world = job[c].world /\ v.at = job[c].at /\ v.doomed = job[c].doomed
        /\ v.parts = [job[c].parts EXCEPT ![x] = live[x]]
    BY JobTypes DEF Job
  <1> HIDE DEF v
  <1>8. job' \in [Creators -> Job] /\ JobsSame(c) /\ job'[c] = v
    BY <1>1, <1>3, <1>6 DEF JobsSame
  <1> QED
    BY <1>1, <1>2, <1>7, <1>8 DEF x

\* The archive a finished backup leaves.
Finished(c) == [st |-> "bare", parts |-> job[c].parts, claims |-> job[c].claims,
                lists |-> job[c].lists, gated |-> c \in Steps,
                whole |-> job[c].parts \in {job[c].world, good}]

\* One more archive, the others as they are.
Grows(new) ==
    /\ archives' \in Seq(Archive) /\ Len(archives') = Len(archives) + 1
    /\ DOMAIN archives' = DOMAIN archives \cup {Len(archives) + 1}
    /\ Len(archives) + 1 \notin DOMAIN archives
    /\ archives'[Len(archives) + 1] = new
    /\ \A i \in DOMAIN archives : archives'[i] = archives[i]

\* The same archives, one of which may be changed.
Changes(i, new) ==
    /\ archives' \in Seq(Archive) /\ Len(archives') = Len(archives) /\ DOMAIN archives' = DOMAIN archives
    /\ \A j \in DOMAIN archives : archives'[j] = IF j = i THEN new ELSE archives[j]

LEMMA ArchiveAdded ==
  ASSUME Typed, NEW new \in Archive, archives' = Append(archives, new)
  PROVE  Grows(new)
  <1>1. archives \in Seq(Archive) /\ DOMAIN archives = 1..Len(archives) /\ Len(archives) \in Nat
    BY ArchiveTypes DEF Typed, ArchivesTyped
  <1> DEFINE t == Append(archives, new)
  <1>2. /\ t \in Seq(Archive) /\ Len(t) = Len(archives) + 1
        /\ t[Len(archives) + 1] = new /\ \A i \in 1..Len(archives) : t[i] = archives[i]
    BY <1>1, AppendProperties
  <1>3. archives' = t
    OBVIOUS
  <1> HIDE DEF t
  <1>4. DOMAIN t = 1..(Len(archives) + 1)
    BY <1>2, LenProperties
  <1> QED
    BY <1>1, <1>2, <1>3, <1>4 DEF Grows

LEMMA ArchiveChanged ==
  ASSUME Typed, NEW i \in DOMAIN archives, NEW new \in Archive, archives' = [archives EXCEPT ![i] = new]
  PROVE  Changes(i, new)
  BY EntrySet DEF Changes, Typed, ArchivesTyped

LEMMA AppearMoves ==
  ASSUME Typed, NEW c \in Creators, BackupAppears(c)
  PROVE  /\ job' \in [Creators -> Job] /\ JobsSame(c)
         /\ job[c].pc = "writing" /\ job[c].left = <<>>
         /\ Finished(c) \in Archive /\ Grows(Finished(c))
         /\ job'[c].pc = "metadata" /\ job'[c].at = Len(archives) + 1
         /\ job'[c].parts = job[c].parts /\ job'[c].left = job[c].left /\ job'[c].world = job[c].world
         /\ job'[c].doomed = job[c].doomed /\ job'[c].lists = job[c].lists
  <1> DEFINE n == Len(archives) + 1
             v == [job[c] EXCEPT !.pc = "metadata", !.at = n]
  <1>1. job \in [Creators -> Job] /\ job[c].pc = "writing" /\ job[c].left = <<>>
    BY DEF BackupAppears, Typed, ArchivesTyped
  <1>2. n \in Nat
    BY ArchiveTypes
  <1>3. job' = [job EXCEPT ![c] = v]
    BY <1>1 DEF BackupAppears, Job
  <1> HIDE DEF n
  <1>4. /\ v \in Job
        /\ v.pc = "metadata" /\ v.at = n /\ v.parts = job[c].parts /\ v.left = job[c].left
        /\ v.world = job[c].world /\ v.doomed = job[c].doomed /\ v.lists = job[c].lists
    BY <1>1, <1>2, JobTypes DEF Job, JobPcs
  <1> HIDE DEF v
  <1>5. job' \in [Creators -> Job] /\ JobsSame(c) /\ job'[c] = v
    BY <1>1, <1>3, <1>4 DEF JobsSame
  <1>6. Finished(c) \in Archive
    BY JobTypes DEF Finished, Archive, Parts
  <1>7. archives' = Append(archives, Finished(c))
    BY DEF BackupAppears, Finished
  <1>8. Grows(Finished(c))
    BY <1>6, <1>7, ArchiveAdded
  <1> QED
    BY <1>1, <1>4, <1>5, <1>6, <1>8 DEF n

\* The metadata of an archive that is still there.
Described(e) == [e EXCEPT !.st = IF @ = "bare" THEN "complete" ELSE @]

LEMMA DescribeMoves ==
  ASSUME Typed, NEW c \in Creators, BackupDescribed(c)
  PROVE  /\ job' \in [Creators -> Job] /\ JobsSame(c) /\ job[c].pc = "metadata"
         /\ job[c].at \in DOMAIN archives /\ Changes(job[c].at, Described(archives[job[c].at]))
         /\ job'[c] = [job[c] EXCEPT !.pc = "retention"]
  <1> DEFINE v == [job[c] EXCEPT !.pc = "retention"]
             i == job[c].at
             new == Described(archives[i])
  <1>1. job \in [Creators -> Job] /\ job[c].pc = "metadata" /\ job' = [job EXCEPT ![c] = v]
    BY DEF BackupDescribed, Typed, ArchivesTyped
  <1>2. v \in Job
    BY JobTypes DEF Job, JobPcs
  <1> HIDE DEF v
  <1>3. job' \in [Creators -> Job] /\ JobsSame(c) /\ job'[c] = v
    BY <1>1, <1>2 DEF JobsSame
  <1>4. i \in DOMAIN archives
    BY <1>1, JobTypes
  <1>5. archives' = [archives EXCEPT ![i] = new]
    BY DEF BackupDescribed, Described
  <1>6. new \in Archive
    BY <1>4, ArchiveTypes DEF Described, Archive
  <1> HIDE DEF i, new
  <1>7. Changes(i, new)
    BY <1>4, <1>5, <1>6, ArchiveChanged
  <1> QED
    BY <1>1, <1>3, <1>4, <1>7 DEF v, i, new

LEMMA ListMoves ==
  ASSUME Typed, NEW c \in Creators, RetentionLists(c)
  PROVE  /\ job' \in [Creators -> Job] /\ JobsSame(c) /\ job[c].pc = "retention" /\ UNCHANGED archives
         /\ job'[c] = [job[c] EXCEPT !.pc = "removing", !.doomed = Doomed]
  <1> DEFINE d == Doomed
             v == [job[c] EXCEPT !.pc = "removing", !.doomed = d]
  <1>1. /\ job \in [Creators -> Job] /\ job[c].pc = "retention" /\ UNCHANGED archives
        /\ job' = [job EXCEPT ![c] = v]
    BY DEF RetentionLists, Typed, ArchivesTyped, Job
  <1>2. d \in SUBSET Nat
    BY ArchiveTypes DEF Doomed
  <1> HIDE DEF d
  <1>3. v \in Job
    BY <1>2, JobTypes DEF Job, JobPcs
  <1> HIDE DEF v
  <1>4. job' \in [Creators -> Job] /\ JobsSame(c) /\ job'[c] = v
    BY <1>1, <1>3 DEF JobsSame
  <1> QED
    BY <1>1, <1>4 DEF v, d

\* What a retention run leaves of an archive.
Retained(c, i) == IF i \in job[c].doomed /\ OnDisk(i) THEN Gone(archives[i], "pruned") ELSE archives[i]

LEMMA RemoveMoves ==
  ASSUME Typed, NEW c \in Creators, RetentionRemoves(c)
  PROVE  /\ job' \in [Creators -> Job] /\ JobsSame(c) /\ job[c].pc = "removing" /\ job'[c] = NoJob
         /\ archives' \in Seq(Archive) /\ Len(archives') = Len(archives) /\ DOMAIN archives' = DOMAIN archives
         /\ \A i \in DOMAIN archives : archives'[i] = Retained(c, i)
  <1>1. job \in [Creators -> Job] /\ job[c].pc = "removing" /\ job' = [job EXCEPT ![c] = NoJob]
    BY DEF RetentionRemoves, Typed, ArchivesTyped
  <1>2. job' \in [Creators -> Job] /\ JobsSame(c) /\ job'[c] = NoJob
    BY <1>1, NoneYet DEF JobsSame
  <1>3. archives' = [i \in DOMAIN archives |-> Retained(c, i)]
    BY DEF RetentionRemoves, Retained
  <1>4. \A i \in DOMAIN archives : Retained(c, i) \in Archive
    BY ArchiveTypes, GoneType DEF Retained
  <1>5. /\ DOMAIN archives' = DOMAIN archives /\ archives' = [i \in DOMAIN archives |-> archives'[i]]
        /\ \A i \in DOMAIN archives : archives'[i] = Retained(c, i)
    BY <1>3
  <1>6. archives \in Seq(Archive) /\ \A i \in DOMAIN archives : archives'[i] \in Archive
    BY <1>4, <1>5 DEF Typed, ArchivesTyped
  <1>7. archives' \in Seq(Archive) /\ Len(archives') = Len(archives)
    BY <1>5, <1>6, EntriesMapped
  <1> QED
    BY <1>1, <1>2, <1>5, <1>7

LEMMA FailMoves ==
  ASSUME Typed, NEW c \in Creators, BackupFails(c)
  PROVE  /\ job' \in [Creators -> Job] /\ JobsSame(c) /\ job[c].pc \in {"writing", "metadata"} /\ job'[c] = NoJob
         /\ \/ UNCHANGED archives
            \/ /\ job[c].at \in DOMAIN archives /\ archives[job[c].at].st = "bare"
               /\ Changes(job[c].at, Gone(archives[job[c].at], "deleted"))
  <1>1. /\ job \in [Creators -> Job] /\ job[c].pc \in {"writing", "metadata"}
        /\ job' = [job EXCEPT ![c] = NoJob]
    BY DEF BackupFails, Typed, ArchivesTyped
  <1>2. job' \in [Creators -> Job] /\ JobsSame(c) /\ job'[c] = NoJob
    BY <1>1, NoneYet DEF JobsSame
  <1>3. CASE job[c].pc = "writing"
    BY <1>1, <1>2, <1>3 DEF BackupFails
  <1>4. CASE job[c].pc = "metadata"
    <2> DEFINE i == job[c].at
               e == archives[i]
               gone == Gone(e, "deleted")
    <2>1. i \in DOMAIN archives /\ e \in Archive /\ gone \in Archive
      BY <1>4, JobTypes, ArchiveTypes, GoneType
    <2>2. archives' = [archives EXCEPT ![i] = IF e.st = "bare" THEN gone ELSE e]
      BY <1>4 DEF BackupFails
    <2> HIDE DEF gone
    <2>3. CASE e.st = "bare"
      <3>1. archives' = [archives EXCEPT ![i] = gone]
        BY <2>2, <2>3
      <3> HIDE DEF i, e
      <3>2. Changes(i, gone)
        BY <2>1, <3>1, ArchiveChanged
      <3> QED
        BY <1>1, <1>2, <2>1, <2>3, <3>2 DEF i, e, gone
    <2>4. CASE e.st # "bare"
      <3>1. archives' = archives
        BY <2>1, <2>2, <2>4 DEF Typed, ArchivesTyped
      <3> QED
        BY <1>1, <1>2, <3>1
    <2> QED
      BY <2>3, <2>4
  <1> QED
    BY <1>1, <1>3, <1>4

\* What an upload adds.
Uploaded(roles, version, described) ==
    [st |-> IF described THEN "complete" ELSE "bare",
     parts |-> [x \in Roles |-> IF x \in roles THEN version ELSE Absent],
     claims |-> {}, lists |-> version,
     gated |-> FALSE, whole |-> TRUE]

LEMMA UploadMoves ==
  ASSUME Typed, NEW up \in Uploads, NEW d \in BOOLEAN, Upload(up[1], up[2], d)
  PROVE  Uploaded(up[1], up[2], d) \in Archive /\ Grows(Uploaded(up[1], up[2], d))
  <1>1. up[2] \in Versions
    BY UploadsAssumption DEF Versions
  <1> DEFINE new == Uploaded(up[1], up[2], d)
  <1>2. new \in Archive
    BY <1>1 DEF Uploaded, Archive
  <1>3. archives' = Append(archives, new)
    BY DEF Upload, Uploaded
  <1> HIDE DEF new
  <1>4. Grows(new)
    BY <1>2, <1>3, ArchiveAdded
  <1> QED
    BY <1>2, <1>4 DEF new

LEMMA DeleteMoves ==
  ASSUME Typed, NEW i \in DOMAIN archives, DeleteArchive(i)
  PROVE  OnDisk(i) /\ Changes(i, Gone(archives[i], "deleted"))
  <1> DEFINE new == Gone(archives[i], "deleted")
  <1>1. new \in Archive
    BY ArchiveTypes, GoneType
  <1>2. OnDisk(i) /\ archives' = [archives EXCEPT ![i] = new]
    BY DEF DeleteArchive
  <1> HIDE DEF new
  <1>3. Changes(i, new)
    BY <1>1, <1>2, ArchiveChanged
  <1> QED
    BY <1>2, <1>3 DEF new

\* A backup touches the directory of archives, its own job and its place at the
\* gate, nothing of the panel's files or of a restore.
LEMMA BackupFrame ==
  ASSUME NEW c \in Creators, Backup(c)
  PROVE  /\ UNCHANGED <<fileVars, copies, rst, good, broken, ran>>
         /\ (Call /\ UNCHANGED faults) \/ (UNCHANGED calls /\ (Fault \/ UNCHANGED faults))
  BY DEF Backup, BackupStarts, BackupReads, BackupAppears, BackupDescribed, RetentionLists,
         RetentionRemoves, BackupFails, histVars

LEMMA BackupArchives ==
  ASSUME Typed, NEW c \in Creators, Backup(c)
  PROVE  ArchivesTyped'
  <1>0. /\ archives \in Seq(Archive) /\ Len(archives) \in Nat /\ DOMAIN archives = 1..Len(archives)
        /\ \A d \in Creators : job[d] \in Job /\ job[d].at \in Nat /\ job[d].at <= Len(archives)
                              /\ (job[d].pc = "metadata" => job[d].at >= 1)
    BY ArchiveTypes DEF Typed, ArchivesTyped, Job
  <1>a. ASSUME job' \in [Creators -> Job], JobsSame(c), archives' \in Seq(Archive),
               Len(archives') \in Nat, Len(archives') >= Len(archives),
               job'[c].at <= Len(archives'), job'[c].pc = "metadata" => job'[c].at >= 1
        PROVE  ArchivesTyped'
    BY <1>0, <1>a DEF ArchivesTyped, JobsSame
  <1>b. NoJob.at = 0 /\ NoJob.pc = "idle"
    BY DEF NoJob
  <1>1. CASE BackupStarts(c)
    BY <1>0, <1>1, <1>a, StartMoves
  <1>2. CASE BackupReads(c)
    <2>1. /\ job' \in [Creators -> Job] /\ JobsSame(c) /\ UNCHANGED archives
          /\ job'[c].at = job[c].at /\ job'[c].pc = "writing"
      BY <1>2, ReadMoves
    <2> QED
      BY <1>0, <1>a, <2>1
  <1>3. CASE BackupAppears(c)
    BY <1>0, <1>3, <1>a, AppearMoves DEF Grows
  <1>4. CASE BackupDescribed(c)
    <2>1. job'[c].at = job[c].at /\ job'[c].pc = "retention"
      BY <1>0, <1>4, DescribeMoves DEF Job
    <2>2. /\ job' \in [Creators -> Job] /\ JobsSame(c)
          /\ archives' \in Seq(Archive) /\ Len(archives') = Len(archives)
      BY <1>4, DescribeMoves DEF Changes
    <2> QED
      BY <1>0, <1>a, <2>1, <2>2
  <1>5. CASE RetentionLists(c)
    <2>1. job'[c].at = job[c].at /\ job'[c].pc = "removing"
      BY <1>0, <1>5, ListMoves DEF Job
    <2>2. job' \in [Creators -> Job] /\ JobsSame(c) /\ UNCHANGED archives
      BY <1>5, ListMoves
    <2> QED
      BY <1>0, <1>a, <2>1, <2>2
  <1>6. CASE RetentionRemoves(c)
    BY <1>0, <1>6, <1>a, <1>b, RemoveMoves
  <1>7. CASE BackupFails(c)
    BY <1>0, <1>7, <1>a, <1>b, FailMoves DEF Changes
  <1> QED
    BY <1>1, <1>2, <1>3, <1>4, <1>5, <1>6, <1>7 DEF Backup

LEMMA TypedStep ==
  ASSUME Typed, [Next]_vars
  PROVE  Typed'
  <1>0. FilesTyped /\ CountersTyped /\ CopiesTyped /\ ArchivesTyped
    BY DEF Typed
  <1>a. ASSUME UNCHANGED <<broken, ran, calls>>, Fault \/ UNCHANGED faults PROVE CountersTyped'
    BY <1>0, <1>a, BoundsAssumption DEF CountersTyped, Fault
  <1>b. ASSUME UNCHANGED <<broken, ran>>, Fault \/ UNCHANGED faults, Call PROVE CountersTyped'
    BY <1>0, <1>b, BoundsAssumption DEF CountersTyped, Call, Fault
  <1>c. ASSUME UNCHANGED fileVars, UNCHANGED good PROVE FilesTyped'
    BY <1>0, <1>c DEF FilesTyped, fileVars
  <1>d. ASSUME UNCHANGED <<copies, rst>> PROVE CopiesTyped'
    BY <1>0, <1>d DEF CopiesTyped
  <1>1. ASSUME NEW c \in Creators, Backup(c) PROVE Typed'
    BY <1>1, <1>a, <1>b, <1>c, <1>d, BackupFrame, BackupArchives DEF Typed
  <1>2. ASSUME NEW r \in Restores, Restore(r) PROVE Typed'
    BY <1>2, RestoreCopies, RestoreFiles DEF Typed
  <1>3. ASSUME NEW up \in Uploads, NEW d \in BOOLEAN, Upload(up[1], up[2], d) PROVE Typed'
    <2>1. /\ UNCHANGED <<fileVars, copies, job, rst, good, broken, ran>> /\ Call
          /\ Fault \/ UNCHANGED faults
      BY <1>3 DEF Upload
    <2>2. archives' \in Seq(Archive) /\ Len(archives') = Len(archives) + 1 /\ Len(archives) \in Nat
      BY <1>3, UploadMoves, ArchiveTypes DEF Grows
    <2>3. ArchivesTyped'
      BY <1>0, <2>1, <2>2 DEF ArchivesTyped, Job
    <2> QED
      BY <2>1, <2>3, <1>b, <1>c, <1>d DEF Typed
  <1>4. ASSUME NEW i \in DOMAIN archives, DeleteArchive(i) PROVE Typed'
    <2>1. UNCHANGED <<fileVars, copies, job, rst, good, broken, ran, faults>> /\ Call
      BY <1>4 DEF DeleteArchive, histVars
    <2>2. ArchivesTyped'
      BY <1>0, <1>4, <2>1, DeleteMoves DEF ArchivesTyped, Changes
    <2> QED
      BY <2>1, <2>2, <1>b, <1>c, <1>d DEF Typed
  <1>5. ASSUME NEW k \in DOMAIN copies, DeleteCopy(k) PROVE Typed'
    <2>1. UNCHANGED <<fileVars, archives, job, rst, good, ran, faults>> /\ Call /\ broken' \in BOOLEAN
      BY <1>0, <1>5 DEF DeleteCopy, CountersTyped
    <2>2. CountersTyped'
      BY <1>0, <2>1, BoundsAssumption DEF CountersTyped, Call
    <2>3. CopiesTyped'
      BY <1>0, <1>5, <2>1, CopyDeleted DEF CopiesTyped
    <2>4. ArchivesTyped'
      BY <1>0, <2>1 DEF ArchivesTyped
    <2> QED
      BY <2>1, <2>2, <2>3, <2>4, <1>c DEF Typed
  <1>6. ASSUME NEW x \in Written, RequestWrites(x) PROVE Typed'
    <2>1. /\ UNCHANGED <<live, claimed, overlay, archives, copies, job, rst, good, broken, ran, faults, calls>>
          /\ wal' = [wal EXCEPT ![x] = IF @ = "none" THEN "own" ELSE @]
      BY <1>6 DEF RequestWrites, histVars
    <2>2. wal' \in [SqliteRoles -> {"none", "own", "foreign", "stuck"}]
      BY <1>0, <2>1 DEF FilesTyped
    <2> QED
      BY <1>0, <2>1, <2>2 DEF Typed, FilesTyped, CountersTyped, CopiesTyped, ArchivesTyped
  <1>7. CASE Crash
    <2>1. /\ UNCHANGED <<fileVars, copies, archives, good, ran, calls>> /\ Fault /\ broken' \in BOOLEAN
          /\ job' = [c \in Creators |-> NoJob] /\ rst' = [r \in Restores |-> NoRestore]
      BY <1>0, <1>7 DEF Crash, PanelEnds, CountersTyped
    <2>2. CountersTyped'
      BY <1>0, <2>1, BoundsAssumption DEF CountersTyped, Fault
    <2>3. CopiesTyped'
      BY <1>0, <2>1, NoneYet, ArchiveTypes DEF CopiesTyped, NoRestore, Replacing
    <2>a. NoJob \in Job /\ NoJob.at = 0 /\ NoJob.pc = "idle" /\ Len(archives) \in Nat
      BY NoneYet, ArchiveTypes DEF NoJob
    <2>4. ArchivesTyped'
      BY <1>0, <2>1, <2>a DEF ArchivesTyped
    <2> QED
      BY <2>1, <2>2, <2>3, <2>4, <1>c DEF Typed
  <1>8. CASE UNCHANGED vars
    BY <1>0, <1>8 DEF vars, fileVars, histVars, Typed, FilesTyped, CountersTyped, CopiesTyped, ArchivesTyped
  <1>9. ASSUME NEW u \in Updates, BotRefused(u) PROVE Typed'
    <2>1. /\ UNCHANGED <<live, wal, overlay, archives, copies, job, rst, good, broken, ran, faults>>
          /\ Call /\ claimed' = claimed \cup {u}
      BY <1>9 DEF BotRefused, histVars
    <2>2. FilesTyped' /\ ArchivesTyped'
      BY <1>0, <2>1 DEF FilesTyped, ArchivesTyped
    <2> QED
      BY <2>1, <2>2, <1>b, <1>d DEF Typed
  <1> QED
    BY <1>1, <1>2, <1>3, <1>4, <1>5, <1>6, <1>7, <1>8, <1>9 DEF Next

LEMMA TypedStart ==
  ASSUME Init
  PROVE  Typed
  <1>1. NoRestore \in RestoreRec /\ NoJob \in Job /\ NoParts \in Parts
    BY NoneYet
  <1>2. archives = <<>> /\ copies = <<>> /\ archives \in Seq(Archive) /\ copies \in Seq(Copy)
        /\ Len(archives) = 0 /\ Len(copies) = 0
    BY EmptySeq DEF Init
  <1>3. FilesTyped
    BY DEF Init, FilesTyped, Parts, Versions
  <1>4. CountersTyped
    <2>1. broken = FALSE /\ ran = [u \in Updates |-> 0] /\ calls = 0 /\ faults = 0
      BY DEF Init
    <2>2. broken \in BOOLEAN
      BY <2>1
    <2>3. ran \in [Updates -> Nat]
      BY <2>1
    <2>4. calls \in 0..MaxCalls /\ faults \in 0..MaxFaults
      BY <2>1, BoundsAssumption
    <2> QED
      BY <2>2, <2>3, <2>4 DEF CountersTyped
  <1>5. CopiesTyped
    BY <1>1, <1>2 DEF Init, CopiesTyped, NoRestore, Replacing
  <1>6. ArchivesTyped
    BY <1>1, <1>2 DEF Init, ArchivesTyped, NoJob
  <1> QED
    BY <1>3, <1>4, <1>5, <1>6 DEF Typed

\* Everything the panel keeps has its type, the places named by a job or a restore
\* are places of the directories, and a restore that replaces files has its copy.
THEOREM RestoreTyped == Spec => []Typed
  <1>1. Init => Typed
    BY TypedStart
  <1>2. Typed /\ [Next]_vars => Typed'
    BY TypedStep
  <1> QED
    BY <1>1, <1>2, PTL DEF Spec

-----------------------------------------------------------------------------
(* The pause.                                                              *)

Past(r) == rst[r].pc \notin {"idle", "pause"}

\* Only the restore that owns the pause is past it, and no background step runs;
\* an auto-backup under way is a background step that runs.
Alone ==
    /\ running \subseteq Steps /\ owner \subseteq Restores
    /\ \A r \in Restores : Past(r) => owner = {r} /\ running = {}
    /\ \A c \in Steps : job[c].pc # "idle" => c \in running

LEMMA EndMoves ==
  ASSUME Typed, PanelEnds
  PROVE  /\ \A r \in Restores : rst'[r] = NoRestore /\ rst'[r].pc = "idle"
         /\ \A c \in Creators : job'[c] = NoJob /\ job'[c].pc = "idle"
         /\ running' = running \ (Steps \cup Restores) /\ owner' = owner \ (Steps \cup Restores)
  BY DEF PanelEnds, Leave, NoRestore, NoJob

\* What each step of a restore does at the gate.
LEMMA RestoreAtGate ==
  ASSUME Typed, NEW r \in Restores, Restore(r)
  PROVE  \/ Restarts(r)
         \/ /\ OthersSame(r) /\ UNCHANGED <<archives, job>>
            /\ \/ UNCHANGED lockVars /\ (rst'[r].pc \in {"idle", "pause"} \/ Past(r))
               \/ Paused(r)
               \/ Past(r) /\ Leave({r}) /\ rst'[r] = NoRestore /\ rst'[r].pc = "idle"
  <1>t. rst \in [Restores -> RestoreRec]
    BY DEF Typed, CopiesTyped
  <1>1. ASSUME NEW i \in DOMAIN archives, NEW u \in Updates \cup {"http"},
               (RestoreLoads(r, i) /\ u = "http") \/ BotRestores(r, i, u)
        PROVE  OthersSame(r) /\ rst'[r].pc = "pause" /\ UNCHANGED <<archives, job>> /\ UNCHANGED lockVars
    <2>1. UNCHANGED <<archives, job>> /\ UNCHANGED lockVars
      BY <1>1 DEF RestoreLoads, BotRestores, lockVars
    <2> QED
      BY <1>1, <2>1, LoadMoves
  <1>2. ASSUME NEW k \in DOMAIN copies, RollbackLoads(r, k)
        PROVE  OthersSame(r) /\ rst'[r].pc = "pause" /\ UNCHANGED <<archives, job>> /\ UNCHANGED lockVars
    <2>1. UNCHANGED <<archives, job>> /\ UNCHANGED lockVars
      BY <1>2 DEF RollbackLoads, lockVars
    <2> QED
      BY <1>2, <2>1, RollbackMoves
  <1>3. ASSUME NEW p \in RestorePcs, rst' = [rst EXCEPT ![r].pc = p] PROVE OthersSame(r)
    BY <1>t, <1>3, PcMoves
  <1>4. ASSUME rst' = [rst EXCEPT ![r] = NoRestore]
        PROVE  OthersSame(r) /\ rst'[r] = NoRestore /\ rst'[r].pc = "idle"
    BY <1>4, IdleMoves
  <1>5. CASE Paused(r)
    <2>1. UNCHANGED <<archives, job>> /\ \E p \in RestorePcs : rst' = [rst EXCEPT ![r].pc = p]
      BY <1>5 DEF Paused, RestorePcs
    <2> QED
      BY <1>3, <1>5, <2>1
  <1>6. CASE Refused(r)
    BY <1>4, <1>6 DEF Refused, lockVars
  <1>7. CASE OverlaysApplied(r) \/ NothingToReplace(r) \/ SidecarsRemoved(r) \/ CarriedOver(r)
    <2>1. /\ UNCHANGED <<archives, job>> /\ UNCHANGED lockVars /\ Past(r)
          /\ \E p \in RestorePcs : rst' = [rst EXCEPT ![r].pc = p]
      BY <1>7 DEF OverlaysApplied, NothingToReplace, SidecarsRemoved, CarriedOver, Past, RestorePcs, lockVars
    <2> QED
      BY <1>3, <2>1
  <1>8. CASE SnapshotFails(r) \/ RolledBack(r) \/ RestartFails(r)
    <2>1. UNCHANGED <<archives, job>> /\ Past(r) /\ Leave({r}) /\ rst' = [rst EXCEPT ![r] = NoRestore]
      BY <1>8 DEF SnapshotFails, RolledBack, RestartFails, Past
    <2> QED
      BY <1>4, <2>1
  <1>9. CASE SnapshotTaken(r)
    BY <1>9, SnapshotMoves DEF SnapshotTaken, Past, lockVars
  <1>10. CASE FileReplaced(r)
    BY <1>10, ReplaceMoves DEF FileReplaced, Past, lockVars
  <1>11. CASE ReplaceFails(r)
    BY <1>11, ReplaceFailMoves DEF ReplaceFails, Past, lockVars
  <1>12. CASE FileRolledBack(r) \/ SidecarsUnwound(r) \/ RollbackFails(r)
    <2>1. UNCHANGED <<archives, job>> /\ UNCHANGED lockVars /\ Past(r)
      BY <1>12 DEF FileRolledBack, SidecarsUnwound, RollbackFails, Past, lockVars
    <2>2. OthersSame(r)
      BY <1>12, BackMoves, UnwindMoves
    <2> QED
      BY <2>1, <2>2
  <1>13. CASE PortalSynced(r)
    <2>1. /\ UNCHANGED <<archives, job>> /\ Past(r)
          /\ \/ UNCHANGED lockVars /\ rst' = [rst EXCEPT ![r].pc = "restart"]
             \/ Leave({r}) /\ rst' = [rst EXCEPT ![r] = NoRestore]
      BY <1>13 DEF PortalSynced, Past, lockVars
    <2>2. "restart" \in RestorePcs
      BY DEF RestorePcs
    <2> QED
      BY <1>3, <1>4, <2>1, <2>2
  <1>14. ASSUME NEW i \in DOMAIN archives, RestoreLoads(r, i)
         PROVE  OthersSame(r) /\ rst'[r].pc = "pause" /\ UNCHANGED <<archives, job>> /\ UNCHANGED lockVars
    BY <1>1, <1>14
  <1>15. ASSUME NEW i \in DOMAIN archives, NEW u \in Updates, BotRestores(r, i, u)
         PROVE  OthersSame(r) /\ rst'[r].pc = "pause" /\ UNCHANGED <<archives, job>> /\ UNCHANGED lockVars
    BY <1>1, <1>15
  <1> QED
    BY <1>2, <1>5, <1>6, <1>7, <1>8, <1>9, <1>10, <1>11, <1>12, <1>13, <1>14, <1>15 DEF Restore

\* What a backup does at the gate.
LEMMA BackupAtGate ==
  ASSUME Typed, Alone, NEW c \in Creators, Backup(c)
  PROVE  /\ JobsSame(c) /\ owner' = owner
         /\ \/ BackupStarts(c) /\ running' = IF c \in Steps THEN running \cup {c} ELSE running
            \/ UNCHANGED running /\ (job'[c].pc # "idle" => job[c].pc # "idle")
            \/ running' = running \ {c} /\ job'[c].pc = "idle"
         /\ BackupStarts(c) /\ c \in Steps => owner = {}
  <1>0. owner \ {c} = owner
    BY ActorsAssumption DEF Alone, Creators
  <1>n. NoJob.pc = "idle"
    BY DEF NoJob
  <1>1. CASE BackupStarts(c)
    BY <1>1, StartMoves DEF BackupStarts, StepEnters, lockVars
  <1>2. CASE BackupReads(c)
    BY <1>2, ReadMoves DEF BackupReads, BackupStarts
  <1>3. CASE BackupAppears(c)
    BY <1>3, AppearMoves DEF BackupAppears, BackupStarts
  <1>4. CASE BackupDescribed(c)
    BY <1>4, DescribeMoves DEF BackupDescribed, BackupStarts
  <1>5. CASE RetentionLists(c)
    BY <1>5, ListMoves DEF RetentionLists, BackupStarts
  <1>6. CASE RetentionRemoves(c)
    BY <1>0, <1>6, <1>n, RemoveMoves DEF RetentionRemoves, BackupStarts, Leave
  <1>7. CASE BackupFails(c)
    BY <1>0, <1>7, <1>n, FailMoves DEF BackupFails, BackupStarts, Leave
  <1> QED
    BY <1>1, <1>2, <1>3, <1>4, <1>5, <1>6, <1>7 DEF Backup

LEMMA AloneStep ==
  ASSUME Typed, Alone, [Next]_vars
  PROVE  Alone'
  <1>a. ASSUME UNCHANGED <<rst, running, owner, job>> PROVE Alone'
    BY <1>a DEF Alone, Past
  <1>1. ASSUME NEW c \in Creators, Backup(c) PROVE Alone'
    <2>1. rst' = rst
      BY <1>1, BackupFrame
    <2>2. /\ JobsSame(c) /\ owner' = owner
          /\ \/ job[c].pc = "idle" /\ running' = IF c \in Steps THEN running \cup {c} ELSE running
             \/ UNCHANGED running /\ (job'[c].pc # "idle" => job[c].pc # "idle")
             \/ running' = running \ {c} /\ job'[c].pc = "idle"
          /\ (running' # {} => running # {} \/ owner = {})
      BY <1>1, BackupAtGate DEF BackupStarts
    <2>3. running' \subseteq Steps /\ owner' \subseteq Restores
      BY <2>2 DEF Alone
    <2>4. \A r \in Restores : Past(r)' => owner' = {r} /\ running' = {}
      BY <2>1, <2>2 DEF Alone, Past
    <2>5. \A d \in Steps : job'[d].pc # "idle" => d \in running'
      BY <2>2, <1>1 DEF Alone, JobsSame, Creators
    <2> QED
      BY <2>3, <2>4, <2>5 DEF Alone
  <1>2. ASSUME NEW r \in Restores, Restore(r) PROVE Alone'
    <2>1. CASE Restarts(r)
      BY <2>1, EndMoves DEF Restarts, Alone, Past, Creators
    <2>2. CASE OthersSame(r) /\ UNCHANGED <<archives, job>> /\ UNCHANGED lockVars
               /\ (rst'[r].pc \in {"idle", "pause"} \/ Past(r))
      BY <2>2 DEF Alone, Past, OthersSame, lockVars
    <2>3. CASE OthersSame(r) /\ UNCHANGED <<archives, job>> /\ Paused(r)
      BY <2>3 DEF Alone, Past, OthersSame, Paused, RestoreEnters
    <2>4. CASE OthersSame(r) /\ UNCHANGED <<archives, job>> /\ Past(r) /\ Leave({r}) /\ rst'[r].pc = "idle"
      BY <2>4, ActorsAssumption DEF Alone, Past, OthersSame, Leave
    <2> QED
      BY <1>2, <2>1, <2>2, <2>3, <2>4, RestoreAtGate
  <1>3. ASSUME NEW up \in Uploads, NEW d \in BOOLEAN, Upload(up[1], up[2], d) PROVE Alone'
    BY <1>3, <1>a DEF Upload
  <1>4. ASSUME NEW i \in DOMAIN archives, DeleteArchive(i) PROVE Alone'
    BY <1>4, <1>a DEF DeleteArchive
  <1>5. ASSUME NEW k \in DOMAIN copies, DeleteCopy(k) PROVE Alone'
    BY <1>5, <1>a DEF DeleteCopy
  <1>6. ASSUME NEW x \in Written, RequestWrites(x) PROVE Alone'
    BY <1>6, <1>a DEF RequestWrites
  <1>7. CASE Crash
    BY <1>7, EndMoves DEF Crash, Alone, Past, Creators
  <1>8. CASE UNCHANGED vars
    BY <1>8, <1>a DEF vars
  <1>9. ASSUME NEW u \in Updates, BotRefused(u) PROVE Alone'
    BY <1>9, <1>a DEF BotRefused
  <1> QED
    BY <1>1, <1>2, <1>3, <1>4, <1>5, <1>6, <1>7, <1>8, <1>9 DEF Next

LEMMA AloneStart ==
  ASSUME Init
  PROVE  Alone
  BY DEF Init, LockInit, Alone, Past, NoRestore, NoJob, Creators

\* At most one restore is past the pause, and no background step, the auto-backup
\* included, runs beside it.
THEOREM RestoreAlone == Spec => []Alone
  <1>1. Init => Alone
    BY AloneStart
  <1>2. Typed /\ Alone /\ [Next]_vars => Alone'
    BY AloneStep
  <1> QED
    BY <1>1, <1>2, RestoreTyped, PTL DEF Spec

\* As far as the gate goes, the panel's backups and restores are the abstract lock
\* that background_gate.py implements.
THEOREM RestoreUsesPauseLock == Spec => LockSpec
  <1>1. Init => LockInit
    BY DEF Init
  <1>2. ASSUME Typed, Alone, [Next]_vars PROVE [LockNext]_lockVars
    <2>1. ASSUME NEW c \in Creators, Backup(c) PROVE [LockNext]_lockVars
      <3>1. owner' = owner
        BY <1>2, <2>1, BackupAtGate
      <3>2. CASE BackupStarts(c)
        BY <3>2 DEF BackupStarts, LockNext, lockVars
      <3>3. CASE UNCHANGED running
        BY <3>1, <3>3 DEF lockVars
      <3>4. CASE running' = running \ {c}
        <4>1. CASE c \in Steps
          <5>1. {c} \in SUBSET (Steps \cup Restores) /\ owner = owner \ {c}
            BY <1>2, <4>1, ActorsAssumption DEF Alone
          <5>2. Leave({c})
            BY <3>1, <3>4, <5>1 DEF Leave
          <5> QED
            BY <5>1, <5>2 DEF LockNext
        <4>2. CASE c \notin Steps
          BY <1>2, <3>1, <3>4, <4>2 DEF Alone, lockVars
        <4> QED
          BY <4>1, <4>2
      <3> QED
        BY <1>2, <2>1, <3>2, <3>3, <3>4, BackupAtGate
    <2>2. ASSUME NEW r \in Restores, Restore(r) PROVE [LockNext]_lockVars
      <3>1. CASE Restarts(r)
        BY <3>1 DEF Restarts, PanelEnds, LockNext
      <3>2. CASE UNCHANGED lockVars
        BY <3>2
      <3>3. CASE Paused(r)
        BY <3>3 DEF Paused, LockNext
      <3>4. CASE Leave({r})
        <4>1. {r} \in SUBSET (Steps \cup Restores)
          OBVIOUS
        <4> QED
          BY <3>4, <4>1 DEF LockNext
      <3> QED
        BY <1>2, <2>2, <3>1, <3>2, <3>3, <3>4, RestoreAtGate
    <2>3. ASSUME NEW up \in Uploads, NEW d \in BOOLEAN, Upload(up[1], up[2], d) PROVE [LockNext]_lockVars
      BY <2>3 DEF Upload, lockVars
    <2>4. ASSUME NEW i \in DOMAIN archives, DeleteArchive(i) PROVE [LockNext]_lockVars
      BY <2>4 DEF DeleteArchive, lockVars
    <2>5. ASSUME NEW k \in DOMAIN copies, DeleteCopy(k) PROVE [LockNext]_lockVars
      BY <2>5 DEF DeleteCopy, lockVars
    <2>6. ASSUME NEW x \in Written, RequestWrites(x) PROVE [LockNext]_lockVars
      BY <2>6 DEF RequestWrites, lockVars
    <2>7. CASE Crash
      BY <2>7 DEF Crash, PanelEnds, LockNext
    <2>8. CASE UNCHANGED vars
      BY <2>8 DEF vars, lockVars
    <2>9. ASSUME NEW u \in Updates, BotRefused(u) PROVE [LockNext]_lockVars
      BY <2>9 DEF BotRefused, lockVars
    <2> QED
      BY <1>2, <2>1, <2>2, <2>3, <2>4, <2>5, <2>6, <2>7, <2>8, <2>9 DEF Next
  <1> QED
    BY <1>1, <1>2, RestoreTyped, RestoreAlone, PTL DEF Spec, LockSpec

-----------------------------------------------------------------------------
(* How far a restore has come.                                             *)

PresentRoles(parts) == {x \in Roles : parts[x] # Absent}

\* done and left divide the files of the restore until the last one is in place; a
\* rollback goes over files that were replaced.
ProgressOf(r) ==
    /\ rst[r].pc \in {"idle", "pause", "overlays", "snapshot"} => rst[r].done = <<>>
    /\ rst[r].pc \in {"replace", "sidecars"} =>
          Range(rst[r].done) \cup Range(rst[r].left) = PresentRoles(rst[r].parts)
    /\ rst[r].pc = "sidecars" => rst[r].done # <<>>
    /\ rst[r].pc = "carry" => Range(rst[r].done) = PresentRoles(rst[r].parts) /\ rst[r].left = <<>>
    /\ rst[r].pc = "unwind" => rst[r].left # <<>>
    /\ rst[r].pc \in {"rollback", "unwind"} =>
          Range(rst[r].left) \subseteq Range(rst[r].done) /\ Range(rst[r].done) \subseteq PresentRoles(rst[r].parts)

Progress == \A r \in Restores : ProgressOf(r)

LEMMA EmptyRange == \A S : \A s \in Seq(S) : Range(s) = {} <=> s = <<>>
  <1>1. SUFFICES ASSUME NEW S, NEW s \in Seq(S) PROVE Range(s) = {} <=> s = <<>>
    OBVIOUS
  <1>2. CASE s = <<>>
    <2>1. Len(s) = 0
      BY <1>2
    <2>2. Range(s) = {s[i] : i \in 1 .. Len(s)}
      BY RangeEquality
    <2>3. 1 .. Len(s) = {}
      BY <2>1
    <2> QED
      BY <1>2, <2>2, <2>3
  <1>3. CASE s # <<>>
    BY <1>3, TailRange
  <1> QED
    BY <1>2, <1>3

LEMMA ProgressStep ==
  ASSUME Typed, Progress, [Next]_vars
  PROVE  Progress'
  <1>t. rst \in [Restores -> RestoreRec]
    BY DEF Typed, CopiesTyped
  <1>a. ASSUME UNCHANGED rst PROVE Progress'
    BY <1>a DEF Progress, ProgressOf
  <1>b. ASSUME NEW r \in Restores, OthersSame(r), ProgressOf(r)' PROVE Progress'
    <2>1. ASSUME NEW q \in Restores, q # r PROVE ProgressOf(q)'
      <3>1. rst'[q] = rst[q]
        BY <1>b, <2>1 DEF OthersSame
      <3>2. ProgressOf(q)
        BY DEF Progress
      <3> QED
        BY <3>1, <3>2 DEF ProgressOf
    <2> QED
      BY <1>b, <2>1 DEF Progress
  <1>e. ASSUME PanelEnds PROVE Progress'
    BY <1>e, EndMoves DEF Progress, ProgressOf, NoRestore
  <1>1. ASSUME NEW r \in Restores, Restore(r) PROVE Progress'
    <2>0. ProgressOf(r) /\ rst[r] \in RestoreRec
      BY <1>t DEF Progress
    <2>s. rst[r].done \in Seq(Roles) /\ rst[r].left \in Seq(Roles) /\ rst[r].parts \in Parts
      BY <2>0 DEF RestoreRec
    <2>1. ASSUME rst' = [rst EXCEPT ![r] = NoRestore] PROVE Progress'
      <3>1. OthersSame(r) /\ rst'[r] = NoRestore
        BY <2>1, IdleMoves
      <3> QED
        BY <3>1, <1>b DEF ProgressOf, NoRestore
    <2>2. ASSUME NEW p \in RestorePcs, rst' = [rst EXCEPT ![r].pc = p]
          PROVE  OthersSame(r) /\ PayloadSame(r) /\ WorkSame(r) /\ rst'[r].pc = p
      BY <1>t, <2>2, PcMoves
    <2>3. ASSUME NEW i \in DOMAIN archives, NEW u \in Updates \cup {"http"},
                 (RestoreLoads(r, i) /\ u = "http") \/ BotRestores(r, i, u)
          PROVE  Progress'
      <3>1. OthersSame(r) /\ rst'[r].pc = "pause" /\ rst'[r].done = <<>>
        BY <2>3, LoadMoves
      <3> QED
        BY <3>1, <1>b DEF ProgressOf
    <2>4. ASSUME NEW i \in DOMAIN archives, RestoreLoads(r, i) PROVE Progress'
      BY <2>3, <2>4
    <2>5. ASSUME NEW i \in DOMAIN archives, NEW u \in Updates, BotRestores(r, i, u) PROVE Progress'
      BY <2>3, <2>5
    <2>6. ASSUME NEW k \in DOMAIN copies, RollbackLoads(r, k) PROVE Progress'
      <3>1. OthersSame(r) /\ rst'[r].pc = "pause" /\ rst'[r].done = <<>>
        BY <2>6, RollbackMoves
      <3> QED
        BY <3>1, <1>b DEF ProgressOf
    <2>7. CASE Paused(r) \/ OverlaysApplied(r)
      <3>1. /\ rst[r].pc \in {"pause", "overlays"}
            /\ \E p \in {"overlays", "snapshot"} : p \in RestorePcs /\ rst' = [rst EXCEPT ![r].pc = p]
        BY <2>7 DEF Paused, OverlaysApplied, RestorePcs
      <3>2. OthersSame(r) /\ rst'[r].pc \in {"overlays", "snapshot"} /\ rst'[r].done = rst[r].done
        BY <2>2, <3>1 DEF WorkSame
      <3> QED
        BY <2>0, <3>1, <3>2, <1>b DEF ProgressOf
    <2>8. CASE SnapshotTaken(r)
      <3>1. /\ OthersSame(r) /\ rst'[r].pc = "replace" /\ rst'[r].left = Present(rst[r].parts)
            /\ rst'[r].done = rst[r].done /\ rst'[r].parts = rst[r].parts
        BY <2>8, SnapshotMoves DEF PayloadSame
      <3>2. rst'[r].done = <<>>
        BY <2>0, <2>8, <3>1 DEF SnapshotTaken, ProgressOf
      <3>3. Range(rst'[r].left) = PresentRoles(rst'[r].parts) /\ Range(rst'[r].done) = {}
        BY <2>s, <3>1, <3>2, PresentSeq, EmptyRange DEF PresentRoles
      <3> QED
        BY <3>1, <3>2, <3>3, <1>b DEF ProgressOf
    <2>9. CASE FileReplaced(r)
      <3>1. /\ OthersSame(r) /\ rst'[r].pc = "sidecars" /\ rst'[r].parts = rst[r].parts
            /\ rst[r].left # <<>> /\ Head(rst[r].left) \in Roles /\ rst'[r].left = Tail(rst[r].left)
            /\ rst'[r].done = Append(rst[r].done, Head(rst[r].left))
        BY <2>9, ReplaceMoves DEF PayloadSame
      <3>2. Range(rst'[r].done) = Range(rst[r].done) \cup {Head(rst[r].left)} /\ rst'[r].done # <<>>
        BY <2>s, <3>1, AppendRange
      <3>3. Range(rst[r].left) = {Head(rst[r].left)} \cup Range(rst'[r].left)
        BY <2>s, <3>1, TailRange
      <3>4. Range(rst[r].done) \cup Range(rst[r].left) = PresentRoles(rst[r].parts)
        BY <2>0, <2>9 DEF FileReplaced, ProgressOf
      <3>5. Range(rst'[r].done) \cup Range(rst'[r].left) = PresentRoles(rst'[r].parts)
        BY <3>1, <3>2, <3>3, <3>4
      <3> QED
        BY <3>1, <3>2, <3>5, <1>b DEF ProgressOf
    <2>10. CASE SidecarsRemoved(r)
      <3>1. /\ rst[r].pc = "sidecars"
            /\ \E p \in RestorePcs : /\ rst' = [rst EXCEPT ![r].pc = p]
                                     /\ p = IF rst[r].left # <<>> THEN "replace" ELSE "carry"
        BY <2>10 DEF SidecarsRemoved, RestorePcs
      <3>2. /\ OthersSame(r) /\ rst'[r].pc = IF rst[r].left # <<>> THEN "replace" ELSE "carry"
            /\ rst'[r].left = rst[r].left /\ rst'[r].done = rst[r].done /\ rst'[r].parts = rst[r].parts
        BY <2>2, <3>1 DEF WorkSame, PayloadSame
      <3>3. rst[r].left = <<>> => Range(rst[r].left) = {}
        BY <2>s, EmptyRange
      <3>4. Range(rst[r].done) \cup Range(rst[r].left) = PresentRoles(rst[r].parts)
        BY <2>0, <3>1 DEF ProgressOf
      <3>5. ProgressOf(r)'
        BY <3>2, <3>3, <3>4 DEF ProgressOf
      <3> QED
        BY <3>2, <3>5, <1>b
    <2>11. CASE ReplaceFails(r)
      <3>1. /\ OthersSame(r) /\ rst'[r].pc = "rollback" /\ rst'[r].parts = rst[r].parts
            /\ rst'[r].left = rst[r].done /\ rst'[r].done = rst[r].done
        BY <2>11, ReplaceFailMoves DEF PayloadSame
      <3> QED
        BY <2>0, <2>11, <3>1, <1>b DEF ProgressOf, ReplaceFails
    <2>12. CASE SidecarsUnwound(r) \/ RollbackFails(r)
      <3>1. rst[r].pc \in {"rollback", "unwind"} /\ rst[r].left # <<>>
        BY <2>12, BackMoves
      <3>2. /\ OthersSame(r) /\ rst'[r].pc = "rollback" /\ rst'[r].parts = rst[r].parts
            /\ rst'[r].left = Tail(rst[r].left) /\ rst'[r].done = rst[r].done
        BY <2>12, BackMoves DEF PayloadSame
      <3>3. Range(rst[r].left) = {Head(rst[r].left)} \cup Range(rst'[r].left)
        BY <2>s, <3>1, <3>2, TailRange
      <3> QED
        BY <2>0, <3>1, <3>2, <3>3, <1>b DEF ProgressOf
    <2>17. CASE FileRolledBack(r)
      <3>1. /\ OthersSame(r) /\ rst[r].pc = "rollback" /\ rst'[r].pc = "unwind" /\ rst[r].left # <<>>
            /\ rst'[r].parts = rst[r].parts /\ rst'[r].left = rst[r].left /\ rst'[r].done = rst[r].done
        BY <2>17, UnwindMoves DEF PayloadSame, WorkSame
      <3> QED
        BY <2>0, <3>1, <1>b DEF ProgressOf
    <2>13. CASE CarriedOver(r) \/ NothingToReplace(r)
      <3>1. OthersSame(r) /\ rst'[r].pc = "portal"
        BY <2>2, <2>13 DEF CarriedOver, NothingToReplace, RestorePcs
      <3> QED
        BY <3>1, <1>b DEF ProgressOf
    <2>14. CASE PortalSynced(r)
      <3>1. CASE rst' = [rst EXCEPT ![r].pc = "restart"]
        <4>1. OthersSame(r) /\ rst'[r].pc = "restart"
          BY <2>2, <3>1 DEF RestorePcs
        <4> QED
          BY <4>1, <1>b DEF ProgressOf
      <3> QED
        BY <2>1, <2>14, <3>1 DEF PortalSynced
    <2>15. CASE Refused(r) \/ SnapshotFails(r) \/ RolledBack(r) \/ RestartFails(r)
      BY <2>1, <2>15 DEF Refused, SnapshotFails, RolledBack, RestartFails
    <2>16. CASE Restarts(r)
      BY <1>e, <2>16 DEF Restarts
    <2> QED
      BY <1>1, <2>4, <2>5, <2>6, <2>7, <2>8, <2>9, <2>10, <2>11, <2>12, <2>13, <2>14, <2>15, <2>16, <2>17
         DEF Restore
  <1>2. ASSUME NEW c \in Creators, Backup(c) PROVE Progress'
    BY <1>2, <1>a, BackupFrame
  <1>3. ASSUME NEW up \in Uploads, NEW d \in BOOLEAN, Upload(up[1], up[2], d) PROVE Progress'
    BY <1>3, <1>a DEF Upload
  <1>4. ASSUME NEW i \in DOMAIN archives, DeleteArchive(i) PROVE Progress'
    BY <1>4, <1>a DEF DeleteArchive
  <1>5. ASSUME NEW k \in DOMAIN copies, DeleteCopy(k) PROVE Progress'
    BY <1>5, <1>a DEF DeleteCopy
  <1>6. ASSUME NEW x \in Written, RequestWrites(x) PROVE Progress'
    BY <1>6, <1>a DEF RequestWrites
  <1>7. CASE Crash
    BY <1>7, <1>e DEF Crash
  <1>8. CASE UNCHANGED vars
    BY <1>8, <1>a DEF vars
  <1>9. ASSUME NEW u \in Updates, BotRefused(u) PROVE Progress'
    BY <1>9, <1>a DEF BotRefused
  <1> QED
    BY <1>1, <1>2, <1>3, <1>4, <1>5, <1>6, <1>7, <1>8, <1>9 DEF Next

LEMMA RestoreProgress == Spec => []Progress
  <1>1. Init => Progress
    BY DEF Init, Progress, ProgressOf, NoRestore
  <1>2. Typed /\ Progress /\ [Next]_vars => Progress'
    BY ProgressStep
  <1> QED
    BY <1>1, <1>2, RestoreTyped, PTL DEF Spec

-----------------------------------------------------------------------------
(* What is in the files.                                                   *)

\* Retention has left the copy of a restore that may have to go back.
CopyKept(r) == rst[r].pc \in Replacing => copies[rst[r].copy].st # "pruned"

\* That copy holds the last consistent versions of the files it replaces.
CopyGood(r) ==
    rst[r].pc \in Replacing =>
        \A x \in PresentRoles(rst[r].parts) : copies[rst[r].copy].parts[x] = good[x]

\* Every file is either replaced or as it was; after a rollback it is as it was.
LiveOf(r) ==
    /\ rst[r].pc \in {"replace", "sidecars", "carry"} => \A x \in Roles :
          live[x] = IF x \in Range(rst[r].done) THEN rst[r].parts[x] ELSE good[x]
    /\ rst[r].pc = "rollback" => \A x \in Roles : x \notin Range(rst[r].left) => live[x] = good[x]
    /\ rst[r].pc = "unwind" => \A x \in Roles : x \notin Range(Tail(rst[r].left)) => live[x] = good[x]

Whole ==
    /\ \A r \in Restores : CopyKept(r)
    /\ ~broken => /\ \A r \in Restores : CopyGood(r) /\ LiveOf(r)
                  /\ (\A r \in Restores : rst[r].pc \notin Replacing) => live = good

\* A step of the restore that is past the pause is judged by what it does to that one.
LEMMA WholeByOwner ==
  ASSUME Typed, Alone, NEW r \in Restores, Past(r), OthersSame(r), CopyKept(r)',
         ~broken' => CopyGood(r)' /\ LiveOf(r)' /\ (rst'[r].pc \notin Replacing => live' = good')
  PROVE  Whole'
  <1>1. ASSUME NEW q \in Restores, q # r
        PROVE  rst'[q] = rst[q] /\ rst'[q].pc \notin Replacing
               /\ rst'[q].pc \notin {"replace", "sidecars", "carry", "rollback", "unwind"}
    <2>1. rst'[q] = rst[q] /\ ~Past(q)
      BY <1>1 DEF OthersSame, Alone
    <2> QED
      BY <2>1 DEF Past, Replacing
  <1>2. ASSUME NEW q \in Restores, q # r PROVE CopyKept(q)' /\ CopyGood(q)' /\ LiveOf(q)'
    BY <1>1, <1>2 DEF CopyKept, CopyGood, LiveOf
  <1> QED
    BY <1>2 DEF Whole

\* A step that touches neither the files nor a restore that replaces them.
Quiet ==
    /\ UNCHANGED <<live, good, broken, copies>>
    /\ \A q \in Restores : rst'[q] = rst[q] \/ (rst[q].pc \notin Replacing /\ rst'[q].pc \notin Replacing)

LEMMA WholeQuiet ==
  ASSUME Whole, Quiet
  PROVE  Whole'
  <1>1. ASSUME NEW q \in Restores PROVE CopyKept(q)' /\ (~broken => CopyGood(q)' /\ LiveOf(q)')
    <2>1. CopyKept(q) /\ (~broken => CopyGood(q) /\ LiveOf(q))
      BY DEF Whole
    <2>2. CASE rst'[q] = rst[q]
      BY <2>1, <2>2 DEF Quiet, CopyKept, CopyGood, LiveOf
    <2>3. CASE rst[q].pc \notin Replacing /\ rst'[q].pc \notin Replacing
      BY <2>3 DEF CopyKept, CopyGood, LiveOf, Replacing
    <2> QED
      BY <2>2, <2>3 DEF Quiet
  <1>2. (\A q \in Restores : rst'[q].pc \notin Replacing) => (\A q \in Restores : rst[q].pc \notin Replacing)
    BY DEF Quiet
  <1>3. UNCHANGED <<live, good, broken>>
    BY DEF Quiet
  <1> QED
    BY <1>1, <1>2, <1>3 DEF Whole

\* Which steps those are.
LEMMA QuietSteps ==
  ASSUME Typed, Alone, NEW r \in Restores, Restore(r)
  PROVE  \/ Quiet
         \/ SnapshotTaken(r) \/ SnapshotFails(r) \/ FileReplaced(r) \/ SidecarsRemoved(r)
         \/ ReplaceFails(r) \/ FileRolledBack(r) \/ SidecarsUnwound(r) \/ RollbackFails(r)
         \/ RolledBack(r) \/ CarriedOver(r)
  <1>t. rst \in [Restores -> RestoreRec]
    BY DEF Typed, CopiesTyped
  <1>a. ASSUME UNCHANGED <<live, good, broken, copies>>, OthersSame(r),
               rst[r].pc \notin Replacing, rst'[r].pc \notin Replacing
        PROVE  Quiet
    BY <1>a DEF Quiet, OthersSame
  <1>1. ASSUME NEW i \in DOMAIN archives, NEW u \in Updates \cup {"http"},
               (RestoreLoads(r, i) /\ u = "http") \/ BotRestores(r, i, u)
        PROVE  Quiet
    <2>1. UNCHANGED <<live, good, broken, copies>> /\ rst[r].pc = "idle"
      BY <1>1 DEF RestoreLoads, BotRestores, fileVars, histVars
    <2>2. OthersSame(r) /\ rst'[r].pc = "pause"
      BY <1>1, LoadMoves
    <2> QED
      BY <1>a, <2>1, <2>2 DEF Replacing
  <1>2. ASSUME NEW i \in DOMAIN archives, RestoreLoads(r, i) PROVE Quiet
    BY <1>1, <1>2
  <1>3. ASSUME NEW i \in DOMAIN archives, NEW u \in Updates, BotRestores(r, i, u) PROVE Quiet
    BY <1>1, <1>3
  <1>4. ASSUME NEW k \in DOMAIN copies, RollbackLoads(r, k) PROVE Quiet
    <2>1. UNCHANGED <<live, good, broken, copies>> /\ rst[r].pc = "idle"
      BY <1>4 DEF RollbackLoads, fileVars, histVars
    <2>2. OthersSame(r) /\ rst'[r].pc = "pause"
      BY <1>4, RollbackMoves
    <2> QED
      BY <1>a, <2>1, <2>2 DEF Replacing
  <1>5. ASSUME UNCHANGED <<live, good, broken, copies>>, rst[r].pc \notin Replacing,
               rst' = [rst EXCEPT ![r] = NoRestore]
        PROVE  Quiet
    <2>1. OthersSame(r) /\ rst'[r].pc = "idle"
      BY <1>5, IdleMoves
    <2> QED
      BY <1>5, <1>a, <2>1 DEF Replacing
  <1>6. ASSUME UNCHANGED <<live, good, broken, copies>>, rst[r].pc \notin Replacing,
               NEW p \in RestorePcs, p \notin Replacing, rst' = [rst EXCEPT ![r].pc = p]
        PROVE  Quiet
    <2>1. OthersSame(r) /\ rst'[r].pc = p
      BY <1>t, <1>6, PcMoves
    <2> QED
      BY <1>6, <1>a, <2>1
  <1>7. CASE Paused(r) \/ OverlaysApplied(r)
    <2>1. /\ UNCHANGED <<live, good, broken, copies>> /\ rst[r].pc \in {"pause", "overlays"}
          /\ \E p \in {"overlays", "snapshot"} : rst' = [rst EXCEPT ![r].pc = p]
      BY <1>7 DEF Paused, OverlaysApplied, fileVars, histVars
    <2> QED
      BY <1>6, <2>1 DEF RestorePcs, Replacing
  <1>11. CASE NothingToReplace(r)
    <2>1. /\ UNCHANGED <<live, good, broken, copies>> /\ rst[r].pc = "snapshot"
          /\ rst' = [rst EXCEPT ![r].pc = "portal"]
      BY <1>11 DEF NothingToReplace, fileVars
    <2> QED
      BY <1>6, <2>1 DEF RestorePcs, Replacing
  <1>8. CASE Refused(r) \/ RestartFails(r)
    <2>1. /\ UNCHANGED <<live, good, broken, copies>> /\ rst[r].pc \in {"pause", "restart"}
          /\ rst' = [rst EXCEPT ![r] = NoRestore]
      BY <1>8 DEF Refused, RestartFails, fileVars, histVars
    <2> QED
      BY <1>5, <2>1 DEF Replacing
  <1>9. CASE PortalSynced(r)
    <2>1. /\ UNCHANGED <<live, good, broken, copies>> /\ rst[r].pc = "portal"
          /\ rst' = [rst EXCEPT ![r].pc = "restart"] \/ rst' = [rst EXCEPT ![r] = NoRestore]
      BY <1>9 DEF PortalSynced, fileVars
    <2> QED
      BY <1>5, <1>6, <2>1 DEF RestorePcs, Replacing
  <1>10. CASE Restarts(r)
    <2>1. UNCHANGED <<live, good, broken, copies>> /\ rst[r].pc = "restart" /\ PanelEnds
      BY <1>10 DEF Restarts, fileVars, histVars
    <2>2. \A q \in Restores : q # r => ~Past(q)
      BY <2>1 DEF Alone, Past
    <2> QED
      BY <2>1, <2>2, EndMoves DEF Past, Quiet, Replacing
  <1> QED
    BY <1>2, <1>3, <1>4, <1>7, <1>8, <1>9, <1>10, <1>11 DEF Restore

LEMMA WholeReplacing ==
  ASSUME Typed, Alone, Progress, Whole, NEW r \in Restores,
         \/ SnapshotTaken(r) \/ SnapshotFails(r) \/ FileReplaced(r) \/ SidecarsRemoved(r)
         \/ ReplaceFails(r) \/ FileRolledBack(r) \/ SidecarsUnwound(r) \/ RollbackFails(r)
         \/ RolledBack(r) \/ CarriedOver(r)
  PROVE  Whole'
  <1>0. Past(r) /\ rst[r] \in RestoreRec /\ rst \in [Restores -> RestoreRec]
    BY DEF Past, Typed, CopiesTyped, SnapshotTaken, SnapshotFails, FileReplaced, SidecarsRemoved,
           ReplaceFails, FileRolledBack, SidecarsUnwound, RollbackFails, RolledBack, CarriedOver
  <1>1. \A q \in Restores : q # r => rst[q].pc \notin Replacing
    BY <1>0 DEF Alone, Past, Replacing
  <1>2. ProgressOf(r) /\ CopyKept(r) /\ (~broken => CopyGood(r) /\ LiveOf(r))
    BY DEF Progress, Whole
  <1>3. ~broken /\ rst[r].pc \notin Replacing => live = good
    BY <1>1 DEF Whole
  <1>4. /\ rst[r].done \in Seq(Roles) /\ rst[r].left \in Seq(Roles) /\ rst[r].parts \in Parts
        /\ rst[r].copy \in Nat /\ rst[r].copy <= Len(copies) /\ (rst[r].pc \in Replacing => rst[r].copy >= 1)
        /\ Len(copies) \in Nat /\ DOMAIN copies = 1..Len(copies)
    BY <1>0, ArchiveTypes DEF RestoreRec, Typed, CopiesTyped
  <1>5. live \in Parts /\ good \in Parts
    BY DEF Typed, FilesTyped
  <1>6. CASE SnapshotTaken(r)
    <2>1. /\ OthersSame(r) /\ rst'[r].pc = "replace" /\ rst'[r].copy = Len(copies) + 1
          /\ rst'[r].parts = rst[r].parts /\ rst'[r].done = rst[r].done
      BY <1>6, SnapshotMoves DEF PayloadSame
    <2>2. rst[r].pc = "snapshot" /\ UNCHANGED <<live, good, broken>>
      BY <1>6 DEF SnapshotTaken, fileVars, histVars
    <2>3. copies'[rst'[r].copy] = CopyOf(rst[r].parts)
      BY <1>6, <2>1, CopyMade
    <2>4. /\ CopyOf(rst[r].parts).st = "kept"
          /\ \A x \in PresentRoles(rst[r].parts) : CopyOf(rst[r].parts).parts[x] = live[x]
      BY DEF CopyOf, PresentRoles
    <2>5. CopyKept(r)'
      BY <2>3, <2>4 DEF CopyKept
    <2>6. ~broken => live = good
      BY <1>3, <2>2 DEF Replacing
    <2>7. ~broken' => CopyGood(r)'
      BY <2>1, <2>2, <2>3, <2>4, <2>6 DEF CopyGood
    <2>8. Range(rst'[r].done) = {}
      BY <1>2, <1>4, <2>1, <2>2, EmptyRange DEF ProgressOf
    <2>9. ~broken' => LiveOf(r)'
      BY <2>1, <2>2, <2>6, <2>8 DEF LiveOf
    <2> QED
      BY <1>0, <2>1, <2>5, <2>7, <2>9, WholeByOwner DEF Replacing
  <1>7. CASE FileReplaced(r)
    <2> DEFINE x == Head(rst[r].left)
    <2>1. /\ OthersSame(r) /\ rst'[r].pc = "sidecars" /\ rst'[r].copy = rst[r].copy
          /\ rst'[r].parts = rst[r].parts /\ rst'[r].done = Append(rst[r].done, x)
          /\ x \in Roles
      BY <1>7, ReplaceMoves DEF PayloadSame
    <2>2. /\ rst[r].pc = "replace" /\ UNCHANGED <<good, broken, copies>>
          /\ live' = [live EXCEPT ![x] = rst[r].parts[x]]
      BY <1>7 DEF FileReplaced, Put, histVars
    <2> HIDE DEF x
    <2>3. Range(rst'[r].done) = Range(rst[r].done) \cup {x}
      BY <1>4, <2>1, AppendRange
    <2>4. rst[r].pc \in Replacing /\ rst'[r].pc \in Replacing
      BY <2>1, <2>2 DEF Replacing
    <2>5. CopyKept(r)' /\ (~broken' => CopyGood(r)')
      BY <1>2, <2>1, <2>2, <2>4 DEF CopyKept, CopyGood
    <2>6. ~broken => \A y \in Roles : live[y] = IF y \in Range(rst[r].done) THEN rst[r].parts[y] ELSE good[y]
      BY <1>2, <2>2 DEF LiveOf
    <2>7. \A y \in Roles : live'[y] = IF y = x THEN rst[r].parts[x] ELSE live[y]
      BY <1>5, <2>1, <2>2 DEF Parts
    <2>8. ~broken' => LiveOf(r)'
      BY <2>1, <2>2, <2>3, <2>6, <2>7 DEF LiveOf
    <2> QED
      BY <1>0, <2>1, <2>4, <2>5, <2>8, WholeByOwner
  <1>8. CASE SidecarsRemoved(r)
    <2>1. /\ rst[r].pc = "sidecars" /\ UNCHANGED <<live, good, broken, copies>>
          /\ \E p \in {"replace", "carry"} : rst' = [rst EXCEPT ![r].pc = p]
      BY <1>8 DEF SidecarsRemoved
    <2>2. {"replace", "carry"} \subseteq RestorePcs
      BY DEF RestorePcs
    <2>3. OthersSame(r) /\ PayloadSame(r) /\ WorkSame(r) /\ rst'[r].pc \in {"replace", "carry"}
      BY <1>0, <2>1, <2>2, PcMoves
    <2>4. CopyKept(r)' /\ (~broken' => CopyGood(r)') /\ rst'[r].pc \in Replacing
      BY <1>2, <2>1, <2>3 DEF CopyKept, CopyGood, Replacing, PayloadSame, WorkSame
    <2>5. ~broken' => LiveOf(r)'
      BY <1>2, <2>1, <2>3 DEF LiveOf, PayloadSame, WorkSame
    <2> QED
      BY <1>0, <2>3, <2>4, <2>5, WholeByOwner
  <1>9. CASE ReplaceFails(r)
    <2>1. /\ OthersSame(r) /\ rst'[r].pc = "rollback" /\ rst'[r].copy = rst[r].copy
          /\ rst'[r].parts = rst[r].parts /\ rst'[r].left = rst[r].done
      BY <1>9, ReplaceFailMoves DEF PayloadSame
    <2>2. rst[r].pc = "replace" /\ UNCHANGED <<live, good, broken, copies>>
      BY <1>9 DEF ReplaceFails, fileVars
    <2>3. CopyKept(r)' /\ (~broken' => CopyGood(r)') /\ rst'[r].pc \in Replacing
      BY <1>2, <2>1, <2>2 DEF CopyKept, CopyGood, Replacing
    <2>4. ~broken' => LiveOf(r)'
      BY <1>2, <2>1, <2>2 DEF LiveOf
    <2> QED
      BY <1>0, <2>1, <2>3, <2>4, WholeByOwner
  <1>10. CASE FileRolledBack(r)
    <2> DEFINE x == Head(rst[r].left)
    <2>1. /\ rst[r].pc = "rollback" /\ rst[r].left # <<>>
          /\ UNCHANGED <<good, broken, copies>> /\ live' = [live EXCEPT ![x] = copies[rst[r].copy].parts[x]]
      BY <1>10 DEF FileRolledBack, Put, Saved, histVars
    <2>2. /\ OthersSame(r) /\ rst'[r].pc = "unwind" /\ rst'[r].copy = rst[r].copy
          /\ rst'[r].parts = rst[r].parts /\ rst'[r].left = rst[r].left /\ x \in Roles
      BY <1>10, UnwindMoves DEF PayloadSame, WorkSame
    <2>3. Range(rst[r].left) = {x} \cup Range(Tail(rst'[r].left))
      BY <1>4, <2>1, <2>2, TailRange
    <2> HIDE DEF x
    <2>4. CopyKept(r)' /\ (~broken' => CopyGood(r)') /\ rst'[r].pc \in Replacing /\ rst[r].pc \in Replacing
      BY <1>2, <2>1, <2>2 DEF CopyKept, CopyGood, Replacing
    <2>5. x \in PresentRoles(rst[r].parts)
      BY <1>2, <2>1, <2>3 DEF ProgressOf
    <2>6. ~broken => copies[rst[r].copy].parts[x] = good[x]
      BY <1>2, <2>4, <2>5 DEF CopyGood
    <2>7. \A y \in Roles : live'[y] = IF y = x THEN copies[rst[r].copy].parts[x] ELSE live[y]
      BY <1>5, <2>1, <2>2 DEF Parts
    <2>8. ~broken => \A y \in Roles : y \notin Range(rst[r].left) => live[y] = good[y]
      BY <1>2, <2>1 DEF LiveOf
    <2>9. ~broken' => LiveOf(r)'
      BY <2>1, <2>2, <2>3, <2>6, <2>7, <2>8 DEF LiveOf
    <2> QED
      BY <1>0, <2>2, <2>4, <2>9, WholeByOwner
  <1>11. CASE RollbackFails(r)
    <2>1. rst[r].pc = "rollback" /\ UNCHANGED copies /\ broken' = TRUE
      BY <1>11 DEF RollbackFails
    <2>2. OthersSame(r) /\ rst'[r].pc = "rollback" /\ rst'[r].copy = rst[r].copy
      BY <1>11, BackMoves
    <2>3. CopyKept(r)'
      BY <1>2, <2>1, <2>2 DEF CopyKept
    <2> QED
      BY <1>0, <2>1, <2>2, <2>3, WholeByOwner
  <1>12. CASE RolledBack(r)
    <2>1. /\ rst[r].pc = "rollback" /\ rst[r].left = <<>> /\ rst' = [rst EXCEPT ![r] = NoRestore]
          /\ UNCHANGED <<live, good, broken, copies>>
      BY <1>12 DEF RolledBack, fileVars, histVars
    <2>2. OthersSame(r) /\ rst'[r].pc = "idle"
      BY <2>1, IdleMoves
    <2>3. Range(rst[r].left) = {}
      BY <1>4, <2>1, EmptyRange
    <2>4. ~broken => \A y \in Roles : live[y] = good[y]
      BY <1>2, <2>1, <2>3 DEF LiveOf
    <2>5. ~broken' => live' = good'
      BY <1>5, <2>1, <2>4 DEF Parts
    <2>6. CopyKept(r)' /\ CopyGood(r)' /\ LiveOf(r)'
      BY <2>2 DEF CopyKept, CopyGood, LiveOf, Replacing
    <2> QED
      BY <1>0, <2>2, <2>5, <2>6, WholeByOwner
  <1>13. CASE CarriedOver(r)
    <2>1. /\ rst[r].pc = "carry" /\ rst' = [rst EXCEPT ![r].pc = "portal"]
          /\ UNCHANGED <<live, broken, copies>> /\ good' = Restored(r)
      BY <1>13 DEF CarriedOver
    <2>2. OthersSame(r) /\ rst'[r].pc = "portal"
      BY <1>0, <2>1, PcMoves DEF RestorePcs
    <2>3. Range(rst[r].done) = PresentRoles(rst[r].parts)
      BY <1>2, <2>1 DEF ProgressOf
    <2>4. ~broken => \A y \in Roles : live[y] = Restored(r)[y]
      BY <1>2, <2>1, <2>3 DEF LiveOf, Restored, PresentRoles
    <2>5. Restored(r) = [y \in Roles |-> Restored(r)[y]] /\ live = [y \in Roles |-> live[y]]
      BY <1>5 DEF Restored, Parts
    <2>6. ~broken' => live' = good'
      BY <2>1, <2>4, <2>5
    <2>7. CopyKept(r)' /\ CopyGood(r)' /\ LiveOf(r)'
      BY <2>2 DEF CopyKept, CopyGood, LiveOf, Replacing
    <2> QED
      BY <1>0, <2>2, <2>6, <2>7, WholeByOwner
  <1>14. CASE SidecarsUnwound(r)
    <2>1. rst[r].pc = "unwind" /\ UNCHANGED <<live, good, broken, copies>>
      BY <1>14 DEF SidecarsUnwound
    <2>2. /\ OthersSame(r) /\ rst'[r].pc = "rollback" /\ rst'[r].copy = rst[r].copy
          /\ rst'[r].parts = rst[r].parts /\ rst'[r].left = Tail(rst[r].left)
      BY <1>14, BackMoves DEF PayloadSame
    <2>3. CopyKept(r)' /\ (~broken' => CopyGood(r)') /\ rst'[r].pc \in Replacing
      BY <1>2, <2>1, <2>2 DEF CopyKept, CopyGood, Replacing
    <2>4. ~broken' => LiveOf(r)'
      BY <1>2, <2>1, <2>2 DEF LiveOf
    <2> QED
      BY <1>0, <2>2, <2>3, <2>4, WholeByOwner
  <1>15. CASE SnapshotFails(r)
    <2>1. /\ rst[r].pc = "snapshot" /\ rst' = [rst EXCEPT ![r] = NoRestore]
          /\ UNCHANGED <<live, good, broken>>
      BY <1>15 DEF SnapshotFails, fileVars
    <2>2. OthersSame(r) /\ rst'[r].pc = "idle"
      BY <2>1, IdleMoves
    <2>3. CopyKept(r)' /\ CopyGood(r)' /\ LiveOf(r)'
      BY <2>2 DEF CopyKept, CopyGood, LiveOf, Replacing
    <2>4. ~broken' => live' = good'
      BY <1>3, <2>1 DEF Replacing
    <2> QED
      BY <1>0, <2>2, <2>3, <2>4, WholeByOwner
  <1> QED
    BY <1>6, <1>7, <1>8, <1>9, <1>10, <1>11, <1>12, <1>13, <1>14, <1>15

LEMMA WholeStep ==
  ASSUME Typed, Alone, Progress, Whole, [Next]_vars
  PROVE  Whole'
  <1>a. ASSUME UNCHANGED <<live, good, broken, copies, rst>> PROVE Whole'
    BY <1>a, WholeQuiet DEF Quiet
  <1>1. ASSUME NEW c \in Creators, Backup(c) PROVE Whole'
    BY <1>1, <1>a, BackupFrame DEF fileVars
  <1>2. ASSUME NEW r \in Restores, Restore(r) PROVE Whole'
    BY <1>2, QuietSteps, WholeQuiet, WholeReplacing
  <1>3. ASSUME NEW up \in Uploads, NEW d \in BOOLEAN, Upload(up[1], up[2], d) PROVE Whole'
    BY <1>3, <1>a DEF Upload, fileVars
  <1>4. ASSUME NEW i \in DOMAIN archives, DeleteArchive(i) PROVE Whole'
    BY <1>4, <1>a DEF DeleteArchive, fileVars, histVars
  <1>5. ASSUME NEW k \in DOMAIN copies, DeleteCopy(k) PROVE Whole'
    <2>1. /\ UNCHANGED <<live, good, rst>>
          /\ broken' = (broken \/ \E r \in Restores : rst[r].copy = k)
      BY <1>5 DEF DeleteCopy, fileVars
    <2>2. ASSUME NEW r \in Restores PROVE CopyKept(r)' /\ (~broken' => CopyGood(r)' /\ LiveOf(r)')
      <3>1. CopyKept(r) /\ (~broken => CopyGood(r) /\ LiveOf(r))
        BY DEF Whole
      <3>2. rst[r].pc \in Replacing => rst[r].copy \in DOMAIN copies
        BY ArchiveTypes DEF Typed, CopiesTyped, RestoreRec
      <3>3. /\ \A j \in DOMAIN copies : copies'[j] = IF j = k THEN Gone(copies[j], "deleted") ELSE copies[j]
            /\ Gone(copies[k], "deleted").st = "deleted"
        BY <1>5, CopyDeleted, ArchiveTypes, GoneType
      <3>4. CopyKept(r)'
        BY <2>1, <3>1, <3>2, <3>3 DEF CopyKept
      <3>5. ~broken' => CopyGood(r)'
        BY <2>1, <3>1, <3>2, <3>3 DEF CopyGood
      <3>6. ~broken' => LiveOf(r)'
        BY <2>1, <3>1 DEF LiveOf
      <3> QED
        BY <3>4, <3>5, <3>6
    <2>3. ~broken' /\ (\A r \in Restores : rst'[r].pc \notin Replacing) => live' = good'
      BY <2>1 DEF Whole
    <2> QED
      BY <2>2, <2>3 DEF Whole
  <1>6. ASSUME NEW x \in Written, RequestWrites(x) PROVE Whole'
    BY <1>6, <1>a DEF RequestWrites, histVars
  <1>7. CASE Crash
    <2>1. /\ UNCHANGED <<live, good, copies>> /\ PanelEnds
          /\ broken' = (broken \/ \E r \in Restores : HalfDone(r))
      BY <1>7 DEF Crash, fileVars
    <2>2. \A r \in Restores : rst'[r].pc = "idle"
      BY <2>1, EndMoves
    <2>3. ASSUME ~broken' PROVE live = good
      <3>1. ~broken /\ \A r \in Restores : ~HalfDone(r)
        BY <2>1, <2>3
      <3>2. CASE \A r \in Restores : rst[r].pc \notin Replacing
        BY <3>1, <3>2 DEF Whole
      <3>3. ASSUME NEW r \in Restores, rst[r].pc \in Replacing PROVE live = good
        <4>1. ~HalfDone(r) /\ LiveOf(r) /\ ProgressOf(r)
          BY <3>1 DEF Whole, Progress
        <4>2. rst[r].pc \in {"replace", "rollback", "unwind"} /\ rst[r].done = <<>>
          BY <3>3, <4>1 DEF HalfDone, ProgressOf, Replacing
        <4>3. /\ rst[r].done \in Seq(Roles) /\ rst[r].left \in Seq(Roles)
              /\ live \in Parts /\ good \in Parts
          BY DEF Typed, FilesTyped, CopiesTyped, RestoreRec
        <4>4. Range(rst[r].done) = {} /\ (Range(rst[r].left) = {} => rst[r].left = <<>>)
          BY <4>2, <4>3, EmptyRange
        <4>a. rst[r].pc # "unwind"
          BY <4>1, <4>4 DEF ProgressOf
        <4>5. \A x \in Roles : live[x] = good[x]
          BY <4>1, <4>2, <4>4, <4>a DEF LiveOf, ProgressOf
        <4> QED
          BY <4>3, <4>5 DEF Parts
      <3> QED
        BY <3>2, <3>3
    <2>4. \A r \in Restores : CopyKept(r)' /\ CopyGood(r)' /\ LiveOf(r)'
      BY <2>2 DEF CopyKept, CopyGood, LiveOf, Replacing
    <2> QED
      BY <2>1, <2>3, <2>4 DEF Whole
  <1>8. CASE UNCHANGED vars
    BY <1>8, <1>a DEF vars, fileVars, histVars
  <1>9. ASSUME NEW u \in Updates, BotRefused(u) PROVE Whole'
    BY <1>9, <1>a DEF BotRefused, histVars
  <1> QED
    BY <1>1, <1>2, <1>3, <1>4, <1>5, <1>6, <1>7, <1>8, <1>9 DEF Next

LEMMA RestoreWhole == Spec => []Whole
  <1>1. Init => Whole
    BY DEF Init, Whole, CopyKept, CopyGood, LiveOf, NoRestore, Replacing
  <1>2. Typed /\ Alone /\ Progress /\ Whole /\ [Next]_vars => Whole'
    BY WholeStep
  <1> QED
    BY <1>1, <1>2, RestoreTyped, RestoreAlone, RestoreProgress, PTL DEF Spec

\* OwnerAlone and the types of RestoreInv: only the restore that owns the pause is
\* past it, and only files it replaced differ from the last consistent set.
THEOREM OnlyTheOwnerReplaces == Spec => []RestoreInv
  <1>1. ASSUME Typed, Alone, Progress, Whole PROVE RestoreInv
    <2>1. \A i \in DOMAIN archives : archives[i] \in Archive
      BY <1>1, ArchiveTypes
    <2>2. \A i \in DOMAIN copies : copies[i] \in Copy
      BY <1>1, ArchiveTypes
    <2>3. ASSUME NEW c \in Creators PROVE job[c].pc \in JobPcs /\ job[c].at \in 0..Len(archives)
      BY <1>1, JobTypes DEF Job
    <2>4. ASSUME NEW r \in Restores PROVE rst[r].pc \in RestorePcs /\ rst[r].copy \in 0..Len(copies)
      <3>1. rst[r] \in RestoreRec /\ rst[r].copy <= Len(copies) /\ Len(copies) \in Nat
        BY <1>1, ArchiveTypes DEF Typed, CopiesTyped
      <3> QED
        BY <3>1 DEF RestoreRec
    <2>5. TypeOK
      BY <1>1, <2>1, <2>2, <2>3, <2>4
         DEF TypeOK, Typed, FilesTyped, CountersTyped, Alone, Parts
    <2>6. ASSUME NEW r \in Restores PROVE rst[r].pc \notin {"idle", "pause"} => owner = {r} /\ running = {}
      BY <1>1 DEF Alone, Past
    <2>7. ASSUME NEW r \in Restores, rst[r].pc \in Replacing, ~broken, NEW x \in Roles, live[x] # good[x]
          PROVE  \E n \in DOMAIN rst[r].done : rst[r].done[n] = x
      <3>1. LiveOf(r) /\ ProgressOf(r)
        BY <1>1, <2>7 DEF Whole, Progress
      <3>a. rst[r].pc = "unwind" => Range(Tail(rst[r].left)) \subseteq Range(rst[r].left)
        <4>1. rst[r].left \in Seq(Roles)
          BY <1>1 DEF Typed, CopiesTyped, RestoreRec
        <4>2. rst[r].pc = "unwind" => rst[r].left # <<>>
          BY <3>1 DEF ProgressOf
        <4> QED
          BY <4>1, <4>2, TailRange
      <3>2. x \in Range(rst[r].done)
        BY <2>7, <3>1, <3>a DEF LiveOf, ProgressOf, Replacing
      <3> QED
        BY <3>2 DEF Range
    <2>8. OwnerAlone
      BY <2>6, <2>7 DEF OwnerAlone
    <2> QED
      BY <2>5, <2>8 DEF RestoreInv
  <1> QED
    BY <1>1, RestoreTyped, RestoreAlone, RestoreProgress, RestoreWhole, PTL

\* A restore replaces all of its files or none.
THEOREM RestoresAreWhole == Spec => []AllOrNothing
  <1>1. Whole => AllOrNothing
    BY DEF Whole, AllOrNothing
  <1> QED
    BY <1>1, RestoreWhole, PTL

\* As long as a restore may have to go back, its copy is there and holds the last
\* consistent versions of the files it replaces.
THEOREM RestoresCanGoBack == Spec => []CopyProtectsRestore
  <1>1. ASSUME Whole PROVE CopyProtectsRestore
    <2>1. ASSUME NEW r \in Restores, rst[r].pc \in Replacing
          PROVE  /\ copies[rst[r].copy].st # "pruned"
                 /\ ~broken => \A x \in Roles : rst[r].parts[x] # Absent =>
                                  copies[rst[r].copy].parts[x] = good[x]
      BY <1>1, <2>1 DEF Whole, CopyKept, CopyGood, PresentRoles
    <2> QED
      BY <2>1 DEF CopyProtectsRestore
  <1> QED
    BY <1>1, RestoreWhole, PTL

-----------------------------------------------------------------------------
(* Frames beside a replaced database.                                      *)

\* Only a write of the file, in the restore or in its rollback, leaves the frames of
\* another one beside a database, and only a fault leaves them there.
LEMMA ForeignFrames ==
  ASSUME Typed, [Next]_vars, NEW x \in SqliteRoles
  PROVE  /\ wal'[x] = "foreign" =>
               \/ wal[x] = "foreign"
               \/ \E r \in Restores : (FileReplaced(r) \/ FileRolledBack(r)) /\ x = Head(rst[r].left)
         /\ wal'[x] = "stuck" => wal[x] = "stuck" \/ Fault
  <1> DEFINE Kept == wal'[x] \in {"foreign", "stuck"} => wal[x] = wal'[x]
  <1>0. wal \in [SqliteRoles -> {"none", "own", "foreign", "stuck"}]
    BY DEF Typed, FilesTyped
  <1>a. ASSUME wal' = wal PROVE Kept
    BY <1>a
  <1>1. ASSUME NEW c \in Creators, Backup(c) PROVE Kept
    BY <1>1, BackupFrame DEF fileVars
  <1>2. ASSUME NEW r \in Restores, Restore(r)
        PROVE  \/ Kept
               \/ wal'[x] = "stuck" /\ Fault
               \/ wal'[x] = "foreign" /\ (FileReplaced(r) \/ FileRolledBack(r)) /\ x = Head(rst[r].left)
    <2>1. CASE FileReplaced(r)
      BY <1>0, <2>1 DEF FileReplaced, Put
    <2>2. CASE SidecarsRemoved(r)
      BY <1>0, <2>2 DEF SidecarsRemoved, RemoveSidecars
    <2>3. CASE FileRolledBack(r)
      BY <1>0, <2>3 DEF FileRolledBack, Put
    <2>8. CASE SidecarsUnwound(r)
      BY <1>0, <2>8 DEF SidecarsUnwound, RemoveSidecars
    <2>4. ASSUME NEW i \in DOMAIN archives, RestoreLoads(r, i) PROVE Kept
      BY <2>4 DEF RestoreLoads, fileVars
    <2>5. ASSUME NEW i \in DOMAIN archives, NEW u \in Updates, BotRestores(r, i, u) PROVE Kept
      BY <2>5 DEF BotRestores
    <2>6. ASSUME NEW k \in DOMAIN copies, RollbackLoads(r, k) PROVE Kept
      BY <2>6 DEF RollbackLoads, fileVars
    <2>7. ASSUME \/ Paused(r) \/ Refused(r) \/ OverlaysApplied(r) \/ SnapshotTaken(r) \/ SnapshotFails(r)
                 \/ NothingToReplace(r) \/ ReplaceFails(r) \/ RollbackFails(r) \/ RolledBack(r)
                 \/ CarriedOver(r) \/ PortalSynced(r) \/ RestartFails(r) \/ Restarts(r)
          PROVE  wal' = wal
      BY <2>7 DEF Paused, Refused, OverlaysApplied, SnapshotTaken, SnapshotFails, NothingToReplace,
           ReplaceFails, RollbackFails, RolledBack, CarriedOver, PortalSynced, RestartFails, Restarts, fileVars
    <2>9. CASE wal' = wal
      BY <1>a, <2>9
    <2> HIDE DEF Kept
    <2> QED
      BY <1>2, <2>1, <2>2, <2>3, <2>4, <2>5, <2>6, <2>7, <2>8, <2>9 DEF Restore
  <1>3. ASSUME NEW up \in Uploads, NEW d \in BOOLEAN, Upload(up[1], up[2], d) PROVE Kept
    BY <1>3 DEF Upload, fileVars
  <1>4. ASSUME NEW i \in DOMAIN archives, DeleteArchive(i) PROVE Kept
    BY <1>4 DEF DeleteArchive, fileVars
  <1>5. ASSUME NEW k \in DOMAIN copies, DeleteCopy(k) PROVE Kept
    BY <1>5 DEF DeleteCopy, fileVars
  <1>6. ASSUME NEW y \in Written, RequestWrites(y) PROVE Kept
    BY <1>0, <1>6 DEF RequestWrites
  <1>7. CASE Crash
    BY <1>7 DEF Crash, fileVars
  <1>8. CASE UNCHANGED vars
    BY <1>8 DEF vars, fileVars
  <1>9. ASSUME NEW u \in Updates, BotRefused(u) PROVE Kept
    BY <1>9 DEF BotRefused
  <1>10. CASE Kept
    BY <1>10
  <1>11. ASSUME NEW r \in Restores, Restore(r)
         PROVE  /\ wal'[x] = "foreign" =>
                      \/ wal[x] = "foreign"
                      \/ (FileReplaced(r) \/ FileRolledBack(r)) /\ x = Head(rst[r].left)
                /\ wal'[x] = "stuck" => wal[x] = "stuck" \/ Fault
    BY <1>2, <1>11
  <1> HIDE DEF Kept
  <1> QED
    BY <1>1, <1>3, <1>4, <1>5, <1>6, <1>7, <1>8, <1>9, <1>10, <1>11 DEF Next

\* A restore is between a database and its sidecars until they are removed, cannot be,
\* or the panel crashes.
LEMMA BetweenEnds ==
  ASSUME Typed, Alone, Progress, [Next]_vars, NEW r \in Restores, NEW x \in SqliteRoles,
         BesideOldFrames(r, x)
  PROVE  BesideOldFrames(r, x)' \/ wal'[x] # "foreign" \/ broken'
  <1>a. ASSUME rst'[r] = rst[r] PROVE BesideOldFrames(r, x)'
    BY <1>a DEF BesideOldFrames
  <1>b. Past(r) /\ rst[r].pc \in {"sidecars", "unwind"}
    BY DEF BesideOldFrames, Past
  <1>1. ASSUME NEW c \in Creators, Backup(c) PROVE BesideOldFrames(r, x)'
    BY <1>1, <1>a, BackupFrame
  <1>2. ASSUME NEW q \in Restores, q # r, Restore(q) PROVE BesideOldFrames(r, x)'
    <2>1. ~Past(q)
      BY <1>2, <1>b DEF Alone
    <2>2. ~Restarts(q)
      BY <2>1 DEF Restarts, Past
    <2>3. rst'[r] = rst[r]
      BY <1>2, <2>2, RestoreAtGate DEF OthersSame
    <2> QED
      BY <1>a, <2>3
  <1>3. ASSUME Restore(r) PROVE wal'[x] # "foreign"
    <2>1. SidecarsRemoved(r) \/ SidecarsUnwound(r)
      BY <1>3, <1>b DEF Restore, RestoreLoads, BotRestores, RollbackLoads, Paused, Refused,
           OverlaysApplied, SnapshotTaken, NothingToReplace, SnapshotFails, FileReplaced, ReplaceFails,
           FileRolledBack, RollbackFails, RolledBack, CarriedOver, PortalSynced, RestartFails, Restarts
    <2>2. RemoveSidecars(x)
      BY <2>1 DEF SidecarsRemoved, SidecarsUnwound, BesideOldFrames
    <2> QED
      BY <2>2 DEF RemoveSidecars
  <1>4. ASSUME NEW up \in Uploads, NEW d \in BOOLEAN, Upload(up[1], up[2], d) PROVE BesideOldFrames(r, x)'
    BY <1>4, <1>a DEF Upload
  <1>5. ASSUME NEW i \in DOMAIN archives, DeleteArchive(i) PROVE BesideOldFrames(r, x)'
    BY <1>5, <1>a DEF DeleteArchive
  <1>6. ASSUME NEW k \in DOMAIN copies, DeleteCopy(k) PROVE BesideOldFrames(r, x)'
    BY <1>6, <1>a DEF DeleteCopy
  <1>7. ASSUME NEW y \in Written, RequestWrites(y) PROVE BesideOldFrames(r, x)'
    BY <1>7, <1>a DEF RequestWrites
  <1>8. CASE Crash
    <2>1. rst[r].done # <<>>
      <3>1. CASE rst[r].pc = "sidecars"
        BY <3>1 DEF Progress, ProgressOf
      <3>2. CASE rst[r].pc = "unwind"
        <4>1. /\ rst[r].left # <<>> /\ Range(rst[r].left) \subseteq Range(rst[r].done)
              /\ rst[r].left \in Seq(Roles) /\ rst[r].done \in Seq(Roles)
          BY <3>2 DEF Progress, ProgressOf, Typed, CopiesTyped, RestoreRec
        <4>2. Range(rst[r].left) # {}
          BY <4>1, EmptyRange
        <4>3. rst[r].done = <<>> => Range(rst[r].done) = {}
          BY <4>1, EmptyRange
        <4> QED
          BY <4>1, <4>2, <4>3
      <3> QED
        BY <1>b, <3>1, <3>2
    <2> QED
      BY <1>8, <1>b, <2>1 DEF Crash, HalfDone
  <1>9. CASE UNCHANGED vars
    BY <1>9, <1>a DEF vars
  <1>10. ASSUME NEW u \in Updates, BotRefused(u) PROVE BesideOldFrames(r, x)'
    BY <1>10, <1>a DEF BotRefused
  <1> QED
    BY <1>1, <1>2, <1>3, <1>4, <1>5, <1>6, <1>7, <1>8, <1>9, <1>10 DEF Next

\* A lost way back stays lost.
LEMMA BrokenStays ==
  ASSUME [Next]_vars, broken
  PROVE  broken'
  <1>1. ASSUME NEW c \in Creators, Backup(c) PROVE broken'
    BY <1>1, BackupFrame
  <1>2. ASSUME NEW r \in Restores, Restore(r) PROVE broken'
    BY <1>2 DEF Restore, RestoreLoads, BotRestores, RollbackLoads, Paused, Refused,
         OverlaysApplied, SnapshotTaken, NothingToReplace, SnapshotFails, FileReplaced, SidecarsRemoved,
         ReplaceFails, FileRolledBack, SidecarsUnwound, RollbackFails,
         RolledBack, CarriedOver, PortalSynced, RestartFails, Restarts, histVars
  <1> QED
    BY <1>1, <1>2 DEF Next, Upload, DeleteArchive, DeleteCopy, BotRefused, RequestWrites, Crash, vars, histVars

\* A step after which there has been no fault is not a fault.
LEMMA FaultsStay ==
  ASSUME Typed, [Next]_vars, faults' = 0
  PROVE  faults = 0 /\ ~Fault
  <1>0. faults \in Nat
    BY DEF Typed, CountersTyped
  <1>1. ~Fault
    BY <1>0 DEF Fault
  <1>2. ASSUME NEW c \in Creators, Backup(c) PROVE Fault \/ UNCHANGED faults
    BY <1>2, BackupFrame
  <1>3. ASSUME NEW r \in Restores, Restore(r) PROVE Fault \/ UNCHANGED faults
    BY <1>3 DEF Restore, RestoreLoads, BotRestores, RollbackLoads, Paused, Refused,
         OverlaysApplied, SnapshotTaken, NothingToReplace, SnapshotFails, FileReplaced, SidecarsRemoved,
         RemoveSidecars, ReplaceFails, FileRolledBack, SidecarsUnwound, RollbackFails,
         RolledBack, CarriedOver, PortalSynced, RestartFails, Restarts, histVars
  <1>4. Fault \/ UNCHANGED faults
    BY <1>2, <1>3 DEF Next, Upload, DeleteArchive, DeleteCopy, BotRefused, RequestWrites, Crash, vars, histVars
  <1> QED
    BY <1>1, <1>4

\* A database is beside the frames of the file it replaced only until the step that
\* removes the sidecars, in a restore as in its rollback, unless that step met an
\* OSError, which remove_sqlite_sidecars passes over, or the way back was lost.
THEOREM NoOldFramesRemain == Spec => []NoForeignWal
  <1>1. Init => NoForeignWal
    BY DEF Init, NoForeignWal
  <1>2. ASSUME Typed, Alone, Progress, NoForeignWal, [Next]_vars, Typed' PROVE NoForeignWal'
    <2>0. faults \in Nat /\ faults' \in Nat
      BY <1>2, BoundsAssumption DEF Typed, CountersTyped
    <2>1. ASSUME ~broken', NEW x \in SqliteRoles, wal'[x] = "foreign"
          PROVE  \E r \in Restores : BesideOldFrames(r, x)'
      <3>1. ~broken
        BY <1>2, <2>1, BrokenStays
      <3>2. CASE wal[x] = "foreign"
        <4>1. PICK r \in Restores : BesideOldFrames(r, x)
          BY <1>2, <3>1, <3>2 DEF NoForeignWal
        <4>2. BesideOldFrames(r, x)'
          BY <1>2, <2>1, <4>1, BetweenEnds
        <4> QED
          BY <4>2
      <3>3. ASSUME NEW r \in Restores, FileReplaced(r), x = Head(rst[r].left)
            PROVE  BesideOldFrames(r, x)'
        <4>2. /\ rst'[r].pc = "sidecars" /\ rst'[r].done = Append(rst[r].done, x)
              /\ rst[r].done \in Seq(Roles) /\ x \in Roles
          BY <1>2, <3>3, ReplaceMoves
        <4>3. rst'[r].done[Len(rst'[r].done)] = x
          BY <4>2, AppendRange
        <4> QED
          BY <4>2, <4>3 DEF BesideOldFrames
      <3>4. ASSUME NEW r \in Restores, FileRolledBack(r), x = Head(rst[r].left)
            PROVE  BesideOldFrames(r, x)'
        BY <1>2, <3>4, UnwindMoves DEF BesideOldFrames, WorkSame
      <3> QED
        BY <1>2, <2>1, <3>2, <3>3, <3>4, ForeignFrames
    <2>2. ASSUME ~broken', NEW x \in SqliteRoles, wal'[x] = "stuck" PROVE faults' > 0
      <3>1. SUFFICES ASSUME faults' = 0 PROVE FALSE
        BY <2>0
      <3>2. faults = 0 /\ ~Fault /\ ~broken
        BY <1>2, <2>2, <3>1, FaultsStay, BrokenStays
      <3>3. wal[x] = "stuck"
        BY <1>2, <2>2, <3>2, ForeignFrames
      <3> QED
        BY <1>2, <3>2, <3>3 DEF NoForeignWal
    <2> QED
      BY <2>1, <2>2 DEF NoForeignWal
  <1> QED
    BY <1>1, <1>2, RestoreTyped, RestoreAlone, RestoreProgress, PTL DEF Spec

\* The copy an administrator rolls back to outlives the rollback's own retention run.
THEOREM SourceOutlivesRollback == Spec => RollbackSourceStays
  <1>1. ASSUME Typed, Alone, [Next]_vars, NEW r \in Restores, NEW k \in DOMAIN copies, k = rst[r].source,
               Past(r), copies[k].st = "kept"
        PROVE  copies'[k].st # "pruned"
    <2>a. ASSUME copies'[k] = copies[k] PROVE copies'[k].st # "pruned"
      BY <1>1, <2>a
    <2>1. ASSUME NEW q \in Restores, SnapshotTaken(q) PROVE copies'[k].st # "pruned"
      <3>1. q = r
        BY <1>1, <2>1 DEF SnapshotTaken, Past, Alone
      <3> QED
        BY <1>1, <2>1, <3>1, <2>a, CopyMade
    <2>2. ASSUME NEW q \in Restores, SnapshotFails(q) PROVE copies'[k].st # "pruned"
      BY <1>1, <2>2, <2>a, CopyFailed
    <2>3. ASSUME NEW j \in DOMAIN copies, DeleteCopy(j) PROVE copies'[k].st # "pruned"
      BY <1>1, <2>3, CopyDeleted, ArchiveTypes, GoneType
    <2>4. ASSUME NEW q \in Restores, Restore(q) PROVE UNCHANGED copies \/ SnapshotTaken(q) \/ SnapshotFails(q)
      BY <2>4 DEF Restore, RestoreLoads, BotRestores, RollbackLoads, Paused, Refused,
         OverlaysApplied, NothingToReplace, FileReplaced, SidecarsRemoved, ReplaceFails, FileRolledBack,
         SidecarsUnwound, RollbackFails, RolledBack, CarriedOver, PortalSynced, RestartFails, Restarts
    <2>5. ASSUME NEW c \in Creators, Backup(c) PROVE UNCHANGED copies
      BY <2>5, BackupFrame
    <2> QED
      BY <1>1, <2>a, <2>1, <2>2, <2>3, <2>4, <2>5
         DEF Next, Upload, DeleteArchive, BotRefused, RequestWrites, Crash, vars
  <1>2. ASSUME Typed, Alone, [Next]_vars
        PROVE  [\A r \in Restores :
                  LET k == rst[r].source IN
                  (rst[r].pc \notin {"idle", "pause"} /\ k \in DOMAIN copies /\ copies[k].st = "kept")
                      => copies'[k].st # "pruned"]_vars
    BY <1>1, <1>2 DEF Past
  <1> QED
    BY <1>2, RestoreTyped, RestoreAlone, PTL DEF Spec, RollbackSourceStays

-----------------------------------------------------------------------------
(* Auto-backups.                                                           *)

\* What an auto-backup has read is of the last consistent set.
ReadsWhole ==
    ~broken => \A c \in Steps : job[c].pc = "writing" =>
        \A x \in Roles : x \notin Range(job[c].left) => job[c].parts[x] = good[x]

LEMMA RoleOrderRange == Range(RoleOrder) = Roles
  <1>1. Len(RoleOrder) = 3 /\ RoleOrder[1] = "db" /\ RoleOrder[2] = "cidr" /\ RoleOrder[3] = "env"
    BY DEF RoleOrder
  <1>2. Range(RoleOrder) = {RoleOrder[i] : i \in 1..3}
    BY <1>1, RolesAre, RangeEquality
  <1>3. 1..3 = {1, 2, 3}
    OBVIOUS
  <1>4. Range(RoleOrder) = {"db", "cidr", "env"}
    BY <1>1, <1>2, <1>3
  <1> QED
    BY <1>4, RolesAre

\* While an auto-backup runs, the files in place are the last consistent set.
LEMMA StepSeesGood ==
  ASSUME Typed, Alone, Whole, ~broken, NEW c \in Steps, job[c].pc # "idle"
  PROVE  live = good /\ \A r \in Restores : ~Past(r)
  <1>1. \A r \in Restores : ~Past(r)
    BY DEF Alone
  <1> QED
    BY <1>1 DEF Whole, Past, Replacing

LEMMA GoodMoves ==
  ASSUME [Next]_vars
  PROVE  UNCHANGED good \/ \E r \in Restores : CarriedOver(r)
  <1>1. ASSUME NEW c \in Creators, Backup(c) PROVE UNCHANGED good
    BY <1>1, BackupFrame
  <1>2. ASSUME NEW r \in Restores, Restore(r) PROVE UNCHANGED good \/ CarriedOver(r)
    BY <1>2 DEF Restore, RestoreLoads, BotRestores, RollbackLoads, Paused, Refused,
         OverlaysApplied, SnapshotTaken, NothingToReplace, SnapshotFails, FileReplaced, SidecarsRemoved,
         ReplaceFails, FileRolledBack, SidecarsUnwound, RollbackFails, RolledBack, PortalSynced,
         RestartFails, Restarts, histVars
  <1> QED
    BY <1>1, <1>2 DEF Next, Upload, DeleteArchive, DeleteCopy, BotRefused, RequestWrites, Crash, vars, histVars

\* Only a backup, the end of the panel and nothing else touches the jobs.
LEMMA JobMoves ==
  ASSUME Typed, [Next]_vars
  PROVE  UNCHANGED job \/ PanelEnds \/ \E c \in Creators : Backup(c)
  <1>1. ASSUME NEW r \in Restores, Restore(r) PROVE UNCHANGED job \/ PanelEnds
    BY <1>1, RestoreAtGate DEF Restarts
  <1> QED
    BY <1>1 DEF Next, Upload, DeleteArchive, DeleteCopy, BotRefused, RequestWrites, Crash, vars

\* How the directory of archives changes.
LEMMA ArchiveMoves ==
  ASSUME Typed, [Next]_vars
  PROVE  \/ UNCHANGED archives
         \/ \E c \in Creators : BackupAppears(c) /\ Grows(Finished(c))
         \/ \E up \in Uploads, d \in BOOLEAN : Upload(up[1], up[2], d) /\ Grows(Uploaded(up[1], up[2], d))
         \/ \E i \in DOMAIN archives : Changes(i, Described(archives[i]))
         \/ \E i \in DOMAIN archives : Changes(i, Gone(archives[i], "deleted"))
         \/ \E c \in Creators : RetentionRemoves(c)
  <1>1. ASSUME NEW c \in Creators, Backup(c)
        PROVE  \/ UNCHANGED archives
               \/ BackupAppears(c) /\ Grows(Finished(c))
               \/ \E i \in DOMAIN archives : Changes(i, Described(archives[i]))
               \/ \E i \in DOMAIN archives : Changes(i, Gone(archives[i], "deleted"))
               \/ RetentionRemoves(c)
    <2>1. CASE BackupStarts(c)
      BY <2>1 DEF BackupStarts
    <2>2. CASE BackupReads(c)
      BY <2>2 DEF BackupReads
    <2>3. CASE BackupAppears(c)
      BY <2>3, AppearMoves
    <2>4. CASE BackupDescribed(c)
      BY <2>4, DescribeMoves
    <2>5. CASE RetentionLists(c)
      BY <2>5 DEF RetentionLists
    <2>6. CASE BackupFails(c)
      BY <2>6, FailMoves
    <2> QED
      BY <1>1, <2>1, <2>2, <2>3, <2>4, <2>5, <2>6 DEF Backup
  <1>2. ASSUME NEW r \in Restores, Restore(r) PROVE UNCHANGED archives
    BY <1>2, RestoreAtGate DEF Restarts
  <1>3. ASSUME NEW i \in DOMAIN archives, DeleteArchive(i) PROVE Changes(i, Gone(archives[i], "deleted"))
    BY <1>3, DeleteMoves
  <1>4. ASSUME NEW up \in Uploads, NEW d \in BOOLEAN, Upload(up[1], up[2], d)
        PROVE  Grows(Uploaded(up[1], up[2], d))
    BY <1>4, UploadMoves
  <1> QED
    BY <1>1, <1>2, <1>3, <1>4 DEF Next, DeleteCopy, BotRefused, RequestWrites, Crash, vars

LEMMA ReadsWholeStep ==
  ASSUME Typed, Alone, Whole, ReadsWhole, [Next]_vars
  PROVE  ReadsWhole'
  <1>1. SUFFICES ASSUME ~broken', NEW c \in Steps, job'[c].pc = "writing",
                        NEW x \in Roles, x \notin Range(job'[c].left)
                 PROVE  job'[c].parts[x] = good'[x]
    BY DEF ReadsWhole
  <1>2. ~broken /\ c \in Creators
    BY <1>1, BrokenStays DEF Creators
  <1>3. CASE job'[c] = job[c]
    <2>1. job[c].parts[x] = good[x]
      BY <1>1, <1>2, <1>3 DEF ReadsWhole
    <2>2. \A r \in Restores : ~CarriedOver(r)
      BY <1>1, <1>2, <1>3, StepSeesGood DEF CarriedOver, Past
    <2> QED
      BY <1>3, <2>1, <2>2, GoodMoves
  <1>4. CASE PanelEnds
    BY <1>1, <1>2, <1>4, EndMoves
  <1>5. ASSUME NEW d \in Creators, Backup(d), d # c PROVE job'[c] = job[c]
    BY <1>2, <1>5, BackupAtGate DEF JobsSame
  <1>6. CASE Backup(c)
    <2>0. good' = good
      BY <1>2, <1>6, BackupFrame
    <2>1. CASE BackupStarts(c)
      BY <1>1, <1>2, <2>1, StartMoves, RoleOrderRange
    <2>2. CASE BackupReads(c)
      <3> DEFINE y == Head(job[c].left)
      <3>1. /\ job[c].pc = "writing" /\ job[c].left # <<>> /\ y \in Roles /\ job'[c].left = Tail(job[c].left)
            /\ job'[c].parts = [job[c].parts EXCEPT ![y] = live[y]]
        BY <1>2, <2>2, ReadMoves
      <3>2. job[c].left \in Seq(Roles) /\ job[c].parts \in Parts
        BY <1>2, JobTypes
      <3>3. Range(job[c].left) = {y} \cup Range(job'[c].left)
        BY <3>1, <3>2, TailRange
      <3>4. live = good
        BY <1>2, <3>1, StepSeesGood
      <3> HIDE DEF y
      <3>5. x # y => job[c].parts[x] = good[x]
        BY <1>1, <1>2, <3>1, <3>3 DEF ReadsWhole
      <3>6. job'[c].parts[x] = IF x = y THEN live[y] ELSE job[c].parts[x]
        BY <3>1, <3>2 DEF Parts
      <3> QED
        BY <2>0, <3>4, <3>5, <3>6
    <2>3. CASE BackupAppears(c)
      BY <1>1, <1>2, <2>3, AppearMoves
    <2>4. CASE BackupDescribed(c)
      <3>1. job'[c].pc = "retention"
        BY <1>2, <2>4, DescribeMoves, JobTypes DEF Job
      <3> QED
        BY <1>1, <3>1
    <2>5. CASE RetentionLists(c)
      <3>1. job'[c].pc = "removing"
        BY <1>2, <2>5, ListMoves, JobTypes DEF Job
      <3> QED
        BY <1>1, <3>1
    <2>6. CASE RetentionRemoves(c)
      BY <1>1, <1>2, <2>6, RemoveMoves DEF NoJob
    <2>7. CASE BackupFails(c)
      BY <1>1, <1>2, <2>7, FailMoves DEF NoJob
    <2> QED
      BY <1>6, <2>1, <2>2, <2>3, <2>4, <2>5, <2>6, <2>7 DEF Backup
  <1> QED
    BY <1>3, <1>4, <1>5, <1>6, JobMoves

\* An auto-backup holds files of one moment: it never sees half of a restore.
THEOREM AutoBackupsAreWhole == Spec => []GatedArchivesWhole
  <1>1. Init => ReadsWhole /\ GatedArchivesWhole
    BY DEF Init, ReadsWhole, GatedArchivesWhole, NoJob, Creators
  <1>2. Typed /\ Alone /\ Whole /\ ReadsWhole /\ [Next]_vars => ReadsWhole'
    BY ReadsWholeStep
  <1>3. ASSUME Typed, Alone, Whole, ReadsWhole, GatedArchivesWhole, [Next]_vars PROVE GatedArchivesWhole'
    <2>1. SUFFICES ASSUME ~broken', NEW i \in DOMAIN archives', archives'[i].gated PROVE archives'[i].whole
      BY DEF GatedArchivesWhole
    <2>2. ~broken /\ \A j \in DOMAIN archives : archives[j].gated => archives[j].whole
      BY <1>3, <2>1, BrokenStays DEF GatedArchivesWhole
    <2>3. \A j \in DOMAIN archives :
             /\ Gone(archives[j], "deleted").gated = archives[j].gated
             /\ Gone(archives[j], "deleted").whole = archives[j].whole
             /\ Gone(archives[j], "pruned").gated = archives[j].gated
             /\ Gone(archives[j], "pruned").whole = archives[j].whole
             /\ Described(archives[j]).gated = archives[j].gated
             /\ Described(archives[j]).whole = archives[j].whole
      BY <1>3, ArchiveTypes, GoneType DEF Described, Archive
    <2>4. ASSUME NEW c \in Creators, BackupAppears(c), Grows(Finished(c)) PROVE archives'[i].whole
      <3>1. CASE i \in DOMAIN archives
        BY <2>1, <2>2, <2>4, <3>1 DEF Grows
      <3>2. CASE i = Len(archives) + 1
        <4>1. archives'[i] = Finished(c)
          BY <2>4, <3>2 DEF Grows
        <4>a. /\ Finished(c).gated = (c \in Steps)
              /\ Finished(c).whole = (job[c].parts \in {job[c].world, good})
          BY Zenon DEF Finished
        <4>2. c \in Steps
          BY <2>1, <4>1, <4>a, Zenon
        <4>3. job[c].pc = "writing" /\ job[c].left = <<>>
          BY <2>4 DEF BackupAppears
        <4>4. Range(job[c].left) = {} /\ job[c].parts \in Parts /\ good \in Parts
          BY <1>3, <4>3, JobTypes, EmptyRange DEF Typed, FilesTyped
        <4>5. job[c].parts = good
          BY <1>3, <2>2, <4>2, <4>3, <4>4 DEF ReadsWhole, Parts
        <4>6. job[c].parts \in {job[c].world, good}
          BY <4>5
        <4> QED
          BY <4>1, <4>6, <4>a, Zenon
      <3> QED
        BY <2>1, <2>4, <3>1, <3>2 DEF Grows
    <2>5. ASSUME NEW up \in Uploads, NEW d \in BOOLEAN, Grows(Uploaded(up[1], up[2], d)) PROVE archives'[i].whole
      BY <2>1, <2>2, <2>5 DEF Grows, Uploaded
    <2>6. ASSUME NEW j \in DOMAIN archives, Changes(j, Described(archives[j])) PROVE archives'[i].whole
      BY <2>1, <2>2, <2>3, <2>6 DEF Changes
    <2>7. ASSUME NEW j \in DOMAIN archives, Changes(j, Gone(archives[j], "deleted")) PROVE archives'[i].whole
      BY <2>1, <2>2, <2>3, <2>7 DEF Changes
    <2>8. ASSUME NEW c \in Creators, RetentionRemoves(c) PROVE archives'[i].whole
      BY <1>3, <2>1, <2>2, <2>3, <2>8, RemoveMoves DEF Retained
    <2> QED
      BY <1>3, <2>1, <2>2, <2>4, <2>5, <2>6, <2>7, <2>8, ArchiveMoves
  <1> QED
    BY <1>1, <1>2, <1>3, RestoreTyped, RestoreAlone, RestoreWhole, PTL DEF Spec

-----------------------------------------------------------------------------
(* Retention.                                                              *)

\* The backups after one that are complete or were until somebody deleted them.
Newer(a, i) == {j \in DOMAIN a : j > i /\ a[j].st \in {"complete", "deleted"}}
Behind(a, i) == Cardinality(Newer(a, i)) >= Count

\* What retention removed, and what it has chosen to remove, is behind Count others.
RetentionInv ==
    /\ \A i \in DOMAIN archives : archives[i].st = "pruned" => Behind(archives, i)
    /\ \A c \in Creators : \A i \in job[c].doomed : i \in DOMAIN archives /\ Behind(archives, i)

LEMMA LatestOf ==
  ASSUME NEW n \in Nat, NEW T \in SUBSET (1..n), T # {}
  PROVE  \E d \in T : \A e \in T : e <= d
  <1> DEFINE U == {n - e : e \in T}
  <1>1. U \in SUBSET Nat /\ U # {}
    <2>1. \A e \in T : e \in 1..n /\ n - e \in Nat
      OBVIOUS
    <2>2. PICK e \in T : TRUE
      OBVIOUS
    <2>3. n - e \in U
      OBVIOUS
    <2> QED
      BY <2>1, <2>3
  <1>2. PICK m \in U : \A e \in U : ~(<<e, m>> \in OpToRel(<, Nat))
    BY <1>1, NatLessThanWellFounded, WFMin
  <1>3. PICK d \in T : m = n - d
    BY <1>2
  <1>4. ASSUME NEW e \in T PROVE e <= d
    <2>1. n - e \in U /\ n - e \in Nat /\ m \in Nat
      BY <1>1, <1>2
    <2>2. ~(n - e < m)
      BY <1>2, <2>1 DEF OpToRel
    <2> QED
      BY <1>3, <2>2
  <1> QED
    BY <1>4

LEMMA NewerFinite ==
  ASSUME NEW a, NEW n \in Nat, DOMAIN a = 1..n, NEW i
  PROVE  IsFiniteSet(Newer(a, i)) /\ Cardinality(Newer(a, i)) \in Nat
  <1>1. IsFiniteSet(1..n)
    BY FS_Interval
  <1>2. Newer(a, i) \subseteq 1..n
    BY DEF Newer
  <1> QED
    BY <1>1, <1>2, FS_Subset, FS_CardinalityType

\* A larger set of newer backups leaves what was behind Count of them behind.
LEMMA BehindGrows ==
  ASSUME NEW a, NEW i, NEW b, NEW j, NEW n \in Nat, DOMAIN b = 1..n,
         Newer(a, i) \subseteq Newer(b, j), Behind(a, i)
  PROVE  Behind(b, j)
  <1>1. IsFiniteSet(Newer(b, j)) /\ Cardinality(Newer(b, j)) \in Nat
    BY NewerFinite
  <1>2. IsFiniteSet(Newer(a, i)) /\ Cardinality(Newer(a, i)) <= Cardinality(Newer(b, j))
    BY <1>1, FS_Subset
  <1>3. Cardinality(Newer(a, i)) \in Nat
    BY <1>2, FS_CardinalityType
  <1> QED
    BY <1>1, <1>2, <1>3, CountAssumption DEF Behind

\* Removing archives that are themselves behind Count newer ones keeps every archive
\* behind that many: the newest of those removed still has all of its newer ones.
LEMMA BehindPruned ==
  ASSUME Typed, NEW c \in Creators, RetentionRemoves(c),
         \A i \in job[c].doomed : i \in DOMAIN archives /\ Behind(archives, i),
         NEW i \in DOMAIN archives, Behind(archives, i)
  PROVE  Behind(archives', i)
  <1> DEFINE D == {j \in DOMAIN archives : j \in job[c].doomed /\ archives[j].st = "complete" /\ j > i}
  <1>1. /\ DOMAIN archives' = DOMAIN archives
        /\ \A j \in DOMAIN archives : archives'[j] = Retained(c, j)
    BY RemoveMoves
  <1>2. Len(archives) \in Nat /\ DOMAIN archives = 1..Len(archives) /\ \A j \in DOMAIN archives : archives[j] \in Archive
    BY ArchiveTypes
  <1>3. ASSUME NEW j \in DOMAIN archives, j \notin job[c].doomed \/ archives[j].st # "complete",
               archives[j].st \in {"complete", "deleted"}
        PROVE  archives'[j] = archives[j]
    BY <1>1, <1>3 DEF Retained, OnDisk
  <1>4. CASE D = {}
    <2>1. Newer(archives, i) \subseteq Newer(archives', i)
      BY <1>1, <1>3, <1>4 DEF Newer
    <2> QED
      BY <1>1, <1>2, <2>1, BehindGrows
  <1>5. CASE D # {}
    <2>1. D \in SUBSET (1..Len(archives))
      BY <1>2
    <2>2. PICK d \in D : \A e \in D : e <= d
      BY <1>2, <1>5, <2>1, LatestOf
    <2>3. d \in DOMAIN archives /\ d \in Nat /\ i \in Nat /\ d > i /\ Behind(archives, d)
      BY <1>2, <2>2
    <2>4. ASSUME NEW j \in Newer(archives, d) PROVE j \in Newer(archives', i)
      <3>1. j \in DOMAIN archives /\ j > d /\ j \in Nat /\ archives[j].st \in {"complete", "deleted"}
        BY <1>2 DEF Newer
      <3>2. j > i
        BY <2>3, <3>1
      <3>3. j \notin D
        BY <2>2, <2>3, <3>1
      <3>4. archives'[j] = archives[j]
        BY <1>3, <3>1, <3>2, <3>3
      <3> QED
        BY <1>1, <3>1, <3>2, <3>4 DEF Newer
    <2>5. Newer(archives, d) \subseteq Newer(archives', i)
      BY <2>4
    <2> QED
      BY <1>1, <1>2, <2>3, <2>5, BehindGrows
  <1> QED
    BY <1>4, <1>5

\* Every step keeps an archive behind Count newer ones.
LEMMA BehindStays ==
  ASSUME Typed, RetentionInv, [Next]_vars, NEW i \in DOMAIN archives, Behind(archives, i)
  PROVE  i \in DOMAIN archives' /\ Behind(archives', i)
  <1>1. Len(archives) \in Nat /\ DOMAIN archives = 1..Len(archives)
    BY ArchiveTypes
  <1>2. ASSUME NEW new, Grows(new) PROVE i \in DOMAIN archives' /\ Behind(archives', i)
    <2>1. Newer(archives, i) \subseteq Newer(archives', i)
      BY <1>2 DEF Newer, Grows
    <2>2. DOMAIN archives' = 1..(Len(archives) + 1) /\ Len(archives) + 1 \in Nat
      BY <1>1, <1>2 DEF Grows
    <2> QED
      BY <1>1, <2>1, <2>2, BehindGrows
  <1>3. ASSUME NEW j \in DOMAIN archives, NEW new, Changes(j, new),
               archives[j].st \in {"complete", "deleted"} => new.st \in {"complete", "deleted"}
        PROVE  i \in DOMAIN archives' /\ Behind(archives', i)
    <2>1. Newer(archives, i) \subseteq Newer(archives', i)
      BY <1>3 DEF Newer, Changes
    <2>2. DOMAIN archives' = 1..Len(archives)
      BY <1>1, <1>3 DEF Changes
    <2> QED
      BY <1>1, <2>1, <2>2, BehindGrows
  <1>4. ASSUME NEW j \in DOMAIN archives, Changes(j, Described(archives[j]))
        PROVE  i \in DOMAIN archives' /\ Behind(archives', i)
    <2>1. archives[j].st \in {"complete", "deleted"} => Described(archives[j]).st \in {"complete", "deleted"}
      BY ArchiveTypes DEF Described, Archive
    <2> QED
      BY <1>3, <1>4, <2>1
  <1>5. ASSUME NEW j \in DOMAIN archives, Changes(j, Gone(archives[j], "deleted"))
        PROVE  i \in DOMAIN archives' /\ Behind(archives', i)
    <2>1. Gone(archives[j], "deleted").st = "deleted"
      BY ArchiveTypes, GoneType
    <2> QED
      BY <1>3, <1>5, <2>1
  <1>6. ASSUME NEW c \in Creators, RetentionRemoves(c)
        PROVE  i \in DOMAIN archives' /\ Behind(archives', i)
    <2>1. \A j \in job[c].doomed : j \in DOMAIN archives /\ Behind(archives, j)
      BY DEF RetentionInv
    <2> QED
      BY <1>6, <2>1, BehindPruned, RemoveMoves
  <1> QED
    BY <1>2, <1>4, <1>5, <1>6, ArchiveMoves

LEMMA RetentionStep ==
  ASSUME Typed, RetentionInv, [Next]_vars
  PROVE  RetentionInv'
  <1>0. Len(archives) \in Nat /\ DOMAIN archives = 1..Len(archives)
    BY ArchiveTypes
  <1>1. ASSUME NEW i \in DOMAIN archives', archives'[i].st = "pruned" PROVE Behind(archives', i)
    <2>1. ASSUME i \in DOMAIN archives, archives[i].st = "pruned" PROVE Behind(archives', i)
      BY <2>1, BehindStays DEF RetentionInv
    <2>2. CASE UNCHANGED archives
      BY <1>1, <2>1, <2>2
    <2>3. ASSUME NEW new, Grows(new), new.st # "pruned" PROVE Behind(archives', i)
      BY <1>1, <2>1, <2>3 DEF Grows
    <2>4. ASSUME NEW j \in DOMAIN archives, NEW new, Changes(j, new), new.st = "pruned" => archives[j].st = "pruned"
          PROVE  Behind(archives', i)
      BY <1>1, <2>1, <2>4 DEF Changes
    <2>5. ASSUME NEW c \in Creators, Grows(Finished(c)) PROVE Behind(archives', i)
      <3>1. Finished(c).st # "pruned"
        BY DEF Finished
      <3> QED
        BY <2>3, <2>5, <3>1
    <2>6. ASSUME NEW up \in Uploads, NEW d \in BOOLEAN, Grows(Uploaded(up[1], up[2], d)) PROVE Behind(archives', i)
      <3>1. Uploaded(up[1], up[2], d).st # "pruned"
        BY DEF Uploaded
      <3> QED
        BY <2>3, <2>6, <3>1
    <2>7. ASSUME NEW j \in DOMAIN archives, Changes(j, Described(archives[j])) PROVE Behind(archives', i)
      <3>1. Described(archives[j]).st = "pruned" => archives[j].st = "pruned"
        BY ArchiveTypes DEF Described, Archive
      <3> QED
        BY <2>4, <2>7, <3>1
    <2>8. ASSUME NEW j \in DOMAIN archives, Changes(j, Gone(archives[j], "deleted")) PROVE Behind(archives', i)
      <3>1. Gone(archives[j], "deleted").st # "pruned"
        BY ArchiveTypes, GoneType
      <3> QED
        BY <2>4, <2>8, <3>1
    <2>9. ASSUME NEW c \in Creators, RetentionRemoves(c) PROVE Behind(archives', i)
      <3>1. i \in DOMAIN archives /\ archives'[i] = Retained(c, i)
        BY <1>1, <2>9, RemoveMoves
      <3>2. CASE i \in job[c].doomed
        BY <3>1, <3>2, BehindStays DEF RetentionInv
      <3>3. CASE i \notin job[c].doomed
        BY <1>1, <2>1, <3>1, <3>3 DEF Retained
      <3> QED
        BY <3>2, <3>3
    <2> QED
      BY <2>2, <2>5, <2>6, <2>7, <2>8, <2>9, ArchiveMoves
  <1>2. ASSUME NEW c \in Creators, NEW i \in job'[c].doomed PROVE i \in DOMAIN archives' /\ Behind(archives', i)
    <2>1. CASE i \in job[c].doomed
      BY <2>1, BehindStays DEF RetentionInv
    <2>2. CASE job'[c].doomed = {}
      BY <2>2
    <2>3. CASE RetentionLists(c)
      <3>1. job'[c].doomed = Doomed /\ archives' = archives
        BY <2>3, ListMoves, JobTypes DEF Job
      <3> DEFINE later == {j \in {k \in DOMAIN archives : HasMetadata(k)} : j > i}
      <3>2. i \in DOMAIN archives /\ Cardinality(later) >= Count
        BY <3>1 DEF Doomed
      <3>3. later \subseteq Newer(archives, i)
        BY DEF HasMetadata, Newer
      <3>4. IsFiniteSet(Newer(archives, i)) /\ Cardinality(Newer(archives, i)) \in Nat
        BY <1>0, NewerFinite
      <3> HIDE DEF later
      <3>5. IsFiniteSet(later) /\ Cardinality(later) <= Cardinality(Newer(archives, i))
        BY <3>3, <3>4, FS_Subset
      <3>6. Cardinality(later) \in Nat
        BY <3>5, FS_CardinalityType
      <3> QED
        BY <3>1, <3>2, <3>4, <3>5, <3>6, CountAssumption DEF Behind
    <2>4. ASSUME NEW d \in Creators, Backup(d), d # c PROVE job'[c] = job[c]
      <3>1. JobsSame(d)
        BY <2>4, StartMoves, ReadMoves, AppearMoves, DescribeMoves, ListMoves, RemoveMoves, FailMoves DEF Backup
      <3> QED
        BY <2>4, <3>1 DEF JobsSame
    <2>5. CASE Backup(c)
      <3>1. CASE BackupStarts(c)
        BY <2>2, <3>1, StartMoves
      <3>2. CASE BackupReads(c)
        BY <2>1, <3>2, ReadMoves
      <3>3. CASE BackupAppears(c)
        BY <2>1, <3>3, AppearMoves
      <3>4. CASE BackupDescribed(c)
        <4>1. job'[c].doomed = job[c].doomed
          BY <3>4, DescribeMoves, JobTypes DEF Job
        <4> QED
          BY <2>1, <4>1
      <3>5. CASE RetentionRemoves(c)
        BY <2>2, <3>5, RemoveMoves DEF NoJob
      <3>6. CASE BackupFails(c)
        BY <2>2, <3>6, FailMoves DEF NoJob
      <3> QED
        BY <2>3, <2>5, <3>1, <3>2, <3>3, <3>4, <3>5, <3>6 DEF Backup
    <2>6. CASE PanelEnds
      BY <2>2, <2>6, EndMoves DEF NoJob
    <2> QED
      BY <2>1, <2>4, <2>5, <2>6, JobMoves
  <1> QED
    BY <1>1, <1>2 DEF RetentionInv

\* Retention removes an archive only behind Count newer complete ones.
THEOREM RetentionKeepsTheNewest == Spec => []PrunedBehindNewer
  <1>1. Init => RetentionInv
    BY DEF Init, RetentionInv, NoJob
  <1>2. Typed /\ RetentionInv /\ [Next]_vars => RetentionInv'
    BY RetentionStep
  <1>3. RetentionInv => PrunedBehindNewer
    BY DEF RetentionInv, PrunedBehindNewer, Behind, Newer
  <1> QED
    BY <1>1, <1>2, <1>3, RestoreTyped, PTL DEF Spec

-----------------------------------------------------------------------------
(* Damaged databases.                                                      *)

Clean(parts) == \A x \in Roles : parts[x] # "damaged"

\* What the checks of a load let through is clean, and so is all that follows from it.
CleanInv ==
    /\ Clean(live) /\ overlay # "damaged"
    /\ \A i \in DOMAIN archives : OnDisk(i) /\ Sound(archives[i].parts) =>
          Clean(archives[i].parts) /\ archives[i].lists # "damaged"
    /\ \A k \in DOMAIN copies : Clean(copies[k].parts)
    /\ \A c \in Creators : Clean(job[c].parts) /\ job[c].lists # "damaged"
    /\ \A r \in Restores : Clean(rst[r].parts) /\ rst[r].lists # "damaged"

CleanEntry(e) ==
    e.st \in {"bare", "complete"} /\ Sound(e.parts) => Clean(e.parts) /\ e.lists # "damaged"

LEMMA NothingIsClean == Clean(NoParts) /\ Absent # "damaged"
  BY DEF Clean, NoParts, Absent

\* An archive is damaged in a database, which is what the check looks at.
LEMMA UploadChecked ==
  ASSUME NEW up \in Uploads, NEW d \in BOOLEAN
  PROVE  CleanEntry(Uploaded(up[1], up[2], d))
  <1>1. /\ up[1] \subseteq Roles /\ up[2] \in {"other", "damaged"}
        /\ up[2] = "damaged" => up[1] \cap SqliteRoles # {}
    BY UploadsAssumption DEF Roles, SqliteRoles
  <1> DEFINE e == Uploaded(up[1], up[2], d)
  <1>2. /\ e.parts = [x \in Roles |-> IF x \in up[1] THEN up[2] ELSE Absent]
        /\ e.lists \in {up[2], Absent}
    BY DEF Uploaded
  <1> HIDE DEF e
  <1>3. CASE up[2] = "damaged"
    <2>1. PICK x \in up[1] : x \in SqliteRoles
      BY <1>1, <1>3
    <2>2. e.parts[x] = "damaged"
      BY <1>1, <1>2, <1>3, <2>1
    <2> QED
      BY <2>1, <2>2 DEF CleanEntry, Sound, e
  <1>4. CASE up[2] = "other"
    <2>1. Clean(e.parts) /\ e.lists # "damaged"
      BY <1>2, <1>4 DEF Clean, Absent
    <2> QED
      BY <2>1 DEF CleanEntry, e
  <1> QED
    BY <1>1, <1>3, <1>4

LEMMA CleanArchives ==
  ASSUME Typed, CleanInv, [Next]_vars
  PROVE  \A i \in DOMAIN archives' : CleanEntry(archives'[i])
  <1>0. \A i \in DOMAIN archives : CleanEntry(archives[i]) /\ archives[i] \in Archive
    BY ArchiveTypes DEF CleanInv, CleanEntry, OnDisk
  <1>1. ASSUME NEW e \in Archive, NEW why \in {"pruned", "deleted"} PROVE CleanEntry(Gone(e, why))
    BY <1>1, GoneType DEF CleanEntry
  <1>2. ASSUME NEW e \in Archive, CleanEntry(e) PROVE CleanEntry(Described(e))
    <2>1. /\ Described(e).parts = e.parts /\ Described(e).lists = e.lists
          /\ Described(e).st = IF e.st = "bare" THEN "complete" ELSE e.st
      BY DEF Described, Archive
    <2> QED
      BY <1>2, <2>1 DEF CleanEntry
  <1>3. ASSUME NEW c \in Creators PROVE CleanEntry(Finished(c))
    <2>1. Finished(c).parts = job[c].parts /\ Finished(c).lists = job[c].lists
      BY DEF Finished
    <2> QED
      BY <2>1 DEF CleanEntry, CleanInv
  <1>4. ASSUME NEW c \in Creators, RetentionRemoves(c) PROVE \A i \in DOMAIN archives' : CleanEntry(archives'[i])
    BY <1>0, <1>1, <1>4, RemoveMoves DEF Retained
  <1>5. ASSUME NEW new, Grows(new), CleanEntry(new) PROVE \A i \in DOMAIN archives' : CleanEntry(archives'[i])
    BY <1>0, <1>5 DEF Grows
  <1>6. ASSUME NEW j \in DOMAIN archives, NEW new, Changes(j, new), CleanEntry(new)
        PROVE  \A i \in DOMAIN archives' : CleanEntry(archives'[i])
    BY <1>0, <1>6 DEF Changes
  <1>7. ASSUME NEW j \in DOMAIN archives, Changes(j, Described(archives[j]))
        PROVE  \A i \in DOMAIN archives' : CleanEntry(archives'[i])
    <2>1. CleanEntry(Described(archives[j]))
      BY <1>0, <1>2
    <2> QED
      BY <1>6, <1>7, <2>1
  <1>8. ASSUME NEW j \in DOMAIN archives, Changes(j, Gone(archives[j], "deleted"))
        PROVE  \A i \in DOMAIN archives' : CleanEntry(archives'[i])
    <2>1. CleanEntry(Gone(archives[j], "deleted"))
      BY <1>0, <1>1
    <2> QED
      BY <1>6, <1>8, <2>1
  <1>9. ASSUME NEW c \in Creators, Grows(Finished(c)) PROVE \A i \in DOMAIN archives' : CleanEntry(archives'[i])
    BY <1>3, <1>5, <1>9
  <1>10. ASSUME NEW up \in Uploads, NEW d \in BOOLEAN, Grows(Uploaded(up[1], up[2], d))
         PROVE  \A i \in DOMAIN archives' : CleanEntry(archives'[i])
    BY <1>5, <1>10, UploadChecked
  <1> QED
    BY <1>0, <1>4, <1>7, <1>8, <1>9, <1>10, ArchiveMoves

LEMMA CleanJobs ==
  ASSUME Typed, CleanInv, [Next]_vars, NEW c \in Creators
  PROVE  Clean(job'[c].parts) /\ job'[c].lists # "damaged"
  <1>0. Clean(job[c].parts) /\ job[c].lists # "damaged" /\ Clean(live) /\ overlay # "damaged"
    BY DEF CleanInv
  <1>a. ASSUME job'[c].parts = job[c].parts, job'[c].lists = job[c].lists
        PROVE  Clean(job'[c].parts) /\ job'[c].lists # "damaged"
    BY <1>0, <1>a
  <1>n. ASSUME job'[c] = NoJob PROVE Clean(job'[c].parts) /\ job'[c].lists # "damaged"
    BY <1>n, NothingIsClean DEF NoJob
  <1>1. ASSUME NEW d \in Creators, Backup(d), d # c PROVE job'[c] = job[c]
    <2>1. JobsSame(d)
      BY <1>1, StartMoves, ReadMoves, AppearMoves, DescribeMoves, ListMoves, RemoveMoves, FailMoves DEF Backup
    <2> QED
      BY <1>1, <2>1 DEF JobsSame
  <1>2. CASE Backup(c)
    <2>1. CASE BackupStarts(c)
      BY <1>0, <2>1, StartMoves, NothingIsClean
    <2>2. CASE BackupReads(c)
      <3> DEFINE y == Head(job[c].left)
      <3>1. /\ y \in Roles /\ job'[c].lists = job[c].lists
            /\ job'[c].parts = [job[c].parts EXCEPT ![y] = live[y]]
        BY <2>2, ReadMoves
      <3>2. job[c].parts \in Parts
        BY JobTypes
      <3> HIDE DEF y
      <3>3. \A x \in Roles : job'[c].parts[x] = IF x = y THEN live[y] ELSE job[c].parts[x]
        BY <3>1, <3>2 DEF Parts
      <3> QED
        BY <1>0, <3>1, <3>3 DEF Clean
    <2>3. CASE BackupAppears(c)
      BY <1>a, <2>3, AppearMoves
    <2>4. CASE BackupDescribed(c)
      <3>1. job'[c].parts = job[c].parts /\ job'[c].lists = job[c].lists
        BY <2>4, DescribeMoves, JobTypes DEF Job
      <3> QED
        BY <1>a, <3>1
    <2>5. CASE RetentionLists(c)
      <3>1. job'[c].parts = job[c].parts /\ job'[c].lists = job[c].lists
        BY <2>5, ListMoves, JobTypes DEF Job
      <3> QED
        BY <1>a, <3>1
    <2>6. CASE RetentionRemoves(c)
      BY <1>n, <2>6, RemoveMoves
    <2>7. CASE BackupFails(c)
      BY <1>n, <2>7, FailMoves
    <2> QED
      BY <1>2, <2>1, <2>2, <2>3, <2>4, <2>5, <2>6, <2>7 DEF Backup
  <1>3. CASE PanelEnds
    BY <1>3, <1>n, EndMoves
  <1> QED
    BY <1>1, <1>2, <1>3, <1>a, JobMoves

\* A restore gets its files when it loads them and keeps them to its end.
LEMMA PayloadMoves ==
  ASSUME Typed, NEW r \in Restores, Restore(r)
  PROVE  \/ PayloadSame(r)
         \/ rst'[r] = NoRestore
         \/ \E i \in DOMAIN archives : \E u \in Updates \cup {"http"} :
               (RestoreLoads(r, i) /\ u = "http") \/ BotRestores(r, i, u)
         \/ \E k \in DOMAIN copies : RollbackLoads(r, k)
  <1>t. rst \in [Restores -> RestoreRec]
    BY DEF Typed, CopiesTyped
  <1>1. ASSUME NEW p \in RestorePcs, rst' = [rst EXCEPT ![r].pc = p] PROVE PayloadSame(r)
    BY <1>t, <1>1, PcMoves
  <1>2. ASSUME rst' = [rst EXCEPT ![r] = NoRestore] PROVE rst'[r] = NoRestore
    BY <1>2, IdleMoves
  <1>3. CASE Paused(r) \/ OverlaysApplied(r) \/ NothingToReplace(r) \/ SidecarsRemoved(r) \/ CarriedOver(r)
    <2>1. \E p \in RestorePcs : rst' = [rst EXCEPT ![r].pc = p]
      BY <1>3 DEF Paused, OverlaysApplied, NothingToReplace, SidecarsRemoved, CarriedOver, RestorePcs
    <2> QED
      BY <1>1, <2>1
  <1>4. CASE Refused(r) \/ SnapshotFails(r) \/ RolledBack(r) \/ RestartFails(r)
    BY <1>2, <1>4 DEF Refused, SnapshotFails, RolledBack, RestartFails
  <1>5. CASE PortalSynced(r)
    BY <1>1, <1>2, <1>5 DEF PortalSynced, RestorePcs
  <1>6. CASE SnapshotTaken(r)
    BY <1>6, SnapshotMoves
  <1>7. CASE FileReplaced(r)
    BY <1>7, ReplaceMoves
  <1>8. CASE ReplaceFails(r)
    BY <1>8, ReplaceFailMoves
  <1>9. CASE FileRolledBack(r) \/ SidecarsUnwound(r) \/ RollbackFails(r)
    BY <1>9, BackMoves, UnwindMoves
  <1>10. CASE Restarts(r)
    BY <1>10, EndMoves DEF Restarts
  <1>11. ASSUME NEW i \in DOMAIN archives, RestoreLoads(r, i)
         PROVE  \E u \in Updates \cup {"http"} : (RestoreLoads(r, i) /\ u = "http") \/ BotRestores(r, i, u)
    BY <1>11
  <1> QED
    BY <1>3, <1>4, <1>5, <1>6, <1>7, <1>8, <1>9, <1>10, <1>11 DEF Restore

LEMMA CleanRestores ==
  ASSUME Typed, CleanInv, NEW r \in Restores, Restore(r)
  PROVE  \A q \in Restores : Clean(rst'[q].parts) /\ rst'[q].lists # "damaged"
  <1>0. \A q \in Restores : Clean(rst[q].parts) /\ rst[q].lists # "damaged"
    BY DEF CleanInv
  <1>n. ASSUME NEW q \in Restores, rst'[q] = NoRestore PROVE Clean(rst'[q].parts) /\ rst'[q].lists # "damaged"
    BY <1>n, NothingIsClean DEF NoRestore
  <1>1. CASE Restarts(r)
    BY <1>1, <1>n, EndMoves DEF Restarts
  <1>2. CASE OthersSame(r)
    <2>1. Clean(rst'[r].parts) /\ rst'[r].lists # "damaged"
      <3>1. CASE PayloadSame(r)
        BY <1>0, <3>1 DEF PayloadSame
      <3>2. ASSUME NEW i \in DOMAIN archives, NEW u \in Updates \cup {"http"},
                   (RestoreLoads(r, i) /\ u = "http") \/ BotRestores(r, i, u)
            PROVE  Clean(rst'[r].parts) /\ rst'[r].lists # "damaged"
        <4>1. OnDisk(i) /\ Sound(archives[i].parts)
          BY <3>2 DEF RestoreLoads, BotRestores, Restorable
        <4>2. rst'[r].parts = archives[i].parts /\ rst'[r].lists = archives[i].lists
          BY <3>2, LoadMoves
        <4> QED
          BY <4>1, <4>2 DEF CleanInv
      <3>3. ASSUME NEW k \in DOMAIN copies, RollbackLoads(r, k)
            PROVE  Clean(rst'[r].parts) /\ rst'[r].lists # "damaged"
        <4>1. rst'[r].parts = copies[k].parts /\ rst'[r].lists = Absent
          BY <3>3, RollbackMoves
        <4> QED
          BY <4>1, NothingIsClean DEF CleanInv
      <3> QED
        BY <1>n, <3>1, <3>2, <3>3, PayloadMoves
    <2> QED
      BY <1>0, <1>2, <2>1 DEF OthersSame
  <1> QED
    BY <1>1, <1>2, RestoreAtGate

\* Where versions come from: the files, a restore's, or a copy's.
LEMMA CleanFiles ==
  ASSUME Typed, CleanInv, NEW r \in Restores, Restore(r)
  PROVE  /\ Clean(live') /\ overlay' # "damaged"
         /\ \A k \in DOMAIN copies' : Clean(copies'[k].parts)
  <1>0. /\ Clean(live) /\ overlay # "damaged" /\ \A k \in DOMAIN copies : Clean(copies[k].parts)
        /\ Clean(rst[r].parts) /\ rst[r].lists # "damaged" /\ live \in Parts
    BY DEF CleanInv, Typed, FilesTyped
  <1>a. ASSUME UNCHANGED <<live, overlay, copies>>
        PROVE  Clean(live') /\ overlay' # "damaged" /\ \A k \in DOMAIN copies' : Clean(copies'[k].parts)
    BY <1>0, <1>a
  <1>1. CASE OverlaysApplied(r)
    BY <1>0, <1>1 DEF OverlaysApplied
  <1>2. CASE SnapshotTaken(r)
    <2>1. UNCHANGED <<live, overlay>>
      BY <1>2 DEF SnapshotTaken, fileVars
    <2>2. /\ copies' \in Seq(Copy) /\ Len(copies') = Len(copies) + 1
          /\ copies'[Len(copies) + 1] = CopyOf(rst[r].parts)
          /\ \A k \in DOMAIN copies : copies'[k] \in {copies[k], Gone(copies[k], "pruned")}
      BY <1>2, CopyMade
    <2>3. /\ DOMAIN copies = 1..Len(copies) /\ Len(copies) \in Nat
          /\ \A k \in DOMAIN copies : Gone(copies[k], "pruned").parts = NoParts
      BY ArchiveTypes, GoneType
    <2>4. DOMAIN copies' = 1..(Len(copies) + 1)
      BY <2>2, LenProperties
    <2>5. Clean(CopyOf(rst[r].parts).parts)
      BY <1>0, NothingIsClean DEF CopyOf, Clean
    <2>6. \A k \in DOMAIN copies : Clean(copies'[k].parts)
      BY <1>0, <2>2, <2>3, NothingIsClean
    <2>7. \A k \in DOMAIN copies' : k \in DOMAIN copies \/ k = Len(copies) + 1
      BY <2>3, <2>4
    <2> QED
      BY <1>0, <2>1, <2>2, <2>5, <2>6, <2>7
  <1>3. CASE FileReplaced(r)
    <2> DEFINE x == Head(rst[r].left)
    <2>1. live' = [live EXCEPT ![x] = rst[r].parts[x]] /\ UNCHANGED <<overlay, copies>>
      BY <1>3 DEF FileReplaced, Put
    <2>2. x \in Roles
      BY <1>3, ReplaceMoves
    <2> HIDE DEF x
    <2> QED
      BY <1>0, <2>1, <2>2 DEF Clean, Parts
  <1>4. CASE FileRolledBack(r)
    <2> DEFINE x == Head(rst[r].left)
    <2>1. /\ live' = [live EXCEPT ![x] = copies[rst[r].copy].parts[x]] /\ UNCHANGED <<overlay, copies>>
          /\ rst[r].pc \in Replacing
      BY <1>4 DEF FileRolledBack, Put, Saved, Replacing
    <2>2. x \in Roles
      BY <1>4, UnwindMoves
    <2>3. rst[r].copy \in DOMAIN copies
      BY <2>1, ArchiveTypes DEF Typed, CopiesTyped, RestoreRec
    <2> HIDE DEF x
    <2> QED
      BY <1>0, <2>1, <2>2, <2>3 DEF Clean, Parts
  <1>5. ASSUME NEW i \in DOMAIN archives, RestoreLoads(r, i) PROVE UNCHANGED <<live, overlay, copies>>
    BY <1>5 DEF RestoreLoads, fileVars
  <1>6. ASSUME NEW i \in DOMAIN archives, NEW u \in Updates, BotRestores(r, i, u)
        PROVE  UNCHANGED <<live, overlay, copies>>
    BY <1>6 DEF BotRestores
  <1>7. ASSUME NEW k \in DOMAIN copies, RollbackLoads(r, k) PROVE UNCHANGED <<live, overlay, copies>>
    BY <1>7 DEF RollbackLoads, fileVars
  <1>9. CASE SnapshotFails(r)
    <2>1. UNCHANGED <<live, overlay>>
      BY <1>9 DEF SnapshotFails, fileVars
    <2>2. \A q : Clean(CopyOf(q).parts)
      BY <1>0, NothingIsClean DEF CopyOf, Clean
    <2>3. /\ \A k \in DOMAIN copies : copies'[k] = copies[k]
          /\ \A k \in DOMAIN copies' \ DOMAIN copies : \E q : copies'[k] = CopyOf(q)
      BY <1>9, CopyFailed
    <2> QED
      BY <1>0, <2>1, <2>2, <2>3
  <1>8. ASSUME \/ Paused(r) \/ Refused(r) \/ NothingToReplace(r) \/ SidecarsRemoved(r)
               \/ SidecarsUnwound(r) \/ ReplaceFails(r) \/ RollbackFails(r) \/ RolledBack(r) \/ CarriedOver(r)
               \/ PortalSynced(r) \/ RestartFails(r) \/ Restarts(r)
        PROVE  UNCHANGED <<live, overlay, copies>>
    BY <1>8 DEF Paused, Refused, NothingToReplace, SidecarsRemoved, SidecarsUnwound, ReplaceFails,
         RollbackFails, RolledBack, CarriedOver, PortalSynced, RestartFails, Restarts, fileVars
  <1> QED
    BY <1>1, <1>2, <1>3, <1>4, <1>5, <1>6, <1>7, <1>8, <1>9, <1>a DEF Restore

LEMMA CleanStep ==
  ASSUME Typed, CleanInv, [Next]_vars
  PROVE  CleanInv'
  <1> DEFINE FilesClean == /\ Clean(live) /\ overlay # "damaged"
                           /\ \A k \in DOMAIN copies : Clean(copies[k].parts)
             RestoresClean == \A q \in Restores : Clean(rst[q].parts) /\ rst[q].lists # "damaged"
  <1>0. FilesClean /\ RestoresClean
    BY DEF CleanInv
  <1>a. ASSUME UNCHANGED <<live, overlay, copies, rst>> PROVE FilesClean' /\ RestoresClean'
    BY <1>0, <1>a
  <1>1. FilesClean' /\ RestoresClean'
    <2>1. ASSUME NEW r \in Restores, Restore(r) PROVE FilesClean' /\ RestoresClean'
      BY <2>1, CleanRestores, CleanFiles
    <2>2. ASSUME NEW c \in Creators, Backup(c) PROVE FilesClean' /\ RestoresClean'
      BY <2>2, <1>a, BackupFrame DEF fileVars
    <2>3. ASSUME NEW up \in Uploads, NEW d \in BOOLEAN, Upload(up[1], up[2], d) PROVE FilesClean' /\ RestoresClean'
      BY <2>3, <1>a DEF Upload, fileVars
    <2>4. ASSUME NEW i \in DOMAIN archives, DeleteArchive(i) PROVE FilesClean' /\ RestoresClean'
      BY <2>4, <1>a DEF DeleteArchive, fileVars
    <2>5. ASSUME NEW k \in DOMAIN copies, DeleteCopy(k) PROVE FilesClean' /\ RestoresClean'
      <3>1. UNCHANGED <<live, overlay, rst>>
        BY <2>5 DEF DeleteCopy, fileVars
      <3>2. /\ DOMAIN copies' = DOMAIN copies /\ Gone(copies[k], "deleted").parts = NoParts
            /\ \A j \in DOMAIN copies : copies'[j] = IF j = k THEN Gone(copies[j], "deleted") ELSE copies[j]
        BY <2>5, CopyDeleted, ArchiveTypes, GoneType
      <3>3. \A j \in DOMAIN copies' : Clean(copies'[j].parts)
        BY <1>0, <3>2, NothingIsClean
      <3> QED
        BY <1>0, <3>1, <3>3
    <2>6. ASSUME NEW x \in Written, RequestWrites(x) PROVE FilesClean' /\ RestoresClean'
      BY <2>6, <1>a DEF RequestWrites
    <2>7. CASE Crash
      <3>1. UNCHANGED <<live, overlay, copies>> /\ \A q \in Restores : rst'[q] = NoRestore
        BY <2>7, EndMoves DEF Crash, fileVars
      <3>2. Clean(NoRestore.parts) /\ NoRestore.lists # "damaged"
        BY NothingIsClean DEF NoRestore
      <3> QED
        BY <1>0, <3>1, <3>2
    <2>8. CASE UNCHANGED vars
      BY <2>8, <1>a DEF vars, fileVars
    <2>9. ASSUME NEW u \in Updates, BotRefused(u) PROVE FilesClean' /\ RestoresClean'
      BY <2>9, <1>a DEF BotRefused
    <2> QED
      BY <2>1, <2>2, <2>3, <2>4, <2>5, <2>6, <2>7, <2>8, <2>9 DEF Next
  <1>2. \A i \in DOMAIN archives' : CleanEntry(archives'[i])
    BY CleanArchives
  <1>3. \A c \in Creators : Clean(job'[c].parts) /\ job'[c].lists # "damaged"
    BY CleanJobs
  <1> QED
    BY <1>1, <1>2, <1>3 DEF CleanInv, CleanEntry, OnDisk

\* Nothing of an archive with a damaged database reaches the panel's files or the node.
THEOREM DamageStaysInTheArchive == Spec => []DamagedStaysOut
  <1>1. Init => CleanInv
    <2>1. ASSUME Init PROVE Clean(live) /\ overlay # "damaged" /\ archives = <<>> /\ copies = <<>>
      BY <2>1 DEF Init, Clean, Absent
    <2>2. Clean(NoJob.parts) /\ NoJob.lists # "damaged" /\ Clean(NoRestore.parts) /\ NoRestore.lists # "damaged"
      BY NothingIsClean DEF NoJob, NoRestore
    <2>3. ASSUME Init
          PROVE  /\ \A c \in Creators : job[c] = NoJob
                 /\ \A r \in Restores : rst[r] = NoRestore
      BY <2>3 DEF Init
    <2> QED
      BY <2>1, <2>2, <2>3 DEF CleanInv
  <1>2. Typed /\ CleanInv /\ [Next]_vars => CleanInv'
    BY CleanStep
  <1>3. CleanInv => DamagedStaysOut
    BY DEF CleanInv, DamagedStaysOut, Clean
  <1> QED
    BY <1>1, <1>2, <1>3, RestoreTyped, PTL DEF Spec

-----------------------------------------------------------------------------
(* Restores ordered through the bot.                                       *)

\* While this restore replaces the panel database, the claims are in its copy.
Forgetful(r) == rst[r].pc \in Replacing /\ rst[r].parts["db"] # Absent

\* The panel knows the update, or will again when the restore has carried it over.
Known(u) ==
    /\ (\A r \in Restores : ~Forgetful(r)) => u \in claimed
    /\ \A r \in Restores : Forgetful(r) => u \in copies[rst[r].copy].claims

\* From its copy on, a restore without a fault runs to the restart of the panel.
Ending(r) == rst[r].pc \in Replacing \cup {"portal", "restart"}

\* A restore that may still be carried out: no other one is on its way to the restart.
Awaited(r) ==
    /\ rst[r].pc \notin {"idle", "portal", "restart"}
    /\ \A q \in Restores : q # r => ~Ending(q)

OnceInv ==
    /\ good["db"] # Absent
    /\ faults = 0 => \A r \in Restores : rst[r].pc \notin {"rollback", "unwind"}
    /\ faults = 0 /\ ~broken => \A u \in Updates :
          /\ ran[u] <= 1
          /\ ran[u] = 1 => Known(u)
          /\ \A r \in Restores : rst[r].by = u /\ Awaited(r) => Known(u) /\ ran[u] = 0

\* Without a fault the steps of a restore are these.
LEMMA FaultlessSteps ==
  ASSUME NEW r \in Restores, Restore(r), ~Fault, rst[r].pc \notin {"rollback", "unwind"}
  PROVE  \/ \E i \in DOMAIN archives : RestoreLoads(r, i)
         \/ \E i \in DOMAIN archives : \E u \in Updates : BotRestores(r, i, u)
         \/ \E k \in DOMAIN copies : RollbackLoads(r, k)
         \/ Paused(r) \/ Refused(r) \/ OverlaysApplied(r) \/ SnapshotTaken(r) \/ NothingToReplace(r)
         \/ FileReplaced(r) \/ SidecarsRemoved(r) \/ CarriedOver(r) \/ PortalSynced(r) \/ Restarts(r)
  BY DEF Restore, SnapshotFails, ReplaceFails, FileRolledBack, SidecarsUnwound, RollbackFails,
         RolledBack, RestartFails

LEMMA KnownQuiet ==
  ASSUME NEW u \in Updates, Known(u), UNCHANGED copies, claimed \subseteq claimed',
         \A q \in Restores : /\ Forgetful(q)' <=> Forgetful(q)
                             /\ Forgetful(q) => rst'[q].copy = rst[q].copy
  PROVE  Known(u)'
  BY DEF Known

\* The same, when one restore moves and it is not replacing the panel database, or is
\* and goes on.
LEMMA KnownByOne ==
  ASSUME NEW u \in Updates, Known(u), UNCHANGED copies, claimed \subseteq claimed',
         NEW r \in Restores, OthersSame(r),
         \/ ~Forgetful(r) /\ ~Forgetful(r)'
         \/ Forgetful(r) /\ Forgetful(r)' /\ rst'[r].copy = rst[r].copy
  PROVE  Known(u)'
  <1>1. ASSUME NEW q \in Restores
        PROVE  /\ Forgetful(q)' <=> Forgetful(q)
               /\ Forgetful(q) => rst'[q].copy = rst[q].copy
    <2>1. CASE q = r
      BY <2>1
    <2>2. CASE q # r
      BY <2>2 DEF OthersSame, Forgetful
    <2> QED
      BY <2>1, <2>2
  <1> QED
    BY <1>1, KnownQuiet

LEMMA KnownByRestore ==
  ASSUME Typed, Alone, Progress, Whole, OnceInv, NEW r \in Restores, Restore(r), ~Fault,
         faults = 0, ~broken, NEW u \in Updates, Known(u)
  PROVE  Known(u)'
  <1>t. rst \in [Restores -> RestoreRec] /\ rst[r].pc \notin {"rollback", "unwind"} /\ good["db"] # Absent
    BY DEF Typed, CopiesTyped, OnceInv
  <1>0. ProgressOf(r) /\ CopyGood(r)
    BY DEF Progress, Whole
  <1>d. "db" \in Roles
    BY RolesAre
  <1>a. ASSUME UNCHANGED copies, claimed \subseteq claimed', OthersSame(r),
               rst[r].pc \notin Replacing, rst'[r].pc \notin Replacing
        PROVE  Known(u)'
    BY <1>a, KnownByOne DEF Forgetful
  <1>1. ASSUME NEW i \in DOMAIN archives, NEW v \in Updates \cup {"http"},
               (RestoreLoads(r, i) /\ v = "http") \/ BotRestores(r, i, v)
        PROVE  Known(u)'
    <2>1. UNCHANGED copies /\ claimed \subseteq claimed' /\ rst[r].pc = "idle"
      BY <1>1 DEF RestoreLoads, BotRestores, fileVars
    <2>2. OthersSame(r) /\ rst'[r].pc = "pause"
      BY <1>1, LoadMoves
    <2> QED
      BY <1>a, <2>1, <2>2 DEF Replacing
  <1>2. ASSUME NEW i \in DOMAIN archives, RestoreLoads(r, i) PROVE Known(u)'
    BY <1>1, <1>2
  <1>3. ASSUME NEW i \in DOMAIN archives, NEW v \in Updates, BotRestores(r, i, v) PROVE Known(u)'
    BY <1>1, <1>3
  <1>4. ASSUME NEW k \in DOMAIN copies, RollbackLoads(r, k) PROVE Known(u)'
    <2>1. UNCHANGED copies /\ claimed \subseteq claimed' /\ rst[r].pc = "idle"
      BY <1>4 DEF RollbackLoads, fileVars
    <2>2. OthersSame(r) /\ rst'[r].pc = "pause"
      BY <1>4, RollbackMoves
    <2> QED
      BY <1>a, <2>1, <2>2 DEF Replacing
  <1>5. CASE Paused(r) \/ OverlaysApplied(r) \/ NothingToReplace(r) \/ PortalSynced(r)
    <2>1. /\ UNCHANGED <<copies, claimed>> /\ rst[r].pc \in {"pause", "overlays", "snapshot", "portal"}
          /\ \E p \in {"overlays", "snapshot", "portal", "restart"} : rst' = [rst EXCEPT ![r].pc = p]
      BY <1>5 DEF Paused, OverlaysApplied, NothingToReplace, PortalSynced, fileVars
    <2>2. {"overlays", "snapshot", "portal", "restart"} \subseteq RestorePcs
      BY DEF RestorePcs
    <2>3. OthersSame(r) /\ rst'[r].pc \in {"overlays", "snapshot", "portal", "restart"}
      BY <1>t, <2>1, <2>2, PcMoves
    <2> QED
      BY <1>a, <2>1, <2>3 DEF Replacing
  <1>6. CASE Refused(r)
    <2>1. UNCHANGED <<copies, claimed>> /\ rst[r].pc = "pause" /\ rst' = [rst EXCEPT ![r] = NoRestore]
      BY <1>6 DEF Refused, fileVars
    <2>2. OthersSame(r) /\ rst'[r].pc = "idle"
      BY <2>1, IdleMoves
    <2> QED
      BY <1>a, <2>1, <2>2 DEF Replacing
  <1>7. CASE SnapshotTaken(r)
    <2>1. /\ OthersSame(r) /\ rst'[r].pc = "replace" /\ rst'[r].copy = Len(copies) + 1
          /\ rst'[r].parts = rst[r].parts
      BY <1>7, SnapshotMoves DEF PayloadSame
    <2>2. rst[r].pc = "snapshot" /\ UNCHANGED claimed
      BY <1>7 DEF SnapshotTaken, fileVars
    <2>3. \A q \in Restores : ~Forgetful(q) /\ (q # r => ~Forgetful(q)')
      BY <2>1, <2>2 DEF Alone, Past, Forgetful, OthersSame, Replacing
    <2>4. u \in claimed
      BY <2>3 DEF Known
    <2>5. copies'[rst'[r].copy] = CopyOf(rst[r].parts)
      BY <1>7, <2>1, CopyMade
    <2>6. rst[r].parts["db"] # Absent => CopyOf(rst[r].parts).claims = claimed
      BY DEF CopyOf
    <2>7. Forgetful(r)' => u \in copies'[rst'[r].copy].claims
      BY <2>1, <2>4, <2>5, <2>6 DEF Forgetful
    <2> QED
      BY <2>2, <2>3, <2>4, <2>7 DEF Known
  <1>8. CASE FileReplaced(r)
    <2> DEFINE x == Head(rst[r].left)
    <2>1. /\ rst[r].pc = "replace" /\ UNCHANGED copies
          /\ claimed' = IF x = "db" THEN rst[r].claims ELSE claimed
      BY <1>8 DEF FileReplaced, Put
    <2>2. /\ OthersSame(r) /\ rst'[r].pc = "sidecars" /\ rst'[r].copy = rst[r].copy
          /\ rst'[r].parts = rst[r].parts /\ rst[r].left \in Seq(Roles) /\ rst[r].left # <<>>
      BY <1>8, ReplaceMoves DEF PayloadSame
    <2>3. x \in PresentRoles(rst[r].parts)
      BY <1>0, <2>1, <2>2, TailRange DEF ProgressOf
    <2> HIDE DEF x
    <2>4. CASE Forgetful(r)
      <3>1. Forgetful(r)' /\ u \in copies'[rst'[r].copy].claims
        BY <2>1, <2>2, <2>4 DEF Known, Forgetful, Replacing
      <3>2. \A q \in Restores : q # r => ~Forgetful(q)'
        BY <2>1, <2>2 DEF Alone, Past, Forgetful, OthersSame, Replacing
      <3> QED
        BY <3>1, <3>2 DEF Known
    <2>5. CASE ~Forgetful(r)
      <3>1. rst[r].parts["db"] = Absent
        BY <2>1, <2>5 DEF Forgetful, Replacing
      <3>2. x # "db"
        BY <2>3, <3>1 DEF PresentRoles
      <3>3. ~Forgetful(r)'
        BY <2>2, <3>1 DEF Forgetful
      <3> QED
        BY <2>1, <2>2, <2>5, <3>2, <3>3, KnownByOne
    <2> QED
      BY <2>4, <2>5
  <1>9. CASE SidecarsRemoved(r)
    <2>1. /\ rst[r].pc = "sidecars" /\ UNCHANGED <<copies, claimed>>
          /\ \E p \in {"replace", "carry"} : rst' = [rst EXCEPT ![r].pc = p]
      BY <1>9 DEF SidecarsRemoved
    <2>2. {"replace", "carry"} \subseteq RestorePcs
      BY DEF RestorePcs
    <2>3. OthersSame(r) /\ PayloadSame(r) /\ WorkSame(r) /\ rst'[r].pc \in {"replace", "carry"}
      BY <1>t, <2>1, <2>2, PcMoves
    <2>4. Forgetful(r)' <=> Forgetful(r)
      BY <2>1, <2>3 DEF Forgetful, PayloadSame, Replacing
    <2> QED
      BY <2>1, <2>3, <2>4, KnownByOne DEF WorkSame
  <1>10. CASE CarriedOver(r)
    <2>1. rst[r].pc = "carry" /\ rst' = [rst EXCEPT ![r].pc = "portal"]
      BY <1>10 DEF CarriedOver
    <2>2. claimed' = IF copies[rst[r].copy].parts["db"] # Absent THEN claimed \cup copies[rst[r].copy].claims
                     ELSE claimed
      BY <1>10 DEF CarriedOver
    <2>3. OthersSame(r) /\ rst'[r].pc = "portal"
      BY <1>t, <2>1, PcMoves DEF RestorePcs
    <2>4. \A q \in Restores : ~Forgetful(q)' /\ (q # r => ~Forgetful(q))
      BY <2>1, <2>3 DEF Alone, Past, Forgetful, OthersSame, Replacing
    <2>5. CASE Forgetful(r)
      <3>1. "db" \in PresentRoles(rst[r].parts) /\ rst[r].pc \in Replacing
        BY <1>d, <2>5 DEF Forgetful, PresentRoles
      <3>2. copies[rst[r].copy].parts["db"] # Absent
        BY <1>t, <1>0, <3>1 DEF CopyGood
      <3>3. u \in copies[rst[r].copy].claims
        BY <2>5 DEF Known
      <3> QED
        BY <2>2, <2>4, <3>2, <3>3 DEF Known
    <2>6. CASE ~Forgetful(r)
      BY <2>2, <2>4, <2>6 DEF Known
    <2> QED
      BY <2>5, <2>6
  <1>11. CASE Restarts(r)
    <2>1. UNCHANGED <<copies, claimed>> /\ rst[r].pc = "restart" /\ PanelEnds
      BY <1>11 DEF Restarts, fileVars
    <2>2. \A q \in Restores : ~Forgetful(q) /\ ~Forgetful(q)'
      BY <2>1, EndMoves DEF Alone, Past, Forgetful, Replacing
    <2> QED
      BY <2>1, <2>2, KnownQuiet
  <1> QED
    BY <1>t, <1>2, <1>3, <1>4, <1>5, <1>6, <1>7, <1>8, <1>9, <1>10, <1>11, FaultlessSteps

LEMMA KnownStep ==
  ASSUME Typed, Alone, Progress, Whole, OnceInv, [Next]_vars, faults' = 0, ~broken',
         NEW u \in Updates, Known(u)
  PROVE  Known(u)'
  <1>0. faults = 0 /\ ~Fault /\ ~broken
    BY FaultsStay, BrokenStays
  <1>a. ASSUME UNCHANGED <<copies, claimed, rst>> PROVE Known(u)'
    BY <1>a, KnownQuiet DEF Forgetful
  <1>1. ASSUME NEW c \in Creators, Backup(c) PROVE Known(u)'
    BY <1>1, <1>a, BackupFrame DEF fileVars
  <1>2. ASSUME NEW r \in Restores, Restore(r) PROVE Known(u)'
    BY <1>0, <1>2, KnownByRestore
  <1>3. ASSUME NEW k \in DOMAIN copies, DeleteCopy(k) PROVE Known(u)'
    <2>1. UNCHANGED <<claimed, rst>> /\ \A r \in Restores : rst[r].copy # k
      BY <1>3 DEF DeleteCopy, fileVars
    <2>2. \A j \in DOMAIN copies : j # k => copies'[j] = copies[j]
      BY <1>3, CopyDeleted
    <2>3. \A r \in Restores : Forgetful(r) => rst[r].copy \in DOMAIN copies
      BY ArchiveTypes DEF Typed, CopiesTyped, RestoreRec, Forgetful
    <2>4. ASSUME NEW r \in Restores, Forgetful(r)' PROVE u \in copies'[rst'[r].copy].claims
      BY <2>1, <2>2, <2>3, <2>4 DEF Known, Forgetful
    <2>5. (\A r \in Restores : ~Forgetful(r)') => u \in claimed'
      BY <2>1 DEF Known, Forgetful
    <2> QED
      BY <2>4, <2>5 DEF Known
  <1>4. ASSUME NEW v \in Updates, BotRefused(v) PROVE Known(u)'
    <2>1. UNCHANGED <<copies, rst>> /\ claimed \subseteq claimed'
      BY <1>4 DEF BotRefused
    <2> QED
      BY <2>1, KnownQuiet DEF Forgetful
  <1> QED
    BY <1>0, <1>a, <1>1, <1>2, <1>3, <1>4
       DEF Next, Upload, DeleteArchive, RequestWrites, Crash, vars, fileVars

\* A restore on its way to the restart stays there until the panel ends.
LEMMA EndingStays ==
  ASSUME Typed, OnceInv, faults = 0, ~Fault, NEW r \in Restores, Restore(r)
  PROVE  \/ Restarts(r)
         \/ /\ OthersSame(r) /\ rst'[r].pc \notin {"rollback", "unwind"}
            /\ Ending(r) => Ending(r)'
            /\ \/ /\ PayloadSame(r)
                  /\ rst'[r].pc \notin {"portal", "restart"} =>
                        rst[r].pc \notin {"idle", "portal", "restart"}
               \/ rst'[r].pc = "idle"
               \/ rst'[r].by = "http"
               \/ \E i \in DOMAIN archives : \E u \in Updates : BotRestores(r, i, u)
  <1>t. rst \in [Restores -> RestoreRec] /\ rst[r].pc \notin {"rollback", "unwind"}
    BY DEF Typed, CopiesTyped, OnceInv
  <1>1. ASSUME NEW i \in DOMAIN archives, RestoreLoads(r, i)
        PROVE  OthersSame(r) /\ rst'[r].pc = "pause" /\ ~Ending(r) /\ rst'[r].by = "http"
    <2>1. rst[r].pc = "idle"
      BY <1>1 DEF RestoreLoads
    <2>2. OthersSame(r) /\ rst'[r].pc = "pause" /\ rst'[r].by = "http"
      BY <1>1, LoadMoves
    <2> QED
      BY <2>1, <2>2 DEF Ending, Replacing
  <1>2. ASSUME NEW i \in DOMAIN archives, NEW u \in Updates, BotRestores(r, i, u)
        PROVE  OthersSame(r) /\ rst'[r].pc = "pause" /\ ~Ending(r)
    <2>1. rst[r].pc = "idle"
      BY <1>2 DEF BotRestores
    <2>2. OthersSame(r) /\ rst'[r].pc = "pause"
      BY <1>2, LoadMoves
    <2> QED
      BY <2>1, <2>2 DEF Ending, Replacing
  <1>3. ASSUME NEW k \in DOMAIN copies, RollbackLoads(r, k)
        PROVE  OthersSame(r) /\ rst'[r].pc = "pause" /\ ~Ending(r) /\ rst'[r].by = "http"
    <2>1. rst[r].pc = "idle"
      BY <1>3 DEF RollbackLoads
    <2>2. OthersSame(r) /\ rst'[r].pc = "pause" /\ rst'[r].by = "http"
      BY <1>3, RollbackMoves
    <2> QED
      BY <2>1, <2>2 DEF Ending, Replacing
  <1>4. CASE \/ Paused(r) \/ OverlaysApplied(r) \/ NothingToReplace(r) \/ SidecarsRemoved(r)
             \/ CarriedOver(r) \/ PortalSynced(r)
    <2>1. \E p \in {"overlays", "snapshot", "replace", "carry", "portal", "restart"} :
             /\ rst' = [rst EXCEPT ![r].pc = p]
             /\ rst[r].pc \in {"pause", "overlays"} \/ p \notin {"overlays", "snapshot"}
      <3>1. CASE Paused(r) \/ OverlaysApplied(r)
        BY <3>1 DEF Paused, OverlaysApplied
      <3>2. CASE NothingToReplace(r) \/ SidecarsRemoved(r) \/ CarriedOver(r)
        BY <3>2 DEF NothingToReplace, SidecarsRemoved, CarriedOver
      <3>3. CASE PortalSynced(r)
        BY <3>3 DEF PortalSynced
      <3> QED
        BY <1>4, <3>1, <3>2, <3>3
    <2>2. /\ rst[r].pc \in {"pause", "overlays", "snapshot", "sidecars", "carry", "portal"}
          /\ rst[r].pc = "portal" => rst' = [rst EXCEPT ![r].pc = "restart"]
      BY <1>4 DEF Paused, OverlaysApplied, NothingToReplace, SidecarsRemoved, CarriedOver, PortalSynced
    <2>3. {"overlays", "snapshot", "replace", "carry", "portal", "restart"} \subseteq RestorePcs
      BY DEF RestorePcs
    <2>4. OthersSame(r) /\ PayloadSame(r)
      BY <1>t, <2>1, <2>3, PcMoves
    <2>5. rst'[r].pc \notin {"rollback", "unwind"} /\ (rst[r].pc = "portal" => rst'[r].pc = "restart")
      <3>1. rst'[r].pc \notin {"rollback", "unwind"}
        BY <1>t, <2>1, <2>3, PcMoves
      <3>2. rst[r].pc = "portal" => rst'[r].pc = "restart"
        BY <1>t, <2>2, <2>3, PcMoves
      <3> QED
        BY <3>1, <3>2
    <2>6. rst[r].pc \in {"pause", "overlays"} \/ rst'[r].pc \in {"replace", "carry", "portal", "restart"}
      BY <1>t, <2>1, <2>3, PcMoves
    <2> QED
      BY <2>2, <2>4, <2>5, <2>6 DEF Ending, Replacing
  <1>5. CASE Refused(r)
    BY <1>5, IdleMoves DEF Refused, Ending, Replacing
  <1>6. CASE SnapshotTaken(r)
    <2>1. rst[r].pc = "snapshot"
      BY <1>6 DEF SnapshotTaken
    <2>2. OthersSame(r) /\ PayloadSame(r) /\ rst'[r].pc = "replace"
      BY <1>6, SnapshotMoves
    <2> QED
      BY <2>1, <2>2 DEF Ending, Replacing
  <1>7. CASE FileReplaced(r)
    <2>1. rst[r].pc = "replace"
      BY <1>7 DEF FileReplaced
    <2>2. OthersSame(r) /\ PayloadSame(r) /\ rst'[r].pc = "sidecars"
      BY <1>7, ReplaceMoves
    <2> QED
      BY <2>1, <2>2 DEF Ending, Replacing
  <1> QED
    BY <1>t, <1>1, <1>2, <1>3, <1>4, <1>5, <1>6, <1>7, FaultlessSteps

\* Who may still be carried out for a bot command was so before, or was just ordered.
LEMMA AwaitedMoves ==
  ASSUME Typed, OnceInv, [Next]_vars, faults' = 0, NEW r \in Restores, rst'[r].by \in Updates, Awaited(r)'
  PROVE  \/ Awaited(r) /\ rst[r].by = rst'[r].by
         \/ \E i \in DOMAIN archives : BotRestores(r, i, rst'[r].by)
  <1>0. faults = 0 /\ ~Fault /\ rst'[r].pc \notin {"idle", "portal", "restart"}
    BY FaultsStay DEF Awaited
  <1>1. ASSUME UNCHANGED rst PROVE Awaited(r) /\ rst[r].by = rst'[r].by
    BY <1>1 DEF Awaited, Ending
  <1>2. ASSUME NEW q \in Restores, Restore(q)
        PROVE  \/ Awaited(r) /\ rst[r].by = rst'[r].by
               \/ \E i \in DOMAIN archives : BotRestores(r, i, rst'[r].by)
    <2>1. ~Restarts(q)
      BY <1>0, EndMoves DEF Restarts
    <2>2. OthersSame(q) /\ (Ending(q) => Ending(q)')
      BY <1>0, <1>2, <2>1, EndingStays
    <2>3. \A p \in Restores : p # r => ~Ending(p)
      BY <2>2 DEF Awaited, OthersSame, Ending
    <2>4. CASE q # r
      BY <1>0, <2>2, <2>3, <2>4 DEF Awaited, OthersSame
    <2>5. CASE q = r
      <3>1. ASSUME NEW i \in DOMAIN archives, NEW u \in Updates, BotRestores(r, i, u)
            PROVE  u = rst'[r].by
        BY <3>1, LoadMoves
      <3>2. \/ PayloadSame(r) /\ rst[r].pc \notin {"idle", "portal", "restart"}
            \/ \E i \in DOMAIN archives : \E u \in Updates : BotRestores(r, i, u)
        BY <1>0, <1>2, <2>1, <2>5, EndingStays, ActorsAssumption
      <3> QED
        BY <2>3, <3>1, <3>2 DEF PayloadSame, Awaited
    <2> QED
      BY <2>4, <2>5
  <1>3. ASSUME NEW c \in Creators, Backup(c) PROVE UNCHANGED rst
    BY <1>3, BackupFrame
  <1> QED
    BY <1>0, <1>1, <1>2, <1>3
       DEF Next, Upload, DeleteArchive, DeleteCopy, BotRefused, RequestWrites, Crash, vars

\* Only the end of a restore is counted, and it is the end of the one that was awaited.
LEMMA RanMoves ==
  ASSUME Typed, Alone, [Next]_vars, NEW u \in Updates
  PROVE  \/ ran'[u] = ran[u]
         \/ \E r \in Restores : /\ rst[r].by = u /\ Awaited(r) /\ ran'[u] = ran[u] + 1
                                /\ rst'[r].pc = "portal" /\ OthersSame(r)
  <1>t. ran \in [Updates -> Nat] /\ rst \in [Restores -> RestoreRec]
    BY DEF Typed, CountersTyped, CopiesTyped
  <1>1. ASSUME NEW c \in Creators, Backup(c) PROVE UNCHANGED ran
    BY <1>1, BackupFrame
  <1>2. ASSUME NEW r \in Restores, CarriedOver(r) \/ NothingToReplace(r)
        PROVE  \/ ran'[u] = ran[u]
               \/ /\ rst[r].by = u /\ Awaited(r) /\ ran'[u] = ran[u] + 1
                  /\ rst'[r].pc = "portal" /\ OthersSame(r)
    <2>1. rst[r].pc \in {"carry", "snapshot"} /\ rst' = [rst EXCEPT ![r].pc = "portal"]
      BY <1>2 DEF CarriedOver, NothingToReplace
    <2>2. ran'[u] = IF u = rst[r].by THEN ran[u] + 1 ELSE ran[u]
      BY <1>2 DEF CarriedOver, NothingToReplace
    <2>3. rst'[r].pc = "portal" /\ OthersSame(r)
      BY <1>t, <2>1, PcMoves DEF RestorePcs
    <2>4. Awaited(r)
      BY <2>1 DEF Awaited, Ending, Replacing, Alone, Past
    <2> QED
      BY <2>2, <2>3, <2>4
  <1>3. ASSUME NEW r \in Restores, Restore(r) PROVE UNCHANGED ran \/ CarriedOver(r) \/ NothingToReplace(r)
    BY <1>3 DEF Restore, RestoreLoads, BotRestores, RollbackLoads, Paused, Refused,
         OverlaysApplied, SnapshotTaken, SnapshotFails, FileReplaced, SidecarsRemoved, ReplaceFails,
         FileRolledBack, SidecarsUnwound, RollbackFails, RolledBack, PortalSynced, RestartFails,
         Restarts, histVars
  <1> QED
    BY <1>1, <1>2, <1>3
       DEF Next, Upload, DeleteArchive, DeleteCopy, BotRefused, RequestWrites, Crash, vars, histVars

\* An update the panel knows is not claimed again.
LEMMA ClaimedOnce ==
  ASSUME Typed, OnceInv, faults = 0, ~broken, NEW r \in Restores, NEW i \in DOMAIN archives,
         NEW u \in Updates, BotRestores(r, i, u), Awaited(r)'
  PROVE  Known(u)' /\ ran[u] = 0
  <1>1. /\ u \notin claimed /\ u \in claimed' /\ rst[r].pc = "idle"
        /\ OthersSame(r) /\ rst'[r].pc = "pause"
    BY LoadMoves DEF BotRestores
  <1>2. \A q \in Restores : ~Forgetful(q) /\ ~Forgetful(q)'
    BY <1>1 DEF Awaited, Ending, Forgetful, OthersSame, Replacing
  <1>3. ~Known(u)
    BY <1>1, <1>2 DEF Known
  <1>4. ran[u] <= 1 /\ ran[u] \in Nat /\ ran[u] # 1
    BY <1>3 DEF OnceInv, Typed, CountersTyped
  <1> QED
    BY <1>1, <1>2, <1>4 DEF Known

LEMMA OnceStep ==
  ASSUME Typed, Alone, Progress, Whole, OnceInv, [Next]_vars
  PROVE  OnceInv'
  <1>1. good'["db"] # Absent
    <2>1. ASSUME NEW r \in Restores, CarriedOver(r) PROVE good'["db"] # Absent
      <3>1. good' = Restored(r) /\ "db" \in Roles
        BY <2>1, RolesAre DEF CarriedOver
      <3> QED
        BY <3>1 DEF Restored, OnceInv
    <2> QED
      BY <2>1, GoodMoves DEF OnceInv
  <1>2. ASSUME faults' = 0 PROVE \A r \in Restores : rst'[r].pc \notin {"rollback", "unwind"}
    <2>1. faults = 0 /\ ~Fault
      BY <1>2, FaultsStay
    <2>2. ASSUME NEW q \in Restores, Restore(q), NEW r \in Restores PROVE rst'[r].pc \notin {"rollback", "unwind"}
      <3>1. CASE Restarts(q)
        BY <3>1, EndMoves DEF Restarts
      <3>2. CASE OthersSame(q) /\ rst'[q].pc \notin {"rollback", "unwind"}
        BY <2>1, <3>2 DEF OthersSame, OnceInv
      <3> QED
        BY <2>1, <2>2, <3>1, <3>2, EndingStays
    <2>3. (\E q \in Restores : Restore(q)) \/ UNCHANGED rst
      <3>1. ASSUME NEW c \in Creators, Backup(c) PROVE UNCHANGED rst
        BY <3>1, BackupFrame
      <3> QED
        BY <2>1, <3>1 DEF Next, Upload, DeleteArchive, DeleteCopy, BotRefused, RequestWrites, Crash, vars
    <2> QED
      BY <2>1, <2>2, <2>3 DEF OnceInv
  <1>3. ASSUME faults' = 0, ~broken', NEW u \in Updates
        PROVE  /\ ran'[u] <= 1
               /\ ran'[u] = 1 => Known(u)'
               /\ \A r \in Restores : rst'[r].by = u /\ Awaited(r)' => Known(u)' /\ ran'[u] = 0
    <2>1. faults = 0 /\ ~broken
      BY <1>3, FaultsStay, BrokenStays
    <2>2. /\ ran[u] <= 1 /\ ran[u] \in Nat
          /\ ran[u] = 1 => Known(u)
          /\ \A r \in Restores : rst[r].by = u /\ Awaited(r) => Known(u) /\ ran[u] = 0
      BY <2>1 DEF OnceInv, Typed, CountersTyped
    <2>3. Known(u) => Known(u)'
      BY <1>3, KnownStep
    <2>4. CASE ran'[u] = ran[u]
      <3>1. ASSUME NEW r \in Restores, rst'[r].by = u, Awaited(r)' PROVE Known(u)' /\ ran[u] = 0
        <4>1. CASE Awaited(r) /\ rst[r].by = u
          BY <2>2, <2>3, <4>1
        <4>2. ASSUME NEW i \in DOMAIN archives, BotRestores(r, i, u) PROVE Known(u)' /\ ran[u] = 0
          BY <2>1, <3>1, <4>2, ClaimedOnce
        <4> QED
          BY <1>3, <3>1, <4>1, <4>2, AwaitedMoves
      <3> QED
        BY <2>2, <2>3, <2>4, <3>1
    <2>5. ASSUME NEW r \in Restores, rst[r].by = u, Awaited(r), ran'[u] = ran[u] + 1,
                 rst'[r].pc = "portal", OthersSame(r)
          PROVE  /\ ran'[u] <= 1 /\ Known(u)'
                 /\ \A q \in Restores : ~Awaited(q)'
      <3>1. ran[u] = 0 /\ Known(u)'
        BY <2>2, <2>3, <2>5
      <3>2. ASSUME NEW q \in Restores PROVE ~Awaited(q)'
        BY <2>5 DEF Awaited, Ending
      <3> QED
        BY <2>5, <3>1, <3>2
    <2> QED
      BY <2>4, <2>5, RanMoves
  <1> QED
    BY <1>1, <1>2, <1>3 DEF OnceInv

LEMMA OnceStart ==
  ASSUME Init
  PROVE  OnceInv
  <1>1. good["db"] # Absent
    BY UploadsAssumption, RolesAre DEF Init, Absent
  <1>2. \A r \in Restores : rst[r].pc = "idle"
    BY DEF Init, NoRestore
  <1>3. \A u \in Updates : ran[u] = 0
    BY DEF Init
  <1>4. \A r \in Restores : ~Awaited(r)
    BY <1>2 DEF Awaited
  <1> QED
    BY <1>1, <1>2, <1>3, <1>4 DEF OnceInv

\* Without faults, a restore ordered through the bot is carried out once, and the update that asked
\* for it stays recorded, so that its redelivery is dropped.
THEOREM BotRestoresRunOnce == Spec => []BotCommandRunsOnce
  <1>1. Init => OnceInv
    BY OnceStart
  <1>2. Typed /\ Alone /\ Progress /\ Whole /\ OnceInv /\ [Next]_vars => OnceInv'
    BY OnceStep
  <1>3. ASSUME OnceInv PROVE BotCommandRunsOnce
    <2>1. ASSUME NEW u \in Updates, Known(u), \A r \in Restores : rst[r].pc \notin Replacing
          PROVE  u \in claimed
      BY <2>1 DEF Known, Forgetful
    <2> QED
      BY <1>3, <2>1 DEF OnceInv, BotCommandRunsOnce
  <1> QED
    BY <1>1, <1>2, <1>3, RestoreTyped, RestoreAlone, RestoreProgress, RestoreWhole, PTL DEF Spec
=============================================================================
