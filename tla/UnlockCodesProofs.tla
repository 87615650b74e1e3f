------------------------- MODULE UnlockCodesProofs -------------------------
(***************************************************************************)
(* Proofs about UnlockCodes, for any clients, codes, requests and bounds:  *)
(* the counter of a code is exact and within its limit, and a revoked code *)
(* is never counted again.                                                 *)
(***************************************************************************)
EXTENDS UnlockCodes, FiniteSetTheorems, WellFoundedInduction, TLAPS

\* The counters as a part of UnlockInv of its own.
Counted ==
    \A c \in Codes : /\ used[c] = Cardinality(UsesOf(c))
                     /\ used[c] <= MaxUses[c]
                     /\ status[c] = "none" => used[c] = 0

Request == [pc : {"idle", "look", "commit"}, holder : Holders, code : Codes,
            at : Clients, t : 1..MaxNow, sub : Nat, until : [Profiles -> Nat]]

\* An idle request is well formed.
LEMMA IdleType == Idle \in Request
  <1>1. (CHOOSE c \in Codes : TRUE) \in Codes
    BY UnlockAssumption
  <1> QED
    BY <1>1, UnlockAssumption DEF Idle, Request, Holders, Clients, User

\* Holders are finitely many, so redemptions of a code can be counted.
LEMMA FiniteUses == \A c : IsFiniteSet(UsesOf(c)) /\ IsFiniteSet(UsesOf(c)')
  <1>1. IsFiniteSet(Clients)
    BY FS_Interval, UnlockAssumption DEF Clients
  <1>2. Holders = Clients \cup {User}
    BY DEF Holders
  <1>3. IsFiniteSet(Holders)
    BY <1>1, <1>2, FS_AddElement
  <1>4. ASSUME NEW c PROVE UsesOf(c) \in SUBSET Holders /\ UsesOf(c)' \in SUBSET Holders
    BY DEF UsesOf
  <1> QED
    BY <1>3, <1>4, FS_Subset

\* A set of moments that is not empty has an earliest one.
LEMMA LeastMoment ==
  ASSUME NEW T \in SUBSET Nat, T # {}
  PROVE  \E d \in T : \A e \in T : d <= e
  <1>1. PICK d \in T : \A e \in T : ~(<<e, d>> \in OpToRel(<, Nat))
    BY NatLessThanWellFounded, WFMin
  <1>2. ASSUME NEW e \in T PROVE d <= e
    <2>1. e \in Nat /\ d \in Nat
      OBVIOUS
    <2>2. ~(e < d)
      BY <1>1, <2>1 DEF OpToRel
    <2> QED
      BY <2>1, <2>2
  <1> QED
    BY <1>2

\* What a redeem computes are moments: its session holds moments, and the days
\* of a code are added to the later of two of them.
LEMMA GrantsAreMoments ==
  ASSUME TypeOK, NEW r \in Redeems
  PROVE  /\ NewSub(r) \in Nat
         /\ \A p \in Profiles : /\ Seen(r, p) \in Nat
                                /\ UserGrant(r, p) \in Nat
                                /\ ClientGrant(r, p) \in Nat
                                /\ ClientGrant(r, p) >= req[r].t + Days[req[r].code]
  <1>1. req[r] \in Request
    BY DEF TypeOK, Request
  <1>2. /\ req[r].t \in Nat /\ req[r].sub \in Nat /\ req[r].code \in Codes
        /\ Days[req[r].code] \in Nat
    BY <1>1, UnlockAssumption DEF Request
  <1>3. \A a, b \in Nat : Later(a, b) \in Nat
    BY DEF Later
  <1>4. NewSub(r) \in Nat
    BY <1>2 DEF NewSub, Later
  <1>5. ASSUME NEW p \in Profiles PROVE Seen(r, p) \in Nat
    BY <1>1 DEF Seen, TypeOK, Request
  <1>6. ASSUME NEW p \in Profiles PROVE UserGrant(r, p) \in Nat
    BY <1>2, <1>4, <1>5 DEF UserGrant, Later
  <1>7. ASSUME NEW p \in Profiles
        PROVE  /\ ClientGrant(r, p) \in Nat
               /\ ClientGrant(r, p) >= req[r].t + Days[req[r].code]
    <2> DEFINE present == {Seen(r, q) : q \in Applied(req[r].code, req[r].at)} \ {0}
               first == CHOOSE d \in present : \A e \in present : d <= e
               base == IF Bound[req[r].code] = {} \/ present = {} THEN Seen(r, p) ELSE first
    <2>1. present \in SUBSET Nat
      BY <1>5 DEF Applied, RowsOf
    <2>2. present # {} => first \in Nat
      <3> SUFFICES ASSUME present # {} PROVE first \in Nat
        OBVIOUS
      <3>1. \E d \in present : \A e \in present : d <= e
        BY <2>1, LeastMoment
      <3> QED
        BY <3>1, <2>1
    <2>3. base \in Nat
      BY <2>2, <1>5
    <2>4. ClientGrant(r, p) = Later(req[r].t, base) + Days[req[r].code]
      BY DEF ClientGrant
    <2> HIDE DEF base
    <2> QED
      BY <2>3, <2>4, <1>2 DEF Later
  <1> QED
    BY <1>4, <1>5, <1>6, <1>7

\* The type of every variable is kept: the requests of the portals.
LEMMA PortalType ==
  ASSUME TypeOK, NEW r \in Redeems, Portal(r)
  PROVE  TypeOK'
  <1> USE UnlockAssumption
  <1>0. req[r] \in Request /\ req \in [Redeems -> Request]
    BY DEF TypeOK, Request
  <1>1. ASSUME NEW h \in Holders, NEW c \in Codes, RedeemStarts(r, h, c) PROVE TypeOK'
    <2>1. [Idle EXCEPT !.pc = "look", !.holder = h, !.code = c,
                       !.at = IF h = User THEN 1 ELSE h] \in Request
      BY IdleType DEF Idle, Request, Holders, Clients, User
    <2>2. req' \in [Redeems -> Request]
      BY <1>0, <1>1, <2>1 DEF RedeemStarts
    <2> QED
      BY <1>1, <2>2 DEF RedeemStarts, Called, TypeOK, Request, codeVars
  <1>2. ASSUME RedeemReads(r) PROVE TypeOK'
    <2>1. [req[r] EXCEPT !.pc = "commit", !.t = now,
                        !.sub = IF req[r].holder = User THEN sub ELSE 0,
                        !.until = [p \in Profiles |-> IF p[1] = req[r].at THEN until[p] ELSE 0]]
             \in Request
      BY <1>0 DEF Request, TypeOK
    <2>2. req[r].at < NumClients => [req[r] EXCEPT !.at = @ + 1] \in Request
      BY <1>0 DEF Request, Clients
    <2>3. req' \in [Redeems -> Request]
      BY <1>0, <1>2, <2>1, <2>2, IdleType DEF RedeemReads
    <2> QED
      BY <1>2, <2>3 DEF RedeemReads, TypeOK, Request, codeVars
  <1>3. ASSUME RedeemCommits(r) PROVE TypeOK'
    <2>1. req' \in [Redeems -> Request]
      BY <1>0, <1>3, IdleType DEF RedeemCommits
    <2>2. until' \in [Profiles -> Nat]
      BY <1>3, GrantsAreMoments DEF RedeemCommits, Extended, TypeOK
    <2>3. sub' \in Nat /\ used' \in [Codes -> Nat] /\ redeemed' \subseteq Codes \X Holders
      BY <1>0, <1>3, GrantsAreMoments DEF RedeemCommits, TypeOK, Request
    <2> QED
      BY <1>3, <2>1, <2>2, <2>3 DEF RedeemCommits, TypeOK, Request
  <1>4. ASSUME RedeemRollsBack(r) PROVE TypeOK'
    <2>1. req' \in [Redeems -> Request]
      BY <1>0, <1>4, IdleType DEF RedeemRollsBack
    <2> QED
      BY <1>4, <2>1 DEF RedeemRollsBack, TypeOK, Request, codeVars
  <1> QED
    BY <1>1, <1>2, <1>3, <1>4 DEF Portal

\* The type of every variable is kept: administrators, the expiry worker, the clock.
LEMMA OtherType ==
  ASSUME TypeOK, Admin \/ ExpiryReads \/ ExpirySeeds \/ TimePasses
  PROVE  TypeOK'
  <1> USE UnlockAssumption
  <1>1. ASSUME NEW c \in Codes, create_unlock_code(c) \/ revoke_unlock_code(c) PROVE TypeOK'
    BY <1>1 DEF create_unlock_code, revoke_unlock_code, TypeOK
  <1>2. ASSUME NEW e \in Edits, NEW d \in Dates, set_user_access_until(e, d) PROVE TypeOK'
    BY <1>2 DEF set_user_access_until, Called, TypeOK, codeVars
  <1>3. ASSUME NEW e \in Edits, NEW i \in Clients, SyncReadsOwner(e, i) PROVE TypeOK'
    BY <1>3 DEF SyncReadsOwner, RowsOf, Called, TypeOK, codeVars
  <1>4. ASSUME NEW e \in Edits, SyncCommits(e) PROVE TypeOK'
    BY <1>4 DEF SyncCommits, NoEdit, TypeOK, codeVars
  <1>5. ASSUME NEW p \in Profiles, ManualBlock(p) PROVE TypeOK'
    BY <1>5 DEF ManualBlock, Called, TypeOK, codeVars
  <1>6. ASSUME NEW p \in Profiles, NEW d \in Dates, set_access_until(p, d) PROVE TypeOK'
    BY <1>6 DEF set_access_until, Called, TypeOK, codeVars
  <1>7. ASSUME ExpiryReads PROVE TypeOK'
    BY <1>7 DEF ExpiryReads, TypeOK, codeVars
  <1>8. ASSUME ExpirySeeds PROVE TypeOK'
    BY <1>8 DEF ExpirySeeds, NoTick, TypeOK, codeVars
  <1>9. ASSUME TimePasses PROVE TypeOK'
    BY <1>9 DEF TimePasses, TypeOK, codeVars
  <1> QED
    BY <1>1, <1>2, <1>3, <1>4, <1>5, <1>6, <1>7, <1>8, <1>9 DEF Admin

\* Only a commit of a redeem and the two operations on a code touch the codes.
LEMMA CodesElsewhere ==
  ASSUME Next \/ UNCHANGED vars
  PROVE  \/ \E r \in Redeems : RedeemCommits(r)
         \/ \E c \in Codes : create_unlock_code(c) \/ revoke_unlock_code(c)
         \/ UNCHANGED codeVars
  BY DEF Next, Portal, Admin, RedeemStarts, RedeemReads, RedeemRollsBack, set_user_access_until,
         SyncReadsOwner, SyncCommits, set_access_until, ManualBlock, ExpiryReads, ExpirySeeds,
         TimePasses, vars

\* A redeem that commits adds a holder who has not redeemed the code before and
\* raises its counter by one, below the limit.
LEMMA CommitCounts ==
  ASSUME TypeOK, Counted, NEW r \in Redeems, RedeemCommits(r)
  PROVE  Counted'
  <1>1. PICK k \in Codes, h \in Holders : k = req[r].code /\ h = req[r].holder
    BY DEF TypeOK
  <1>2. /\ used' = [used EXCEPT ![k] = @ + 1] /\ redeemed' = redeemed \cup {<<k, h>>}
        /\ status' = status /\ status[k] = "live" /\ used[k] < MaxUses[k]
        /\ <<k, h>> \notin redeemed
    BY <1>1 DEF RedeemCommits, Reserves, Duplicate
  <1>3. used \in [Codes -> Nat] /\ MaxUses \in [Codes -> Nat]
    BY UnlockAssumption DEF TypeOK
  <1>4. SUFFICES ASSUME NEW c \in Codes
                 PROVE  /\ used'[c] = Cardinality(UsesOf(c)')
                        /\ used'[c] <= MaxUses[c]
                        /\ status'[c] = "none" => used'[c] = 0
    BY DEF Counted, UsesOf
  <1>5. CASE c = k
    <2>1. UsesOf(k)' = UsesOf(k) \cup {h} /\ h \notin UsesOf(k)
      BY <1>1, <1>2 DEF UsesOf
    <2>2. Cardinality(UsesOf(k)') = Cardinality(UsesOf(k)) + 1
      BY <2>1, FiniteUses, FS_AddElement
    <2> QED
      BY <1>1, <1>2, <1>3, <1>5, <2>2 DEF Counted
  <1>6. CASE c # k
    <2>1. UsesOf(c)' = UsesOf(c)
      BY <1>2, <1>6 DEF UsesOf
    <2> QED
      BY <1>2, <1>3, <1>6, <2>1 DEF Counted
  <1> QED
    BY <1>5, <1>6

\* Every step keeps the counters.
LEMMA StepCounts ==
  ASSUME TypeOK, Counted, [Next]_vars
  PROVE  Counted'
  <1>1. ASSUME NEW c \in Codes, create_unlock_code(c) \/ revoke_unlock_code(c) PROVE Counted'
    <2>1. used' = used /\ redeemed' = redeemed
          /\ \A k \in Codes : status'[k] = "none" => status[k] = "none"
      BY <1>1 DEF create_unlock_code, revoke_unlock_code, TypeOK
    <2> QED
      BY <2>1 DEF Counted, UsesOf
  <1>2. ASSUME UNCHANGED codeVars PROVE Counted'
    BY <1>2 DEF codeVars, Counted, UsesOf
  <1> QED
    BY <1>1, <1>2, CodesElsewhere, CommitCounts

\* redeem_unlock_code and UnlockCode.redemption_count: for any number of racing
\* requests the counter of a code is the number of its redemptions, within the limit.
THEOREM CounterIsExact == Spec => []UnlockInv
  <1>1. Init => UnlockInv
    <2> SUFFICES ASSUME Init PROVE UnlockInv
      OBVIOUS
    <2>1. TypeOK
      <3>1. req \in [Redeems -> Request]
        BY IdleType DEF Init
      <3>2. now \in 1..MaxNow /\ calls \in 0..MaxCalls
        BY UnlockAssumption DEF Init
      <3>3. sub \in Nat /\ until \in [Profiles -> Nat] /\ used \in [Codes -> Nat]
        BY UnlockAssumption DEF Init
      <3>4. /\ edit \in [Edits -> [pc : {"idle", "sync"}, date : Nat, where : SUBSET Profiles]]
            /\ tick \in [pc : {"idle", "seed"}, date : Nat, seeds : SUBSET Profiles]
        BY DEF Init, NoEdit, NoTick
      <3> QED
        BY <3>1, <3>2, <3>3, <3>4 DEF Init, TypeOK, Request
    <2>2. \A c \in Codes : UsesOf(c) = {}
      BY DEF Init, UsesOf
    <2>3. Cardinality({}) = 0
      BY FS_EmptySet
    <2>4. \A c \in Codes : used[c] = 0 /\ 0 <= MaxUses[c]
      BY UnlockAssumption DEF Init
    <2> QED
      BY <2>1, <2>2, <2>3, <2>4 DEF UnlockInv
  <1>2. UnlockInv /\ [Next]_vars => UnlockInv'
    <2> SUFFICES ASSUME UnlockInv, [Next]_vars PROVE UnlockInv'
      OBVIOUS
    <2>1. TypeOK /\ Counted
      BY DEF UnlockInv, Counted
    <2>2. TypeOK'
      <3>1. CASE Next
        BY <2>1, <3>1, PortalType, OtherType DEF Next
      <3>2. CASE UNCHANGED vars
        BY <2>1, <3>2 DEF vars, codeVars, TypeOK
      <3> QED
        BY <3>1, <3>2
    <2>3. Counted'
      BY <2>1, StepCounts
    <2> QED
      BY <2>2, <2>3 DEF UnlockInv, Counted
  <1> QED
    BY <1>1, <1>2, PTL DEF Spec

\* revoke_unlock_code: after it has committed no redeem is counted, not even one
\* that read the code before, and the code stays revoked.
THEOREM RevocationIsFinal == Spec => RevokedCodeIsDead
  <1>1. UnlockInv /\ [Next]_vars =>
          [\A c \in Codes : status[c] = "revoked" =>
             status'[c] = "revoked" /\ used'[c] = used[c] /\ UsesOf(c)' = UsesOf(c)]_vars
    <2> SUFFICES ASSUME UnlockInv, [Next]_vars, NEW c \in Codes, status[c] = "revoked"
                 PROVE  status'[c] = "revoked" /\ used'[c] = used[c] /\ UsesOf(c)' = UsesOf(c)
      OBVIOUS
    <2>0. TypeOK
      BY DEF UnlockInv
    <2>1. ASSUME NEW r \in Redeems, RedeemCommits(r)
          PROVE  status'[c] = "revoked" /\ used'[c] = used[c] /\ UsesOf(c)' = UsesOf(c)
      <3>1. req[r].code # c
        BY <2>1 DEF RedeemCommits, Reserves
      <3> QED
        BY <2>0, <2>1, <3>1 DEF RedeemCommits, TypeOK, UsesOf
    <2>2. ASSUME NEW k \in Codes, create_unlock_code(k) \/ revoke_unlock_code(k)
          PROVE  status'[c] = "revoked" /\ used'[c] = used[c] /\ UsesOf(c)' = UsesOf(c)
      BY <2>0, <2>2 DEF create_unlock_code, revoke_unlock_code, TypeOK, UsesOf
    <2>3. ASSUME UNCHANGED codeVars
          PROVE  status'[c] = "revoked" /\ used'[c] = used[c] /\ UsesOf(c)' = UsesOf(c)
      BY <2>3 DEF codeVars, UsesOf
    <2> QED
      BY <2>1, <2>2, <2>3, CodesElsewhere
  <1> QED
    BY <1>1, CounterIsExact, PTL DEF Spec, RevokedCodeIsDead

-----------------------------------------------------------------------------
(* What a redeem gives.                                                    *)

\* A client portal never loads the subscription.
SubOfUser == \A r \in Redeems : req[r].holder # User => req[r].sub = 0

LEMMA SubOfUserStep ==
  ASSUME TypeOK, SubOfUser, [Next]_vars
  PROVE  SubOfUser'
  <1>0. req \in [Redeems -> Request]
    BY DEF TypeOK, Request
  <1>1. ASSUME NEW r \in Redeems, Portal(r) PROVE SubOfUser'
    <2>1. \E x : /\ req' = [req EXCEPT ![r] = x]
                 /\ x.holder # User => x.sub = 0
      <3>1. ASSUME NEW h \in Holders, NEW c \in Codes, RedeemStarts(r, h, c)
            PROVE  \E x : req' = [req EXCEPT ![r] = x] /\ (x.holder # User => x.sub = 0)
        <4> DEFINE x == [Idle EXCEPT !.pc = "look", !.holder = h, !.code = c,
                                     !.at = IF h = User THEN 1 ELSE h]
        <4>1. x.sub = 0
          BY DEF Idle
        <4>2. req' = [req EXCEPT ![r] = x]
          BY <3>1 DEF RedeemStarts
        <4> HIDE DEF x
        <4> QED
          BY <4>1, <4>2
      <3>2. ASSUME RedeemReads(r)
            PROVE  \E x : req' = [req EXCEPT ![r] = x] /\ (x.holder # User => x.sub = 0)
        <4>1. req[r] \in Request
          BY <1>0
        <4> DEFINE a == [req[r] EXCEPT !.pc = "commit", !.t = now,
                            !.sub = IF req[r].holder = User THEN sub ELSE 0,
                            !.until = [p \in Profiles |-> IF p[1] = req[r].at THEN until[p] ELSE 0]]
                   b == [req[r] EXCEPT !.at = @ + 1]
        <4>2. a.holder # User => a.sub = 0
          BY <4>1 DEF Request
        <4>3. req[r].holder = User => b.holder = User
          BY <4>1 DEF Request
        <4>4. Idle.holder = User
          BY DEF Idle
        <4>5. \/ req' = [req EXCEPT ![r] = a]
              \/ req' = [req EXCEPT ![r] = Idle]
              \/ req[r].holder = User /\ req' = [req EXCEPT ![r] = b]
          BY <3>2 DEF RedeemReads
        <4> HIDE DEF a, b
        <4> QED
          BY <4>2, <4>3, <4>4, <4>5
      <3>3. ASSUME RedeemCommits(r) \/ RedeemRollsBack(r)
            PROVE  \E x : req' = [req EXCEPT ![r] = x] /\ (x.holder # User => x.sub = 0)
        <4>1. Idle.holder = User
          BY DEF Idle
        <4>2. req' = [req EXCEPT ![r] = Idle]
          BY <3>3 DEF RedeemCommits, RedeemRollsBack
        <4> QED
          BY <4>1, <4>2
      <3> QED
        BY <1>1, <3>1, <3>2, <3>3 DEF Portal
    <2> QED
      BY <1>0, <2>1 DEF SubOfUser
  <1>2. ASSUME UNCHANGED req PROVE SubOfUser'
    BY <1>2 DEF SubOfUser
  <1>3. \/ \E r \in Redeems : Portal(r)
        \/ UNCHANGED req
    BY DEF Next, Admin, create_unlock_code, revoke_unlock_code, set_user_access_until,
           SyncReadsOwner, SyncCommits, set_access_until, ManualBlock, ExpiryReads, ExpirySeeds,
           TimePasses, vars
  <1> QED
    BY <1>1, <1>2, <1>3

\* On the user portal: nothing shrinks, something grows.
LEMMA UserRedeemPays ==
  ASSUME TypeOK, NEW r \in Redeems, RedeemCommits(r), Undisturbed(r), req[r].holder = User
  PROVE  /\ OnlyGrows
         /\ sub' > sub \/ \E p \in Profiles : until'[p] > until[p]
         /\ sub' # sub => \A p \in Profiles : until'[p] = 0 \/ until'[p] >= sub'
  <1>1. /\ req[r].t \in Nat /\ req[r].code \in Codes /\ Days[req[r].code] \in Nat \ {0}
        /\ sub \in Nat /\ until \in [Profiles -> Nat] /\ req[r].sub = sub
    BY UnlockAssumption DEF TypeOK, Undisturbed
  <1>2. NewSub(r) \in Nat /\ \A p \in Profiles : UserGrant(r, p) \in Nat
    BY GrantsAreMoments
  <1>3. \A p \in Profiles : Seen(r, p) = until[p]
    BY DEF Seen, Undisturbed, RowsOf
  <1>4. NewSub(r) # 0 => NewSub(r) > sub /\ sub # 0 /\ Bound[req[r].code] = {}
    BY <1>1 DEF NewSub, Later
  <1>5. \A p \in Profiles : /\ UserGrant(r, p) >= until[p]
                            /\ NewSub(r) # 0 => UserGrant(r, p) >= NewSub(r)
    BY <1>1, <1>2, <1>3 DEF UserGrant, Later
  <1>6. /\ sub' = IF NewSub(r) # 0 THEN NewSub(r) ELSE sub
        /\ \A p \in Profiles : until'[p] = IF p \in UserMoves(r) THEN UserGrant(r, p) ELSE until[p]
        /\ NewSub(r) # 0 \/ UserMoves(r) # {}
    BY DEF RedeemCommits, Extended, Nothing
  <1>7. \A p \in UserMoves(r) : p \in Profiles /\ until[p] # 0 /\ UserGrant(r, p) # until[p]
    BY <1>3 DEF UserMoves
  <1>8. NewSub(r) # 0 => \A p \in Profiles : \/ p \in UserMoves(r)
                                             \/ until[p] = 0
                                             \/ UserGrant(r, p) = until[p]
    BY <1>3, <1>4 DEF UserMoves
  <1>9. OnlyGrows
    BY <1>1, <1>2, <1>4, <1>5, <1>6, <1>7 DEF OnlyGrows
  <1>10. sub' > sub \/ \E p \in Profiles : until'[p] > until[p]
    BY <1>1, <1>2, <1>4, <1>5, <1>6, <1>7
  <1>11. sub' # sub => \A p \in Profiles : until'[p] = 0 \/ until'[p] >= sub'
    BY <1>1, <1>2, <1>5, <1>6, <1>8
  <1> QED
    BY <1>9, <1>10, <1>11

\* On the client portal: the client has its days, and nothing else moves.
LEMMA ClientRedeemPays ==
  ASSUME TypeOK, SubOfUser, NEW r \in Redeems, RedeemCommits(r), Undisturbed(r),
         req[r].holder # User
  PROVE  /\ sub' = sub
         /\ \A p \in Profiles \ RowsOf(req[r].at) : until'[p] = until[p]
         /\ \A p \in Applied(req[r].code, req[r].at) : until'[p] >= req[r].t + Days[req[r].code]
  <1>1. sub' = sub
    BY DEF SubOfUser, RedeemCommits, NewSub
  <1>2. \A p \in Profiles : until'[p] = IF p \in ClientMoves(r) THEN ClientGrant(r, p) ELSE until[p]
    BY DEF RedeemCommits, Extended
  <1>3. \A p \in ClientMoves(r) : p \in RowsOf(req[r].at)
    BY DEF ClientMoves, Applied
  <1>4. ASSUME NEW p \in Applied(req[r].code, req[r].at)
        PROVE  until'[p] >= req[r].t + Days[req[r].code]
    <2>1. p \in Profiles /\ Seen(r, p) = until[p]
      BY DEF Applied, RowsOf, Seen, Undisturbed
    <2>2. until'[p] = ClientGrant(r, p)
      BY <1>2, <2>1 DEF ClientMoves
    <2> QED
      BY <2>1, <2>2, GrantsAreMoments
  <1> QED
    BY <1>1, <1>2, <1>3, <1>4

\* redeem_unlock_code pays for the activation it counts: unless another commit came
\* between its reads and its transaction, user portals only gain and some deadline
\* really grows, and a client gets its days without touching anything else.
THEOREM RedeemPays == Spec => UndisturbedRedeemPays
  <1>1. Init => SubOfUser
    BY DEF Init, SubOfUser, Idle
  <1>2. UnlockInv /\ SubOfUser /\ [Next]_vars => SubOfUser'
    BY SubOfUserStep DEF UnlockInv
  <1>3. Spec => [](UnlockInv /\ SubOfUser)
    BY <1>1, <1>2, CounterIsExact, PTL DEF Spec
  <1>4. ASSUME UnlockInv, SubOfUser, [Next]_vars, NEW r \in Redeems,
               used' # used, req'[r] # req[r], Undisturbed(r)
        PROVE  RedeemCommits(r)
    <2>1. PICK s \in Redeems : RedeemCommits(s)
      <3>1. ASSUME NEW c \in Codes, create_unlock_code(c) \/ revoke_unlock_code(c) PROVE FALSE
        BY <1>4, <3>1 DEF create_unlock_code, revoke_unlock_code
      <3>2. ASSUME UNCHANGED codeVars PROVE FALSE
        BY <1>4, <3>2 DEF codeVars
      <3> QED
        BY <1>4, <3>1, <3>2, CodesElsewhere
    <2>2. s = r
      BY <1>4, <2>1 DEF RedeemCommits, UnlockInv, TypeOK
    <2> QED
      BY <2>1, <2>2
  <1>5. UnlockInv /\ SubOfUser /\ [Next]_vars =>
          [\A r \in Redeems : (used' # used /\ req'[r] # req[r] /\ Undisturbed(r)) =>
             IF req[r].holder = User
             THEN /\ OnlyGrows
                  /\ sub' > sub \/ \E p \in Profiles : until'[p] > until[p]
                  /\ sub' # sub => \A p \in Profiles : until'[p] = 0 \/ until'[p] >= sub'
             ELSE /\ sub' = sub
                  /\ \A p \in Profiles \ RowsOf(req[r].at) : until'[p] = until[p]
                  /\ \A p \in Applied(req[r].code, req[r].at) :
                         until'[p] >= req[r].t + Days[req[r].code]]_vars
    BY <1>4, UserRedeemPays, ClientRedeemPays DEF UnlockInv
  <1> QED
    BY <1>3, <1>5, PTL DEF Spec, UndisturbedRedeemPays
=============================================================================
