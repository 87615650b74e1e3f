---------------------------- MODULE UnlockCodes ----------------------------
(***************************************************************************)
(* Unlock codes and the subscription of one user                           *)
(* (services/unlock_codes.py, user_subscription.py): a code redeemed on    *)
(* the portal moves the deadlines of one client, or the subscription and   *)
(* the deadlines of all the profiles the user owns.                        *)
(*                                                                         *)
(* A redeem reads the code, the user and the policies of its target into   *)
(* its ORM session, each SELECT on its own, and only its first UPDATE, the *)
(* reservation of an activation, takes SQLite's write lock.  What follows  *)
(* is one transaction, but rows already in the session keep the values     *)
(* they were read with.                                                    *)
(*                                                                         *)
(* A moment is a positive number and 0 a NULL column.  Every profile has   *)
(* its policy row.  Whether the node blocks a profile follows from its     *)
(* row: that part is ClientAccess.                                         *)
(***************************************************************************)
EXTENDS Naturals, FiniteSets

CONSTANTS
    NumClients,  \* the user's clients, numbered in the order of _owned_portal_targets
    Profiles,    \* the <<client, protocol>> pairs that exist
    Codes,
    Days,        \* code -> grant_days
    MaxUses,     \* code -> max_redemptions
    Bound,       \* code -> allowed_client_names, {} for an unrestricted code
    Covers,      \* code -> protocols
    Ends,        \* code -> code_expires_at
    Redeems,     \* portal requests that redeem a code
    Edits,       \* administrator requests that spread a subscription
    Dates,       \* deadlines an administrator picks
    MaxNow,      \* bound on the clock
    MaxCalls     \* bound on requests and on writes of an administrator

Clients == 1..NumClients
User    == 0                       \* the holder of a u_... link
Holders == {User} \cup Clients     \* a c_... link belongs to its client

ASSUME UnlockAssumption ==
    /\ Codes # {}
    /\ NumClients \in Nat \ {0} /\ MaxNow \in Nat \ {0} /\ MaxCalls \in Nat
    /\ \A p \in Profiles : p[1] \in Clients
    /\ Days \in [Codes -> Nat \ {0}] /\ MaxUses \in [Codes -> Nat \ {0}]
    /\ Bound \in [Codes -> SUBSET Clients] /\ Ends \in [Codes -> Nat]
    /\ Dates \subseteq Nat

VARIABLES
    now,       \* the clock
    status,    \* code -> none, live or revoked
    used,      \* code -> redemption_count
    redeemed,  \* unlock_code_redemptions: <<code, holder>>
    sub,       \* users.access_until
    until,     \* profile -> access_until of its policy
    manual,    \* profiles an administrator blocked
    req,       \* redeem -> what its session holds
    edit,      \* edit -> the deadline it spreads and where
    tick,      \* the expiry worker: the subscription it found due, the rows it seeds
    calls

codeVars == <<status, used, redeemed>>
vars == <<now, codeVars, sub, until, manual, req, edit, tick, calls>>

Idle == [pc |-> "idle", holder |-> User, code |-> CHOOSE c \in Codes : TRUE, at |-> 1,
         t |-> 1, sub |-> 0, until |-> [p \in Profiles |-> 0]]
NoEdit == [pc |-> "idle", date |-> 0, where |-> {}]
NoTick == [pc |-> "idle", date |-> 0, seeds |-> {}]

TypeOK ==
    /\ now \in 1..MaxNow
    /\ status \in [Codes -> {"none", "live", "revoked"}]
    /\ used \in [Codes -> Nat]
    /\ redeemed \subseteq Codes \X Holders
    /\ sub \in Nat
    /\ until \in [Profiles -> Nat]
    /\ manual \subseteq Profiles
    /\ req \in [Redeems -> [pc : {"idle", "look", "commit"}, holder : Holders, code : Codes,
                            at : Clients, t : 1..MaxNow, sub : Nat, until : [Profiles -> Nat]]]
    /\ edit \in [Edits -> [pc : {"idle", "sync"}, date : Nat, where : SUBSET Profiles]]
    /\ tick \in [pc : {"idle", "seed"}, date : Nat, seeds : SUBSET Profiles]
    /\ calls \in 0..MaxCalls

Init ==
    /\ now = 1
    /\ status = [c \in Codes |-> "none"]
    /\ used = [c \in Codes |-> 0]
    /\ redeemed = {}
    /\ sub \in Dates
    /\ until \in [Profiles -> Dates]
    /\ manual = {}
    /\ req = [r \in Redeems |-> Idle]
    /\ edit = [e \in Edits |-> NoEdit]
    /\ tick = NoTick
    /\ calls = 0

Called == calls < MaxCalls /\ calls' = calls + 1

Later(a, b) == IF a >= b THEN a ELSE b

-----------------------------------------------------------------------------
(* What a redeem may do and what it grants                                 *)

Over(c, t) == Ends[c] # 0 /\ Ends[c] <= t

RowsOf(client) == {p \in Profiles : p[1] = client}

\* The protocols of the code; all of them when it is bound to clients.
InCode(c, p) == Bound[c] # {} \/ p[2] \in Covers[c]

\* protocols_applied
Applied(c, client) == {p \in RowsOf(client) : InCode(c, p)}

\* The checks whose failure lets a user portal try its next profile:
\* allowed_client_names, no common protocol, a manual block.
Fits(c, client) ==
    /\ Bound[c] = {} \/ client \in Bound[c]
    /\ Applied(c, client) # {}
    /\ Applied(c, client) \cap manual = {}

\* Fault for mutation: the slot is counted without looking at the limit.
ReservesUnlimited(c, t) == status[c] = "live" /\ ~Over(c, t)

\* Fault for mutation: the revocation was checked when the code was read.
ReservesRevoked(c, t) == used[c] < MaxUses[c] /\ ~Over(c, t)

\* UPDATE unlock_codes SET redemption_count = redemption_count + 1 WHERE ...
Reserves(c, t) == status[c] = "live" /\ used[c] < MaxUses[c] /\ ~Over(c, t)

\* The deadline the session of r has for p: the rows of its target were read
\* before the lock, the others are read in the transaction.
Seen(r, p) == IF p[1] = req[r].at THEN req[r].until[p] ELSE until[p]

\* extend_owned_clients_for_redeem: the new subscription, 0 when it is left alone
NewSub(r) ==
    IF req[r].sub # 0 /\ Bound[req[r].code] = {}
    THEN Later(req[r].t, req[r].sub) + Days[req[r].code] ELSE 0

\* Fault for mutation: every limited profile gets the subscription's deadline.
UserGrantLevelled(r, p) ==
    IF NewSub(r) # 0 THEN NewSub(r) ELSE Later(req[r].t, Seen(r, p)) + Days[req[r].code]

UserGrant(r, p) ==
    IF NewSub(r) # 0 THEN Later(Seen(r, p), NewSub(r))
    ELSE Later(req[r].t, Seen(r, p)) + Days[req[r].code]

\* The limited profiles a user portal redeem moves.
UserMoves(r) ==
    LET c == req[r].code IN
    {p \in Profiles : /\ NewSub(r) # 0 \/ InCode(c, p)
                      /\ Bound[c] = {} \/ p[1] \in Bound[c]
                      /\ Seen(r, p) # 0
                      /\ UserGrant(r, p) # Seen(r, p)}

\* A client portal redeem moves one client.  A bound code gives all its
\* protocols one deadline, counted from the earliest they have.
ClientGrant(r, p) ==
    LET c == req[r].code
        present == {Seen(r, q) : q \in Applied(c, req[r].at)} \ {0}
        base == IF Bound[c] = {} \/ present = {} THEN Seen(r, p)
                ELSE CHOOSE d \in present : \A e \in present : d <= e
    IN  Later(req[r].t, base) + Days[c]

ClientMoves(r) == {p \in Applied(req[r].code, req[r].at) : ClientGrant(r, p) # Seen(r, p)}

Extended(r) ==
    IF req[r].holder = User
    THEN [p \in Profiles |-> IF p \in UserMoves(r) THEN UserGrant(r, p) ELSE until[p]]
    ELSE [p \in Profiles |-> IF p \in ClientMoves(r) THEN ClientGrant(r, p) ELSE until[p]]

\* _REDEEM_NOTHING_TO_EXTEND_MESSAGE
Nothing(r) == req[r].holder = User /\ NewSub(r) = 0 /\ UserMoves(r) = {}

\* The unique indexes of unlock_code_redemptions.
Duplicate(r) == <<req[r].code, req[r].holder>> \in redeemed

-----------------------------------------------------------------------------
(* Requests                                                                *)

RedeemStarts(r, h, c) ==
    /\ req[r].pc = "idle"
    /\ Called
    /\ req' = [req EXCEPT ![r] = [Idle EXCEPT !.pc = "look", !.holder = h, !.code = c,
                                  !.at = IF h = User THEN 1 ELSE h]]
    /\ UNCHANGED <<now, codeVars, sub, until, manual, edit, tick>>

\* Refused with a message that ends the request.
RefusedForGood(r) ==
    LET c == req[r].code IN
    \/ status[c] # "live"
    \/ Over(c, now)
    \/ (Bound[c] = {} \/ req[r].at \in Bound[c]) /\ Duplicate(r)

RedeemReads(r) ==
    LET c == req[r].code
        go == IF RefusedForGood(r) THEN Idle
              ELSE IF Fits(c, req[r].at)
              THEN [req[r] EXCEPT !.pc = "commit", !.t = now,
                        !.sub = IF req[r].holder = User THEN sub ELSE 0,
                        !.until = [p \in Profiles |-> IF p[1] = req[r].at THEN until[p] ELSE 0]]
              ELSE IF req[r].holder = User /\ req[r].at < NumClients
              THEN [req[r] EXCEPT !.at = @ + 1]
              ELSE Idle
    IN  /\ req[r].pc = "look"
        /\ req' = [req EXCEPT ![r] = go]
        /\ UNCHANGED <<now, codeVars, sub, until, manual, edit, tick, calls>>

\* The reservation, the deadlines and the redemption in one transaction.
RedeemCommits(r) ==
    LET c == req[r].code IN
    /\ req[r].pc = "commit"
    /\ Reserves(c, req[r].t)
    /\ ~Nothing(r)
    /\ ~Duplicate(r)
    /\ used' = [used EXCEPT ![c] = @ + 1]
    /\ redeemed' = redeemed \cup {<<c, req[r].holder>>}
    /\ sub' = IF NewSub(r) # 0 THEN NewSub(r) ELSE sub
    /\ until' = Extended(r)
    /\ req' = [req EXCEPT ![r] = Idle]
    /\ UNCHANGED <<now, status, manual, edit, tick, calls>>

\* No slot, nothing to extend or a duplicate: the transaction is rolled back.
RedeemRollsBack(r) ==
    /\ req[r].pc = "commit"
    /\ ~Reserves(req[r].code, req[r].t) \/ Nothing(r) \/ Duplicate(r)
    /\ req' = [req EXCEPT ![r] = Idle]
    /\ UNCHANGED <<now, codeVars, sub, until, manual, edit, tick, calls>>

create_unlock_code(c) ==
    /\ status[c] = "none"
    /\ status' = [status EXCEPT ![c] = "live"]
    /\ UNCHANGED <<now, used, redeemed, sub, until, manual, req, edit, tick, calls>>

revoke_unlock_code(c) ==
    /\ status[c] = "live"
    /\ status' = [status EXCEPT ![c] = "revoked"]
    /\ UNCHANGED <<now, used, redeemed, sub, until, manual, req, edit, tick, calls>>

\* PATCH of a user: the subscription is committed, and only a changed one goes on
\* to sync_owned_clients_access_until, which commits the profiles.
set_user_access_until(e, d) ==
    /\ edit[e].pc = "idle"
    /\ Called
    /\ sub' = d
    /\ edit' = IF d = sub THEN edit
               ELSE [edit EXCEPT ![e] = [pc |-> "sync", date |-> d, where |-> Profiles]]
    /\ UNCHANGED <<now, codeVars, until, manual, req, tick>>

\* sync_client_access_until_from_owner: the owner is read first.
SyncReadsOwner(e, client) ==
    /\ edit[e].pc = "idle"
    /\ Called
    /\ edit' = [edit EXCEPT ![e] = [pc |-> "sync", date |-> sub, where |-> RowsOf(client)]]
    /\ UNCHANGED <<now, codeVars, sub, until, manual, req, tick>>

SyncCommits(e) ==
    /\ edit[e].pc = "sync"
    /\ until' = [p \in Profiles |-> IF p \in edit[e].where THEN edit[e].date ELSE until[p]]
    /\ edit' = [edit EXCEPT ![e] = NoEdit]
    /\ UNCHANGED <<now, codeVars, sub, manual, req, tick, calls>>

\* set_access_until on one profile; a deadline unlike the owner's was confirmed.
set_access_until(p, d) ==
    /\ Called
    /\ until' = [until EXCEPT ![p] = d]
    /\ UNCHANGED <<now, codeVars, sub, manual, req, edit, tick>>

\* An administrator blocks or unblocks a profile.
ManualBlock(p) ==
    /\ Called
    /\ manual' = IF p \in manual THEN manual \ {p} ELSE manual \cup {p}
    /\ UNCHANGED <<now, codeVars, sub, until, req, edit, tick>>

-----------------------------------------------------------------------------
(* The expiry worker: of a subscription that is over, profiles without a   *)
(* deadline get its deadline; the claims that follow write no deadline.    *)

ExpiryReads ==
    /\ tick.pc = "idle"
    /\ sub # 0 /\ sub <= now
    /\ LET seeds == {p \in Profiles \ manual : until[p] = 0} IN
       /\ seeds # {}
       /\ tick' = [pc |-> "seed", date |-> sub, seeds |-> seeds]
    /\ UNCHANGED <<now, codeVars, sub, until, manual, req, edit, calls>>

ExpirySeeds ==
    /\ tick.pc = "seed"
    /\ until' = [p \in Profiles |-> IF p \in tick.seeds THEN tick.date ELSE until[p]]
    /\ tick' = NoTick
    /\ UNCHANGED <<now, codeVars, sub, manual, req, edit, calls>>

TimePasses ==
    /\ now < MaxNow
    /\ now' = now + 1
    /\ UNCHANGED <<codeVars, sub, until, manual, req, edit, tick, calls>>

-----------------------------------------------------------------------------

Portal(r) ==
    \/ \E h \in Holders, c \in Codes : RedeemStarts(r, h, c)
    \/ RedeemReads(r) \/ RedeemCommits(r) \/ RedeemRollsBack(r)

Admin ==
    \/ \E c \in Codes : create_unlock_code(c) \/ revoke_unlock_code(c)
    \/ \E e \in Edits : \/ \E d \in Dates : set_user_access_until(e, d)
                        \/ \E i \in Clients : SyncReadsOwner(e, i)
                        \/ SyncCommits(e)
    \/ \E p \in Profiles : ManualBlock(p) \/ \E d \in Dates : set_access_until(p, d)

Next == (\E r \in Redeems : Portal(r)) \/ Admin \/ ExpiryReads \/ ExpirySeeds \/ TimePasses

Spec == Init /\ [][Next]_vars

-----------------------------------------------------------------------------
(* Properties                                                              *)

UsesOf(c) == {h \in Holders : <<c, h>> \in redeemed}

\* The counter of a code is the number of its redemptions and stays within the
\* limit, and a code nobody issued has none, whatever requests race for the last slot.
UnlockInv ==
    /\ TypeOK
    /\ \A c \in Codes : /\ used[c] = Cardinality(UsesOf(c))
                        /\ used[c] <= MaxUses[c]
                        /\ status[c] = "none" => used[c] = 0

\* "код перестанет приниматься сразу": once revoke_unlock_code has committed, no redeem
\* that read the code before is counted any more, and the code never comes back.
RevokedCodeIsDead ==
    [][\A c \in Codes : status[c] = "revoked" =>
           status'[c] = "revoked" /\ used'[c] = used[c] /\ UsesOf(c)' = UsesOf(c)]_vars

\* What the session of r read is what the database still holds.
Undisturbed(r) ==
    /\ req[r].holder = User => req[r].sub = sub
    /\ \A p \in RowsOf(req[r].at) : req[r].until[p] = until[p]

\* A user portal redeem: unlimited profiles stay so, no deadline is shortened.
OnlyGrows ==
    /\ sub' >= sub /\ (sub = 0 => sub' = 0)
    /\ \A p \in Profiles : until'[p] >= until[p] /\ (until[p] = 0 => until'[p] = 0)

\* What redeem_unlock_code gives for the activation it counts, when no other commit came
\* between its reads and its transaction: on the user portal some deadline grows, none
\* shrinks, unlimited profiles stay unlimited and after a longer subscription no limited
\* profile ends before it; on the client portal the client gets its days and neither the
\* subscription nor another client moves.
UndisturbedRedeemPays ==
    [][\A r \in Redeems : (used' # used /\ req'[r] # req[r] /\ Undisturbed(r)) =>
         IF req[r].holder = User
         THEN /\ OnlyGrows
              /\ sub' > sub \/ \E p \in Profiles : until'[p] > until[p]
              /\ sub' # sub => \A p \in Profiles : until'[p] = 0 \/ until'[p] >= sub'
         ELSE /\ sub' = sub
              /\ \A p \in Profiles \ RowsOf(req[r].at) : until'[p] = until[p]
              /\ \A p \in Applied(req[r].code, req[r].at) :
                     until'[p] >= req[r].t + Days[req[r].code]]_vars

\* "сроки профилей только растут: бессрочные остаются бессрочными, более долгие не
\* сокращаются": the same for every redeem on a user portal.
RedeemOnlyGrows ==
    [][\A r \in Redeems :
         (used' # used /\ req'[r] # req[r] /\ req[r].holder = User) => OnlyGrows]_vars
=============================================================================
