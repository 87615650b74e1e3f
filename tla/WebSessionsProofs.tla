------------------------- MODULE WebSessionsProofs -------------------------
(* What TLAPS proves of WebSessions, for every number of tokens, families  *)
(* and requests.                                                           *)
EXTENDS WebSessions, TLAPS

\* Types of the values the actions write.
LEMMA WriteTypes ==
    ASSUME TypeOK
    PROVE  /\ \A T, st : st \in Statuses => Revoke(T, st) \in [Tokens -> [fam : AnyFamily, status : Statuses, auth : Versions]]
           /\ \A T, n, f, a : n \in Tokens /\ f \in AnyFamily /\ a \in Versions =>
                 Succeed(T, n, f, a) \in [Tokens -> [fam : AnyFamily, status : Statuses, auth : Versions]]
           /\ \A F : Bury(F) \subseteq [fam : AnyFamily, tv : Versions, auth : Versions, fate : {"open", "buried"}]
           /\ \A f, v, a : f \in AnyFamily /\ v \in Versions /\ a \in Versions =>
                 Mint(f, v, a) \in [fam : AnyFamily, tv : Versions, auth : Versions, fate : {"open", "buried"}]
<1>1. \A T, st : st \in Statuses => Revoke(T, st) \in [Tokens -> [fam : AnyFamily, status : Statuses, auth : Versions]]
  BY DEF TypeOK, Revoke, Token
<1>2. \A T, n, f, a : n \in Tokens /\ f \in AnyFamily /\ a \in Versions =>
         Succeed(T, n, f, a) \in [Tokens -> [fam : AnyFamily, status : Statuses, auth : Versions]]
  BY <1>1 DEF Succeed, Statuses, Token
<1>3. \A F : Bury(F) \subseteq [fam : AnyFamily, tv : Versions, auth : Versions, fate : {"open", "buried"}]
  BY DEF TypeOK, Bury, Jwt
<1>4. \A f, v, a : f \in AnyFamily /\ v \in Versions /\ a \in Versions =>
         Mint(f, v, a) \in [fam : AnyFamily, tv : Versions, auth : Versions, fate : {"open", "buried"}]
  BY DEF Mint, Jwt
<1> QED BY <1>1, <1>2, <1>3, <1>4

\* Every action keeps the types.
LEMMA TypePreserved ==
    ASSUME TypeOK, HeldOK, [Next]_vars
    PROVE  TypeOK'
<1> USE DEF TypeOK, Statuses, AnyFamily, Versions, NoToken
<1>1. ASSUME NEW r \in Refreshers, Refresh(r) PROVE TypeOK'
  <2> r \in Requests BY DEF Requests
  <2>1. CASE \E t \in Tokens : RefreshReadsLive(r, t)
    BY <2>1, WriteTypes, BoundsAssumption DEF RefreshReadsLive, Goto, Remember
  <2>2. CASE \E t \in Tokens : RefreshReadsRecent(r, t)
    BY <2>2, WriteTypes, BoundsAssumption DEF RefreshReadsRecent, Goto, Remember
  <2>3. CASE \E t \in Tokens : RefreshReadsStale(r, t)
    BY <2>3, WriteTypes, BoundsAssumption DEF RefreshReadsStale, Goto, Remember
  <2>4. CASE \E n \in Tokens, f \in Families : RefreshClaims(r, n, f)
    BY <2>4, WriteTypes, BoundsAssumption DEF RefreshClaims, Goto, Remember, FamilyFor, HeldOK
  <2>5. CASE RefreshLosesClaim(r)
    BY <2>5, WriteTypes, BoundsAssumption DEF RefreshLosesClaim, Goto
  <2>6. CASE \E n \in Tokens : RefreshSupersedes(r, n)
    BY <2>6, WriteTypes, BoundsAssumption DEF RefreshSupersedes, Goto, Remember, HeldOK
  <2>7. CASE RefreshFindsFamilyDead(r)
    BY <2>7, WriteTypes, BoundsAssumption DEF RefreshFindsFamilyDead, Finish, Nothing
  <2>8. CASE RefreshRevokesFamily(r)
    BY <2>8, WriteTypes, BoundsAssumption DEF RefreshRevokesFamily, Finish, Nothing
  <2>9. CASE RefreshMints(r)
    BY <2>9, WriteTypes, BoundsAssumption DEF RefreshMints, Finish, Nothing, HeldOK
  <2>10. CASE RefreshMintsLoaded(r)
    BY <2>10, WriteTypes, BoundsAssumption DEF RefreshMintsLoaded, Finish, Nothing, HeldOK
  <2> QED BY <1>1, <2>1, <2>2, <2>3, <2>4, <2>5, <2>6, <2>7, <2>8, <2>9, <2>10 DEF Refresh
<1>2. ASSUME NEW r \in Logouts, Logout(r) PROVE TypeOK'
  <2> r \in Requests BY DEF Requests
  <2>1. CASE \E t \in Tokens : LogoutStarts(r, t)
    BY <2>1, WriteTypes, BoundsAssumption DEF LogoutStarts, Goto, Remember
  <2>2. CASE \E t \in Tokens, j \in jwts : LogoutStartsWithBearer(r, t, j)
    BY <2>2, WriteTypes, BoundsAssumption DEF LogoutStartsWithBearer, Goto, Remember
  <2>3. CASE LogoutRevokesSession(r)
    BY <2>3, WriteTypes, BoundsAssumption DEF LogoutRevokesSession, Goto
  <2>4. CASE LogoutRollsBack(r)
    BY <2>4, WriteTypes, BoundsAssumption DEF LogoutRollsBack, Goto
  <2>5. CASE LogoutReadsCookie(r)
    <3>1. CASE tokens[held[r].tok].status \in {"live", "expired"}
      BY <2>5, <3>1 DEF LogoutReadsCookie, Goto
    <3>2. CASE tokens[held[r].tok].status \notin {"live", "expired"}
      <4>1. Finish(r) /\ UNCHANGED <<tokens, sessions, version, active, jwts>>
        BY <2>5, <3>2 DEF LogoutReadsCookie
      <4> QED BY <4>1, BoundsAssumption DEF Finish, Nothing
    <3> QED BY <3>1, <3>2
  <2>6. CASE LogoutRevokesCookie(r)
    BY <2>6, WriteTypes, BoundsAssumption DEF LogoutRevokesCookie, Finish, Nothing
  <2> QED BY <1>2, <2>1, <2>2, <2>3, <2>4, <2>5, <2>6 DEF Logout
<1>3. ASSUME NEW r \in Changers, Change(r) PROVE TypeOK'
  <2> r \in Requests BY DEF Requests
  <2>1. CASE \E j \in jwts : ChangeStarts(r, j)
    BY <2>1, WriteTypes, BoundsAssumption DEF ChangeStarts, Goto, Remember
  <2>2. CASE ChangeInvalidates(r)
    BY <2>2, WriteTypes, BoundsAssumption DEF ChangeInvalidates, Goto, Remember, Invalidate
  <2>3. CASE \E n \in Tokens, f \in Families : ChangeIssues(r, n, f)
    BY <2>3, WriteTypes, BoundsAssumption DEF ChangeIssues, Finish, Nothing, FamilyFor
  <2> QED BY <1>3, <2>1, <2>2, <2>3 DEF Change
<1>4. ASSUME NEW r \in Logins, Login(r) PROVE TypeOK'
  <2> r \in Requests BY DEF Requests
  <2>1. CASE LoginAuthenticates(r)
    BY <2>1, WriteTypes, BoundsAssumption DEF LoginAuthenticates, Goto, Remember
  <2>2. CASE \E n \in Tokens, f \in Families : LoginIssues(r, n, f)
    BY <2>2, WriteTypes, BoundsAssumption DEF LoginIssues, Finish, Nothing
  <2> QED BY <1>4, <2>1, <2>2 DEF Login
<1>5. ASSUME Admin PROVE TypeOK'
  <2>1. CASE \E f \in Families : RevokeActiveSession(f)
    BY <2>1, WriteTypes, BoundsAssumption DEF RevokeActiveSession
  <2>2. CASE AdminSetsPassword
    BY <2>2, WriteTypes, BoundsAssumption DEF AdminSetsPassword, Invalidate
  <2>3. CASE AdminDisables
    <3>1. sessions' \in [Families -> {"absent", "active", "revoked"}]
      BY <2>3 DEF AdminDisables, TypeOK
    <3>2. version' \in Versions
      BY <2>3, BoundsAssumption DEF AdminDisables, Invalidate
    <3>3. tokens' \in [Tokens -> [fam : AnyFamily, status : Statuses, auth : Versions]]
      BY <2>3, WriteTypes DEF AdminDisables, Invalidate
    <3>4. jwts' \subseteq [fam : AnyFamily, tv : Versions, auth : Versions, fate : {"open", "buried"}]
      BY <2>3, WriteTypes DEF AdminDisables
    <3> QED BY <2>3, <3>1, <3>2, <3>3, <3>4 DEF AdminDisables, TypeOK
  <2>4. CASE AdminEnables
    BY <2>4, WriteTypes, BoundsAssumption DEF AdminEnables
  <2> QED BY <1>5, <2>1, <2>2, <2>3, <2>4 DEF Admin
<1>6. ASSUME Environment PROVE TypeOK'
  <2>1. CASE \E j \in jwts : Touch(j)
    BY <2>1, WriteTypes, BoundsAssumption DEF Touch
  <2>2. CASE \E j \in jwts : JwtExpires(j)
    BY <2>2, WriteTypes, BoundsAssumption DEF JwtExpires
  <2>3. CASE \E f \in Families : CleanupIdle(f)
    BY <2>3, WriteTypes, BoundsAssumption DEF CleanupIdle
  <2>4. CASE \E f \in Families : CleanupRevoked(f)
    BY <2>4, WriteTypes, BoundsAssumption DEF CleanupRevoked
  <2>5. CASE \E t \in Tokens : GraceEnds(t)
    BY <2>5, WriteTypes, BoundsAssumption DEF GraceEnds
  <2>6. CASE \E t \in Tokens : TokenExpires(t)
    BY <2>6, WriteTypes, BoundsAssumption DEF TokenExpires
  <2> QED BY <1>6, <2>1, <2>2, <2>3, <2>4, <2>5, <2>6 DEF Environment
<1>7. CASE UNCHANGED vars
  BY <1>7 DEF vars, TypeOK
<1> QED BY <1>1, <1>2, <1>3, <1>4, <1>5, <1>6, <1>7 DEF Next

-----------------------------------------------------------------------------
\* The statuses of a row with revoked = False.
Usable == {"live", "expired"}

\* A step leaves token t in its family and does not bring it back.
Kept(t) ==
    /\ tokens'[t].fam = tokens[t].fam
    /\ tokens'[t].status = "unused" <=> tokens[t].status = "unused"
    /\ tokens'[t].status \in Usable => tokens[t].status \in Usable

KeepsTokens == \A t \in Tokens : Kept(t)

\* A step adds row n to family f.
AddsToken(n, f) ==
    /\ tokens[n].status = "unused"
    /\ tokens'[n].fam = f
    /\ tokens'[n].status = "live"
    /\ \A t \in Tokens \ {n} : Kept(t)

\* Why a step may add to family f: it is new, or an unrevoked token of it is
\* rotated by the same step, or a password change issues into it.
MayAdd(f) ==
    \/ Fresh(f)
    \/ \E u \in Unrevoked(f) : tokens'[u].status = "rotated"
    \/ \E c \in Changers : pc[c] = "issue" /\ pc'[c] = "idle" /\ held[c].fam = f

TokenStep ==
    \/ KeepsTokens
    \/ \E n \in Tokens, f \in Families : AddsToken(n, f) /\ MayAdd(f)

\* Marking existing rows revoked (or expired) brings none back.
LEMMA RevokeKeeps ==
    ASSUME TypeOK, NEW T, NEW st \in {"rotated", "stale", "ended", "expired"},
           \A t \in Tokens : t \in T => tokens[t].status # "unused",
           st = "expired" => \A t \in Tokens : t \in T => tokens[t].status \in Usable,
           tokens' = Revoke(T, st)
    PROVE  KeepsTokens
BY DEF TypeOK, KeepsTokens, Kept, Revoke, Token, Usable

\* A claim or supersede adds one row and rotates the rows of T.
LEMMA SucceedAdds ==
    ASSUME TypeOK, NEW T, NEW n \in Tokens, NEW f, NEW a,
           tokens[n].status = "unused",
           \A t \in Tokens : t \in T => tokens[t].status # "unused",
           tokens' = Succeed(T, n, f, a)
    PROVE  AddsToken(n, f) /\ \A t \in Tokens : t \in T => tokens'[t].status = "rotated"
BY DEF TypeOK, AddsToken, Kept, Succeed, Revoke, Token, Usable

\* What a step can do to the token table.
LEMMA TokenSteps ==
    ASSUME TypeOK, HeldOK, [Next]_vars
    PROVE  TokenStep
<1>1. ASSUME NEW r \in Refreshers, Refresh(r) PROVE TokenStep
  <2> r \in Requests BY DEF Requests
  <2>1. CASE \E t \in Tokens : RefreshReadsLive(r, t)
    BY <2>1 DEF RefreshReadsLive, TokenStep, KeepsTokens, Kept
  <2>2. CASE \E t \in Tokens : RefreshReadsRecent(r, t)
    BY <2>2 DEF RefreshReadsRecent, TokenStep, KeepsTokens, Kept
  <2>3. CASE \E t \in Tokens : RefreshReadsStale(r, t)
    BY <2>3 DEF RefreshReadsStale, TokenStep, KeepsTokens, Kept
  <2>4. CASE \E n \in Tokens, f \in Families : RefreshClaims(r, n, f)
    <3>1. PICK n \in Tokens, f \in Families : RefreshClaims(r, n, f) BY <2>4
    <3>2. AddsToken(n, f) /\ tokens'[held[r].tok].status = "rotated"
      <4>1. /\ tokens[n].status = "unused"
            /\ tokens' = Succeed({held[r].tok}, n, f, tokens[held[r].tok].auth)
            /\ \A t \in Tokens : t \in {held[r].tok} => tokens[t].status # "unused"
            /\ held[r].tok \in Tokens
        BY <3>1 DEF RefreshClaims, HeldOK, NextId
      <4> QED BY <4>1, SucceedAdds
    <3>3. Fresh(f) \/ held[r].tok \in Unrevoked(f)
      BY <3>1 DEF RefreshClaims, FamilyFor, HeldOK, Unrevoked
    <3> QED BY <3>2, <3>3 DEF TokenStep, MayAdd
  <2>5. CASE RefreshLosesClaim(r)
    BY <2>5 DEF RefreshLosesClaim, TokenStep, KeepsTokens, Kept
  <2>6. CASE \E n \in Tokens : RefreshSupersedes(r, n)
    <3>1. PICK n \in Tokens : RefreshSupersedes(r, n) BY <2>6
    <3>2. AddsToken(n, held[r].fam) /\ \A t \in Live(held[r].fam) : tokens'[t].status = "rotated"
      <4>1. /\ tokens[n].status = "unused"
            /\ tokens' = Succeed(Live(held[r].fam), n, held[r].fam, tokens[held[r].tok].auth)
        BY <3>1 DEF RefreshSupersedes, NextId
      <4>2. \A t \in Live(held[r].fam) : t \in Tokens /\ tokens[t].status # "unused"
        BY DEF Live
      <4> QED BY <4>1, <4>2, SucceedAdds
    <3>3. held[r].fam \in Families /\ \E u \in Live(held[r].fam) : u \in Unrevoked(held[r].fam)
      BY <3>1 DEF RefreshSupersedes, HeldOK, Live, Unrevoked
    <3> QED BY <3>2, <3>3 DEF TokenStep, MayAdd
  <2>7. CASE RefreshFindsFamilyDead(r)
    BY <2>7 DEF RefreshFindsFamilyDead, TokenStep, KeepsTokens, Kept
  <2>8. CASE RefreshRevokesFamily(r)
    BY <2>8, RevokeKeeps DEF RefreshRevokesFamily, TokenStep, AllUnrevoked, Unrevoked, Usable, HeldOK
  <2>9. CASE RefreshMints(r)
    BY <2>9 DEF RefreshMints, TokenStep, KeepsTokens, Kept
  <2>10. CASE RefreshMintsLoaded(r)
    BY <2>10 DEF RefreshMintsLoaded, TokenStep, KeepsTokens, Kept
  <2> QED BY <1>1, <2>1, <2>2, <2>3, <2>4, <2>5, <2>6, <2>7, <2>8, <2>9, <2>10 DEF Refresh
<1>2. ASSUME NEW r \in Logouts, Logout(r) PROVE TokenStep
  <2> r \in Requests BY DEF Requests
  <2>1. CASE \E t \in Tokens : LogoutStarts(r, t)
    BY <2>1 DEF LogoutStarts, TokenStep, KeepsTokens, Kept
  <2>2. CASE \E t \in Tokens, j \in jwts : LogoutStartsWithBearer(r, t, j)
    BY <2>2 DEF LogoutStartsWithBearer, TokenStep, KeepsTokens, Kept
  <2>3. CASE LogoutRevokesSession(r)
    BY <2>3, RevokeKeeps DEF LogoutRevokesSession, TokenStep, AllUnrevoked, Unrevoked, Usable, HeldOK
  <2>4. CASE LogoutRollsBack(r)
    BY <2>4 DEF LogoutRollsBack, TokenStep, KeepsTokens, Kept
  <2>5. CASE LogoutReadsCookie(r)
    BY <2>5 DEF LogoutReadsCookie, TokenStep, KeepsTokens, Kept
  <2>6. CASE LogoutRevokesCookie(r)
    BY <2>6, RevokeKeeps DEF LogoutRevokesCookie, TokenStep, AllUnrevoked, Unrevoked, Usable, HeldOK
  <2> QED BY <1>2, <2>1, <2>2, <2>3, <2>4, <2>5, <2>6 DEF Logout
<1>3. ASSUME NEW r \in Changers, Change(r) PROVE TokenStep
  <2> r \in Requests BY DEF Requests
  <2>1. CASE \E j \in jwts : ChangeStarts(r, j)
    BY <2>1 DEF ChangeStarts, TokenStep, KeepsTokens, Kept
  <2>2. CASE ChangeInvalidates(r)
    BY <2>2, RevokeKeeps DEF ChangeInvalidates, Invalidate, TokenStep, AllUnrevoked, Unrevoked, Usable, HeldOK
  <2>3. CASE \E n \in Tokens, f \in Families : ChangeIssues(r, n, f)
    <3>1. PICK n \in Tokens, f \in Families : ChangeIssues(r, n, f) BY <2>3
    <3>2. AddsToken(n, f)
      BY <3>1, SucceedAdds DEF ChangeIssues, NextId
    <3>3. Fresh(f) \/ (pc[r] = "issue" /\ pc'[r] = "idle" /\ held[r].fam = f)
      BY <3>1 DEF ChangeIssues, FamilyFor, Finish, TypeOK
    <3> QED BY <3>2, <3>3 DEF TokenStep, MayAdd
  <2> QED BY <1>3, <2>1, <2>2, <2>3 DEF Change
<1>4. ASSUME NEW r \in Logins, Login(r) PROVE TokenStep
  <2> r \in Requests BY DEF Requests
  <2>1. CASE LoginAuthenticates(r)
    BY <2>1 DEF LoginAuthenticates, TokenStep, KeepsTokens, Kept
  <2>2. CASE \E n \in Tokens, f \in Families : LoginIssues(r, n, f)
    <3>1. PICK n \in Tokens, f \in Families : LoginIssues(r, n, f) BY <2>2
    <3>2. AddsToken(n, f) /\ Fresh(f)
      BY <3>1, SucceedAdds DEF LoginIssues, NextId
    <3> QED BY <3>2 DEF TokenStep, MayAdd
  <2> QED BY <1>4, <2>1, <2>2 DEF Login
<1>5. ASSUME Admin PROVE TokenStep
  <2>1. CASE \E f \in Families : RevokeActiveSession(f)
    BY <2>1, RevokeKeeps DEF RevokeActiveSession, TokenStep, AllUnrevoked, Unrevoked, Usable, HeldOK
  <2>2. CASE AdminSetsPassword
    BY <2>2, RevokeKeeps DEF AdminSetsPassword, Invalidate, TokenStep, AllUnrevoked, Unrevoked, Usable, HeldOK
  <2>3. CASE AdminDisables
    BY <2>3, RevokeKeeps DEF AdminDisables, Invalidate, TokenStep, AllUnrevoked, Unrevoked, Usable, HeldOK
  <2>4. CASE AdminEnables
    BY <2>4 DEF AdminEnables, TokenStep, KeepsTokens, Kept
  <2> QED BY <1>5, <2>1, <2>2, <2>3, <2>4 DEF Admin
<1>6. ASSUME Environment PROVE TokenStep
  <2>1. CASE \E j \in jwts : Touch(j)
    BY <2>1 DEF Touch, TokenStep, KeepsTokens, Kept
  <2>2. CASE \E j \in jwts : JwtExpires(j)
    BY <2>2 DEF JwtExpires, TokenStep, KeepsTokens, Kept
  <2>3. CASE \E f \in Families : CleanupIdle(f)
    BY <2>3 DEF CleanupIdle, TokenStep, KeepsTokens, Kept
  <2>4. CASE \E f \in Families : CleanupRevoked(f)
    BY <2>4 DEF CleanupRevoked, TokenStep, KeepsTokens, Kept
  <2>5. CASE \E t \in Tokens : GraceEnds(t)
    BY <2>5, RevokeKeeps DEF GraceEnds, TokenStep, AllUnrevoked, Unrevoked, Usable, HeldOK
  <2>6. CASE \E t \in Tokens : TokenExpires(t)
    BY <2>6, RevokeKeeps DEF TokenExpires, TokenStep, AllUnrevoked, Unrevoked, Usable, HeldOK
  <2> QED BY <1>6, <2>1, <2>2, <2>3, <2>4, <2>5, <2>6 DEF Environment
<1>7. CASE UNCHANGED vars
  BY <1>7 DEF vars, TokenStep, KeepsTokens, Kept
<1> QED BY <1>1, <1>2, <1>3, <1>4, <1>5, <1>6, <1>7 DEF Next

\* A row that exists keeps its family.
LEMMA UsedStays ==
    ASSUME TokenStep, NEW t \in Tokens, tokens[t].status # "unused"
    PROVE  tokens'[t].status # "unused" /\ tokens'[t].fam = tokens[t].fam
BY DEF TokenStep, KeepsTokens, AddsToken, Kept

\* Requests keep hold of rows that exist.
LEMMA HeldPreserved ==
    ASSUME TypeOK, HeldOK, TokenStep, [Next]_vars
    PROVE  HeldOK'
<1> USE DEF TypeOK
<1>1. ASSUME NEW r \in Refreshers, Refresh(r) PROVE HeldOK'
  <2> r \in Requests BY DEF Requests
  <2>1. CASE \E t \in Tokens : RefreshReadsLive(r, t)
    BY <2>1, UsedStays DEF RefreshReadsLive, Goto, Remember, HeldOK
  <2>2. CASE \E t \in Tokens : RefreshReadsRecent(r, t)
    <3>1. PICK t \in Tokens : RefreshReadsRecent(r, t) BY <2>2
    <3>2. CASE tokens[t].fam = NoFamily
      BY <3>1, <3>2, UsedStays DEF RefreshReadsRecent, Goto, Remember, HeldOK
    <3>3. CASE tokens[t].fam # NoFamily
      BY <3>1, <3>3, UsedStays DEF RefreshReadsRecent, Goto, Remember, HeldOK, AnyFamily
    <3> QED BY <3>2, <3>3
  <2>3. CASE \E t \in Tokens : RefreshReadsStale(r, t)
    BY <2>3, UsedStays DEF RefreshReadsStale, Goto, Remember, HeldOK
  <2>4. CASE \E n \in Tokens, f \in Families : RefreshClaims(r, n, f)
    <3>1. PICK n \in Tokens, f \in Families : RefreshClaims(r, n, f) BY <2>4
    <3>2. tokens'[n].status = "live" BY <3>1 DEF RefreshClaims, Succeed, Revoke, Token
    <3>3. pc' = [pc EXCEPT ![r] = "mint"] /\ held'[r].tok = n /\ \A q \in Requests \ {r} : held'[q] = held[q]
      BY <3>1 DEF RefreshClaims, Goto, Remember
    <3> QED BY <3>2, <3>3, UsedStays DEF HeldOK
  <2>5. CASE RefreshLosesClaim(r)
    BY <2>5, UsedStays DEF RefreshLosesClaim, Goto, HeldOK
  <2>6. CASE \E n \in Tokens : RefreshSupersedes(r, n)
    <3>1. PICK n \in Tokens : RefreshSupersedes(r, n) BY <2>6
    <3>2. tokens'[n].status = "live" BY <3>1 DEF RefreshSupersedes, Succeed, Revoke, Token
    <3>3. pc' = [pc EXCEPT ![r] = "mint"] /\ held'[r].tok = n /\ \A q \in Requests \ {r} : held'[q] = held[q]
      BY <3>1 DEF RefreshSupersedes, Goto, Remember
    <3> QED BY <3>2, <3>3, UsedStays DEF HeldOK
  <2>7. CASE RefreshFindsFamilyDead(r)
    BY <2>7, UsedStays DEF RefreshFindsFamilyDead, Finish, Nothing, HeldOK
  <2>8. CASE RefreshRevokesFamily(r)
    BY <2>8, UsedStays DEF RefreshRevokesFamily, Finish, Nothing, HeldOK
  <2>9. CASE RefreshMints(r)
    BY <2>9, UsedStays DEF RefreshMints, Finish, Nothing, HeldOK
  <2>10. CASE RefreshMintsLoaded(r)
    BY <2>10, UsedStays DEF RefreshMintsLoaded, Finish, Nothing, HeldOK
  <2> QED BY <1>1, <2>1, <2>2, <2>3, <2>4, <2>5, <2>6, <2>7, <2>8, <2>9, <2>10 DEF Refresh
<1>2. ASSUME NEW r \in Logouts, Logout(r) PROVE HeldOK'
  <2> r \in Requests BY DEF Requests
  <2>1. CASE \E t \in Tokens : LogoutStarts(r, t)
    BY <2>1, UsedStays DEF LogoutStarts, Goto, Remember, HeldOK
  <2>2. CASE \E t \in Tokens, j \in jwts : LogoutStartsWithBearer(r, t, j)
    BY <2>2, UsedStays DEF LogoutStartsWithBearer, Goto, Remember, HeldOK
  <2>3. CASE LogoutRevokesSession(r)
    BY <2>3, UsedStays DEF LogoutRevokesSession, Goto, HeldOK
  <2>4. CASE LogoutRollsBack(r)
    BY <2>4, UsedStays DEF LogoutRollsBack, Goto, HeldOK
  <2>5. CASE LogoutReadsCookie(r)
    BY <2>5, UsedStays DEF LogoutReadsCookie, Goto, Finish, Nothing, HeldOK
  <2>6. CASE LogoutRevokesCookie(r)
    BY <2>6, UsedStays DEF LogoutRevokesCookie, Finish, Nothing, HeldOK
  <2> QED BY <1>2, <2>1, <2>2, <2>3, <2>4, <2>5, <2>6 DEF Logout
<1>3. ASSUME NEW r \in Changers, Change(r) PROVE HeldOK'
  <2> r \in Requests BY DEF Requests
  <2>1. CASE \E j \in jwts : ChangeStarts(r, j)
    BY <2>1, UsedStays DEF ChangeStarts, Goto, Remember, HeldOK
  <2>2. CASE ChangeInvalidates(r)
    BY <2>2, UsedStays DEF ChangeInvalidates, Goto, Remember, HeldOK
  <2>3. CASE \E n \in Tokens, f \in Families : ChangeIssues(r, n, f)
    BY <2>3, UsedStays DEF ChangeIssues, Finish, Nothing, HeldOK
  <2> QED BY <1>3, <2>1, <2>2, <2>3 DEF Change
<1>4. ASSUME NEW r \in Logins, Login(r) PROVE HeldOK'
  <2> r \in Requests BY DEF Requests
  <2>1. CASE LoginAuthenticates(r)
    BY <2>1, UsedStays DEF LoginAuthenticates, Goto, Remember, HeldOK
  <2>2. CASE \E n \in Tokens, f \in Families : LoginIssues(r, n, f)
    BY <2>2, UsedStays DEF LoginIssues, Finish, Nothing, HeldOK
  <2> QED BY <1>4, <2>1, <2>2 DEF Login
<1>5. ASSUME Admin PROVE HeldOK'
  <2>1. CASE \E f \in Families : RevokeActiveSession(f)
    BY <2>1, UsedStays DEF RevokeActiveSession, HeldOK
  <2>2. CASE AdminSetsPassword
    BY <2>2, UsedStays DEF AdminSetsPassword, HeldOK
  <2>3. CASE AdminDisables
    BY <2>3, UsedStays DEF AdminDisables, HeldOK
  <2>4. CASE AdminEnables
    BY <2>4, UsedStays DEF AdminEnables, HeldOK
  <2> QED BY <1>5, <2>1, <2>2, <2>3, <2>4 DEF Admin
<1>6. ASSUME Environment PROVE HeldOK'
  <2>1. CASE \E j \in jwts : Touch(j)
    BY <2>1, UsedStays DEF Touch, HeldOK
  <2>2. CASE \E j \in jwts : JwtExpires(j)
    BY <2>2, UsedStays DEF JwtExpires, HeldOK
  <2>3. CASE \E f \in Families : CleanupIdle(f)
    BY <2>3, UsedStays DEF CleanupIdle, HeldOK
  <2>4. CASE \E f \in Families : CleanupRevoked(f)
    BY <2>4, UsedStays DEF CleanupRevoked, HeldOK
  <2>5. CASE \E t \in Tokens : GraceEnds(t)
    <3>1. UNCHANGED <<pc, held>> BY <2>5 DEF GraceEnds
    <3> QED BY <3>1, UsedStays DEF HeldOK
  <2>6. CASE \E t \in Tokens : TokenExpires(t)
    <3>1. UNCHANGED <<pc, held>> BY <2>6 DEF TokenExpires
    <3> QED BY <3>1, UsedStays DEF HeldOK
  <2> QED BY <1>6, <2>1, <2>2, <2>3, <2>4, <2>5, <2>6 DEF Environment
<1>7. CASE UNCHANGED vars
  BY <1>7 DEF vars, HeldOK
<1> QED BY <1>1, <1>2, <1>3, <1>4, <1>5, <1>6, <1>7 DEF Next

\* Family f is carried by a token before or after the step, or is NULL.
Named(f) ==
    \/ f = NoFamily
    \/ \E t \in Tokens : tokens[t].fam = f
    \/ \E t \in Tokens : tokens'[t].fam = f

\* Where the families a step writes come from.
NamesStep ==
    /\ \A f \in Families : sessions'[f] # "absent" =>
          sessions[f] # "absent" \/ Named(f) \/ \E j \in jwts : j.fam = f
    /\ \A j \in jwts' : (\E i \in jwts : i.fam = j.fam) \/ Named(j.fam) \/ \E r \in Requests : held[r].fam = j.fam
    /\ \A r \in Requests :
          (\E j \in jwts : j.fam = held'[r].fam) \/ Named(held'[r].fam) \/ held'[r].fam = held[r].fam

\* No step invents a family outside the token table.
LEMMA NamesSteps ==
    ASSUME TypeOK, HeldOK, [Next]_vars
    PROVE  NamesStep
<1> USE DEF TypeOK
<1>a. /\ Named(NoFamily)
      /\ \A t \in Tokens : Named(tokens[t].fam)
      /\ \A t \in Tokens : Named(tokens'[t].fam)
  BY DEF Named
<1>1. ASSUME NEW r \in Refreshers, Refresh(r) PROVE NamesStep
  <2> r \in Requests BY DEF Requests
  <2>1. CASE \E t \in Tokens : RefreshReadsLive(r, t)
    BY <2>1, <1>a DEF RefreshReadsLive, Remember, NamesStep
  <2>2. CASE \E t \in Tokens : RefreshReadsRecent(r, t)
    BY <2>2, <1>a DEF RefreshReadsRecent, Remember, NamesStep
  <2>3. CASE \E t \in Tokens : RefreshReadsStale(r, t)
    BY <2>3, <1>a DEF RefreshReadsStale, Remember, NamesStep
  <2>4. CASE \E n \in Tokens, f \in Families : RefreshClaims(r, n, f)
    <3>1. PICK n \in Tokens, f \in Families : RefreshClaims(r, n, f) BY <2>4
    <3>2. tokens'[n].fam = f BY <3>1 DEF RefreshClaims, Succeed, Revoke, Token
    <3> QED BY <3>1, <3>2, <1>a DEF RefreshClaims, Remember, NamesStep
  <2>5. CASE RefreshLosesClaim(r)
    BY <2>5, <1>a DEF RefreshLosesClaim, NamesStep
  <2>6. CASE \E n \in Tokens : RefreshSupersedes(r, n)
    BY <2>6, <1>a DEF RefreshSupersedes, Remember, NamesStep
  <2>7. CASE RefreshFindsFamilyDead(r)
    BY <2>7, <1>a DEF RefreshFindsFamilyDead, Finish, Nothing, NamesStep
  <2>8. CASE RefreshRevokesFamily(r)
    BY <2>8, <1>a DEF RefreshRevokesFamily, Finish, Nothing, NamesStep
  <2>9. CASE RefreshMints(r)
    BY <2>9, <1>a DEF RefreshMints, Finish, Nothing, Mint, Jwt, HeldOK, NamesStep
  <2>10. CASE RefreshMintsLoaded(r)
    BY <2>10, <1>a DEF RefreshMintsLoaded, Finish, Nothing, Mint, Jwt, HeldOK, NamesStep
  <2> QED BY <1>1, <2>1, <2>2, <2>3, <2>4, <2>5, <2>6, <2>7, <2>8, <2>9, <2>10 DEF Refresh
<1>2. ASSUME NEW r \in Logouts, Logout(r) PROVE NamesStep
  <2> r \in Requests BY DEF Requests
  <2>1. CASE \E t \in Tokens : LogoutStarts(r, t)
    BY <2>1, <1>a DEF LogoutStarts, Remember, NamesStep
  <2>2. CASE \E t \in Tokens, j \in jwts : LogoutStartsWithBearer(r, t, j)
    BY <2>2, <1>a DEF LogoutStartsWithBearer, Remember, NamesStep
  <2>3. CASE LogoutRevokesSession(r)
    BY <2>3, <1>a DEF LogoutRevokesSession, Bury, Jwt, NamesStep
  <2>4. CASE LogoutRollsBack(r)
    BY <2>4, <1>a DEF LogoutRollsBack, NamesStep
  <2>5. CASE LogoutReadsCookie(r)
    BY <2>5, <1>a DEF LogoutReadsCookie, Finish, Nothing, NamesStep
  <2>6. CASE LogoutRevokesCookie(r)
    BY <2>6, <1>a DEF LogoutRevokesCookie, Finish, Nothing, NamesStep
  <2> QED BY <1>2, <2>1, <2>2, <2>3, <2>4, <2>5, <2>6 DEF Logout
<1>3. ASSUME NEW r \in Changers, Change(r) PROVE NamesStep
  <2> r \in Requests BY DEF Requests
  <2>1. CASE \E j \in jwts : ChangeStarts(r, j)
    BY <2>1, <1>a DEF ChangeStarts, Remember, NamesStep
  <2>2. CASE ChangeInvalidates(r)
    BY <2>2, <1>a DEF ChangeInvalidates, Remember, NamesStep
  <2>3. CASE \E n \in Tokens, f \in Families : ChangeIssues(r, n, f)
    BY <2>3, <1>a DEF ChangeIssues, Finish, Nothing, Mint, Jwt, NamesStep
  <2> QED BY <1>3, <2>1, <2>2, <2>3 DEF Change
<1>4. ASSUME NEW r \in Logins, Login(r) PROVE NamesStep
  <2> r \in Requests BY DEF Requests
  <2>1. CASE LoginAuthenticates(r)
    BY <2>1, <1>a DEF LoginAuthenticates, Remember, NamesStep
  <2>2. CASE \E n \in Tokens, f \in Families : LoginIssues(r, n, f)
    <3>1. PICK n \in Tokens, f \in Families : LoginIssues(r, n, f) BY <2>2
    <3>2. tokens'[n].fam = f BY <3>1 DEF LoginIssues, Succeed, Revoke, Token
    <3> QED BY <3>1, <3>2, <1>a DEF LoginIssues, Finish, Nothing, Mint, Jwt, NamesStep
  <2> QED BY <1>4, <2>1, <2>2 DEF Login
<1>5. ASSUME Admin PROVE NamesStep
  <2>1. CASE \E f \in Families : RevokeActiveSession(f)
    BY <2>1, <1>a DEF RevokeActiveSession, Bury, Jwt, NamesStep
  <2>2. CASE AdminSetsPassword
    BY <2>2, <1>a DEF AdminSetsPassword, NamesStep
  <2>3. CASE AdminDisables
    BY <2>3, <1>a DEF AdminDisables, Bury, Jwt, NamesStep
  <2>4. CASE AdminEnables
    BY <2>4, <1>a DEF AdminEnables, NamesStep
  <2> QED BY <1>5, <2>1, <2>2, <2>3, <2>4 DEF Admin
<1>6. ASSUME Environment PROVE NamesStep
  <2>1. CASE \E j \in jwts : Touch(j)
    BY <2>1, <1>a DEF Touch, NamesStep
  <2>2. CASE \E j \in jwts : JwtExpires(j)
    BY <2>2, <1>a DEF JwtExpires, NamesStep
  <2>3. CASE \E f \in Families : CleanupIdle(f)
    BY <2>3, <1>a DEF CleanupIdle, NamesStep
  <2>4. CASE \E f \in Families : CleanupRevoked(f)
    BY <2>4, <1>a DEF CleanupRevoked, NamesStep
  <2>5. CASE \E t \in Tokens : GraceEnds(t)
    BY <2>5, <1>a DEF GraceEnds, NamesStep
  <2>6. CASE \E t \in Tokens : TokenExpires(t)
    BY <2>6, <1>a DEF TokenExpires, NamesStep
  <2> QED BY <1>6, <2>1, <2>2, <2>3, <2>4, <2>5, <2>6 DEF Environment
<1>7. CASE UNCHANGED vars
  BY <1>7 DEF vars, NamesStep
<1> QED BY <1>1, <1>2, <1>3, <1>4, <1>5, <1>6, <1>7 DEF Next

\* A step of one request leaves the others where they are.
LEMMA OthersKept ==
    ASSUME TypeOK, NEW r \in Requests, Refresh(r) \/ Logout(r) \/ Change(r) \/ Login(r)
    PROVE  \A q \in Requests \ {r} : pc'[q] = pc[q] /\ held'[q] = held[q]
<1> USE DEF TypeOK, Goto, Remember, Finish
<1>1. CASE Refresh(r)
  BY <1>1 DEF Refresh, RefreshReadsLive, RefreshReadsRecent, RefreshReadsStale, RefreshClaims,
     RefreshLosesClaim, RefreshSupersedes, RefreshFindsFamilyDead, RefreshRevokesFamily,
     RefreshMints, RefreshMintsLoaded
<1>2. CASE Logout(r)
  BY <1>2 DEF Logout, LogoutStarts, LogoutStartsWithBearer, LogoutRevokesSession, LogoutRollsBack,
     LogoutReadsCookie, LogoutRevokesCookie
<1>3. CASE Change(r)
  BY <1>3 DEF Change, ChangeStarts, ChangeInvalidates, ChangeIssues
<1>4. CASE Login(r)
  BY <1>4 DEF Login, LoginAuthenticates, LoginIssues
<1> QED BY <1>1, <1>2, <1>3, <1>4

\* A password change that is about to issue was so before, or has just invalidated.
LEMMA ChangerSteps ==
    ASSUME TypeOK, [Next]_vars, NEW c \in Changers, pc'[c] = "issue"
    PROVE  (pc[c] = "issue" /\ held'[c] = held[c]) \/ ChangeInvalidates(c)
<1> c \in Requests BY DEF Requests
<1>1. ASSUME NEW r \in Refreshers \cup Logouts \cup Logins, Refresh(r) \/ Logout(r) \/ Login(r)
      PROVE  pc'[c] = pc[c] /\ held'[c] = held[c]
  BY <1>1, OthersKept, KindsAssumption DEF Requests
<1>2. ASSUME NEW r \in Changers, Change(r)
      PROVE  (pc[c] = "issue" /\ held'[c] = held[c]) \/ ChangeInvalidates(c)
  <2> r \in Requests BY DEF Requests
  <2>1. CASE r # c BY <1>2, <2>1, OthersKept
  <2>2. CASE r = c
    BY <1>2, <2>2 DEF Change, ChangeStarts, ChangeIssues, Goto, Finish, TypeOK
  <2> QED BY <2>1, <2>2
<1>3. CASE Admin
  BY <1>3 DEF Admin, RevokeActiveSession, AdminSetsPassword, AdminDisables, AdminEnables
<1>4. CASE Environment
  BY <1>4 DEF Environment, Touch, JwtExpires, CleanupIdle, CleanupRevoked, GraceEnds, TokenExpires
<1>5. CASE UNCHANGED vars
  BY <1>5 DEF vars
<1> QED BY <1>1, <1>2, <1>3, <1>4, <1>5 DEF Next

-----------------------------------------------------------------------------
\* Session rows, access tokens and requests name families that some token has.
LEMMA NamesPreserved ==
    ASSUME TypeOK, NamesAreUsed, TokenStep, NamesStep
    PROVE  NamesAreUsed'
<1>1. ASSUME NEW f, ~Fresh(f) PROVE ~Fresh(f)'
  BY <1>1, UsedStays, NoFamilyAssumption DEF Fresh, NamesAreUsed
<1>2. ASSUME NEW f, Named(f) PROVE ~Fresh(f)'
  BY <1>1, <1>2, NoFamilyAssumption DEF Fresh, Named
<1>3. \A t \in Tokens : tokens'[t].status = "unused" => tokens'[t].fam = NoFamily
  BY DEF TokenStep, KeepsTokens, AddsToken, Kept, NamesAreUsed
<1>4. \A f \in Families : sessions'[f] # "absent" => ~Fresh(f)'
  BY <1>1, <1>2 DEF NamesStep, NamesAreUsed
<1>5. \A j \in jwts' : ~Fresh(j.fam)'
  BY <1>1, <1>2 DEF NamesStep, NamesAreUsed
<1>6. \A r \in Requests : (~Fresh(held[r].fam))'
  BY <1>1, <1>2 DEF NamesStep, NamesAreUsed
<1> QED BY <1>3, <1>4, <1>5, <1>6 DEF NamesAreUsed

\* Rotation never forks a family.
LEMMA OneTokenPreserved ==
    ASSUME SessionInv, TokenStep
    PROVE  OneTokenPerFamily'
<1> SUFFICES ASSUME NEW g \in Families, NEW t \in Unrevoked(g)', NEW u \in Unrevoked(g)'
             PROVE  t = u
  BY DEF OneTokenPerFamily
<1>0. t \in Tokens /\ u \in Tokens
  BY DEF Unrevoked
<1>1. CASE KeepsTokens
  BY <1>0, <1>1 DEF SessionInv, OneTokenPerFamily, KeepsTokens, Kept, Unrevoked, Usable
<1>2. ASSUME NEW n \in Tokens, NEW f \in Families, AddsToken(n, f), MayAdd(f)
      PROVE  t = u
  <2>1. ASSUME NEW s \in Tokens \ {n}, s \in Unrevoked(g)' PROVE s \in Unrevoked(g) /\ g # f
    <3>1. s \in Unrevoked(g) /\ tokens'[s].status # "rotated"
      BY <1>2, <2>1 DEF AddsToken, Kept, Unrevoked, Usable
    <3>2. ~Fresh(g)
      BY <3>1 DEF Fresh, Unrevoked
    <3>3. \A v \in Unrevoked(g) : v = s
      BY <3>1 DEF SessionInv, OneTokenPerFamily
    <3>4. ASSUME NEW c \in Changers, pc[c] = "issue" PROVE held[c].fam # g
      BY <3>1, <3>4 DEF SessionInv, IssuesIntoDeadFamily, Unrevoked
    <3> QED BY <1>2, <3>1, <3>2, <3>3, <3>4 DEF MayAdd
  <2>2. n \in Unrevoked(g)' => g = f
    BY <1>2 DEF AddsToken, Unrevoked
  <2> QED BY <1>0, <2>1, <2>2 DEF SessionInv, OneTokenPerFamily
<1> QED BY <1>1, <1>2 DEF TokenStep

\* While a password change is about to issue, its family stays dead.
LEMMA IssuesPreserved ==
    ASSUME SessionInv, TokenStep, [Next]_vars, \A c, d \in Changers : c = d
    PROVE  IssuesIntoDeadFamily'
<1> SUFFICES ASSUME NEW c \in Changers, pc'[c] = "issue", NEW t \in Tokens,
                    tokens'[t].fam = held'[c].fam, held'[c].fam \in Families
             PROVE  tokens'[t].status \notin {"live", "expired"}
  BY DEF IssuesIntoDeadFamily
<1> TypeOK BY DEF SessionInv
<1>1. CASE ChangeInvalidates(c)
  BY <1>1 DEF ChangeInvalidates, Invalidate, Revoke, Token, AllUnrevoked, TypeOK
<1>2. CASE pc[c] = "issue" /\ held'[c] = held[c]
  <2>1. \A s \in Tokens : tokens[s].fam = held[c].fam => tokens[s].status \notin {"live", "expired"}
    BY <1>2 DEF SessionInv, IssuesIntoDeadFamily
  <2>2. CASE KeepsTokens
    BY <1>2, <2>1, <2>2 DEF KeepsTokens, Kept, Usable
  <2>3. ASSUME NEW n \in Tokens, NEW f \in Families, AddsToken(n, f), MayAdd(f)
        PROVE  tokens'[t].status \notin {"live", "expired"}
    <3>1. ~Fresh(held[c].fam)
      BY DEF SessionInv, NamesAreUsed, Requests
    <3>2. f # held[c].fam
      BY <1>2, <2>1, <2>3, <3>1 DEF MayAdd, Unrevoked
    <3> QED BY <1>2, <2>1, <2>3, <3>2 DEF AddsToken, Kept, Usable
  <2> QED BY <2>2, <2>3 DEF TokenStep
<1> QED BY <1>1, <1>2, ChangerSteps

-----------------------------------------------------------------------------
\* The invariant holds of the empty (or pre-upgrade) token table.
LEMMA InitSessionInv == Init => SessionInv
<1> SUFFICES ASSUME Init PROVE SessionInv
  OBVIOUS
<1>1. TypeOK
  BY BoundsAssumption DEF Init, TypeOK, Nothing, Statuses, AnyFamily, Versions
<1> QED
  BY <1>1, NoFamilyAssumption DEF Init, SessionInv, HeldOK, NamesAreUsed, OneTokenPerFamily,
     IssuesIntoDeadFamily, Unrevoked, Fresh, Nothing

\* Every step keeps the invariant when no two password changes run at once.
LEMMA NextSessionInv ==
    ASSUME SessionInv, [Next]_vars, \A c, d \in Changers : c = d
    PROVE  SessionInv'
<1>1. TypeOK /\ HeldOK /\ NamesAreUsed
  BY DEF SessionInv
<1>2. TokenStep /\ NamesStep
  BY <1>1, TokenSteps, NamesSteps
<1> QED
  BY <1>1, <1>2, TypePreserved, HeldPreserved, NamesPreserved, OneTokenPreserved, IssuesPreserved
  DEF SessionInv

\* For any number of tokens, families, refreshes and logouts, with at most one
\* change of password in flight, a family has at most one unrevoked token: of
\* concurrent refreshes of one token, and of grace recoveries, one wins.
THEOREM RotationNeverForks ==
    (\A c, d \in Changers : c = d) /\ Spec => []SessionInv
<1> SUFFICES ASSUME \A c, d \in Changers : c = d PROVE Spec => []SessionInv
  OBVIOUS
<1>1. SessionInv /\ [Next]_vars => SessionInv'
  BY NextSessionInv
<1> QED BY <1>1, InitSessionInv, PTL DEF Spec

\* No refresh brings back a family whose tokens were all revoked: the gate of
\* the grace path is the UPDATE, not the check before it.
THEOREM DeadFamilyTheorem ==
    (\A c, d \in Changers : c = d) /\ Spec => DeadFamilyStaysDead
<1> SUFFICES ASSUME \A c, d \in Changers : c = d PROVE Spec => DeadFamilyStaysDead
  OBVIOUS
<1> DEFINE A == \A f \in Families :
        ~Fresh(f) /\ Unrevoked(f) = {} /\ Unrevoked(f)' # {} =>
            \E r \in Changers : pc[r] = "issue" /\ pc'[r] = "idle" /\ held[r].fam = f
<1>1. SessionInv /\ [Next]_vars => SessionInv'
  BY NextSessionInv
<1>2. ASSUME SessionInv, [Next]_vars PROVE A
  <2> SUFFICES ASSUME NEW g \in Families, ~Fresh(g), Unrevoked(g) = {}, Unrevoked(g)' # {}
               PROVE  \E r \in Changers : pc[r] = "issue" /\ pc'[r] = "idle" /\ held[r].fam = g
    OBVIOUS
  <2>1. TokenStep
    BY <1>2, TokenSteps DEF SessionInv
  <2>2. PICK t \in Tokens : tokens'[t].fam = g /\ tokens'[t].status \in Usable
    BY DEF Unrevoked, Usable
  <2>3. ~Kept(t)
    BY <2>2 DEF Kept, Unrevoked, Usable
  <2>4. PICK n \in Tokens, f \in Families : AddsToken(n, f) /\ MayAdd(f)
    BY <2>1, <2>3 DEF TokenStep, KeepsTokens
  <2>5. f = g
    BY <2>2, <2>3, <2>4 DEF AddsToken
  <2> QED BY <2>4, <2>5 DEF MayAdd
<1> QED BY <1>1, <1>2, InitSessionInv, PTL DEF Spec, DeadFamilyStaysDead

-----------------------------------------------------------------------------
\* The access tokens of a revoked session are there only while its row is.
BuriedHaveRow ==
    \A j \in jwts : j.fate = "buried" => j.fam \in Families /\ sessions[j.fam] = "revoked"

\* A buried access token keeps its revoked row.
LEMMA BuriedPreserved ==
    ASSUME TypeOK, HeldOK, NamesAreUsed, BuriedHaveRow, [Next]_vars
    PROVE  BuriedHaveRow'
<1> USE DEF TypeOK
<1>1. ASSUME NEW r \in Refreshers, Refresh(r) PROVE BuriedHaveRow'
  <2> r \in Requests BY DEF Requests
  <2>1. CASE \E t \in Tokens : RefreshReadsLive(r, t)
    BY <2>1 DEF RefreshReadsLive, BuriedHaveRow
  <2>2. CASE \E t \in Tokens : RefreshReadsRecent(r, t)
    BY <2>2 DEF RefreshReadsRecent, BuriedHaveRow
  <2>3. CASE \E t \in Tokens : RefreshReadsStale(r, t)
    BY <2>3 DEF RefreshReadsStale, BuriedHaveRow
  <2>4. CASE \E n \in Tokens, f \in Families : RefreshClaims(r, n, f)
    BY <2>4 DEF RefreshClaims, BuriedHaveRow
  <2>5. CASE RefreshLosesClaim(r)
    BY <2>5 DEF RefreshLosesClaim, BuriedHaveRow
  <2>6. CASE \E n \in Tokens : RefreshSupersedes(r, n)
    BY <2>6 DEF RefreshSupersedes, BuriedHaveRow
  <2>7. CASE RefreshFindsFamilyDead(r)
    BY <2>7 DEF RefreshFindsFamilyDead, BuriedHaveRow
  <2>8. CASE RefreshRevokesFamily(r)
    BY <2>8 DEF RefreshRevokesFamily, BuriedHaveRow
  <2>9. CASE RefreshMints(r)
    BY <2>9 DEF RefreshMints, BuriedHaveRow, Mint, Jwt
  <2>10. CASE RefreshMintsLoaded(r)
    BY <2>10 DEF RefreshMintsLoaded, BuriedHaveRow, Mint, Jwt
  <2> QED BY <1>1, <2>1, <2>2, <2>3, <2>4, <2>5, <2>6, <2>7, <2>8, <2>9, <2>10 DEF Refresh
<1>2. ASSUME NEW r \in Logouts, Logout(r) PROVE BuriedHaveRow'
  <2> r \in Requests BY DEF Requests
  <2>1. CASE \E t \in Tokens : LogoutStarts(r, t)
    BY <2>1 DEF LogoutStarts, BuriedHaveRow
  <2>2. CASE \E t \in Tokens, j \in jwts : LogoutStartsWithBearer(r, t, j)
    BY <2>2 DEF LogoutStartsWithBearer, BuriedHaveRow, Accepted
  <2>3. CASE LogoutRevokesSession(r)
    BY <2>3 DEF LogoutRevokesSession, BuriedHaveRow, Bury, Jwt, HeldOK
  <2>4. CASE LogoutRollsBack(r)
    BY <2>4 DEF LogoutRollsBack, BuriedHaveRow
  <2>5. CASE LogoutReadsCookie(r)
    BY <2>5 DEF LogoutReadsCookie, BuriedHaveRow
  <2>6. CASE LogoutRevokesCookie(r)
    BY <2>6 DEF LogoutRevokesCookie, BuriedHaveRow
  <2> QED BY <1>2, <2>1, <2>2, <2>3, <2>4, <2>5, <2>6 DEF Logout
<1>3. ASSUME NEW r \in Changers, Change(r) PROVE BuriedHaveRow'
  <2> r \in Requests BY DEF Requests
  <2>1. CASE \E j \in jwts : ChangeStarts(r, j)
    BY <2>1 DEF ChangeStarts, BuriedHaveRow
  <2>2. CASE ChangeInvalidates(r)
    BY <2>2 DEF ChangeInvalidates, BuriedHaveRow
  <2>3. CASE \E n \in Tokens, f \in Families : ChangeIssues(r, n, f)
    BY <2>3 DEF ChangeIssues, BuriedHaveRow, Mint, Jwt
  <2> QED BY <1>3, <2>1, <2>2, <2>3 DEF Change
<1>4. ASSUME NEW r \in Logins, Login(r) PROVE BuriedHaveRow'
  <2> r \in Requests BY DEF Requests
  <2>1. CASE LoginAuthenticates(r)
    BY <2>1 DEF LoginAuthenticates, BuriedHaveRow
  <2>2. CASE \E n \in Tokens, f \in Families : LoginIssues(r, n, f)
    BY <2>2 DEF LoginIssues, BuriedHaveRow, NamesAreUsed, Mint, Jwt
  <2> QED BY <1>4, <2>1, <2>2 DEF Login
<1>5. ASSUME Admin PROVE BuriedHaveRow'
  <2>1. CASE \E f \in Families : RevokeActiveSession(f)
    BY <2>1 DEF RevokeActiveSession, BuriedHaveRow, Bury, Jwt
  <2>2. CASE AdminSetsPassword
    BY <2>2 DEF AdminSetsPassword, BuriedHaveRow
  <2>3. CASE AdminDisables
    BY <2>3 DEF AdminDisables, BuriedHaveRow, Bury, Jwt
  <2>4. CASE AdminEnables
    BY <2>4 DEF AdminEnables, BuriedHaveRow
  <2> QED BY <1>5, <2>1, <2>2, <2>3, <2>4 DEF Admin
<1>6. ASSUME Environment PROVE BuriedHaveRow'
  <2>1. CASE \E j \in jwts : Touch(j)
    BY <2>1 DEF Touch, BuriedHaveRow
  <2>2. CASE \E j \in jwts : JwtExpires(j)
    BY <2>2 DEF JwtExpires, BuriedHaveRow
  <2>3. CASE \E f \in Families : CleanupIdle(f)
    BY <2>3 DEF CleanupIdle, BuriedHaveRow
  <2>4. CASE \E f \in Families : CleanupRevoked(f)
    BY <2>4 DEF CleanupRevoked, BuriedHaveRow
  <2>5. CASE \E t \in Tokens : GraceEnds(t)
    BY <2>5 DEF GraceEnds, BuriedHaveRow
  <2>6. CASE \E t \in Tokens : TokenExpires(t)
    BY <2>6 DEF TokenExpires, BuriedHaveRow
  <2> QED BY <1>6, <2>1, <2>2, <2>3, <2>4, <2>5, <2>6 DEF Environment
<1>7. CASE UNCHANGED vars
  BY <1>7 DEF vars, BuriedHaveRow
<1> QED BY <1>1, <1>2, <1>3, <1>4, <1>5, <1>6, <1>7 DEF Next

\* An access token that existed when its session was revoked is never accepted
\* again, however many sessions, requests, touches and clean-ups there are.
THEOREM RevokedStaysRejectedTheorem == Spec => []RevokedSessionStaysRejected
<1> DEFINE Inv == TypeOK /\ HeldOK /\ NamesAreUsed /\ BuriedHaveRow
<1>1. Init => Inv
  BY InitSessionInv DEF SessionInv, Init, BuriedHaveRow
<1>2. Inv /\ [Next]_vars => Inv'
  BY TokenSteps, NamesSteps, TypePreserved, HeldPreserved, NamesPreserved, BuriedPreserved
<1>3. Inv => RevokedSessionStaysRejected
  BY DEF BuriedHaveRow, RevokedSessionStaysRejected, Accepted
<1> QED BY <1>1, <1>2, <1>3, PTL DEF Spec

-----------------------------------------------------------------------------
\* A step that revokes a session leaves no unrevoked token in its family.
RevokeStep ==
    \A f \in Families : sessions'[f] = "revoked" =>
        sessions[f] = "revoked" \/ Unrevoked(f)' = {}

LEMMA RevokeSteps ==
    ASSUME TypeOK, HeldOK, [Next]_vars
    PROVE  RevokeStep
<1> USE DEF TypeOK
<1>1. ASSUME NEW r \in Refreshers, Refresh(r) PROVE RevokeStep
  <2> r \in Requests BY DEF Requests
  <2>1. CASE \E t \in Tokens : RefreshReadsLive(r, t)
    BY <2>1 DEF RefreshReadsLive, RevokeStep
  <2>2. CASE \E t \in Tokens : RefreshReadsRecent(r, t)
    BY <2>2 DEF RefreshReadsRecent, RevokeStep
  <2>3. CASE \E t \in Tokens : RefreshReadsStale(r, t)
    BY <2>3 DEF RefreshReadsStale, RevokeStep
  <2>4. CASE \E n \in Tokens, f \in Families : RefreshClaims(r, n, f)
    BY <2>4 DEF RefreshClaims, RevokeStep
  <2>5. CASE RefreshLosesClaim(r)
    BY <2>5 DEF RefreshLosesClaim, RevokeStep
  <2>6. CASE \E n \in Tokens : RefreshSupersedes(r, n)
    BY <2>6 DEF RefreshSupersedes, RevokeStep
  <2>7. CASE RefreshFindsFamilyDead(r)
    BY <2>7 DEF RefreshFindsFamilyDead, RevokeStep
  <2>8. CASE RefreshRevokesFamily(r)
    BY <2>8 DEF RefreshRevokesFamily, RevokeStep
  <2>9. CASE RefreshMints(r)
    BY <2>9 DEF RefreshMints, RevokeStep
  <2>10. CASE RefreshMintsLoaded(r)
    BY <2>10 DEF RefreshMintsLoaded, RevokeStep
  <2> QED BY <1>1, <2>1, <2>2, <2>3, <2>4, <2>5, <2>6, <2>7, <2>8, <2>9, <2>10 DEF Refresh
<1>2. ASSUME NEW r \in Logouts, Logout(r) PROVE RevokeStep
  <2> r \in Requests BY DEF Requests
  <2>1. CASE \E t \in Tokens : LogoutStarts(r, t)
    BY <2>1 DEF LogoutStarts, RevokeStep
  <2>2. CASE \E t \in Tokens, j \in jwts : LogoutStartsWithBearer(r, t, j)
    BY <2>2 DEF LogoutStartsWithBearer, RevokeStep
  <2>3. CASE LogoutRevokesSession(r)
    BY <2>3 DEF LogoutRevokesSession, Revoke, Token, Unrevoked, HeldOK, RevokeStep
  <2>4. CASE LogoutRollsBack(r)
    BY <2>4 DEF LogoutRollsBack, RevokeStep
  <2>5. CASE LogoutReadsCookie(r)
    BY <2>5 DEF LogoutReadsCookie, RevokeStep
  <2>6. CASE LogoutRevokesCookie(r)
    BY <2>6 DEF LogoutRevokesCookie, RevokeStep
  <2> QED BY <1>2, <2>1, <2>2, <2>3, <2>4, <2>5, <2>6 DEF Logout
<1>3. ASSUME NEW r \in Changers, Change(r) PROVE RevokeStep
  <2> r \in Requests BY DEF Requests
  <2>1. CASE \E j \in jwts : ChangeStarts(r, j)
    BY <2>1 DEF ChangeStarts, RevokeStep
  <2>2. CASE ChangeInvalidates(r)
    BY <2>2 DEF ChangeInvalidates, RevokeStep
  <2>3. CASE \E n \in Tokens, f \in Families : ChangeIssues(r, n, f)
    BY <2>3 DEF ChangeIssues, RevokeStep
  <2> QED BY <1>3, <2>1, <2>2, <2>3 DEF Change
<1>4. ASSUME NEW r \in Logins, Login(r) PROVE RevokeStep
  <2> r \in Requests BY DEF Requests
  <2>1. CASE LoginAuthenticates(r)
    BY <2>1 DEF LoginAuthenticates, RevokeStep
  <2>2. CASE \E n \in Tokens, f \in Families : LoginIssues(r, n, f)
    BY <2>2 DEF LoginIssues, RevokeStep
  <2> QED BY <1>4, <2>1, <2>2 DEF Login
<1>5. ASSUME Admin PROVE RevokeStep
  <2>1. CASE \E f \in Families : RevokeActiveSession(f)
    BY <2>1 DEF RevokeActiveSession, Revoke, Token, Unrevoked, RevokeStep
  <2>2. CASE AdminSetsPassword
    BY <2>2 DEF AdminSetsPassword, RevokeStep
  <2>3. CASE AdminDisables
    BY <2>3 DEF AdminDisables, Revoke, Token, Unrevoked, Invalidate, AllUnrevoked, RevokeStep
  <2>4. CASE AdminEnables
    BY <2>4 DEF AdminEnables, RevokeStep
  <2> QED BY <1>5, <2>1, <2>2, <2>3, <2>4 DEF Admin
<1>6. ASSUME Environment PROVE RevokeStep
  <2>1. CASE \E j \in jwts : Touch(j)
    BY <2>1 DEF Touch, RevokeStep
  <2>2. CASE \E j \in jwts : JwtExpires(j)
    BY <2>2 DEF JwtExpires, RevokeStep
  <2>3. CASE \E f \in Families : CleanupIdle(f)
    BY <2>3 DEF CleanupIdle, RevokeStep
  <2>4. CASE \E f \in Families : CleanupRevoked(f)
    BY <2>4 DEF CleanupRevoked, RevokeStep
  <2>5. CASE \E t \in Tokens : GraceEnds(t)
    BY <2>5 DEF GraceEnds, RevokeStep
  <2>6. CASE \E t \in Tokens : TokenExpires(t)
    BY <2>6 DEF TokenExpires, RevokeStep
  <2> QED BY <1>6, <2>1, <2>2, <2>3, <2>4, <2>5, <2>6 DEF Environment
<1>7. CASE UNCHANGED vars
  BY <1>7 DEF vars, RevokeStep
<1> QED BY <1>1, <1>2, <1>3, <1>4, <1>5, <1>6, <1>7 DEF Next

\* As long as nobody changes a password, a revoked session has no unrevoked
\* refresh token: claim and successor are one transaction, and the revocation
\* is another.  With a password change in flight TLC refutes this.
THEOREM NoTokenInRevokedTheorem ==
    Changers = {} /\ Spec => []NoTokenInRevokedSession
<1> SUFFICES ASSUME Changers = {} PROVE Spec => []NoTokenInRevokedSession
  OBVIOUS
<1>1. ASSUME SessionInv, NoTokenInRevokedSession, [Next]_vars
      PROVE  NoTokenInRevokedSession'
  <2>1. TokenStep /\ RevokeStep
    BY <1>1, TokenSteps, RevokeSteps DEF SessionInv
  <2> SUFFICES ASSUME NEW g \in Families, sessions[g] = "revoked",
                      NEW t \in Tokens, t \in Unrevoked(g)'
               PROVE  FALSE
    BY <2>1 DEF NoTokenInRevokedSession, RevokeStep, Unrevoked
  <2>2. Unrevoked(g) = {} /\ ~Fresh(g)
    BY <1>1 DEF NoTokenInRevokedSession, SessionInv, NamesAreUsed
  <2>3. ~Kept(t)
    BY <2>2 DEF Kept, Unrevoked, Usable
  <2>4. PICK n \in Tokens, f \in Families : AddsToken(n, f) /\ MayAdd(f)
    BY <2>1, <2>3 DEF TokenStep, KeepsTokens
  <2>5. f = g
    BY <2>3, <2>4 DEF AddsToken, Unrevoked
  <2> QED BY <2>2, <2>4, <2>5 DEF MayAdd
<1>2. Init => NoTokenInRevokedSession
  BY DEF Init, NoTokenInRevokedSession
<1>3. SessionInv /\ [Next]_vars => SessionInv'
  BY NextSessionInv
<1> QED BY <1>1, <1>2, <1>3, InitSessionInv, PTL DEF Spec

=============================================================================
