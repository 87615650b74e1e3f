---------------------------- MODULE WebSessions ----------------------------
(***************************************************************************)
(* The browser sessions of one panel user: refresh tokens with rotation    *)
(* and reuse detection (services/refresh_token.py), the web-session rows   *)
(* that reject the access tokens of a revoked session                      *)
(* (services/active_web_session.py, auth.py), and the requests that issue, *)
(* rotate and revoke them (routers/auth.py, users.py, security.py).        *)
(*                                                                         *)
(* A request reads rows, then writes in one SQLite transaction; another    *)
(* request may commit between the two.  Every query filters by token,      *)
(* family or user, so the rows of different users never meet.              *)
(*                                                                         *)
(* auth is a history value: the token_version under which the first pair   *)
(* of a token's chain was issued (by a login or by the password change     *)
(* that the version counts).  fate is another: it marks the access tokens  *)
(* that existed when their session was revoked.                            *)
(***************************************************************************)
EXTENDS Naturals, FiniteSets

CONSTANTS
    MaxTokens,    \* bound on the rows of refresh_tokens
    Legacy,       \* tokens issued before families existed (family_id NULL)
    Families,     \* family ids, which are web-session ids
    NoFamily,     \* the NULL family id
    Refreshers,   \* requests to /auth/refresh
    Logouts,      \* requests to /auth/logout
    Changers,     \* requests to /auth/change-password
    Logins,       \* login requests
    MaxVersion,   \* bound on token_version
    MaxJwts       \* bound on unexpired access tokens

Tokens == 1..MaxTokens   \* primary keys, given in order
NoToken == 0             \* what a request that read no token remembers

ASSUME LegacyAssumption == Legacy \subseteq Tokens
ASSUME NoFamilyAssumption == NoFamily \notin Families
ASSUME BoundsAssumption == MaxTokens \in Nat /\ MaxVersion \in Nat /\ MaxJwts \in Nat
ASSUME KindsAssumption ==
    /\ Refreshers \cap Logouts = {} /\ Refreshers \cap Changers = {}
    /\ Refreshers \cap Logins = {} /\ Logouts \cap Changers = {}
    /\ Logouts \cap Logins = {} /\ Changers \cap Logins = {}

VARIABLES
    tokens,     \* refresh_tokens: family, status, auth
    sessions,   \* active_web_session: per session id
    version,    \* User.token_version
    active,     \* User.is_active
    jwts,       \* unexpired access tokens
    pc,         \* where each request is
    held        \* what each request remembers: a token, a family, a version

vars == <<tokens, sessions, version, active, jwts, pc, held>>

Requests == Refreshers \cup Logouts \cup Changers \cup Logins

\* "rotated" is revoked with reason "rotated" at most ROTATION_GRACE_SECONDS
\* ago, "stale" the same but longer ago; "ended" is revoked for another
\* reason; "expired" is not revoked but past expires_at.
Statuses == {"unused", "live", "expired", "rotated", "stale", "ended"}

AnyFamily == Families \cup {NoFamily}
Versions  == 0..MaxVersion

TypeOK ==
    /\ tokens \in [Tokens -> [fam : AnyFamily, status : Statuses, auth : Versions]]
    /\ sessions \in [Families -> {"absent", "active", "revoked"}]
    /\ version \in Versions
    /\ active \in BOOLEAN
    /\ jwts \subseteq [fam : AnyFamily, tv : Versions, auth : Versions, fate : {"open", "buried"}]
    /\ pc \in [Requests -> {"idle", "claim", "supersede", "reuse", "mint", "mintLoaded",
                            "revokeSession", "readCookie", "revokeCookie",
                            "invalidate", "issue"}]
    /\ held \in [Requests -> [tok : Tokens \cup {NoToken}, fam : AnyFamily, ver : Versions]]

Nothing == [tok |-> NoToken, fam |-> NoFamily, ver |-> 0]

Init ==
    /\ tokens = [t \in Tokens |->
                    [fam |-> NoFamily, status |-> IF t \in Legacy THEN "live" ELSE "unused",
                     auth |-> 0]]
    /\ sessions = [f \in Families |-> "absent"]
    /\ version = 0
    /\ active = TRUE
    /\ jwts = {}
    /\ pc = [r \in Requests |-> "idle"]
    /\ held = [r \in Requests |-> Nothing]

-----------------------------------------------------------------------------
(* Queries                                                                 *)

\* revoked = False, with and without the expires_at filter.
Unrevoked(f) == {t \in Tokens : tokens[t].fam = f /\ tokens[t].status \in {"live", "expired"}}
Live(f)      == {t \in Tokens : tokens[t].fam = f /\ tokens[t].status = "live"}

AllUnrevoked == {t \in Tokens : tokens[t].status \in {"live", "expired"}}

\* _family_has_live_token and _revoke_family_on_reuse look at the family, or
\* at the whole user for a token that has none.
Relatives(t) == {u \in Tokens : tokens[t].fam \in {NoFamily, tokens[u].fam}}

\* secrets.token_hex: an id nothing carries yet.
Fresh(f) == f \in Families /\ \A t \in Tokens : tokens[t].fam # f

\* The family a new token gets when create_refresh_token is given family g.
FamilyFor(f, g) == IF g = NoFamily THEN Fresh(f) ELSE f = g

\* get_active_user_from_access_token
Accepted(j) ==
    /\ active
    /\ j.tv = version
    /\ j.fam \in Families => sessions[j.fam] # "revoked"

-----------------------------------------------------------------------------
(* Writes                                                                  *)

Token(f, status, auth) == [fam |-> f, status |-> status, auth |-> auth]

Revoke(T, status) ==
    [t \in Tokens |-> Token(tokens[t].fam, IF t \in T THEN status ELSE tokens[t].status,
                            tokens[t].auth)]

\* One transaction revokes T as rotated and adds the successor n.
Succeed(T, n, f, auth) ==
    [Revoke(T, "rotated") EXCEPT ![n] = Token(f, "live", auth)]

\* The next primary key.
NextId(n) == /\ tokens[n].status = "unused"
              /\ \A m \in Tokens : m < n => tokens[m].status # "unused"

Jwt(f, tv, auth, fate) == [fam |-> f, tv |-> tv, auth |-> auth, fate |-> fate]

Mint(f, tv, auth) == Jwt(f, tv, auth, "open")

\* The access tokens once the sessions of F are revoked.
Bury(F) == {Jwt(j.fam, j.tv, j.auth, IF j.fam \in F THEN "buried" ELSE j.fate) : j \in jwts}

Finish(r) == pc' = [pc EXCEPT ![r] = "idle"] /\ held' = [held EXCEPT ![r] = Nothing]
Goto(r, l) == pc' = [pc EXCEPT ![r] = l]
Remember(r, t, f, v) == held' = [held EXCEPT ![r] = [tok |-> t, fam |-> f, ver |-> v]]

-----------------------------------------------------------------------------
(* Login: _login_with_checks, _complete_2fa_login, _issue_token_pair       *)

LoginAuthenticates(r) ==
    /\ pc[r] = "idle"
    /\ active
    /\ Goto(r, "issue")
    /\ Remember(r, NoToken, NoFamily, 0)
    /\ UNCHANGED <<tokens, sessions, version, active, jwts>>

\* The access token carries the reloaded token_version; touch_active_web_session
\* adds the session row.
LoginIssues(r, n, f) ==
    /\ pc[r] = "issue"
    /\ NextId(n) /\ Fresh(f)
    /\ Cardinality(jwts) < MaxJwts
    /\ tokens' = Succeed({}, n, f, version)
    /\ sessions' = [sessions EXCEPT ![f] = "active"]
    /\ jwts' = jwts \cup {Mint(f, version, version)}
    /\ Finish(r)
    /\ UNCHANGED <<version, active>>

-----------------------------------------------------------------------------
(* rotate_refresh_token and the refresh route.  A token that is unknown,   *)
(* expired or ended, one whose family is dead, and a disabled user get 401 *)
(* and change nothing.                                                     *)

\* The row is read and found unrevoked.
RefreshReadsLive(r, t) ==
    /\ pc[r] = "idle"
    /\ tokens[t].status = "live"
    /\ active
    /\ Goto(r, "claim")
    /\ Remember(r, t, tokens[t].fam, 0)
    /\ UNCHANGED <<tokens, sessions, version, active, jwts>>

\* The row was rotated inside the grace window and its family is alive.  A
\* token without a family only yields an access token.
RefreshReadsRecent(r, t) ==
    /\ pc[r] = "idle"
    /\ tokens[t].status = "rotated"
    /\ \E u \in Relatives(t) : tokens[u].status = "live"
    /\ active
    /\ Goto(r, IF tokens[t].fam = NoFamily THEN "mintLoaded" ELSE "supersede")
    /\ Remember(r, t, tokens[t].fam, version)
    /\ UNCHANGED <<tokens, sessions, version, active, jwts>>

\* The row was rotated longer ago: reuse.
RefreshReadsStale(r, t) ==
    /\ pc[r] = "idle"
    /\ tokens[t].status = "stale"
    /\ Goto(r, "reuse")
    /\ Remember(r, t, tokens[t].fam, 0)
    /\ UNCHANGED <<tokens, sessions, version, active, jwts>>

\* Fault for mutation: the claim UPDATE without its revoked = False filter.
RefreshClaimsUnfiltered(r, n, f) ==
    /\ pc[r] = "claim"
    /\ NextId(n) /\ FamilyFor(f, held[r].fam)
    /\ tokens' = Succeed({held[r].tok}, n, f, tokens[held[r].tok].auth)
    /\ Goto(r, "mint")
    /\ Remember(r, n, f, 0)
    /\ UNCHANGED <<sessions, version, active, jwts>>

\* The claim UPDATE matched: claim and successor commit together.
RefreshClaims(r, n, f) ==
    /\ pc[r] = "claim"
    /\ tokens[held[r].tok].status \in {"live", "expired"}
    /\ NextId(n) /\ FamilyFor(f, held[r].fam)
    /\ tokens' = Succeed({held[r].tok}, n, f, tokens[held[r].tok].auth)
    /\ Goto(r, "mint")
    /\ Remember(r, n, f, 0)
    /\ UNCHANGED <<sessions, version, active, jwts>>

\* The claim UPDATE matched nothing: an access token only.
RefreshLosesClaim(r) ==
    /\ pc[r] = "claim"
    /\ tokens[held[r].tok].status \notin {"live", "expired"}
    /\ Goto(r, "mint")
    /\ UNCHANGED <<tokens, sessions, version, active, jwts, held>>

\* Fault for mutation: a successor issued without looking at the UPDATE's row count.
RefreshSupersedesUngated(r, n) ==
    /\ pc[r] = "supersede"
    /\ NextId(n)
    /\ tokens' = Succeed(Live(held[r].fam), n, held[r].fam, tokens[held[r].tok].auth)
    /\ Goto(r, "mint")
    /\ Remember(r, n, held[r].fam, 0)
    /\ UNCHANGED <<sessions, version, active, jwts>>

\* The UPDATE that is the gate of the grace path.
RefreshSupersedes(r, n) ==
    /\ pc[r] = "supersede"
    /\ Live(held[r].fam) # {}
    /\ NextId(n)
    /\ tokens' = Succeed(Live(held[r].fam), n, held[r].fam, tokens[held[r].tok].auth)
    /\ Goto(r, "mint")
    /\ Remember(r, n, held[r].fam, 0)
    /\ UNCHANGED <<sessions, version, active, jwts>>

RefreshFindsFamilyDead(r) ==
    /\ pc[r] = "supersede"
    /\ Live(held[r].fam) = {}
    /\ Finish(r)
    /\ UNCHANGED <<tokens, sessions, version, active, jwts>>

\* _revoke_family_on_reuse
RefreshRevokesFamily(r) ==
    /\ pc[r] = "reuse"
    /\ tokens' = Revoke(AllUnrevoked \cap Relatives(held[r].tok), "ended")
    /\ Finish(r)
    /\ UNCHANGED <<sessions, version, active, jwts>>

\* create_user_access_token: the commit expired the attributes of the user, so
\* token_version is read again ...
RefreshMints(r) ==
    /\ pc[r] = "mint"
    /\ Cardinality(jwts) < MaxJwts
    /\ jwts' = jwts \cup {Mint(tokens[held[r].tok].fam, version, tokens[held[r].tok].auth)}
    /\ Finish(r)
    /\ UNCHANGED <<tokens, sessions, version, active>>

\* ... except for a token without a family in its grace, where nothing was
\* committed.
RefreshMintsLoaded(r) ==
    /\ pc[r] = "mintLoaded"
    /\ Cardinality(jwts) < MaxJwts
    /\ jwts' = jwts \cup {Mint(NoFamily, held[r].ver, tokens[held[r].tok].auth)}
    /\ Finish(r)
    /\ UNCHANGED <<tokens, sessions, version, active>>

-----------------------------------------------------------------------------
(* Logout and the revocation of a session                                  *)

\* The cookie names the session; revoke_session looks for its row.
LogoutStarts(r, t) ==
    /\ pc[r] = "idle"
    /\ tokens[t].status # "unused"
    /\ Goto(r, IF tokens[t].fam \in Families /\ sessions[tokens[t].fam] # "absent"
               THEN "revokeSession" ELSE "readCookie")
    /\ Remember(r, t, tokens[t].fam, 0)
    /\ UNCHANGED <<tokens, sessions, version, active, jwts>>

\* With an accepted bearer token of the same session, ActiveSessionMiddleware
\* touched the row first.
LogoutStartsWithBearer(r, t, j) ==
    /\ pc[r] = "idle"
    /\ tokens[t].status # "unused"
    /\ Accepted(j)
    /\ j.fam = tokens[t].fam /\ j.fam \in Families
    /\ sessions' = [sessions EXCEPT ![j.fam] = "active"]
    /\ Goto(r, "revokeSession")
    /\ Remember(r, t, j.fam, 0)
    /\ UNCHANGED <<tokens, version, active, jwts>>

\* revoke_session: the row and the tokens of its family, in one transaction.
LogoutRevokesSession(r) ==
    /\ pc[r] = "revokeSession"
    /\ sessions[held[r].fam] # "absent"
    /\ sessions' = [sessions EXCEPT ![held[r].fam] = "revoked"]
    /\ tokens' = Revoke(Unrevoked(held[r].fam), "ended")
    /\ jwts' = Bury({held[r].fam})
    /\ Goto(r, "readCookie")
    /\ UNCHANGED <<version, active, held>>

\* The row was cleaned up meanwhile: the UPDATE fails and logout rolls back.
LogoutRollsBack(r) ==
    /\ pc[r] = "revokeSession"
    /\ sessions[held[r].fam] = "absent"
    /\ Goto(r, "readCookie")
    /\ UNCHANGED <<tokens, sessions, version, active, jwts, held>>

\* revoke_refresh_token reads the row of the cookie ...
LogoutReadsCookie(r) ==
    /\ pc[r] = "readCookie"
    /\ IF tokens[held[r].tok].status \in {"live", "expired"}
       THEN Goto(r, "revokeCookie") /\ UNCHANGED held
       ELSE Finish(r)
    /\ UNCHANGED <<tokens, sessions, version, active, jwts>>

\* ... and writes it by primary key, whatever it has become.
LogoutRevokesCookie(r) ==
    /\ pc[r] = "revokeCookie"
    /\ tokens' = Revoke({held[r].tok}, "ended")
    /\ Finish(r)
    /\ UNCHANGED <<sessions, version, active, jwts>>

\* Fault for mutation: only the session row is marked revoked.
RevokeActiveSessionRowOnly(f) ==
    /\ sessions[f] # "absent"
    /\ sessions' = [sessions EXCEPT ![f] = "revoked"]
    /\ jwts' = Bury({f})
    /\ UNCHANGED <<tokens, version, active, pc, held>>

\* DELETE /active-sessions/{id} by an administrator.
RevokeActiveSession(f) ==
    /\ sessions[f] # "absent"
    /\ sessions' = [sessions EXCEPT ![f] = "revoked"]
    /\ tokens' = Revoke(Unrevoked(f), "ended")
    /\ jwts' = Bury({f})
    /\ UNCHANGED <<version, active, pc, held>>

-----------------------------------------------------------------------------
(* invalidate_user_sessions and its callers                                *)

Invalidate ==
    /\ version < MaxVersion
    /\ version' = version + 1
    /\ tokens' = Revoke(AllUnrevoked, "ended")

\* The user changes the password in the session of access token j.
ChangeStarts(r, j) ==
    /\ pc[r] = "idle"
    /\ j \in jwts /\ Accepted(j)
    /\ Goto(r, "invalidate")
    /\ Remember(r, NoToken, j.fam, 0)
    /\ UNCHANGED <<tokens, sessions, version, active, jwts>>

ChangeInvalidates(r) ==
    /\ pc[r] = "invalidate"
    /\ Invalidate
    /\ Goto(r, "issue")
    /\ Remember(r, NoToken, held[r].fam, version')
    /\ UNCHANGED <<sessions, active, jwts>>

\* After the commit: a new pair in the same family.
ChangeIssues(r, n, f) ==
    /\ pc[r] = "issue"
    /\ NextId(n) /\ FamilyFor(f, held[r].fam)
    /\ Cardinality(jwts) < MaxJwts
    /\ tokens' = Succeed({}, n, f, held[r].ver)
    /\ jwts' = jwts \cup {Mint(held[r].fam, version, held[r].ver)}
    /\ Finish(r)
    /\ UNCHANGED <<sessions, version, active>>

\* An administrator sets the user's password (PATCH /users/{id}).
AdminSetsPassword ==
    /\ Invalidate
    /\ UNCHANGED <<sessions, active, jwts, pc, held>>

\* An administrator disables the user: revoke_user_sessions too.
AdminDisables ==
    /\ active
    /\ Invalidate
    /\ active' = FALSE
    /\ sessions' = [f \in Families |-> IF sessions[f] = "active" THEN "revoked" ELSE sessions[f]]
    /\ jwts' = Bury({f \in Families : sessions[f] = "active"})
    /\ UNCHANGED <<pc, held>>

AdminEnables ==
    /\ ~active
    /\ active' = TRUE
    /\ UNCHANGED <<tokens, sessions, version, jwts, pc, held>>

-----------------------------------------------------------------------------
(* Session rows come and go; time passes                                   *)

\* touch_active_web_session by the middleware or the heartbeat.
Touch(j) ==
    /\ j \in jwts /\ Accepted(j)
    /\ j.fam \in Families
    /\ sessions[j.fam] = "absent"
    /\ sessions' = [sessions EXCEPT ![j.fam] = "active"]
    /\ UNCHANGED <<tokens, version, active, jwts, pc, held>>

CleanupIdle(f) ==
    /\ sessions[f] = "active"
    /\ sessions' = [sessions EXCEPT ![f] = "absent"]
    /\ UNCHANGED <<tokens, version, active, jwts, pc, held>>

\* Fault for mutation: a revoked row is cleaned up like an idle one.
CleanupRevokedAtTtl(f) ==
    /\ sessions[f] = "revoked"
    /\ sessions' = [sessions EXCEPT ![f] = "absent"]
    /\ UNCHANGED <<tokens, version, active, jwts, pc, held>>

\* _stale keeps a revoked row for the lifetime of an access token, so the ones
\* issued before the revocation have expired when the row goes.
CleanupRevoked(f) ==
    /\ sessions[f] = "revoked"
    /\ sessions' = [sessions EXCEPT ![f] = "absent"]
    /\ jwts' = {j \in jwts : j.fam = f => j.fate = "open"}
    /\ UNCHANGED <<tokens, version, active, pc, held>>

\* ROTATION_GRACE_SECONDS pass.
GraceEnds(t) ==
    /\ tokens[t].status = "rotated"
    /\ tokens' = Revoke({t}, "stale")
    /\ UNCHANGED <<sessions, version, active, jwts, pc, held>>

\* refresh_token_expire_days pass: an expired token answers 401, so a rotated
\* one no longer signals reuse.
TokenExpires(t) ==
    /\ tokens[t].status \in {"live", "stale"}
    /\ tokens' = Revoke({t}, IF tokens[t].status = "live" THEN "expired" ELSE "ended")
    /\ UNCHANGED <<sessions, version, active, jwts, pc, held>>

JwtExpires(j) ==
    /\ jwts' = jwts \ {j}
    /\ UNCHANGED <<tokens, sessions, version, active, pc, held>>

-----------------------------------------------------------------------------
Refresh(r) ==
    \/ \E t \in Tokens : RefreshReadsLive(r, t) \/ RefreshReadsRecent(r, t) \/ RefreshReadsStale(r, t)
    \/ \E n \in Tokens, f \in Families : RefreshClaims(r, n, f)
    \/ RefreshLosesClaim(r)
    \/ \E n \in Tokens : RefreshSupersedes(r, n)
    \/ RefreshFindsFamilyDead(r)
    \/ RefreshRevokesFamily(r)
    \/ RefreshMints(r)
    \/ RefreshMintsLoaded(r)

Logout(r) ==
    \/ \E t \in Tokens : LogoutStarts(r, t)
    \/ \E t \in Tokens, j \in jwts : LogoutStartsWithBearer(r, t, j)
    \/ LogoutRevokesSession(r)
    \/ LogoutRollsBack(r)
    \/ LogoutReadsCookie(r)
    \/ LogoutRevokesCookie(r)

Change(r) ==
    \/ \E j \in jwts : ChangeStarts(r, j)
    \/ ChangeInvalidates(r)
    \/ \E n \in Tokens, f \in Families : ChangeIssues(r, n, f)

Login(r) ==
    \/ LoginAuthenticates(r)
    \/ \E n \in Tokens, f \in Families : LoginIssues(r, n, f)

Admin ==
    \/ \E f \in Families : RevokeActiveSession(f)
    \/ AdminSetsPassword
    \/ AdminDisables
    \/ AdminEnables

Environment ==
    \/ \E j \in jwts : Touch(j) \/ JwtExpires(j)
    \/ \E f \in Families : CleanupIdle(f) \/ CleanupRevoked(f)
    \/ \E t \in Tokens : GraceEnds(t) \/ TokenExpires(t)

Next ==
    \/ \E r \in Refreshers : Refresh(r)
    \/ \E r \in Logouts : Logout(r)
    \/ \E r \in Changers : Change(r)
    \/ \E r \in Logins : Login(r)
    \/ Admin
    \/ Environment

Spec == Init /\ [][Next]_vars

-----------------------------------------------------------------------------
(* Properties                                                              *)

\* A request that will use a token or a family has one.
HeldOK ==
    \A r \in Requests :
        /\ pc[r] \in {"claim", "supersede", "reuse", "mint", "mintLoaded", "revokeSession",
                     "readCookie", "revokeCookie"} =>
               held[r].tok \in Tokens /\ tokens[held[r].tok].status # "unused"
        /\ pc[r] \in {"supersede", "revokeSession"} => held[r].fam \in Families
        /\ pc[r] \in {"claim", "supersede"} => tokens[held[r].tok].fam = held[r].fam

\* A session row and an access token belong to a family some token has.
NamesAreUsed ==
    /\ \A f \in Families : sessions[f] # "absent" => ~Fresh(f)
    /\ \A j \in jwts : ~Fresh(j.fam)
    /\ \A r \in Requests : ~Fresh(held[r].fam)
    /\ \A t \in Tokens : tokens[t].status = "unused" => tokens[t].fam = NoFamily

\* rotate_refresh_token: "Claim and successor commit together", and one of two
\* concurrent refreshes wins - a family never has two unrevoked tokens, through
\* rotation, grace recovery, logout and a password change in the same session.
OneTokenPerFamily ==
    \A f \in Families : \A t, u \in Unrevoked(f) : t = u

\* A change of password finds no unrevoked token in its family when it issues.
IssuesIntoDeadFamily ==
    \A r \in Changers : pc[r] = "issue" => \A t \in Tokens :
        tokens[t].fam = held[r].fam /\ held[r].fam \in Families =>
            tokens[t].status \notin {"live", "expired"}

\* The inductive invariant of the token table.
SessionInv == TypeOK /\ HeldOK /\ NamesAreUsed /\ OneTokenPerFamily /\ IssuesIntoDeadFamily

\* _stale: "A revoked row is what rejects the session's access tokens, so it must
\* outlive them" - an access token that existed when its session was revoked is
\* never accepted again, through touches, clean-up and later logins.
RevokedSessionStaysRejected ==
    \A j \in jwts : j.fate = "buried" => ~Accepted(j)

\* The revocation of a session "waits for the write lock and then revokes the
\* successor too, instead of leaving it alive in a revoked session": no
\* unrevoked refresh token belongs to a revoked session.
NoTokenInRevokedSession ==
    \A f \in Families : sessions[f] = "revoked" => Unrevoked(f) = {}

\* A family whose tokens are all revoked (logout, reuse, password, session) is
\* brought back by no refresh, inside the grace window or not; only a new login
\* or the password change of that session issues into it.
DeadFamilyStaysDead ==
    [][\A f \in Families :
          ~Fresh(f) /\ Unrevoked(f) = {} /\ Unrevoked(f)' # {} =>
              \E r \in Changers : pc[r] = "issue" /\ pc'[r] = "idle" /\ held[r].fam = f]_vars

\* A change of password ends every session opened before it: no refresh of an
\* earlier chain yields an access token that the new token_version accepts.
PasswordChangeEndsSessions ==
    \A j \in jwts : Accepted(j) => j.auth = version
=============================================================================
