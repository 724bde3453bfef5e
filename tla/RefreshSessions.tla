---------------------------- MODULE RefreshSessions ----------------------------
(***************************************************************************)
(* The refresh sessions of the backend: apps/backend/src/authService.js,   *)
(* behind /auth/login, /auth/register, /auth/refresh and /auth/logout.     *)
(*                                                                         *)
(* A Session row stands for one refresh token; refreshing rotates the row  *)
(* and creates a child in the same family, and a token presented after it  *)
(* was rotated revokes the whole family.  Each handler awaits PostgreSQL   *)
(* several times; its updates are READ COMMITTED: one that meets a row     *)
(* locked by an open transaction waits and tests its condition again.      *)
(*                                                                         *)
(* Tokens are the numbers of their rows, in the order of creation; 0 is no *)
(* token.  A token no row has (a forged cookie) ends like no token at all. *)
(***************************************************************************)
EXTENDS Naturals, FiniteSets

CONSTANTS
    Tabs,         \* the browser's tabs, each with its own lib/auth.js
    NoTab,        \* stands for a page that is gone
    Calls,        \* requests to /auth/* that may overlap
    MaxSessions,  \* bound on the rows
    MaxFaults     \* bound on failed and lost calls

ASSUME SessionsAssumption ==
    NoTab \notin Tabs /\ MaxSessions \in Nat /\ MaxFaults \in Nat

VARIABLES
    \* the Session table
    count,        \* rows created
    family,       \* familyId: the first row of the family
    parent,       \* parentId
    rotated,      \* rows with rotatedAt
    revoked,      \* revokeReason, "no" while revokedAt is null
    expired,      \* rows whose expiresAt has passed
    \* the handlers
    calls,
    \* the browser
    cookie,       \* the refresh cookie, shared by the tabs
    access,       \* accessToken of a tab: the session it names
    refreshing,   \* refreshPromise of a tab is set
    \* history
    disturbed,    \* families with overlapping, failed or lost calls
    ended,        \* families whose token was given to a completed logout
    faults

rows == <<count, family, parent, rotated, revoked, expired>>
browser == <<cookie, access, refreshing>>
history == <<disturbed, ended, faults>>
vars == <<rows, calls, browser, history>>

Sessions == 1..MaxSessions
Tokens == 0..MaxSessions
Reasons == {"no", "LOGOUT", "REFRESH_REUSE", "EXPIRED"}
ServerSteps == {"read", "create", "expire", "claim", "commit",
                "snapshot", "revoke", "update"}

Call ==
    [at : ServerSteps \union {"idle", "reply"},
     type : {"login", "refresh", "logout"},
     tab : Tabs \union {NoTab},    \* the page that waits for it
     token : Tokens,              \* the cookie it carries
     session : Tokens,            \* the row the handler works on
     targets : SUBSET Sessions,   \* rows an updateMany has matched
     answer : Tokens]             \* the cookie it sets, 0 clears it

Live(s) == s \notin rotated /\ revoked[s] = "no"

Goto(c, step) == calls' = [calls EXCEPT ![c].at = step]

Reply(c, token) ==
    calls' = [calls EXCEPT ![c].at = "reply", ![c].answer = token]

\* A transaction that has claimed a row holds its lock until it commits.
Locked(s) == \E c \in Calls : calls[c].at = "commit" /\ calls[c].session = s

\* session.create of createRefreshSession and of a rotation.  The bound is
\* never met here: Room in BrowserSessions leaves each call its row.
CreateSession(fam, par) ==
    /\ count < MaxSessions
    /\ count' = count + 1
    /\ family' = [family EXCEPT ![count + 1] = fam]
    /\ parent' = [parent EXCEPT ![count + 1] = par]

------------------------------------------------------------------------------
(* refreshAuthSession                                                      *)

\* What the row read decides: reuse, an error, expiry, or an attempt.
AfterRead(s) ==
    CASE revoked[s] # "no"  -> "reply"
      [] s \in rotated      -> "snapshot"
      [] s \in expired      -> "expire"
      [] OTHER              -> "claim"

RefreshRead(c) ==
    /\ calls[c].type = "refresh" /\ calls[c].at = "read"
    /\ IF calls[c].token = 0
       THEN Reply(c, 0)
       ELSE calls' = [calls EXCEPT ![c].at = AfterRead(calls[c].token),
                                   ![c].session = calls[c].token]
    /\ UNCHANGED <<rows, browser, history>>

ExpireSession(c) ==
    /\ calls[c].at = "expire"
    /\ ~Locked(calls[c].session)
    /\ revoked' = [revoked EXCEPT ![calls[c].session] = "EXPIRED"]
    /\ Reply(c, 0)
    /\ UNCHANGED <<count, family, parent, rotated, expired, browser, history>>

\* Mutants: the claiming update without its condition on rotatedAt, or on
\* revokedAt.
ClaimableUnrevoked(s) == revoked[s] = "no"

ClaimableUnrotated(s) == s \notin rotated

\* The condition of the claiming update, tested when the lock is free.
Claimable(s) == Live(s)

\* The claim locks the row; a claim that matches nothing is a raced reuse.
ClaimSession(c) ==
    /\ calls[c].at = "claim"
    /\ ~Locked(calls[c].session)
    /\ Goto(c, IF Claimable(calls[c].session) THEN "commit" ELSE "snapshot")
    /\ UNCHANGED <<rows, browser, history>>

\* Mutant: the rotation answers with the token it was given.
CommitRotationSameToken(c) ==
    /\ calls[c].at = "commit"
    /\ CreateSession(family[calls[c].session], calls[c].session)
    /\ rotated' = rotated \union {calls[c].session}
    /\ Reply(c, calls[c].session)
    /\ UNCHANGED <<revoked, expired, browser, history>>

\* The transaction creates the child and commits; only now do others see it.
CommitRotation(c) ==
    /\ calls[c].at = "commit"
    /\ CreateSession(family[calls[c].session], calls[c].session)
    /\ rotated' = rotated \union {calls[c].session}
    /\ Reply(c, count + 1)
    /\ UNCHANGED <<revoked, expired, browser, history>>

------------------------------------------------------------------------------
(* revokeSessionFamily: updateMany chooses its rows from a snapshot, waits *)
(* for their locks, and skips a row that was revoked meanwhile.            *)

SnapshotFamily(c) ==
    /\ calls[c].at = "snapshot"
    /\ calls' = [calls EXCEPT ![c].at = "revoke",
            ![c].targets = {s \in 1..count : /\ family[s] = family[calls[c].session]
                                             /\ revoked[s] = "no"}]
    /\ UNCHANGED <<rows, browser, history>>

RevokeFamily(c) ==
    /\ calls[c].at = "revoke"
    /\ \A s \in calls[c].targets : ~Locked(s)
    /\ revoked' = [s \in Sessions |->
            IF s \in calls[c].targets /\ revoked[s] = "no"
            THEN "REFRESH_REUSE" ELSE revoked[s]]
    /\ calls' = [calls EXCEPT ![c].at = "reply", ![c].answer = 0, ![c].targets = {}]
    /\ UNCHANGED <<count, family, parent, rotated, expired, browser, history>>

------------------------------------------------------------------------------
(* logoutRefreshSession, loginUser and registerUser                        *)

\* Mutant: the bearer token is preferred to the cookie.
LogoutReadBearerFirst(c) ==
    /\ calls[c].type = "logout" /\ calls[c].at = "read"
    /\ IF calls[c].session # 0 THEN Goto(c, "update")
       ELSE IF calls[c].token # 0
       THEN calls' = [calls EXCEPT ![c].at = "update", ![c].session = calls[c].token]
       ELSE Reply(c, 0)
    /\ UNCHANGED <<rows, browser, history>>

\* The row of the cookie, else the session the bearer token names.
LogoutRead(c) ==
    /\ calls[c].type = "logout" /\ calls[c].at = "read"
    /\ IF calls[c].token # 0
       THEN calls' = [calls EXCEPT ![c].at = "update", ![c].session = calls[c].token]
       ELSE IF calls[c].session # 0 THEN Goto(c, "update")
       ELSE Reply(c, 0)
    /\ UNCHANGED <<rows, browser, history>>

LogoutUpdate(c) ==
    LET s == calls[c].session IN
    /\ calls[c].at = "update"
    /\ ~Locked(s)
    /\ revoked' = [revoked EXCEPT ![s] = IF @ = "no" THEN "LOGOUT" ELSE @]
    /\ Reply(c, 0)
    /\ ended' = IF calls[c].token = 0 THEN ended ELSE ended \union {family[calls[c].token]}
    /\ UNCHANGED <<count, family, parent, rotated, expired, browser, disturbed, faults>>

\* Login and registration start a family of their own.
LoginCreate(c) ==
    /\ calls[c].type = "login" /\ calls[c].at = "create"
    /\ CreateSession(count + 1, 0)
    /\ Reply(c, count + 1)
    /\ UNCHANGED <<rotated, revoked, expired, browser, history>>

\* Time passes expiresAt; nothing reads it in a row rotated or revoked.
Expires(s) ==
    /\ s <= count /\ Live(s) /\ s \notin expired
    /\ expired' = expired \union {s}
    /\ UNCHANGED <<count, family, parent, rotated, revoked, calls, browser, history>>

Serve(c) ==
    \/ RefreshRead(c) \/ ExpireSession(c) \/ ClaimSession(c) \/ CommitRotation(c)
    \/ SnapshotFamily(c) \/ RevokeFamily(c)
    \/ LogoutRead(c) \/ LogoutUpdate(c) \/ LoginCreate(c)

==============================================================================
