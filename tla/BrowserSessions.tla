---------------------------- MODULE BrowserSessions ----------------------------
(***************************************************************************)
(* The browser's half of refresh sessions, apps/frontend/app/lib/auth.js,  *)
(* composed with the backend's.  The cookie belongs to the browser; each   *)
(* tab keeps its own access token and its own refreshPromise, which joins  *)
(* the refreshes of one tab and not those of two.                          *)
(***************************************************************************)
EXTENDS RefreshSessions

IdleCall ==
    [at |-> "idle", type |-> "refresh", tab |-> NoTab, token |-> 0,
     session |-> 0, targets |-> {}, answer |-> 0]

End(c) == calls' = [calls EXCEPT ![c] = IdleCall]

InFlight(c) == calls[c].at # "idle"

\* The session bound: each call in flight may create one row.
Room == count + Cardinality({c \in Calls : InFlight(c)}) < MaxSessions

FamilyOf(s) == IF s = 0 THEN {} ELSE {family[s]}

\* The family a call is about: its cookie's, else its bearer token's.
About(token, session) == FamilyOf(IF token # 0 THEN token ELSE session)

\* Families that an unanswered call is about.
Contended == UNION {About(calls[c].token, calls[c].session) : c \in Calls}

Send(c, t, type, step, token, session) ==
    /\ ~InFlight(c) /\ Room
    /\ calls' = [calls EXCEPT ![c] =
            [at |-> step, type |-> type, tab |-> t, token |-> token, session |-> session,
             targets |-> {}, answer |-> 0]]
    /\ disturbed' = disturbed \union (About(token, session) \intersect Contended)
    /\ UNCHANGED <<rows, ended, faults>>

------------------------------------------------------------------------------
(* Sending                                                                 *)

\* login and register post credentials; the backend ignores the cookie.
Login(c, t) ==
    /\ Send(c, t, "login", "create", 0, 0)
    /\ UNCHANGED browser

\* bootstrapSession, ensureAccessToken and authFetch come here without a
\* usable access token; a refresh of this tab in flight is joined.
RefreshSession(c, t) ==
    /\ access[t] = 0
    /\ ~refreshing[t]
    /\ Send(c, t, "refresh", "read", cookie, 0)
    /\ refreshing' = [refreshing EXCEPT ![t] = TRUE]
    /\ UNCHANGED <<cookie, access>>

Logout(c, t) ==
    /\ Send(c, t, "logout", "read", cookie, access[t])
    /\ UNCHANGED browser

\* The access token expires, or a request made with it is answered 401.
AccessExpires(t) ==
    /\ access[t] # 0
    /\ access' = [access EXCEPT ![t] = 0]
    /\ UNCHANGED <<rows, calls, cookie, refreshing, history>>

\* A page load starts lib/auth.js again; answers still set the cookie.
Reload(t) ==
    /\ \E c \in Calls : calls[c].tab = t
    /\ access' = [access EXCEPT ![t] = 0]
    /\ refreshing' = [refreshing EXCEPT ![t] = FALSE]
    /\ calls' = [c \in Calls |-> IF calls[c].tab = t
                                 THEN [calls[c] EXCEPT !.tab = NoTab] ELSE calls[c]]
    /\ UNCHANGED <<rows, cookie, history>>

------------------------------------------------------------------------------
(* Answers                                                                 *)

\* Set-Cookie of an answer: login and refresh set it, an error or a logout
\* clears it.
CookieAfter(c) == calls[c].answer

\* clearAuth forgets the refresh in flight too; an answer sets the token.
Settle(c, token) ==
    LET t == calls[c].tab IN
    IF t = NoTab THEN UNCHANGED <<access, refreshing>>
    ELSE /\ access' = [access EXCEPT ![t] = token]
         /\ refreshing' = IF calls[c].type = "login" THEN refreshing
                          ELSE [refreshing EXCEPT ![t] = FALSE]

Answered(c) ==
    /\ calls[c].at = "reply"
    /\ cookie' = CookieAfter(c)
    /\ Settle(c, calls[c].answer)
    /\ End(c)
    /\ UNCHANGED <<rows, history>>

Disturb(c) ==
    /\ faults < MaxFaults
    /\ faults' = faults + 1
    /\ disturbed' = disturbed \union About(calls[c].token, calls[c].session)
    /\ UNCHANGED <<rows, ended>>

\* A database call throws before or after it took effect: the handler
\* answers 500, and clears the cookie unless it was a login.
CallErrs(c) ==
    /\ InFlight(c)
    /\ Disturb(c)
    /\ IF calls[c].type = "login" THEN End(c)
       ELSE calls' = [calls EXCEPT ![c].at = "reply", ![c].answer = 0, ![c].targets = {}]
    /\ UNCHANGED browser

\* The backend or the connection dies: nothing is answered, an open
\* transaction is rolled back, and fetch rejects.
CallLost(c) ==
    /\ InFlight(c)
    /\ Disturb(c)
    /\ IF calls[c].type = "login" THEN UNCHANGED <<access, refreshing>> ELSE Settle(c, 0)
    /\ End(c)
    /\ UNCHANGED cookie

------------------------------------------------------------------------------
Init ==
    /\ count = 0
    /\ family = [s \in Sessions |-> 0]
    /\ parent = [s \in Sessions |-> 0]
    /\ rotated = {}
    /\ revoked = [s \in Sessions |-> "no"]
    /\ expired = {}
    /\ calls = [c \in Calls |-> IdleCall]
    /\ cookie = 0
    /\ access = [t \in Tabs |-> 0]
    /\ refreshing = [t \in Tabs |-> FALSE]
    /\ disturbed = {}
    /\ ended = {}
    /\ faults = 0

Browse(t) ==
    \/ \E c \in Calls : Login(c, t) \/ RefreshSession(c, t) \/ Logout(c, t)
    \/ AccessExpires(t)
    \/ Reload(t)

Next ==
    \/ \E t \in Tabs : Browse(t)
    \/ \E c \in Calls : Serve(c) \/ Answered(c) \/ CallErrs(c) \/ CallLost(c)
    \/ \E s \in Sessions : Expires(s)

Spec == Init /\ [][Next]_vars

------------------------------------------------------------------------------
(* Properties.                                                             *)

TypeOK ==
    /\ count \in 0..MaxSessions
    /\ family \in [Sessions -> Tokens] /\ parent \in [Sessions -> Tokens]
    /\ rotated \subseteq Sessions /\ expired \subseteq Sessions
    /\ revoked \in [Sessions -> Reasons]
    /\ calls \in [Calls -> Call]
    /\ cookie \in Tokens
    /\ access \in [Tabs -> Tokens]
    /\ refreshing \in [Tabs -> BOOLEAN]
    /\ disturbed \subseteq Tokens /\ ended \subseteq Tokens
    /\ faults \in 0..MaxFaults

\* However refreshes of one token race, at most one of them rotates it: no
\* row has two children (the claiming update in refreshAuthSession).
RotatedOnce ==
    \A s, t \in 1..count : parent[s] = parent[t] /\ parent[s] # 0 => s = t

\* A family has at most one session that can still be refreshed.
OneLiveSession ==
    \A s, t \in 1..count : family[s] = family[t] /\ Live(s) /\ Live(t) => s = t

\* A browser whose calls did not overlap, fail or get lost never presents a
\* rotated token: its own refreshes do not look like a stolen one.
ReuseNeedsDisturbance ==
    \A s \in 1..count : revoked[s] = "REFRESH_REUSE" => family[s] \in disturbed

\* The cookie is the newest token of its family, or the call that replaces it
\* is in flight, in a family whose calls did not overlap, fail or get lost.
CookieIsNewest ==
    cookie \in rotated =>
        \/ family[cookie] \in disturbed
        \/ \E c \in Calls : InFlight(c) /\ calls[c].token = cookie

\* Logging out ends the family, although only the presented row is revoked:
\* no other session of it is live, unless its calls overlapped or failed.
LogoutEndsFamily ==
    \A s \in 1..count : family[s] \in ended \ disturbed => ~Live(s)

\* The chain a family stands for: its live session is the head.
LiveIn(f) == {s \in 1..count : family[s] = f /\ Live(s)}

Started == {family[s] : s \in 1..count}

HeadOf(f) == IF LiveIn(f) = {} THEN 0 ELSE CHOOSE s \in LiveIn(f) : TRUE

Heads == [f \in Sessions |-> HeadOf(f)]

Chain == INSTANCE SessionChain WITH started <- Started, head <- Heads

\* A family moves from token to token and, once it has ended by logout,
\* expiry or revocation, no refresh that was under way gives it a live one.
ImplementsChain == Chain!Spec
==============================================================================
