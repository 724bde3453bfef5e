------------------------ MODULE BrowserSessionsProofs ------------------------
(***************************************************************************)
(* Proofs about refresh sessions, for every number of tabs, calls, rows    *)
(* and faults.                                                             *)
(*                                                                         *)
(* A family has at most one row that was not rotated, because a rotation   *)
(* adds its child in the transaction that rotates the parent; and a        *)
(* transaction that has claimed a row finds it still live when it commits, *)
(* because every other writer of the row waits for its lock.               *)
(*                                                                         *)
(* A family that nothing disturbed has at most one call about it, and the  *)
(* token that call answers with is known to nobody else (Calm); so a token *)
(* seen twice, or a cookie that is not the newest, means a disturbance.    *)
(***************************************************************************)
EXTENDS BrowserSessions, TLAPS

\* What the rows look like.
RowsOK ==
    /\ rotated \subseteq 1..count
    /\ \A s \in 1..count : family[s] \in 1..s /\ parent[s] \in 0..count
    /\ \A s \in Sessions : s > count => revoked[s] = "no"

\* A family has at most one row that was not rotated.
OneUnrotated ==
    \A s, t \in 1..count : family[s] = family[t] /\ s \notin rotated /\ t \notin rotated => s = t

\* Parents were rotated, each by one child.
Children ==
    /\ \A s \in 1..count : parent[s] # 0 => parent[s] \in rotated
    /\ RotatedOnce

\* Nobody knows a token before its row is committed.
Known ==
    /\ cookie \in 0..count
    /\ \A t \in Tabs : access[t] \in 0..count

OnRow == {"expire", "claim", "commit", "snapshot", "revoke", "update"}

\* A handler past its read works on a row, one in a transaction on a live row,
\* and one that revokes on rows of one family.
CallOK(r) ==
    /\ r \in Call
    /\ r.token <= count /\ r.session <= count /\ r.answer <= count
    /\ r.targets \subseteq 1..count
    /\ r.targets # {} => r.at = "revoke"
    /\ \A s \in r.targets : family[s] = family[r.session]
    /\ r.at \in OnRow => r.session # 0
    /\ r.at = "commit" => Live(r.session)

CallsOK == \A c \in Calls : CallOK(calls[c])

\* No two transactions have claimed one row.
OneClaim ==
    \A c, d \in Calls :
        calls[c].at = "commit" /\ calls[d].at = "commit"
            /\ calls[c].session = calls[d].session => c = d

Inv == TypeOK /\ RowsOK /\ OneUnrotated /\ Children /\ Known /\ CallsOK /\ OneClaim

USE SessionsAssumption

------------------------------------------------------------------------------

\* Initially there are no rows, and nobody knows a token.
LEMMA InitInv == Init => Inv
  BY DEF Init, Inv, TypeOK, RowsOK, OneUnrotated, Children, RotatedOnce, Known, CallsOK,
         CallOK, OneClaim, OnRow, Sessions, Tokens, Reasons, Call, IdleCall, ServerSteps

\* A call that is about to be answered is in order, whatever it worked on.
LEMMA ReplyOK ==
    ASSUME TypeOK, NEW q, CallOK(q), NEW token \in 0..count
    PROVE  /\ q.at # "revoke" => CallOK([q EXCEPT !.at = "reply", !.answer = token])
           /\ CallOK([q EXCEPT !.at = "reply", !.answer = token, !.targets = {}])
<1>1. token \in Tokens /\ token <= count
  BY DEF TypeOK, Tokens
<1>2. /\ q \in Call /\ q.token <= count /\ q.session <= count
      /\ q.targets \subseteq 1..count /\ "reply" \notin OnRow
      /\ q.at # "revoke" => q.targets = {}
  BY DEF CallOK, OnRow
<1>3. /\ [q EXCEPT !.at = "reply", !.answer = token] \in Call
      /\ [q EXCEPT !.at = "reply", !.answer = token, !.targets = {}] \in Call
  BY <1>1, <1>2 DEF Call
<1> QED BY <1>1, <1>2, <1>3 DEF CallOK, Call

\* What a call may become in a step that changes no row.
LEMMA CallSet ==
    ASSUME Inv, UNCHANGED rows,
           NEW c \in Calls, NEW r, CallOK(r),
           r.at = "commit" => ~Locked(r.session),
           calls' = [calls EXCEPT ![c] = r]
    PROVE  CallsOK' /\ OneClaim' /\ calls' \in [Calls -> Call]
<1>1. calls \in [Calls -> Call]
  BY DEF Inv, TypeOK
<1>2. \A d \in Calls : calls'[d] = IF d = c THEN r ELSE calls[d]
  BY <1>1
<1>3. \A x : CallOK(x) => CallOK(x)'
  BY DEF CallOK, rows, Live
<1>4. CallsOK'
  BY <1>1, <1>2, <1>3 DEF Inv, CallsOK
<1>5. OneClaim'
  BY <1>2 DEF Inv, OneClaim, Locked
<1>6. calls' \in [Calls -> Call]
  BY <1>1 DEF CallOK
<1> QED BY <1>4, <1>5, <1>6

\* A step that changes no row keeps the invariant if the calls and the
\* browser stay as they should.
LEMMA RowsKept ==
    ASSUME Inv, UNCHANGED rows, TypeOK', Known', CallsOK', OneClaim'
    PROVE  Inv'
  BY DEF Inv, rows, RowsOK, OneUnrotated, Children, RotatedOnce

\* The steps of the browser change no row.
LEMMA BrowserInv ==
    ASSUME Inv,
           NEW t \in Tabs,
           Browse(t)
    PROVE  Inv'
<1>0. TypeOK /\ Known /\ CallsOK /\ OneClaim
  BY DEF Inv
<1>1. CASE \E c \in Calls : Login(c, t) \/ RefreshSession(c, t) \/ Logout(c, t)
  <2>1. PICK c \in Calls : Login(c, t) \/ RefreshSession(c, t) \/ Logout(c, t)
    BY <1>1
  <2>2. PICK type \in {"login", "refresh", "logout"}, step \in {"create", "read"},
             token \in 0..count, session \in 0..count :
             Send(c, t, type, step, token, session)
    BY <1>0, <2>1, 0 \in 0..count DEF Login, RefreshSession, Logout, TypeOK, Known
  <2>3. cookie' = cookie /\ access' = access /\ refreshing' \in [Tabs -> BOOLEAN]
    BY <1>0, <2>1 DEF Login, RefreshSession, Logout, TypeOK, browser
  <2>4. UNCHANGED rows
    BY <2>2 DEF Send
  <2>5. About(token, session) \subseteq Tokens
    BY <1>0, <2>2 DEF About, FamilyOf, TypeOK, Tokens, Sessions
  <2> DEFINE r == [at |-> step, type |-> type, tab |-> t, token |-> token,
                   session |-> session, targets |-> {}, answer |-> 0]
  <2>6. CallOK(r)
    BY <1>0, <2>2 DEF CallOK, Call, OnRow, ServerSteps, TypeOK, Tokens
  <2>7. calls' = [calls EXCEPT ![c] = r]
    BY <2>2 DEF Send
  <2>8. CallsOK' /\ OneClaim' /\ calls' \in [Calls -> Call]
    BY <2>2, <2>4, <2>6, <2>7, CallSet
  <2>9. TypeOK' /\ Known'
    BY <1>0, <2>2, <2>3, <2>4, <2>5, <2>8 DEF Send, TypeOK, Known, rows
  <2> QED BY <2>4, <2>8, <2>9, RowsKept
<1>2. CASE AccessExpires(t)
  <2>1. UNCHANGED <<rows, calls, cookie, refreshing, history>>
    BY <1>2 DEF AccessExpires
  <2>2. access' = [access EXCEPT ![t] = 0]
    BY <1>2 DEF AccessExpires
  <2>3. TypeOK' /\ Known'
    BY <1>0, <2>1, <2>2 DEF TypeOK, Known, Tokens, rows, history
  <2>4. CallsOK' /\ OneClaim'
    BY <1>0, <2>1 DEF CallsOK, CallOK, OneClaim, Live, rows
  <2> QED BY <2>1, <2>3, <2>4, RowsKept
<1>3. CASE Reload(t)
  <2>1. calls' = [c \in Calls |-> IF calls[c].tab = t
                                 THEN [calls[c] EXCEPT !.tab = NoTab] ELSE calls[c]]
    BY <1>3 DEF Reload
  <2>2. UNCHANGED <<rows, cookie, history>>
    BY <1>3 DEF Reload
  <2>3. /\ access' = [access EXCEPT ![t] = 0]
        /\ refreshing' = [refreshing EXCEPT ![t] = FALSE]
    BY <1>3 DEF Reload
  <2>4. \A c \in Calls : CallOK(calls'[c])
    BY <1>0, <2>1 DEF CallsOK, CallOK, Call
  <2>5. /\ calls' \in [Calls -> Call]
        /\ \A c \in Calls : calls'[c].at = calls[c].at /\ calls'[c].session = calls[c].session
    BY <1>0, <2>1, <2>4 DEF CallsOK, CallOK, Call
  <2>7. CallsOK' /\ OneClaim'
    BY <1>0, <2>2, <2>4, <2>5 DEF CallsOK, CallOK, OneClaim, Live, rows
  <2>6. TypeOK' /\ Known'
    BY <1>0, <2>2, <2>3, <2>5 DEF TypeOK, Known, Tokens, rows, history
  <2> QED BY <2>2, <2>6, <2>7, RowsKept
<1> QED BY <1>1, <1>2, <1>3 DEF Browse

\* A call that is answered, fails or is lost changes no row.
LEMMA AnswerInv ==
    ASSUME Inv, NEW c \in Calls, Answered(c) \/ CallErrs(c) \/ CallLost(c)
    PROVE  Inv'
<1>0. TypeOK /\ Known /\ CallsOK /\ OneClaim /\ CallOK(calls[c])
  BY DEF Inv, CallsOK
<1>6. 0 \in 0..count
  BY <1>0 DEF TypeOK
<1>1. CallOK(IdleCall)
  BY <1>0 DEF CallOK, IdleCall, Call, OnRow, TypeOK, Tokens
<1>2. /\ UNCHANGED rows
      /\ disturbed' \subseteq Tokens /\ ended' = ended /\ faults' \in 0..MaxFaults
      /\ CallErrs(c) \/ calls' = [calls EXCEPT ![c] = IdleCall]
  <2>1. About(calls[c].token, calls[c].session) \subseteq Tokens
    BY <1>0 DEF About, FamilyOf, TypeOK, Tokens, Sessions, CallOK, Call
  <2> QED BY <1>0, <2>1 DEF Answered, CallErrs, CallLost, Disturb, End, history, TypeOK
<1>3. /\ cookie' \in 0..count
      /\ access' \in [Tabs -> 0..count]
      /\ refreshing' \in [Tabs -> BOOLEAN]
  <2>1. \A u \in 0..count : Settle(c, u) =>
             access' \in [Tabs -> 0..count] /\ refreshing' \in [Tabs -> BOOLEAN]
    BY <1>0 DEF Settle, TypeOK, Known
  <2>2. calls[c].answer \in 0..count /\ access \in [Tabs -> 0..count]
    BY <1>0 DEF CallOK, Call, TypeOK, Known, Tokens
  <2> QED BY <1>0, <2>1, <2>2 DEF Answered, CallErrs, CallLost, CookieAfter, browser, TypeOK, Known
<1>4. CallsOK' /\ OneClaim' /\ calls' \in [Calls -> Call]
  <2>1. CASE calls' = [calls EXCEPT ![c] = IdleCall]
    BY <1>1, <1>2, <2>1, CallSet DEF IdleCall
  <2>2. CASE calls' = [calls EXCEPT ![c].at = "reply", ![c].answer = 0, ![c].targets = {}]
    <3> DEFINE r == [calls[c] EXCEPT !.at = "reply", !.answer = 0, !.targets = {}]
    <3>1. CallOK(r) /\ r.at = "reply"
      BY <1>0, <1>6, ReplyOK DEF CallOK, Call
    <3>2. calls' = [calls EXCEPT ![c] = r]
      BY <2>2
    <3> QED BY <1>2, <3>1, <3>2, CallSet
  <2> QED BY <1>2, <2>1, <2>2 DEF CallErrs, End
<1>5. TypeOK' /\ Known'
  BY <1>0, <1>2, <1>3, <1>4 DEF TypeOK, Known, rows, Tokens
<1> QED BY <1>2, <1>4, <1>5, RowsKept

\* Reading a row, testing the claim and taking a snapshot change no row.
LEMMA ReadInv ==
    ASSUME Inv, NEW c \in Calls,
           RefreshRead(c) \/ ClaimSession(c) \/ SnapshotFamily(c) \/ LogoutRead(c)
    PROVE  Inv'
<1>0. TypeOK /\ Known /\ CallsOK /\ OneClaim /\ CallOK(calls[c]) /\ calls[c] \in Call
  BY DEF Inv, CallsOK, CallOK
<1>5. 0 \in 0..count
  BY <1>0 DEF TypeOK
<1>6. calls[c].targets = {} /\ calls[c].at # "revoke"
  BY <1>0 DEF CallOK, RefreshRead, ClaimSession, SnapshotFamily, LogoutRead
<1>1. UNCHANGED <<rows, browser, history>>
  BY DEF RefreshRead, ClaimSession, SnapshotFamily, LogoutRead
<1>2. PICK r : /\ CallOK(r)
               /\ r.at = "commit" => ~Locked(r.session)
               /\ calls' = [calls EXCEPT ![c] = r]
  <2>1. CASE RefreshRead(c)
    <3>1. CASE calls[c].token = 0
      <4> DEFINE r == [calls[c] EXCEPT !.at = "reply", !.answer = 0]
      <4>1. CallOK(r) /\ r.at = "reply"
        BY <1>0, <1>5, <1>6, ReplyOK DEF Call
      <4>2. calls' = [calls EXCEPT ![c] = r]
        BY <2>1, <3>1 DEF RefreshRead, Reply
      <4> QED BY <4>1, <4>2
    <3>2. CASE calls[c].token # 0
      <4> DEFINE step == AfterRead(calls[c].token)
                 r == [calls[c] EXCEPT !.at = step, !.session = calls[c].token]
      <4>1. step \in {"reply", "snapshot", "expire", "claim"}
        BY DEF AfterRead
      <4> HIDE DEF step
      <4>2. CallOK(r) /\ r.at # "commit"
        BY <1>0, <1>6, <3>2, <4>1 DEF CallOK, Call, OnRow, ServerSteps
      <4>3. calls' = [calls EXCEPT ![c] = r]
        BY <2>1, <3>2 DEF RefreshRead, step
      <4> QED BY <4>2, <4>3
    <3> QED BY <3>1, <3>2
  <2>2. CASE ClaimSession(c)
    <3> DEFINE step == IF Claimable(calls[c].session) THEN "commit" ELSE "snapshot"
               r == [calls[c] EXCEPT !.at = step]
    <3>1. step = "commit" => Live(calls[c].session) /\ ~Locked(calls[c].session)
      BY <2>2 DEF ClaimSession, Claimable
    <3>2. step \in {"commit", "snapshot"} /\ calls[c].session # 0
      BY <1>0, <2>2 DEF ClaimSession, CallOK, OnRow
    <3>3. calls' = [calls EXCEPT ![c] = r]
      BY <2>2 DEF ClaimSession, Goto
    <3> HIDE DEF step
    <3>4. CallOK(r) /\ r.at = step /\ r.session = calls[c].session
      BY <1>0, <1>6, <3>1, <3>2 DEF CallOK, Call, OnRow, ServerSteps
    <3> QED BY <3>1, <3>3, <3>4
  <2>3. CASE SnapshotFamily(c)
    <3> DEFINE T == {s \in 1..count : /\ family[s] = family[calls[c].session]
                                      /\ revoked[s] = "no"}
               r == [calls[c] EXCEPT !.at = "revoke", !.targets = T]
    <3>1. calls[c].session # 0
      BY <1>0, <2>3 DEF SnapshotFamily, CallOK, OnRow
    <3>2. /\ T \subseteq 1..count /\ T \subseteq Sessions
          /\ \A s \in T : family[s] = family[calls[c].session]
      BY <1>0 DEF TypeOK, Sessions
    <3>3. calls' = [calls EXCEPT ![c] = r]
      BY <2>3 DEF SnapshotFamily
    <3> HIDE DEF T
    <3>4. CallOK(r) /\ r.at = "revoke"
      BY <1>0, <1>6, <3>1, <3>2 DEF CallOK, Call, OnRow, ServerSteps
    <3> QED BY <3>3, <3>4
  <2>4. CASE LogoutRead(c)
    <3>1. CASE calls[c].token # 0
      <4> DEFINE r == [calls[c] EXCEPT !.at = "update", !.session = calls[c].token]
      <4>1. CallOK(r) /\ r.at = "update"
        BY <1>0, <1>6, <3>1 DEF CallOK, Call, OnRow, ServerSteps
      <4>2. calls' = [calls EXCEPT ![c] = r]
        BY <2>4, <3>1 DEF LogoutRead
      <4> QED BY <4>1, <4>2
    <3>2. CASE calls[c].token = 0 /\ calls[c].session # 0
      <4> DEFINE r == [calls[c] EXCEPT !.at = "update"]
      <4>1. CallOK(r) /\ r.at = "update"
        BY <1>0, <1>6, <3>2 DEF CallOK, Call, OnRow, ServerSteps
      <4>2. calls' = [calls EXCEPT ![c] = r]
        BY <2>4, <3>2 DEF LogoutRead, Goto
      <4> QED BY <4>1, <4>2
    <3>3. CASE calls[c].token = 0 /\ calls[c].session = 0
      <4> DEFINE r == [calls[c] EXCEPT !.at = "reply", !.answer = 0]
      <4>1. CallOK(r) /\ r.at = "reply"
        BY <1>0, <1>5, <1>6, ReplyOK DEF Call
      <4>2. calls' = [calls EXCEPT ![c] = r]
        BY <2>4, <3>3 DEF LogoutRead, Reply
      <4> QED BY <4>1, <4>2
    <3> QED BY <3>1, <3>2, <3>3
  <2> QED BY <2>1, <2>2, <2>3, <2>4
<1>3. CallsOK' /\ OneClaim' /\ calls' \in [Calls -> Call]
  BY <1>1, <1>2, CallSet
<1>4. TypeOK' /\ Known'
  BY <1>0, <1>1, <1>3 DEF TypeOK, Known, rows, browser, history
<1> QED BY <1>1, <1>3, <1>4, RowsKept

\* Revoking rows that no transaction has claimed leaves every claim on a live
\* row.
LEMMA RevokeStep ==
    ASSUME Inv, NEW c \in Calls, NEW R \in SUBSET (1..count),
           \A s \in R : ~Locked(s),
           UNCHANGED <<count, family, parent, rotated>>,
           revoked' \in [Sessions -> Reasons],
           \A s \in Sessions \ R : revoked'[s] = revoked[s],
           NEW q, CallOK(q), q.at = "reply",
           calls' = [calls EXCEPT ![c] = q]
    PROVE  RowsOK' /\ OneUnrotated' /\ Children' /\ CallsOK' /\ OneClaim'
           /\ calls' \in [Calls -> Call]
<1>0. TypeOK /\ RowsOK /\ OneUnrotated /\ Children /\ CallsOK /\ OneClaim
  BY DEF Inv
<1>1. \A d \in Calls : calls'[d] = IF d = c THEN q ELSE calls[d]
  BY <1>0 DEF TypeOK
<1>2. RowsOK'
  BY <1>0 DEF RowsOK, TypeOK
<1>3. OneUnrotated' /\ Children'
  BY <1>0 DEF OneUnrotated, Children, RotatedOnce
<1>4. ASSUME NEW d \in Calls PROVE CallOK(calls[d])'
  <2>1. CASE d = c
    BY <1>1, <2>1 DEF CallOK
  <2>2. CASE d # c
    <3>1. calls'[d] = calls[d] /\ CallOK(calls[d])
      BY <1>0, <1>1, <2>2 DEF CallsOK
    <3>2. calls[d].at = "commit" => calls[d].session \in Sessions \ R
      <4>1. calls[d].at = "commit" => calls[d].session # 0 /\ calls[d].session \in Tokens
        BY <3>1 DEF CallOK, OnRow, Call
      <4>2. calls[d].at = "commit" => calls[d].session \notin R
        BY DEF Locked
      <4> QED BY <4>1, <4>2 DEF Sessions, Tokens
    <3> QED BY <3>1, <3>2 DEF CallOK, Live
  <2> QED BY <2>1, <2>2
<1>5. CallsOK'
  BY <1>4 DEF CallsOK
<1>6. OneClaim' /\ calls' \in [Calls -> Call]
  BY <1>0, <1>1 DEF OneClaim, TypeOK, CallOK
<1> QED BY <1>2, <1>3, <1>5, <1>6

\* Expiry, logout and the revocation of a family.
LEMMA RevokeInv ==
    ASSUME Inv, NEW c \in Calls,
           ExpireSession(c) \/ LogoutUpdate(c) \/ RevokeFamily(c)
    PROVE  Inv'
<1>0. TypeOK /\ Known /\ CallsOK /\ CallOK(calls[c]) /\ calls[c] \in Call /\ 0 \in 0..count
  BY DEF Inv, CallsOK, CallOK, TypeOK
<1>1. /\ UNCHANGED <<count, family, parent, rotated, expired, browser, disturbed, faults>>
      /\ ended' \subseteq Tokens
  <2>1. ~RevokeFamily(c) /\ ~ExpireSession(c) =>
           \/ ended' = ended
           \/ ended' = ended \union {family[calls[c].token]} /\ calls[c].token # 0
    BY DEF LogoutUpdate
  <2>2. calls[c].token # 0 => family[calls[c].token] \in Tokens
    BY <1>0 DEF TypeOK, Call, Sessions, Tokens
  <2> QED BY <1>0, <2>1, <2>2 DEF ExpireSession, LogoutUpdate, RevokeFamily, history, TypeOK
<1>2. PICK R \in SUBSET (1..count) :
        /\ \A s \in R : ~Locked(s)
        /\ revoked' \in [Sessions -> Reasons]
        /\ \A s \in Sessions \ R : revoked'[s] = revoked[s]
  <2>1. CASE ExpireSession(c) \/ LogoutUpdate(c)
    <3>1. calls[c].session \in 1..count
      BY <1>0, <2>1 DEF ExpireSession, LogoutUpdate, CallOK, OnRow, TypeOK, Call, Tokens
    <3>4. PICK reason \in Reasons :
             revoked' = [revoked EXCEPT ![calls[c].session] = reason]
      BY <1>0, <2>1, <3>1 DEF ExpireSession, LogoutUpdate, TypeOK, Reasons, Sessions
    <3>2. /\ revoked' \in [Sessions -> Reasons]
          /\ \A s \in Sessions \ {calls[c].session} : revoked'[s] = revoked[s]
      BY <1>0, <3>4 DEF TypeOK
    <3>3. ~Locked(calls[c].session)
      BY <2>1 DEF ExpireSession, LogoutUpdate
    <3> QED BY <3>1, <3>2, <3>3
  <2>2. CASE RevokeFamily(c)
    <3>1. calls[c].targets \subseteq 1..count
      BY <1>0 DEF CallOK
    <3>2. /\ revoked' \in [Sessions -> Reasons]
          /\ \A s \in Sessions \ calls[c].targets : revoked'[s] = revoked[s]
      BY <1>0, <2>2 DEF RevokeFamily, TypeOK, Reasons
    <3>3. \A s \in calls[c].targets : ~Locked(s)
      BY <2>2 DEF RevokeFamily
    <3> QED BY <3>1, <3>2, <3>3
  <2> QED BY <2>1, <2>2
<1>3. PICK q : CallOK(q) /\ q.at = "reply" /\ calls' = [calls EXCEPT ![c] = q]
  <2>1. CASE ExpireSession(c) \/ LogoutUpdate(c)
    <3> DEFINE q == [calls[c] EXCEPT !.at = "reply", !.answer = 0]
    <3>1. calls' = [calls EXCEPT ![c] = q]
      BY <2>1 DEF ExpireSession, LogoutUpdate, Reply
    <3>2. CallOK(q) /\ q.at = "reply"
      BY <1>0, <2>1, ReplyOK DEF Call, ExpireSession, LogoutUpdate
    <3> QED BY <3>1, <3>2
  <2>2. CASE RevokeFamily(c)
    <3> DEFINE q == [calls[c] EXCEPT !.at = "reply", !.answer = 0, !.targets = {}]
    <3>1. calls' = [calls EXCEPT ![c] = q]
      BY <2>2 DEF RevokeFamily
    <3>2. CallOK(q) /\ q.at = "reply"
      BY <1>0, ReplyOK DEF Call
    <3> QED BY <3>1, <3>2
  <2> QED BY <2>1, <2>2
<1>4. RowsOK' /\ OneUnrotated' /\ Children' /\ CallsOK' /\ OneClaim'
      /\ calls' \in [Calls -> Call]
  BY <1>1, <1>2, <1>3, RevokeStep
<1>5. TypeOK' /\ Known'
  BY <1>0, <1>1, <1>2, <1>4 DEF TypeOK, Known, browser
<1> QED BY <1>4, <1>5 DEF Inv

\* A login starts a family; a rotation moves the head of one to its child.
LEMMA CreateInv ==
    ASSUME Inv, NEW c \in Calls, LoginCreate(c) \/ CommitRotation(c)
    PROVE  Inv'
<1> DEFINE n == count + 1
           q == [calls[c] EXCEPT !.at = "reply", !.answer = n]
<1>0. /\ TypeOK /\ RowsOK /\ OneUnrotated /\ Children /\ Known /\ CallsOK /\ OneClaim
      /\ CallOK(calls[c]) /\ calls[c] \in Call
  BY DEF Inv, CallsOK, CallOK
<1>1. PICK fam \in 1..n, par \in 0..count :
        /\ CreateSession(fam, par)
        /\ \/ fam = n /\ par = 0 /\ rotated' = rotated
           \/ /\ calls[c].at = "commit" /\ par = calls[c].session /\ par \in 1..count
              /\ fam = family[par] /\ rotated' = rotated \union {par}
  <2>1. CASE LoginCreate(c)
    BY <1>0, <2>1 DEF LoginCreate, TypeOK
  <2>2. CASE CommitRotation(c)
    <3>1. calls[c].session \in 1..count
      BY <1>0, <2>2 DEF CommitRotation, CallOK, OnRow, Call, Tokens, TypeOK
    <3>2. family[calls[c].session] \in 1..n
      BY <1>0, <3>1 DEF RowsOK, TypeOK
    <3> QED BY <2>2, <3>1, <3>2 DEF CommitRotation
  <2> QED BY <2>1, <2>2
<1>2. /\ UNCHANGED <<revoked, expired, browser, history>>
      /\ calls' = [calls EXCEPT ![c] = q]
  BY DEF LoginCreate, CommitRotation, Reply
<1>3. /\ count \in Nat /\ count' = n /\ n \in Sessions /\ n \notin 1..count
      /\ family' = [family EXCEPT ![n] = fam] /\ parent' = [parent EXCEPT ![n] = par]
      /\ family \in [Sessions -> Tokens] /\ parent \in [Sessions -> Tokens]
      /\ 1..n = (1..count) \union {n} /\ 1..count \subseteq Sessions
  BY <1>0, <1>1 DEF CreateSession, TypeOK, Sessions
<1> HIDE DEF n, q
<1>4. /\ family'[n] = fam /\ parent'[n] = par
      /\ \A s \in 1..count : family'[s] = family[s] /\ parent'[s] = parent[s]
  BY <1>3
<1>5. /\ family' \in [Sessions -> Tokens] /\ parent' \in [Sessions -> Tokens]
      /\ rotated' \subseteq 1..count /\ rotated \subseteq rotated'
  BY <1>0, <1>1, <1>3 DEF RowsOK, Sessions, Tokens
<1>6. RowsOK'
  <2>1. \A s \in 1..n : family'[s] \in 1..s /\ parent'[s] \in 0..n
    BY <1>0, <1>1, <1>3, <1>4 DEF RowsOK, n
  <2>2. \A s \in Sessions : s > n => revoked'[s] = "no"
    BY <1>0, <1>2, <1>3 DEF RowsOK, Sessions, n
  <2>3. rotated' \subseteq 1..n
    BY <1>3, <1>5
  <2> QED BY <1>3, <2>1, <2>2, <2>3 DEF RowsOK
<1>7. OneUnrotated'
  <2>1. ASSUME NEW s \in 1..count, s \notin rotated', family[s] = fam PROVE FALSE
    <3>1. CASE fam = n
      BY <1>0, <1>3, <2>1, <3>1 DEF RowsOK, n
    <3>2. CASE /\ calls[c].at = "commit" /\ par = calls[c].session /\ par \in 1..count
               /\ fam = family[par] /\ rotated' = rotated \union {par}
      <4>1. par \notin rotated
        BY <1>0, <3>2 DEF CallOK, Live
      <4> QED BY <1>0, <2>1, <3>2, <4>1 DEF OneUnrotated
    <3> QED BY <1>1, <3>1, <3>2
  <2>2. ASSUME NEW s \in 1..n, NEW t \in 1..n, family'[s] = family'[t],
               s \notin rotated', t \notin rotated'
        PROVE  s = t
    <3>1. CASE s = n /\ t = n
      BY <3>1
    <3>2. CASE s = n /\ t \in 1..count
      BY <1>4, <2>1, <2>2, <3>2
    <3>3. CASE s \in 1..count /\ t = n
      BY <1>4, <2>1, <2>2, <3>3
    <3>4. CASE s \in 1..count /\ t \in 1..count
      BY <1>0, <1>4, <1>5, <2>2, <3>4 DEF OneUnrotated
    <3> QED BY <1>3, <3>1, <3>2, <3>3, <3>4
  <2> QED BY <1>3, <2>2 DEF OneUnrotated
<1>8. Children'
  <2>1. par # 0 => par \notin rotated /\ par \in rotated'
    BY <1>0, <1>1 DEF CallOK, Live
  <2>2. ASSUME NEW s \in 1..n, parent'[s] # 0 PROVE parent'[s] \in rotated'
    <3>1. CASE s = n
      BY <1>4, <2>1, <2>2, <3>1
    <3>2. CASE s \in 1..count
      <4>1. parent'[s] = parent[s] /\ parent[s] \in rotated
        BY <1>0, <1>4, <2>2, <3>2 DEF Children
      <4> QED BY <1>5, <4>1
    <3> QED BY <1>3, <3>1, <3>2
  <2>3. \A s \in 1..count : parent'[s] # 0 => parent'[s] # par
    BY <1>0, <1>4, <2>1 DEF Children
  <2>4. RotatedOnce'
    BY <1>0, <1>3, <1>4, <2>3 DEF Children, RotatedOnce
  <2> QED BY <1>3, <2>2, <2>4 DEF Children
<1>9. ASSUME NEW d \in Calls PROVE CallOK(calls[d])'
  <2>1. CASE d = c
    <3>1. calls'[d] = q
      BY <1>0, <1>2, <2>1 DEF TypeOK
    <3>2. n \in Tokens /\ n <= n /\ "reply" \notin OnRow
      BY <1>3 DEF Sessions, Tokens, OnRow
    <3>3. /\ q \in Call /\ q.at = "reply" /\ q.answer = n /\ q.token = calls[c].token
          /\ q.session = calls[c].session /\ q.targets = calls[c].targets
      BY <1>0, <3>2 DEF q, Call
    <3>4. q.token <= n /\ q.session <= n /\ q.targets = {}
      BY <1>0, <1>3, <3>3 DEF CallOK, Call, Tokens, n, LoginCreate, CommitRotation
    <3> QED BY <1>3, <3>1, <3>2, <3>3, <3>4 DEF CallOK
  <2>2. CASE d # c
    <3>1. calls'[d] = calls[d] /\ CallOK(calls[d])
      BY <1>0, <1>2, <2>2 DEF TypeOK, CallsOK
    <3>2. calls[d].at = "commit" => calls[d].session \notin rotated'
      BY <1>0, <1>1, <2>2, <3>1 DEF CallOK, Live, OneClaim
    <3>3. calls[d].token <= n /\ calls[d].session <= n /\ calls[d].answer <= n
          /\ calls[d].targets \subseteq 1..n
      BY <1>3, <3>1 DEF CallOK, Call, Tokens, n
    <3>4. \A s \in calls[d].targets : family'[s] = family'[calls[d].session]
      BY <1>3, <1>4, <3>1 DEF CallOK, OnRow, Call, Tokens
    <3> QED BY <1>2, <1>3, <3>1, <3>2, <3>3, <3>4 DEF CallOK, Live
  <2> QED BY <2>1, <2>2
<1>10. CallsOK' /\ OneClaim' /\ calls' \in [Calls -> Call]
  <2>1. calls' \in [Calls -> Call]
    BY <1>0, <1>2, <1>9 DEF TypeOK, CallOK
  <2>2. calls'[c].at # "commit" /\ \A d \in Calls : d # c => calls'[d] = calls[d]
    BY <1>0, <1>2 DEF TypeOK, q, Call
  <2> QED BY <1>0, <1>9, <2>1, <2>2 DEF CallsOK, OneClaim
<1>11. TypeOK' /\ Known'
  <2>1. rotated' \subseteq Sessions /\ n \in 0..MaxSessions
    BY <1>3, <1>5 DEF Sessions
  <2>2. TypeOK'
    BY <1>0, <1>2, <1>3, <1>5, <1>10, <2>1 DEF TypeOK, browser, history
  <2>3. 0..count \subseteq 0..n
    BY <1>3 DEF n
  <2>4. Known'
    BY <1>0, <1>2, <1>3, <2>3 DEF Known, browser
  <2> QED BY <2>2, <2>4
<1> QED BY <1>6, <1>7, <1>8, <1>10, <1>11 DEF Inv

\* The invariant does not depend on which rows have expired.
LEMMA ExpiryInv ==
    ASSUME Inv, expired' \subseteq Sessions,
           UNCHANGED <<count, family, parent, rotated, revoked, calls, browser, history>>
    PROVE  Inv'
<1>1. TypeOK'
  BY DEF Inv, TypeOK, browser, history
<1>2. RowsOK' /\ OneUnrotated' /\ Children'
  BY DEF Inv, RowsOK, OneUnrotated, Children, RotatedOnce
<1>3. Known' /\ OneClaim'
  BY DEF Inv, Known, OneClaim, browser
<1>4. CallsOK'
  BY DEF Inv, CallsOK, CallOK, Live
<1> QED BY <1>1, <1>2, <1>3, <1>4 DEF Inv

\* Every step keeps the invariant.
LEMMA StepInv == Inv /\ [Next]_vars => Inv'
<1> SUFFICES ASSUME Inv, [Next]_vars PROVE Inv'
  OBVIOUS
<1>1. CASE \E t \in Tabs : Browse(t)
  BY <1>1, BrowserInv
<1>2. CASE \E c \in Calls : Serve(c)
  BY <1>2, ReadInv, RevokeInv, CreateInv DEF Serve
<1>3. CASE \E c \in Calls : Answered(c) \/ CallErrs(c) \/ CallLost(c)
  BY <1>3, AnswerInv
<1>4. CASE \E s \in Sessions : Expires(s)
  <2>1. expired' \subseteq Sessions
    BY <1>4 DEF Expires, Inv, TypeOK
  <2> QED BY <1>4, <2>1, ExpiryInv DEF Expires
<1>5. CASE UNCHANGED vars
  <2>1. expired' \subseteq Sessions
    BY <1>5 DEF vars, rows, Inv, TypeOK
  <2> QED BY <1>5, <2>1, ExpiryInv DEF vars, rows
<1> QED BY <1>1, <1>2, <1>3, <1>4, <1>5 DEF Next

\* The invariant holds in every reachable state.
LEMMA AlwaysInv == Spec => []Inv
  BY InitInv, StepInv, PTL DEF Spec

------------------------------------------------------------------------------
(* What a browser whose calls neither overlap nor fail can rely on.        *)
(*                                                                         *)
(* A family that is not disturbed has at most one call about it (OneAbout),*)
(* so the row such a call has read is not touched before it is done        *)
(* (Undisturbed).  A new token is known only to the call that answers with *)
(* it (AnswersSecret): no one can have rotated it when it becomes the      *)
(* cookie.                                                                 *)

AboutOf(r) == About(r.token, r.session)

\* Which steps each handler takes, and that past its read it works on the row
\* of its token.
CallShape(r) ==
    /\ r.answer # 0 => r.at = "reply"
    /\ r.at = "idle" => r.token = 0 /\ r.session = 0
    /\ r.type = "login" => r.token = 0 /\ r.session = 0 /\ r.at \in {"create", "reply"}
    /\ r.type = "refresh" =>
         /\ r.at \in {"idle", "read", "reply", "expire", "claim", "commit", "snapshot", "revoke"}
         /\ r.at \in OnRow => r.session = r.token /\ r.token # 0
    /\ r.type = "logout" =>
         /\ r.at \in {"read", "update", "reply"}
         /\ r.at = "update" /\ r.token # 0 => r.session = r.token

CallsShaped == \A c \in Calls : CallShape(calls[c])

\* The token a call answers with is nobody's cookie, and no call's, yet.
SecretOf(c) ==
    calls[c].answer # 0 =>
        /\ calls[c].answer \notin rotated
        /\ calls[c].answer # cookie
        /\ \A d \in Calls : /\ calls[d].token # calls[c].answer
                            /\ d # c => calls[d].answer # calls[c].answer

AnswersSecret == \A c \in Calls : SecretOf(c)

OneAbout ==
    \A c, d \in Calls : c # d => AboutOf(calls[c]) \intersect AboutOf(calls[d]) \subseteq disturbed

\* A call about an undisturbed family finds the row of its token unrotated, and
\* never takes it for a reused one.
CalmCall(r) ==
    r.token # 0 /\ family[r.token] \notin disturbed =>
        /\ r.at \in {"read", "expire", "claim", "commit", "update"} => r.token \notin rotated
        /\ r.at = "claim" => revoked[r.token] = "no"
        /\ r.at \notin {"snapshot", "revoke"}

Undisturbed == \A c \in Calls : CalmCall(calls[c])

Calm ==
    /\ CallsShaped /\ AnswersSecret /\ OneAbout /\ Undisturbed
    /\ ended \subseteq 1..count
    /\ ReuseNeedsDisturbance /\ CookieIsNewest /\ LogoutEndsFamily

\* Before the first call nothing is in flight, disturbed or ended.
LEMMA CalmInit == Init => Calm
  BY DEF Init, Calm, CallsShaped, CallShape, AnswersSecret, SecretOf, OneAbout, AboutOf, About, FamilyOf,
         Undisturbed, CalmCall, ReuseNeedsDisturbance, CookieIsNewest, LogoutEndsFamily, IdleCall, OnRow

\* The facts about calls and rows that the steps below rely on.
LEMMA CallFacts ==
    ASSUME Inv, NEW c \in Calls
    PROVE  LET r == calls[c] IN
           /\ r \in Call /\ calls \in [Calls -> Call] /\ count \in Nat /\ count <= MaxSessions
           /\ r.token \in 0..count /\ r.session \in 0..count /\ r.answer \in 0..count
           /\ r.at \in OnRow => r.session \in 1..count
           /\ \A s \in r.targets : s \in 1..count /\ family[s] = family[r.session]
  BY DEF Inv, TypeOK, CallsOK, CallOK, Call, Tokens, OnRow

\* What a handler's step does to its call, and that it is the only one it changes.
LEMMA ServeEffect ==
    ASSUME Inv, CallsShaped, NEW c \in Calls, Serve(c)
    PROVE  /\ \A d \in Calls \ {c} : calls'[d] = calls[d]
           /\ CallShape(calls'[c])
           /\ calls'[c].token = calls[c].token
           /\ calls[c].token = 0 => calls'[c].session = calls[c].session
           /\ calls[c].at # "idle" /\ calls'[c].at # "idle"
           /\ calls'[c].answer # 0 => (LoginCreate(c) \/ CommitRotation(c)) /\ calls'[c].answer = count + 1
           /\ UNCHANGED <<cookie, access, disturbed, faults>>
<1>1. /\ calls \in [Calls -> Call] /\ CallShape(calls[c]) /\ calls[c] \in Call
  BY CallFacts DEF CallsShaped
<1>2. CASE RefreshRead(c)
  <2>1. AfterRead(calls[c].token) \in {"reply", "snapshot", "expire", "claim"}
    BY DEF AfterRead
  <2> QED BY <1>1, <1>2, <2>1 DEF RefreshRead, Reply, CallShape, Call, OnRow, browser, history
<1>3. CASE ExpireSession(c) \/ LogoutUpdate(c)
  BY <1>1, <1>3 DEF ExpireSession, LogoutUpdate, Reply, CallShape, Call, OnRow, browser, history
<1>4. CASE ClaimSession(c)
  BY <1>1, <1>4 DEF ClaimSession, Goto, CallShape, Call, OnRow, browser, history
<1>5. CASE CommitRotation(c) \/ LoginCreate(c)
  BY <1>1, <1>5 DEF CommitRotation, LoginCreate, Reply, CallShape, Call, OnRow, browser, history
<1>6. CASE SnapshotFamily(c)
  BY <1>1, <1>6 DEF SnapshotFamily, CallShape, Call, OnRow, browser, history
<1>7. CASE RevokeFamily(c)
  BY <1>1, <1>7 DEF RevokeFamily, CallShape, Call, OnRow, browser, history
<1>8. CASE LogoutRead(c)
  BY <1>1, <1>8 DEF LogoutRead, Goto, Reply, CallShape, Call, OnRow, browser, history
<1> QED BY <1>2, <1>3, <1>4, <1>5, <1>6, <1>7, <1>8 DEF Serve

\* A handler rotates and revokes rows of the family its call is about, no others.
LEMMA ServeTouches ==
    ASSUME Inv, CallsShaped, NEW c \in Calls, Serve(c), NEW s \in 1..count,
           (s \in rotated' /\ s \notin rotated) \/ revoked'[s] # revoked[s]
    PROVE  family[s] \in AboutOf(calls[c])
<1>1. CallShape(calls[c]) /\ s \in Sessions /\ revoked \in [Sessions -> Reasons]
  BY CallFacts DEF CallsShaped, Sessions, Inv, TypeOK
<1>2. CASE CommitRotation(c)
  BY <1>1, <1>2, CallFacts DEF CommitRotation, CallShape, OnRow, AboutOf, About, FamilyOf, Call
<1>3. CASE ExpireSession(c)
  BY <1>1, <1>3, CallFacts DEF ExpireSession, CallShape, OnRow, AboutOf, About, FamilyOf, Call
<1>4. CASE RevokeFamily(c)
  BY <1>1, <1>4, CallFacts DEF RevokeFamily, CallShape, OnRow, AboutOf, About, FamilyOf, Call
<1>5. CASE LogoutUpdate(c)
  BY <1>1, <1>5, CallFacts DEF LogoutUpdate, CallShape, OnRow, AboutOf, About, FamilyOf, Call
<1> QED
  BY <1>2, <1>3, <1>4, <1>5
  DEF Serve, RefreshRead, ClaimSession, SnapshotFamily, LogoutRead, LoginCreate, rows

\* A handler's step changes no row's family and disturbs nothing; a row that it
\* creates is new, and the head of its family.
LEMMA ServeRows ==
    ASSUME Inv, Inv', CallsShaped, NEW c \in Calls, Serve(c)
    PROVE  /\ \A s \in 1..count : family'[s] = family[s]
           /\ disturbed' = disturbed /\ rotated \subseteq rotated'
           /\ CommitRotation(c) =>
                /\ calls[c].token \in 1..count /\ calls[c].session = calls[c].token
                /\ Live(calls[c].token)
                /\ rotated' = rotated \union {calls[c].token}
                /\ family'[count + 1] = family[calls[c].token]
           /\ LoginCreate(c) => rotated' = rotated /\ family'[count + 1] = count + 1
           /\ CommitRotation(c) \/ LoginCreate(c) => count' = count + 1 /\ UNCHANGED <<revoked, ended>>
           /\ ~ CommitRotation(c) /\ ~ LoginCreate(c) => UNCHANGED <<count, family, rotated>>
<1>1. /\ count \in Nat /\ (count + 1 \in Sessions \/ count = MaxSessions)
      /\ family \in [Sessions -> Tokens] /\ 1..count \subseteq Sessions
  BY DEF Inv, TypeOK, Sessions
<1>2. CASE CommitRotation(c)
  <2>1. calls[c].token \in 1..count /\ calls[c].session = calls[c].token /\ Live(calls[c].token)
    BY <1>2, CallFacts DEF CommitRotation, CallsShaped, CallShape, OnRow, Call, Inv, CallsOK, CallOK
  <2>2. ~ LoginCreate(c)
    BY <1>2 DEF CommitRotation, LoginCreate
  <2> QED BY <1>1, <1>2, <2>1, <2>2 DEF CommitRotation, CreateSession, Sessions, history
<1>3. CASE LoginCreate(c)
  <2>1. ~ CommitRotation(c)
    BY <1>3 DEF CommitRotation, LoginCreate
  <2> QED BY <1>1, <1>3, <2>1 DEF LoginCreate, CreateSession, Sessions, history
<1>4. CASE ~ CommitRotation(c) /\ ~ LoginCreate(c)
  <2>1. UNCHANGED <<count, family, rotated, disturbed>>
    BY <1>4 DEF Serve, RefreshRead, ExpireSession, ClaimSession, SnapshotFamily, RevokeFamily, LogoutRead,
                LogoutUpdate, rows, history
  <2> QED BY <1>4, <2>1
<1> QED BY <1>2, <1>3, <1>4

LEMMA ServeSecret ==
    ASSUME Inv, Inv', CallsShaped, AnswersSecret, NEW c \in Calls, Serve(c)
    PROVE  AnswersSecret'
<1>1. /\ \A d \in Calls \ {c} : calls'[d] = calls[d]
      /\ calls'[c].token = calls[c].token /\ cookie' = cookie
  BY ServeEffect
<1>2. \A d \in Calls : calls[d].token <= count /\ calls[d].answer <= count /\ count \in Nat
  BY CallFacts
<1>3. cookie <= count /\ cookie \in Nat /\ rotated \subseteq 1..count
  BY <1>2 DEF Inv, Known, RowsOK
<1>4. ASSUME NEW d \in Calls \ {c} PROVE SecretOf(d)'
  <2>1. calls[d].answer # 0 => calls[d].answer \notin rotated'
    BY ServeRows DEF AnswersSecret, SecretOf
  <2>2. calls'[c].answer # calls[d].answer \/ calls'[c].answer = 0
    BY <1>2, ServeEffect
  <2> QED BY <1>1, <2>1, <2>2 DEF AnswersSecret, SecretOf
<1>5. SecretOf(c)'
  <2> SUFFICES ASSUME calls'[c].answer # 0 PROVE SecretOf(c)'
    BY DEF SecretOf
  <2>1. calls'[c].answer = count + 1 /\ (LoginCreate(c) \/ CommitRotation(c))
    BY ServeEffect
  <2>2. count + 1 \notin rotated'
    BY <1>2, <1>3, <2>1, ServeRows
  <2> QED BY <1>1, <1>2, <1>3, <2>1, <2>2 DEF SecretOf
<1> QED BY <1>4, <1>5 DEF AnswersSecret

LEMMA ServeOneAbout ==
    ASSUME Inv, Inv', CallsShaped, OneAbout, NEW c \in Calls, Serve(c)
    PROVE  OneAbout'
<1>1. \A d \in Calls : calls[d].token \in 0..count /\ calls[d].session \in 0..count
  BY CallFacts
<1>2. \A d \in Calls : AboutOf(calls[d])' = AboutOf(calls[d])
  <2> SUFFICES ASSUME NEW d \in Calls PROVE AboutOf(calls[d])' = AboutOf(calls[d])
    OBVIOUS
  <2>1. calls'[d].token = calls[d].token /\ (calls[d].token = 0 => calls'[d].session = calls[d].session)
    BY ServeEffect
  <2>2. \A s \in 1..count : family'[s] = family[s]
    BY ServeRows
  <2>3. count \in Nat
    BY DEF Inv, TypeOK
  <2> QED BY <1>1, <2>1, <2>2, <2>3 DEF AboutOf, About, FamilyOf
<1> QED BY <1>2, ServeRows DEF OneAbout

\* Only the call itself touches the rows of an undisturbed family.
LEMMA ServeUndisturbed ==
    ASSUME Inv, Inv', CallsShaped, OneAbout, Undisturbed, NEW c \in Calls, Serve(c)
    PROVE  Undisturbed'
<1>1. disturbed' = disturbed /\ \A s \in 1..count : family'[s] = family[s]
  BY ServeRows
<1>2. ASSUME NEW d \in Calls \ {c} PROVE CalmCall(calls[d])'
  <2> SUFFICES ASSUME calls[d].token # 0, family'[calls[d].token] \notin disturbed'
               PROVE  CalmCall(calls[d])'
    BY ServeEffect DEF CalmCall
  <2>1. calls[d].token \in 1..count
    BY CallFacts
  <2>2. family[calls[d].token] \notin disturbed
    BY <1>1, <2>1
  <2>3. family[calls[d].token] \in AboutOf(calls[d])
    BY DEF AboutOf, About, FamilyOf
  <2>4. family[calls[d].token] \notin AboutOf(calls[c])
    BY <2>2, <2>3 DEF OneAbout
  <2>5. /\ calls[d].token \in rotated' => calls[d].token \in rotated
        /\ revoked'[calls[d].token] = revoked[calls[d].token]
    BY <2>1, <2>4, ServeTouches
  <2> QED BY <2>2, <2>5, ServeEffect DEF Undisturbed, CalmCall
<1>3. CalmCall(calls[c])'
  <2> SUFFICES ASSUME calls[c].token # 0, family'[calls[c].token] \notin disturbed'
               PROVE  CalmCall(calls[c])'
    BY ServeEffect DEF CalmCall
  <2>1. calls[c].token \in 1..count /\ calls[c] \in Call /\ calls \in [Calls -> Call]
    BY CallFacts
  <2>2. CalmCall(calls[c]) /\ CallShape(calls[c]) /\ family[calls[c].token] \notin disturbed
    BY <1>1, <2>1 DEF Undisturbed, CallsShaped
  <2>3. CASE RefreshRead(c)
    BY <2>1, <2>2, <2>3 DEF RefreshRead, AfterRead, Reply, CalmCall, Call, rows, history
  <2>4. CASE ClaimSession(c)
    BY <2>1, <2>2, <2>4 DEF ClaimSession, Claimable, Live, Goto, CalmCall, CallShape, OnRow, Call, rows, history
  <2>5. CASE SnapshotFamily(c)
    BY <2>2, <2>5 DEF SnapshotFamily, CalmCall
  <2>6. CASE LogoutRead(c)
    BY <2>1, <2>2, <2>6 DEF LogoutRead, Goto, Reply, CalmCall, Call, rows, history
  <2>7. CASE ExpireSession(c) \/ LogoutUpdate(c) \/ CommitRotation(c) \/ LoginCreate(c) \/ RevokeFamily(c)
    <3>1. calls'[c].at = "reply"
      <4>1. CASE RevokeFamily(c)
        <5>1. calls' = [calls EXCEPT ![c].at = "reply", ![c].answer = 0, ![c].targets = {}]
          BY <4>1 DEF RevokeFamily
        <5> QED BY <2>1, <5>1
      <4>2. ASSUME NEW token, Reply(c, token) PROVE calls'[c].at = "reply"
        BY <2>1, <4>2 DEF Reply
      <4> QED BY <2>7, <4>1, <4>2 DEF ExpireSession, LogoutUpdate, CommitRotation, LoginCreate
    <3> QED BY <3>1 DEF CalmCall
  <2> QED BY <2>3, <2>4, <2>5, <2>6, <2>7 DEF Serve
<1> QED BY <1>2, <1>3 DEF Undisturbed

\* A token is revoked as reused only by a call about its family, and never while
\* that family is undisturbed.
LEMMA ServeReuse ==
    ASSUME Inv, Inv', CallsShaped, Undisturbed, ReuseNeedsDisturbance, NEW c \in Calls, Serve(c)
    PROVE  ReuseNeedsDisturbance'
<1>1. /\ disturbed' = disturbed /\ \A s \in 1..count : family'[s] = family[s]
      /\ count \in Nat /\ revoked \in [Sessions -> Reasons]
  BY ServeRows DEF Inv, TypeOK
<1>2. CASE CommitRotation(c) \/ LoginCreate(c)
  <2>1. count' = count + 1 /\ revoked' = revoked
    BY <1>2, ServeRows
  <2>2. revoked'[count + 1] # "REFRESH_REUSE"
    BY <1>1, <2>1 DEF Inv, RowsOK, TypeOK, Sessions
  <2> QED BY <1>1, <2>1, <2>2 DEF ReuseNeedsDisturbance
<1>3. CASE ~ CommitRotation(c) /\ ~ LoginCreate(c)
  <2>1. count' = count /\ 1..count \subseteq Sessions
    BY <1>3, ServeRows DEF Inv, TypeOK, Sessions
  <2>2. ASSUME NEW s \in 1..count, revoked'[s] = "REFRESH_REUSE", revoked[s] # "REFRESH_REUSE"
        PROVE  family[s] \in disturbed
    <3>1. RevokeFamily(c) /\ s \in calls[c].targets
      BY <1>1, <1>3, <2>1, <2>2
      DEF Serve, RefreshRead, ExpireSession, ClaimSession, SnapshotFamily, RevokeFamily, LogoutRead,
          LogoutUpdate, rows
    <3>2. calls[c].session = calls[c].token /\ calls[c].token # 0
      BY <3>1, CallFacts DEF RevokeFamily, CallsShaped, CallShape, OnRow, Call
    <3>3. family[s] = family[calls[c].token]
      BY <3>1, <3>2, CallFacts
    <3> QED BY <3>1, <3>2, <3>3 DEF RevokeFamily, Undisturbed, CalmCall
  <2> QED BY <1>1, <2>1, <2>2 DEF ReuseNeedsDisturbance
<1> QED BY <1>2, <1>3

\* A cookie is rotated only by a call that carries it.
LEMMA ServeCookie ==
    ASSUME Inv, Inv', CallsShaped, CookieIsNewest, NEW c \in Calls, Serve(c)
    PROVE  CookieIsNewest'
<1> SUFFICES ASSUME cookie \in rotated'
             PROVE  \/ family'[cookie] \in disturbed'
                    \/ \E d \in Calls : InFlight(d)' /\ calls'[d].token = cookie
  BY ServeEffect DEF CookieIsNewest
<1>1. cookie \in 1..count
  <2>1. rotated' \subseteq 1..count' /\ count \in Nat /\ count' \in Nat /\ cookie \in 0..count
    BY DEF Inv, RowsOK, Known, TypeOK
  <2> QED BY <2>1
<1>2. CASE cookie \in rotated
  BY <1>1, <1>2, ServeRows, ServeEffect DEF CookieIsNewest, InFlight
<1>3. CASE cookie \notin rotated
  BY <1>3, ServeRows, ServeEffect DEF InFlight
<1> QED BY <1>2, <1>3

\* A family that a logout has ended gets no live row: rotation needs one.
LEMMA ServeLogout ==
    ASSUME Inv, Inv', CallsShaped, Undisturbed, LogoutEndsFamily, ended \subseteq 1..count,
           NEW c \in Calls, Serve(c)
    PROVE  LogoutEndsFamily' /\ ended' \subseteq 1..count'
<1>0. /\ disturbed' = disturbed /\ rotated \subseteq rotated'
      /\ \A s \in 1..count : family'[s] = family[s]
  BY ServeRows
<1>1. /\ disturbed' = disturbed /\ rotated \subseteq rotated'
      /\ \A s \in 1..count : family'[s] = family[s]
      /\ count \in Nat /\ revoked \in [Sessions -> Reasons] /\ 1..count \subseteq Sessions
  BY <1>0 DEF Inv, TypeOK, Sessions
<1>2. CASE CommitRotation(c) \/ LoginCreate(c)
  <2>1. count' = count + 1 /\ revoked' = revoked /\ ended' = ended
    BY <1>2, ServeRows
  <2>2. family'[count + 1] \notin ended \ disturbed
    BY <1>1, <1>2, ServeRows DEF LogoutEndsFamily
  <2> QED BY <1>1, <2>1, <2>2 DEF LogoutEndsFamily, Live
<1>3. CASE ~ CommitRotation(c) /\ ~ LoginCreate(c)
  <2>1. count' = count /\ family' = family /\ rotated' = rotated
    BY <1>3, ServeRows
  <2>2. \A s \in 1..count : revoked[s] # "no" => revoked'[s] # "no"
    BY <1>1, <1>3
    DEF Serve, RefreshRead, ExpireSession, ClaimSession, SnapshotFamily, RevokeFamily, LogoutRead,
        LogoutUpdate, rows
  <2>3. CASE ended' = ended
    BY <1>1, <2>1, <2>2, <2>3 DEF LogoutEndsFamily, Live
  <2>4. CASE LogoutUpdate(c) /\ calls[c].token # 0
    <3> DEFINE u == calls[c].token
    <3>1. u \in 1..count /\ calls[c].session = u /\ calls[c].at = "update" /\ calls[c] \in Call
      BY <2>4, CallFacts DEF LogoutUpdate, CallsShaped, CallShape, Call
    <3>2. ended' = ended \union {family[u]} /\ revoked'[u] # "no"
      BY <1>1, <2>4, <3>1 DEF LogoutUpdate
    <3>3. family[u] \in 1..count
      <4>1. family[u] \in 1..u
        BY <3>1 DEF Inv, RowsOK
      <4> QED BY <1>1, <3>1, <4>1
    \* The token was not rotated, so every other row of the family was.
    <3>4. ASSUME NEW s \in 1..count, family[s] = family[u], family[u] \notin disturbed
          PROVE  ~ Live(s)'
      <4>1. u \notin rotated
        BY <3>1, <3>4 DEF Undisturbed, CalmCall
      <4>2. s = u \/ s \in rotated
        BY <3>1, <3>4, <4>1 DEF Inv, OneUnrotated
      <4> QED BY <1>1, <3>2, <4>2 DEF Live
    <3> HIDE DEF u
    <3>5. \A s \in 1..count : family[s] \in ended \ disturbed => ~ Live(s)'
      BY <2>1, <2>2 DEF LogoutEndsFamily, Live
    <3> QED BY <1>1, <2>1, <3>2, <3>3, <3>4, <3>5 DEF LogoutEndsFamily
  <2> QED
    BY <1>3, <2>3, <2>4
    DEF Serve, RefreshRead, ExpireSession, ClaimSession, SnapshotFamily, RevokeFamily, LogoutRead,
        LogoutUpdate, history
<1> QED BY <1>2, <1>3

LEMMA ServeCalm ==
    ASSUME Inv, Inv', Calm, NEW c \in Calls, Serve(c)
    PROVE  Calm'
<1>1. CallsShaped'
  BY ServeEffect DEF Calm, CallsShaped
<1> QED
  BY <1>1, ServeSecret, ServeOneAbout, ServeUndisturbed, ServeReuse, ServeCookie, ServeLogout DEF Calm

\* A call that is sent about a family another call is about disturbs it; so one
\* that carries a rotated cookie does.
LEMMA SendCalm ==
    ASSUME Inv, Inv', Calm, NEW c \in Calls, NEW t \in Tabs,
           Login(c, t) \/ RefreshSession(c, t) \/ Logout(c, t)
    PROVE  Calm'
<1>1. PICK type \in {"login", "refresh", "logout"}, step \in {"create", "read"},
           token \in {0, cookie}, session \in 0..count :
           /\ Send(c, t, type, step, token, session)
           /\ type = "login" => step = "create" /\ token = 0 /\ session = 0
           /\ type # "login" => step = "read"
           /\ type = "refresh" => session = 0
  BY 0 \in 0..count DEF Login, RefreshSession, Logout, Inv, TypeOK, Known
<1> DEFINE r == [at |-> step, type |-> type, tab |-> t, token |-> token,
                 session |-> session, targets |-> {}, answer |-> 0]
<1>2. /\ UNCHANGED <<rows, cookie, ended>> /\ disturbed \subseteq disturbed'
      /\ AboutOf(r) \intersect Contended \subseteq disturbed'
  BY <1>1 DEF Send, AboutOf, Login, RefreshSession, Logout, browser
<1>3. /\ calls'[c] = r /\ \A d \in Calls \ {c} : calls'[d] = calls[d]
  BY <1>1, CallFacts DEF Send
<1>4. r.at = step /\ r.type = type /\ r.token = token /\ r.session = session /\ r.answer = 0
  OBVIOUS
<1> HIDE DEF r
<1>5. /\ CallsShaped /\ AnswersSecret /\ OneAbout /\ Undisturbed /\ CookieIsNewest
      /\ UNCHANGED <<count, family, rotated, revoked>>
  BY <1>2 DEF Calm, rows
<1>6. CallsShaped'
  BY <1>1, <1>3, <1>4, <1>5 DEF CallsShaped, CallShape, OnRow
<1>7. AnswersSecret'
  BY <1>1, <1>2, <1>3, <1>4, <1>5 DEF AnswersSecret, SecretOf
<1>8. OneAbout'
  <2>1. \A x : AboutOf(x)' = AboutOf(x)
    BY <1>5 DEF AboutOf, About, FamilyOf
  <2>2. \A d \in Calls \ {c} : AboutOf(r) \intersect AboutOf(calls[d]) \subseteq disturbed'
    BY <1>2 DEF Contended, AboutOf
  <2>3. \A d \in Calls \ {c} : AboutOf(calls[d])' = AboutOf(calls[d])
    BY <1>3, <1>5 DEF AboutOf, About, FamilyOf
  <2>4. AboutOf(calls[c])' = AboutOf(r)
    BY <1>3, <1>5 DEF AboutOf, About, FamilyOf
  <2> QED BY <1>2, <1>5, <2>2, <2>3, <2>4 DEF OneAbout
<1>9. CalmCall(calls[c])'
  <2> SUFFICES ASSUME token # 0, token \in rotated, step = "read" PROVE family[token] \in disturbed'
    BY <1>1, <1>3, <1>4, <1>5 DEF CalmCall
  <2>1. token = cookie /\ family[cookie] \in AboutOf(r)
    BY <1>1, <1>4 DEF AboutOf, About, FamilyOf
  <2>2. ASSUME NEW d \in Calls, InFlight(d), calls[d].token = cookie PROVE family[cookie] \in Contended
    BY <2>1, <2>2 DEF Contended, About, FamilyOf
  <2> QED BY <1>2, <1>5, <2>1, <2>2 DEF CookieIsNewest
<1>10. Undisturbed'
  <2>1. \A d \in Calls \ {c} : CalmCall(calls[d])'
    BY <1>2, <1>3, <1>5 DEF Undisturbed, CalmCall
  <2> QED BY <1>9, <2>1 DEF Undisturbed
<1>11. CookieIsNewest'
  <2>1. ~ InFlight(c)
    BY <1>1 DEF Send
  <2> QED BY <1>2, <1>3, <1>5, <2>1 DEF CookieIsNewest, InFlight
<1>12. ReuseNeedsDisturbance' /\ LogoutEndsFamily' /\ ended' \subseteq 1..count'
  BY <1>2, <1>5 DEF Calm, ReuseNeedsDisturbance, LogoutEndsFamily, Live
<1> QED BY <1>6, <1>7, <1>8, <1>10, <1>11, <1>12 DEF Calm

\* Steps that change no row and leave every call's token, session and step.
LEMMA QuietCalm ==
    ASSUME Inv, Inv', Calm, UNCHANGED <<count, family, rotated, revoked, cookie, ended, disturbed>>,
           \A c \in Calls : /\ calls'[c].at = calls[c].at /\ calls'[c].type = calls[c].type
                            /\ calls'[c].token = calls[c].token /\ calls'[c].session = calls[c].session
                            /\ calls'[c].answer = calls[c].answer
    PROVE  Calm'
<1>1. CallsShaped' /\ AnswersSecret'
  BY DEF Calm, CallsShaped, CallShape, AnswersSecret, SecretOf
<1>2. OneAbout'
  <2>1. \A c \in Calls : AboutOf(calls[c])' = AboutOf(calls[c])
    BY DEF AboutOf, About, FamilyOf
  <2> QED BY <2>1 DEF Calm, OneAbout
<1>3. Undisturbed'
  BY DEF Calm, Undisturbed, CalmCall
<1>4. ReuseNeedsDisturbance' /\ CookieIsNewest' /\ LogoutEndsFamily' /\ ended' \subseteq 1..count'
  BY DEF Calm, ReuseNeedsDisturbance, CookieIsNewest, InFlight, LogoutEndsFamily, Live
<1> QED BY <1>1, <1>2, <1>3, <1>4 DEF Calm

\* A call that ends leaves the cookie as its answer has it: unrotated, or cleared.
LEMMA EndCalm ==
    ASSUME Inv, Inv', Calm, NEW c \in Calls, Answered(c) \/ CallErrs(c) \/ CallLost(c)
    PROVE  Calm'
<1>1. /\ UNCHANGED <<count, family, rotated, revoked, ended>> /\ disturbed \subseteq disturbed'
      /\ \A d \in Calls \ {c} : calls'[d] = calls[d]
  BY CallFacts DEF Answered, CallErrs, CallLost, Disturb, End, rows, history
<1>2. /\ CallShape(calls'[c]) /\ calls'[c].answer = 0
      /\ \/ calls'[c].token = 0 /\ calls'[c].session = 0 /\ calls'[c].at = "idle"
         \/ /\ calls'[c].token = calls[c].token /\ calls'[c].session = calls[c].session
            /\ calls'[c].at = "reply" /\ cookie' = cookie
  <2>1. calls \in [Calls -> Call] /\ calls[c] \in Call /\ CallShape(calls[c])
    BY CallFacts DEF Calm, CallsShaped
  <2>2. CASE calls' = [calls EXCEPT ![c] = IdleCall]
    BY <2>1, <2>2 DEF IdleCall, CallShape, OnRow
  <2>3. CASE CallErrs(c) /\ calls[c].type # "login"
    BY <2>1, <2>3 DEF CallErrs, CallShape, Call, OnRow, browser
  <2> QED BY <2>2, <2>3 DEF Answered, CallErrs, CallLost, End
<1>3. CallsShaped'
  BY <1>1, <1>2 DEF Calm, CallsShaped
<1>4. OneAbout'
  <2>1. \A d \in Calls \ {c} : AboutOf(calls[d])' = AboutOf(calls[d])
    BY <1>1 DEF AboutOf, About, FamilyOf
  <2>2. AboutOf(calls[c])' \subseteq AboutOf(calls[c])
    BY <1>1, <1>2 DEF AboutOf, About, FamilyOf
  <2> QED BY <1>1, <2>1, <2>2 DEF Calm, OneAbout
<1>5. Undisturbed'
  BY <1>1, <1>2 DEF Calm, Undisturbed, CalmCall
<1>6. /\ cookie' = cookie \/ cookie' = calls[c].answer
      /\ cookie' # cookie => Answered(c)
  BY DEF Answered, CallErrs, CallLost, CookieAfter, browser
<1>7. AnswersSecret'
  <2>1. ASSUME NEW d \in Calls, calls'[d].answer # 0 PROVE SecretOf(d)'
    <3>1. d # c /\ calls'[d] = calls[d] /\ SecretOf(d)
      BY <1>1, <1>2, <2>1 DEF Calm, AnswersSecret
    <3>2. calls[d].answer # 0 /\ calls[d].answer # cookie'
      BY <1>6, <2>1, <3>1 DEF SecretOf
    <3> QED BY <1>1, <1>2, <3>1, <3>2 DEF SecretOf
  <2> QED BY <2>1 DEF AnswersSecret, SecretOf
<1>8. CookieIsNewest'
  <2> SUFFICES ASSUME cookie' \in rotated
               PROVE  \/ family[cookie'] \in disturbed'
                      \/ \E d \in Calls : InFlight(d)' /\ calls'[d].token = cookie'
    BY <1>1 DEF CookieIsNewest
  <2>1. cookie' # 0
    BY DEF Inv, RowsOK
  <2>2. ~ Answered(c) /\ cookie' = cookie
    BY <1>6, <2>1 DEF Calm, AnswersSecret, SecretOf, Answered, CookieAfter
  <2>3. CASE family[cookie] \in disturbed
    BY <1>1, <2>2, <2>3
  <2>4. ASSUME NEW d \in Calls, InFlight(d), calls[d].token = cookie, d # c
        PROVE  InFlight(d)' /\ calls'[d].token = cookie'
    BY <1>1, <2>2, <2>4 DEF InFlight
  <2>5. CASE calls[c].token = cookie
    <3>1. About(calls[c].token, calls[c].session) \subseteq disturbed'
      BY <2>2 DEF CallErrs, CallLost, Disturb
    <3> QED BY <2>1, <2>2, <2>5, <3>1 DEF About, FamilyOf
  <2> QED BY <2>2, <2>3, <2>4, <2>5 DEF Calm, CookieIsNewest
<1>9. ReuseNeedsDisturbance' /\ LogoutEndsFamily' /\ ended' \subseteq 1..count'
  BY <1>1 DEF Calm, ReuseNeedsDisturbance, LogoutEndsFamily, Live
<1> QED BY <1>3, <1>4, <1>5, <1>7, <1>8, <1>9 DEF Calm

\* Every step keeps what the browser relies on.
LEMMA CalmStep == Inv /\ Inv' /\ Calm /\ [Next]_vars => Calm'
<1> SUFFICES ASSUME Inv, Inv', Calm, [Next]_vars PROVE Calm'
  OBVIOUS
<1>1. CASE \E t \in Tabs : Browse(t)
  <2>1. PICK t \in Tabs : Browse(t)
    BY <1>1
  <2>2. CASE AccessExpires(t)
    BY <2>2, QuietCalm DEF AccessExpires, rows, history
  <2>3. CASE Reload(t)
    <3>1. \A c \in Calls : /\ calls'[c].at = calls[c].at /\ calls'[c].type = calls[c].type
                           /\ calls'[c].token = calls[c].token /\ calls'[c].session = calls[c].session
                           /\ calls'[c].answer = calls[c].answer
      BY <2>3, CallFacts DEF Reload, Call
    <3> QED BY <2>3, <3>1, QuietCalm DEF Reload, rows, history
  <2> QED BY <2>1, <2>2, <2>3, SendCalm DEF Browse
<1>2. CASE \E c \in Calls : Serve(c)
  BY <1>2, ServeCalm
<1>3. CASE \E c \in Calls : Answered(c) \/ CallErrs(c) \/ CallLost(c)
  BY <1>3, EndCalm
<1>4. CASE (\E s \in Sessions : Expires(s)) \/ UNCHANGED vars
  BY <1>4, QuietCalm DEF Expires, vars, rows, browser, history
<1> QED BY <1>1, <1>2, <1>3, <1>4 DEF Next

------------------------------------------------------------------------------
(* The theorems.                                                           *)

\* Every variable keeps its type, whatever the handlers and the browser do.
THEOREM TypeCorrect == Spec => []TypeOK
<1>1. Inv => TypeOK
  BY DEF Inv
<1> QED BY <1>1, AlwaysInv, PTL

\* No interleaving of refreshes rotates a token twice.
THEOREM TokensAreRotatedOnce == Spec => []RotatedOnce
<1>1. Inv => RotatedOnce
  BY DEF Inv, Children
<1> QED BY <1>1, AlwaysInv, PTL

\* No interleaving leaves a family with two sessions that can be refreshed.
THEOREM FamiliesHaveOneLiveSession == Spec => []OneLiveSession
<1>1. Inv => OneLiveSession
  BY DEF Inv, OneUnrotated, OneLiveSession, Live
<1> QED BY <1>1, AlwaysInv, PTL

\* A browser whose calls about a family never overlap, fail or get lost does not
\* look like a thief: none of its own refreshes has the family revoked for reuse.
THEOREM ReuseMeansDisturbance == Spec => []ReuseNeedsDisturbance
<1>1. Calm => ReuseNeedsDisturbance
  BY DEF Calm
<1> QED BY <1>1, InitInv, StepInv, CalmInit, CalmStep, PTL DEF Spec

\* The cookie is the newest token of its family, or the call that replaces it
\* carries it, unless calls about the family overlapped, failed or got lost.
THEOREM CookieStaysNewest == Spec => []CookieIsNewest
<1>1. Calm => CookieIsNewest
  BY DEF Calm
<1> QED BY <1>1, InitInv, StepInv, CalmInit, CalmStep, PTL DEF Spec

\* A completed logout ends the family although it revokes one row only: the row
\* of the cookie was the last unrotated one, unless the family was disturbed.
THEOREM LogoutIsFinal == Spec => []LogoutEndsFamily
<1>1. Calm => LogoutEndsFamily
  BY DEF Calm
<1> QED BY <1>1, InitInv, StepInv, CalmInit, CalmStep, PTL DEF Spec

==============================================================================
