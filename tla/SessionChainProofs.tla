-------------------------- MODULE SessionChainProofs --------------------------
(***************************************************************************)
(* Refresh sessions implement SessionChain: a family's live session is the *)
(* head of its chain, and a family that has ended stays ended.             *)
(***************************************************************************)
EXTENDS BrowserSessionsProofs

USE SessionsAssumption

\* The rows created are some of the sessions.
LEMMA SessionsInterval == Inv => 1..count \subseteq Sessions
<1>1. TypeOK => count \in Nat /\ count <= MaxSessions
  BY DEF TypeOK
<1> QED BY <1>1 DEF Inv, Sessions

\* The head of a family is its only live session.
HeadsAreLive ==
    \A f \in Sessions : /\ LiveIn(f) = {} => HeadOf(f) = 0
                        /\ \A s \in LiveIn(f) : HeadOf(f) = s /\ LiveIn(f) = {s}

\* So it is in every state that satisfies the invariant.
LEMMA HeadIsLive == Inv => HeadsAreLive
<1>1. Inv => \A f : \A s, t \in LiveIn(f) : s = t
  BY DEF Inv, OneUnrotated, LiveIn, Live
<1> QED BY <1>1 DEF HeadsAreLive, HeadOf

\* And in the next one.
LEMMA HeadIsLiveNext == Inv' => HeadsAreLive'
  BY HeadIsLive, PTL

\* A family with the same live sessions has the same head.
LEMMA SameHead ==
    ASSUME Inv, Inv', NEW g \in Sessions, LiveIn(g)' = LiveIn(g)
    PROVE  HeadOf(g)' = HeadOf(g)
  BY HeadIsLive, HeadIsLiveNext DEF HeadsAreLive

\* The chains depend on families, rotations and revocations only.
LEMMA ChainKept ==
    ASSUME Inv, Inv', UNCHANGED <<count, family, rotated, revoked>>
    PROVE  UNCHANGED <<Started, Heads>>
<1>1. \A f \in Sessions : LiveIn(f)' = LiveIn(f)
  BY DEF LiveIn, Live
<1>2. \A f \in Sessions : HeadOf(f)' = HeadOf(f)
  BY <1>1, SameHead
<1>3. Heads' = Heads
  BY <1>2 DEF Heads, Sessions
<1> QED BY <1>3 DEF Started

\* A revocation within one family ends its chain or leaves it alone.
LEMMA RevocationEnds ==
    ASSUME Inv, Inv', NEW f \in Sessions,
           UNCHANGED <<count, family, rotated>>,
           \A s \in Sessions : revoked[s] # "no" => revoked'[s] # "no",
           \A s \in 1..count : family[s] # f => revoked'[s] = revoked[s]
    PROVE  UNCHANGED <<Started, Heads>> \/ Chain!End(f)
<1>0. 1..count \subseteq Sessions
  BY SessionsInterval
<1>1. Started' = Started
  BY DEF Started
<1>2. \A g \in Sessions : g # f => LiveIn(g)' = LiveIn(g)
  BY DEF LiveIn, Live
<1>3. LiveIn(f)' \subseteq LiveIn(f)
  BY <1>0 DEF LiveIn, Live
<1>4. \A g \in Sessions : g # f => HeadOf(g)' = HeadOf(g)
  BY <1>2, SameHead
<1>5. CASE LiveIn(f)' = LiveIn(f)
  <2>1. Heads' = Heads
    BY <1>4, <1>5, SameHead DEF Heads, Sessions
  <2> QED BY <1>1, <2>1
<1>6. CASE LiveIn(f)' # LiveIn(f)
  <2>1. PICK s \in LiveIn(f) : LiveIn(f) = {s} /\ HeadOf(f) = s
    BY <1>3, <1>6, HeadIsLive DEF HeadsAreLive
  <2>2. LiveIn(f)' = {}
    BY <1>3, <1>6, <2>1
  <2>3. HeadOf(f)' = 0
    BY <2>2, HeadIsLiveNext DEF HeadsAreLive
  <2>4. HeadOf(f) # 0
    BY <2>1 DEF LiveIn, Inv, TypeOK
  <2>5. Heads' = [Heads EXCEPT ![f] = 0] /\ Heads[f] # 0
    BY <1>4, <2>3, <2>4 DEF Heads, Sessions
  <2> QED BY <1>1, <2>5 DEF Chain!End
<1> QED BY <1>5, <1>6

\* A new row is the head of its family: of a new one, or of the one whose
\* head was rotated.
LEMMA CreationAdvances ==
    ASSUME Inv, Inv', NEW c \in Calls, LoginCreate(c) \/ CommitRotation(c)
    PROVE  \E f \in Sessions : Chain!Start(f) \/ \E s \in Sessions : Chain!Advance(f, s)
<1>n. PICK n : n = count + 1
  OBVIOUS
<1>0. TypeOK /\ RowsOK /\ RowsOK' /\ CallOK(calls[c]) /\ calls[c] \in Call
  BY DEF Inv, CallsOK, CallOK
<1>1. PICK fam, par : CreateSession(fam, par) /\ UNCHANGED revoked
          /\ \/ LoginCreate(c) /\ fam = n /\ rotated' = rotated
             \/ /\ CommitRotation(c) /\ par = calls[c].session
                /\ fam = family[par] /\ rotated' = rotated \union {par}
  BY <1>n DEF LoginCreate, CommitRotation
<1>2. /\ count \in Nat /\ count' = n /\ n \in Sessions /\ n \notin 1..count
      /\ 1..n = (1..count) \union {n} /\ 1..count \subseteq Sessions
      /\ family' = [family EXCEPT ![n] = fam]
  BY <1>0, <1>1, <1>n, SessionsInterval DEF CreateSession, TypeOK, Sessions
<1>3. family'[n] = fam /\ \A s \in 1..count : family'[s] = family[s]
  BY <1>0, <1>2 DEF TypeOK
<1>4. n \notin rotated' /\ revoked'[n] = "no"
  <2>1. rotated' \subseteq 1..count
    <3>1. CommitRotation(c) => calls[c].session \in 1..count
      BY <1>0, <1>2 DEF CommitRotation, CallOK, OnRow, Call, Tokens
    <3> QED BY <1>0, <1>1, <3>1 DEF RowsOK
  <2>2. n > count
    BY <1>2
  <2> QED BY <1>0, <1>1, <1>2, <2>1, <2>2 DEF RowsOK
<1>5. n \in LiveIn(fam)'
  BY <1>2, <1>3, <1>4 DEF LiveIn, Live
<1>7. CASE LoginCreate(c) /\ fam = n /\ rotated' = rotated
  <2>1. Started' = Started \union {n} /\ n \notin Started
    <3>1. \A s \in 1..count : family[s] # n
      BY <1>0, <1>2 DEF RowsOK
    <3> QED BY <1>2, <1>3, <1>7, <3>1 DEF Started
  <2>2. \A g \in Sessions : g # n => LiveIn(g)' = LiveIn(g)
    BY <1>1, <1>2, <1>3, <1>7 DEF LiveIn, Live
  <2>3. \A g \in Sessions : g # n => HeadOf(g)' = HeadOf(g)
    BY <2>2, SameHead
  <2>4. HeadOf(n)' = n
    BY <1>2, <1>5, <1>7, HeadIsLiveNext DEF HeadsAreLive
  <2>5. Heads' = [Heads EXCEPT ![n] = n]
    BY <2>3, <2>4 DEF Heads, Sessions
  <2> QED BY <1>2, <2>1, <2>5 DEF Chain!Start
<1>8. CASE /\ CommitRotation(c) /\ par = calls[c].session
           /\ fam = family[par] /\ rotated' = rotated \union {par}
  <2>1. par \in 1..count /\ Live(par) /\ fam \in Sessions
    <3>1. par \in 1..count /\ Live(par)
      BY <1>0, <1>2, <1>8 DEF CommitRotation, CallOK, OnRow, Call, Tokens
    <3>2. family[par] \in 1..par
      BY <1>0, <3>1 DEF RowsOK
    <3> QED BY <1>2, <1>8, <3>1, <3>2 DEF Sessions
  <2>2. Started' = Started
    <3>1. fam \in Started
      BY <1>8, <2>1 DEF Started
    <3> QED BY <1>2, <1>3, <3>1 DEF Started
  <2>3. par \in LiveIn(fam)
    BY <1>8, <2>1 DEF LiveIn
  <2>4. HeadOf(fam) = par
    BY <2>1, <2>3, HeadIsLive DEF HeadsAreLive
  <2>5. \A g \in Sessions : g # fam => LiveIn(g)' = LiveIn(g)
    BY <1>1, <1>2, <1>3, <1>8, <2>1 DEF LiveIn, Live
  <2>6. \A g \in Sessions : g # fam => HeadOf(g)' = HeadOf(g)
    BY <2>5, SameHead
  <2>7. HeadOf(fam)' = n
    BY <1>5, <2>1, HeadIsLiveNext DEF HeadsAreLive
  <2>8. Heads' = [Heads EXCEPT ![fam] = n] /\ Heads[fam] = par
    BY <2>1, <2>4, <2>6, <2>7 DEF Heads, Sessions
  <2>9. par # 0 /\ n > par
    BY <1>2, <2>1
  <2> QED BY <1>2, <2>1, <2>2, <2>4, <2>8, <2>9 DEF Chain!Advance
<1> QED BY <1>1, <1>7, <1>8

\* Initially no family has started.
LEMMA ChainInit == Init => Chain!Init
<1> SUFFICES ASSUME Init PROVE Chain!Init
  OBVIOUS
<1>1. Started = {} /\ \A f \in Sessions : LiveIn(f) = {}
  BY DEF Init, Started, LiveIn
<1>2. Heads = [f \in Sessions |-> 0]
  BY <1>1 DEF Heads, HeadOf
<1> QED BY <1>1, <1>2 DEF Chain!Init, Chain!Sessions, Sessions

\* Expiry, logout and the revocation of a family touch one family.
LEMMA RevocationStep ==
    ASSUME Inv, Inv', NEW c \in Calls,
           ExpireSession(c) \/ LogoutUpdate(c) \/ RevokeFamily(c)
    PROVE  UNCHANGED <<Started, Heads>> \/ \E f \in Sessions : Chain!End(f)
<1>0. /\ TypeOK /\ RowsOK /\ CallOK(calls[c]) /\ calls[c] \in Call
      /\ 1..count \subseteq Sessions
  BY SessionsInterval DEF Inv, CallsOK, CallOK
<1> DEFINE s == calls[c].session
<1>1. UNCHANGED <<count, family, rotated>>
  BY DEF ExpireSession, LogoutUpdate, RevokeFamily
<1>2. s \in 1..count
  <2>1. calls[c].at \in OnRow
    BY DEF ExpireSession, LogoutUpdate, RevokeFamily, OnRow
  <2> QED BY <1>0, <2>1 DEF CallOK, Call, Tokens, TypeOK
<1>3. PICK f \in Sessions : f = family[s]
  <2>1. family[s] \in 1..s
    BY <1>0, <1>2 DEF RowsOK
  <2> QED BY <1>0, <1>2, <2>1 DEF Sessions
<1>4. \A t \in Sessions : revoked[t] # "no" => revoked'[t] # "no"
  BY <1>0 DEF ExpireSession, LogoutUpdate, RevokeFamily, TypeOK
<1>5. \A t \in 1..count : family[t] # f => revoked'[t] = revoked[t]
  <2>1. CASE ExpireSession(c) \/ LogoutUpdate(c)
    <3>1. PICK reason : revoked' = [revoked EXCEPT ![s] = reason]
      BY <1>0, <1>2, <2>1 DEF ExpireSession, LogoutUpdate
    <3> QED BY <1>0, <1>3, <3>1 DEF TypeOK
  <2>2. CASE RevokeFamily(c)
    <3>1. \A t \in calls[c].targets : family[t] = f
      BY <1>0, <1>3 DEF CallOK
    <3> QED BY <1>0, <2>2, <3>1 DEF RevokeFamily
  <2> QED BY <2>1, <2>2
<1> QED BY <1>1, <1>3, <1>4, <1>5, RevocationEnds

\* Every step of the sessions is a step of the chains or leaves them alone.
LEMMA ChainStep == Inv /\ Inv' /\ [Next]_vars => [Chain!Next]_<<Started, Heads>>
<1> SUFFICES ASSUME Inv, Inv', [Next]_vars
             PROVE  [Chain!Next]_<<Started, Heads>>
  OBVIOUS
<1> USE DEF Chain!Next, Chain!Sessions, Sessions
<1>1. CASE UNCHANGED <<count, family, rotated, revoked>>
  BY <1>1, ChainKept
<1>2. CASE \E c \in Calls : ExpireSession(c) \/ LogoutUpdate(c) \/ RevokeFamily(c)
  BY <1>2, RevocationStep
<1>3. CASE \E c \in Calls : LoginCreate(c) \/ CommitRotation(c)
  BY <1>3, CreationAdvances
<1>4. CASE \E t \in Tabs : Browse(t)
  BY <1>1, <1>4 DEF Browse, Login, RefreshSession, Logout, Send, AccessExpires, Reload, rows
<1>5. CASE \E c \in Calls : RefreshRead(c) \/ ClaimSession(c) \/ SnapshotFamily(c) \/ LogoutRead(c)
  BY <1>1, <1>5 DEF RefreshRead, ClaimSession, SnapshotFamily, LogoutRead, rows
<1>6. CASE \E c \in Calls : Answered(c) \/ CallErrs(c) \/ CallLost(c)
  BY <1>1, <1>6 DEF Answered, CallErrs, CallLost, Disturb, rows
<1>7. CASE (\E s \in Sessions : Expires(s)) \/ UNCHANGED vars
  BY <1>1, <1>7 DEF Expires, vars, rows
<1> QED BY <1>2, <1>3, <1>4, <1>5, <1>6, <1>7 DEF Next, Serve

\* Refresh sessions implement the chain of tokens: whatever refreshes, logouts
\* and revocations overlap, a family moves from token to token and stays
\* ended once it has ended.
THEOREM SessionsImplementChain == Spec => ImplementsChain
<1>1. Spec => Chain!Init
  BY ChainInit DEF Spec
<1>2. Spec => [][Chain!Next]_<<Started, Heads>>
  BY AlwaysInv, ChainStep, PTL DEF Spec
<1> QED BY <1>1, <1>2 DEF ImplementsChain, Chain!Spec
==============================================================================
