----------------------------- MODULE TerminalProofs -----------------------------
(***************************************************************************)
(* Proofs about Terminal, for any orders, statuses, writes, slots, runs    *)
(* and incidents: types; one socket per page; a page that never gives up;  *)
(* and what the page shows.                                                *)
(*                                                                         *)
(* A run of the websocket effect that is over holds no socket, unless it   *)
(* got its token when it was over already, which is the slip "leaked"; a   *)
(* run that is to come holds nothing at all.  Both are kept by the cleanup *)
(* at the moment the next run takes over, and by the close handler, which  *)
(* sets no timer for a run that is over.                                   *)
(*                                                                         *)
(* News does not go back because what the page holds, what travels to it   *)
(* and what the backend would answer are ordered by the writes they come   *)
(* from, as long as the events of one order were sent in order and heard   *)
(* once (Behind, InOrder).  The ticket is freed because the news that      *)
(* frees it is on its way until it is heard or accounted for (TicketKnown),*)
(* and what is shown becomes current because the newest news is too        *)
(* (Newest, Known, Fetched, Opened).  Most steps matter to this only by    *)
(* what they do to the rows: they let rows grow without a word (Quiet), or *)
(* send news of one (Loud).                                                *)
(***************************************************************************)
EXTENDS Terminal, FiniteSetTheorems, SequenceTheorems, TLAPS

\* What the steps leave alone.
USE DEF rows, feed, sockets, ticket, picture, history

Live == {"connecting", "open", "retry"}

\* Only the current run holds a socket.
OldRunsAreOver ==
    "leaked" \notin slips => \A i \in Insts : i < inst => sock[i] \notin Live

\* Runs to come hold nothing.
NewRunsAreIdle ==
    /\ \A i \in Insts : i > inst => sock[i] = "none"
    /\ \A i \in clients : i <= inst

------------------------------------------------------------------------------
(* types                                                                   *)

\* A record of a fetch with another stage.
LEMMA ReadTyped ==
    ASSUME NEW R, NEW S, NEW O, NEW r \in [stage : S, rows : R, open : O], NEW stage \in S
    PROVE  [r EXCEPT !.stage = stage] \in [stage : S, rows : R, open : O]
OBVIOUS

\* Everything a fetch can be.
Read == [stage : {"idle", "asked", "answered"}, rows : [Orders -> Writes], open : SUBSET Orders]

LEMMA IdleTyped ==
    /\ NoRows \in [Orders -> Writes]
    /\ Idle \in Read
BY FeedAssumption DEF NoRows, Idle, Writes, Absent, Read

\* Writes are numbers.
LEMMA WritesAreNumbers ==
    /\ Writes \subseteq Nat /\ 0 \in Writes /\ 1 \in Writes /\ MaxWrites \in Nat
    /\ \A n \in Writes : n < MaxWrites => n + 1 \in Writes
BY FeedAssumption DEF Writes, Absent

\* A fetch begins.
LEMMA FetchTyped ==
    ASSUME TypeOK, Fetch
    PROVE  reads' \in [Slots -> Read]
<1>1. PICK s \in Slots : reads' = [reads EXCEPT ![s].stage = "asked"]
  BY DEF Fetch
<1>2. reads \in [Slots -> Read] /\ "asked" \in {"idle", "asked", "answered"}
  BY DEF TypeOK, Read
<1>3. [reads[s] EXCEPT !.stage = "asked"] \in Read
  BY <1>2, ReadTyped DEF Read
<1>4. \A t \in Slots : reads'[t] \in Read
  BY <1>1, <1>2, <1>3
<1>5. DOMAIN reads' = Slots /\ reads' = [t \in Slots |-> reads'[t]]
  BY <1>1, <1>2
<1> QED  BY <1>4, <1>5

LEMMA IncidentTyped ==
    ASSUME TypeOK, Incident
    PROVE  incidents' \in 0..MaxIncidents
BY FeedAssumption DEF TypeOK, Incident

\* The cleanup of a run, and the next run.
LEMMA CleanedUpTyped ==
    ASSUME TypeOK
    PROVE  /\ CleanedUp \in [Insts -> Stages]
           /\ \A i \in Insts : i # inst => CleanedUp[i] = sock[i]
           /\ CleanedUp[inst] \notin Live
           /\ sock[inst] \in {"open", "broken", "closing"} => CleanedUp[inst] = "closing"
BY DEF TypeOK, CleanedUp, Stages, Live

LEMMA RunEffectTyped ==
    ASSUME TypeOK, NEW p \in Orders \union {NoOrder}, RunEffect(p)
    PROVE  /\ inst' \in Insts
           /\ sock' \in [Insts -> Stages]
           /\ closure' \in [Insts -> Orders \union {NoOrder}]
           /\ status' = status
<1>1. inst' \in Insts /\ inst + 1 \in Insts
  BY FeedAssumption DEF RunEffect, TypeOK, Insts
<1>2. sock' = [CleanedUp EXCEPT ![inst + 1] = "token"] /\ "token" \in Stages
  BY DEF RunEffect, Stages
<1>3. closure' \in [Insts -> Orders \union {NoOrder}]
  BY DEF RunEffect, TypeOK
<1> QED  BY <1>1, <1>2, <1>3, CleanedUpTyped DEF RunEffect

\* Messages lost with their connection were about orders.
LEMMA LostOrders ==
    ASSUME TypeOK, NEW i \in Insts
    PROVE  {inbox[i][k].order : k \in DOMAIN inbox[i]} \subseteq Orders
<1>1. inbox[i] \in Seq(News)
  BY DEF TypeOK
<1>2. ASSUME NEW k \in DOMAIN inbox[i] PROVE inbox[i][k].order \in Orders
  <2>1. inbox[i][k] \in News
    BY <1>1, <1>2
  <2> QED  BY <2>1 DEF News
<1> QED  BY <1>2

LEMMA BreakTyped ==
    ASSUME TypeOK, NEW gone \in SUBSET Insts, Break(gone), Incident
    PROVE  TypeOK'
<1> DEFINE orders == UNION {{inbox[i][k].order : k \in DOMAIN inbox[i]} : i \in gone}
<1>1. orders \subseteq Orders
  BY LostOrders
<1>2. missed' \subseteq Orders /\ unheard' \subseteq Orders
  BY <1>1 DEF Break, TypeOK
<1>3. inbox' \in [Insts -> Seq(News)]
  <2>1. inbox' = [i \in Insts |-> IF i \in gone THEN <<>> ELSE inbox[i]]
    BY DEF Break
  <2>2. <<>> \in Seq(News)
    OBVIOUS
  <2> QED  BY <2>1, <2>2 DEF TypeOK
<1>4. sock' \in [Insts -> Stages] /\ clients' \subseteq Insts
  BY DEF Break, TypeOK, Stages
<1> QED  BY <1>2, <1>3, <1>4, IncidentTyped DEF Break, TypeOK

\* Rows are written over.
LEMMA WriteTyped ==
    ASSUME TypeOK, NEW orders \in SUBSET Orders, NEW st \in Statuses, Write(orders, st)
    PROVE  /\ row' \in [Orders -> Writes]
           /\ Stamp(orders) \in [Orders -> Writes]
           /\ \A o \in orders : row[o] + 1 \in Writes
           /\ rowStatus' \in [Orders -> Statuses \union {"none"}]
           /\ \A o \in Orders : row'[o] # Absent => rowStatus'[o] \in Statuses
           /\ reopened' \subseteq Orders
<1>1. /\ row \in [Orders -> Writes] /\ stamped \in [Orders -> Writes]
      /\ rowStatus \in [Orders -> Statuses \union {"none"}] /\ reopened \subseteq Orders
      /\ \A o \in Orders : row[o] # Absent => rowStatus[o] \in Statuses
  BY DEF TypeOK
<1>2. /\ row' = [o \in Orders |-> IF o \in orders THEN row[o] + 1 ELSE row[o]]
      /\ rowStatus' = [o \in Orders |-> IF o \in orders THEN st ELSE rowStatus[o]]
      /\ reopened' \subseteq reopened \union orders
      /\ \A o \in orders : row[o] < MaxWrites
  BY DEF Write
<1>3. \A o \in orders : row[o] + 1 \in Writes
  BY <1>1, <1>2, WritesAreNumbers
<1>4. row' \in [Orders -> Writes] /\ Stamp(orders) \in [Orders -> Writes]
  BY <1>1, <1>2, <1>3 DEF Stamp
<1>5. rowStatus' \in [Orders -> Statuses \union {"none"}]
  BY <1>1, <1>2
<1>6. \A o \in Orders : row'[o] # Absent => rowStatus'[o] \in Statuses
  BY <1>1, <1>2
<1> QED  BY <1>1, <1>2, <1>3, <1>4, <1>5, <1>6

LEMMA SendTyped ==
    ASSUME TypeOK, NEW e \in News, Send(e)
    PROVE  outbox' \subseteq News /\ told' \subseteq Orders
BY DEF Send, TypeOK, News

LEMMA KnownStatuses ==
    Announced \subseteq Statuses /\ Unannounced \subseteq Statuses /\ "CANCEL_REQUESTED" \in Statuses
BY DEF Statuses

LEMMA RowTyped ==
    ASSUME TypeOK, NEW o \in Orders, RowStep(o)
    PROVE  TypeOK'
<1>1. ASSUME Announce(o) \/ Backdate(o) PROVE TypeOK'
  <2>1. PICK st \in Announced :
            Write({o}, st) /\ Send([order |-> o, rank |-> row[o] + 1, status |-> st])
    BY <1>1 DEF Announce, Backdate
  <2>2. st \in Statuses
    BY KnownStatuses
  <2>3. /\ row' \in [Orders -> Writes] /\ Stamp({o}) \in [Orders -> Writes]
        /\ row[o] + 1 \in Writes
        /\ rowStatus' \in [Orders -> Statuses \union {"none"}]
        /\ \A p \in Orders : row'[p] # Absent => rowStatus'[p] \in Statuses
        /\ reopened' \subseteq Orders
    BY <2>1, <2>2, WriteTyped
  <2>4. [order |-> o, rank |-> row[o] + 1, status |-> st] \in News
    BY <2>2, <2>3 DEF News
  <2>5. outbox' \subseteq News /\ told' \subseteq Orders
    BY <2>1, <2>4, SendTyped
  <2>6. due' \in [Orders -> Writes] /\ stamped' \in [Orders -> Writes]
    <3>1. due' = [due EXCEPT ![o] = row[o] + 1] /\ stamped' \in {stamped, Stamp({o})}
      BY <1>1 DEF Announce, Backdate
    <3>2. due \in [Orders -> Writes] /\ stamped \in [Orders -> Writes]
      BY DEF TypeOK
    <3> QED  BY <2>3, <3>1, <3>2
  <2>7. CASE Announce(o)
    BY <2>7, <2>3, <2>5, <2>6 DEF Announce, TypeOK
  <2>8. CASE Backdate(o)
    BY <2>8, <2>3, <2>5, <2>6, IncidentTyped DEF Backdate, TypeOK
  <2> QED  BY <1>1, <2>7, <2>8
<1>2. CASE WriteSilently(o)
  <2>1. PICK st \in Unannounced :
            Write({o}, st) /\ stamped' \in {stamped, Stamp({o})}
    BY <1>2 DEF WriteSilently
  <2>2. /\ row' \in [Orders -> Writes] /\ Stamp({o}) \in [Orders -> Writes]
        /\ rowStatus' \in [Orders -> Statuses \union {"none"}]
        /\ \A p \in Orders : row'[p] # Absent => rowStatus'[p] \in Statuses
        /\ reopened' \subseteq Orders
    BY <2>1, WriteTyped, KnownStatuses
  <2>3. stamped' \in [Orders -> Writes]
    BY <2>1, <2>2 DEF TypeOK
  <2> QED  BY <1>2, <2>2, <2>3 DEF WriteSilently, TypeOK
<1>3. CASE Republish(o)
  <2>1. [order |-> o, rank |-> row[o], status |-> rowStatus[o]] \in News
    BY <1>3 DEF Republish, Submitted, TypeOK, News
  <2>2. outbox' \subseteq News /\ told' \subseteq Orders
    BY <1>3, <2>1, SendTyped DEF Republish
  <2> QED  BY <1>3, <2>2, IncidentTyped DEF Republish, TypeOK
<1>4. CASE ReportUnwritten(o)
  <2>1. PICK st \in Announced : Send([order |-> o, rank |-> row[o], status |-> st])
    BY <1>4 DEF ReportUnwritten
  <2>2. [order |-> o, rank |-> row[o], status |-> st] \in News
    BY KnownStatuses DEF TypeOK, News
  <2>3. outbox' \subseteq News /\ told' \subseteq Orders
    BY <2>1, <2>2, SendTyped
  <2> QED  BY <1>4, <2>3, IncidentTyped DEF ReportUnwritten, TypeOK
<1> QED  BY <1>1, <1>2, <1>3, <1>4 DEF RowStep

LEMMA FeedTyped ==
    ASSUME TypeOK, FeedStep
    PROVE  TypeOK'
<1>1. ASSUME NEW o \in Orders, RowStep(o) PROVE TypeOK'
  BY <1>1, RowTyped
<1>2. ASSUME NEW e \in outbox, LosePublication(e) PROVE TypeOK'
  <2>1. e.order \in Orders
    BY DEF TypeOK, News
  <2> QED  BY <1>2, <2>1, IncidentTyped DEF LosePublication, TypeOK
<1>3. ASSUME NEW e \in outbox, Publish(e) PROVE TypeOK'
  <2>1. e \in News /\ e.order \in Orders
    BY DEF TypeOK, News
  <2>2. inbox' \in [Insts -> Seq(News)]
    <3>1. inbox' = [i \in Insts |-> IF i \in clients THEN Append(inbox[i], e) ELSE inbox[i]]
      BY <1>3 DEF Publish, Broadcast
    <3>2. \A i \in Insts : inbox[i] \in Seq(News)
      BY DEF TypeOK
    <3>3. \A i \in Insts : Append(inbox[i], e) \in Seq(News)
      BY <3>2, <2>1
    <3> QED  BY <3>1, <3>2, <3>3
  <2>3. /\ missed' \subseteq Orders /\ unheard' \subseteq Orders
        /\ slips' \subseteq {"lost", "reordered", "leaked", "stale", "failed", "backdated", "unwritten"}
        /\ outbox' \subseteq News
    BY <1>3, <2>1 DEF Publish, TypeOK
  <2> QED  BY <1>3, <2>2, <2>3 DEF Publish, TypeOK
<1>4. ASSUME NEW i \in Insts, Accept(i) PROVE TypeOK'
  BY <1>4 DEF Accept, TypeOK
<1>5. ASSUME NEW i \in Insts, BreakConnection(i) PROVE TypeOK'
  BY <1>5, BreakTyped DEF BreakConnection
<1>6. CASE Restart
  BY <1>6, BreakTyped DEF Restart, TypeOK
<1> QED  BY <1>1, <1>2, <1>3, <1>4, <1>5, <1>6 DEF FeedStep

LEMMA SocketTyped ==
    ASSUME TypeOK, NEW i \in Insts, SocketStep(i)
    PROVE  TypeOK'
<1>0. CASE Throws(i)
  BY <1>0, IncidentTyped DEF Throws, AfterClose, LabelAfter, TypeOK, Stages
<1>1. CASE GetToken(i)
  BY <1>1 DEF GetToken, TypeOK, Stages
<1>2. CASE AuthFails(i)
  <2>1. sock' \in [Insts -> Stages]
    BY <1>2, CleanedUpTyped DEF AuthFails, Stages
  <2> QED  BY <1>2, <2>1, IncidentTyped DEF AuthFails, TypeOK
<1>3. CASE Opens(i)
  BY <1>3, FetchTyped DEF Opens, Replay, TypeOK, Stages, Read
<1>4. CASE Refuse(i)
  BY <1>4, IncidentTyped DEF Refuse, TypeOK, Stages
<1>5. CASE Closes(i)
  <2>1. /\ sock' \in [Insts -> Stages]
        /\ status' \in {"CONNECTING", "OPEN", "RECONNECTING", "ERROR", "AUTH_ERROR"}
    BY <1>5 DEF Closes, AfterClose, LabelAfter, TypeOK, Stages
  <2>2. inbox' \in [Insts -> Seq(News)]
    <3>1. <<>> \in Seq(News)
      OBVIOUS
    <3> QED  BY <1>5, <3>1 DEF Closes, TypeOK
  <2>3. missed' \subseteq Orders /\ unheard' \subseteq Orders
    BY <1>5, LostOrders DEF Closes, TypeOK
  <2> QED  BY <1>5, <2>1, <2>2, <2>3 DEF Closes, TypeOK
<1>6. CASE Reconnect(i)
  BY <1>6 DEF Reconnect, TypeOK, Stages
<1>7. CASE Hear(i)
  <2> DEFINE e == Head(inbox[i])
  <2>1. inbox[i] \in Seq(News) /\ inbox[i] # <<>>
    BY <1>7 DEF Hear, TypeOK
  <2>2. e \in News /\ Tail(inbox[i]) \in Seq(News)
    BY <2>1, HeadTailProperties
  <2>3. e.order \in Orders /\ e.rank \in Writes
    <3>1. \A m \in News : m.order \in Orders /\ m.rank \in Writes
      BY DEF News
    <3> HIDE DEF e
    <3> QED  BY <2>2, <3>1
  <2>4. ordersById' \in [Orders -> Writes] /\ inbox' \in [Insts -> Seq(News)]
    <3>1. /\ ordersById' = [ordersById EXCEPT ![e.order] = e.rank]
          /\ inbox' = [inbox EXCEPT ![i] = Tail(inbox[i])]
      BY <1>7 DEF Hear
    <3>2. ordersById \in [Orders -> Writes] /\ inbox \in [Insts -> Seq(News)]
      BY DEF TypeOK
    <3> HIDE DEF e
    <3> QED  BY <2>2, <2>3, <3>1, <3>2
  <2>5. \/ RunEffect(NoOrder)
        \/ UNCHANGED sockets
    BY <1>7 DEF Hear
  <2>6. /\ inst' \in Insts /\ sock' \in [Insts -> Stages]
        /\ closure' \in [Insts -> Orders \union {NoOrder}]
        /\ status' = status
    BY <2>5, RunEffectTyped DEF TypeOK
  <2>7. pending' \in Orders \union {NoOrder} /\ placing' \in BOOLEAN
    BY <1>7 DEF Hear, TypeOK
  <2> QED  BY <1>7, <2>4, <2>6, <2>7 DEF Hear, TypeOK
<1> QED  BY <1>0, <1>1, <1>2, <1>3, <1>4, <1>5, <1>6, <1>7 DEF SocketStep

LEMMA OrderTyped ==
    ASSUME TypeOK, NEW o \in Orders, OrderStep(o)
    PROVE  TypeOK'
<1>1. CASE PlaceOrder(o)
  BY <1>1, RunEffectTyped DEF PlaceOrder, TypeOK
<1>2. CASE StoreOrder(o)
  <2>1. row' = [row EXCEPT ![o] = 1] /\ rowStatus' = [rowStatus EXCEPT ![o] = "RECEIVED"]
    BY <1>2 DEF StoreOrder
  <2>2. /\ row \in [Orders -> Writes] /\ rowStatus \in [Orders -> Statuses \union {"none"}]
        /\ \A p \in Orders : row[p] # Absent => rowStatus[p] \in Statuses
        /\ "RECEIVED" \in Statuses
    BY DEF TypeOK, Statuses
  <2>3. row' \in [Orders -> Writes] /\ rowStatus' \in [Orders -> Statuses \union {"none"}]
    BY <2>1, <2>2, WritesAreNumbers
  <2>4. \A p \in Orders : row'[p] # Absent => rowStatus'[p] \in Statuses
    BY <2>1, <2>2
  <2>5. post' \in [Orders -> {"none", "sent", "stored", "done", "failed"}]
    BY <1>2 DEF StoreOrder, TypeOK
  <2> QED  BY <1>2, <2>3, <2>4, <2>5 DEF StoreOrder, TypeOK
<1>3. CASE OrderAccepted(o)
  BY <1>3, FetchTyped DEF OrderAccepted, TypeOK, Read
<1>4. CASE OrderFails(o)
  BY <1>4, IncidentTyped DEF OrderFails, TypeOK
<1> QED  BY <1>1, <1>2, <1>3, <1>4 DEF OrderStep

LEMMA ReadsTyped ==
    ASSUME TypeOK, NEW s \in Slots, ReadStep(s)
    PROVE  TypeOK'
<1>1. CASE ReadRows(s)
  <2>1. [stage |-> "answered", rows |-> [o \in Orders |-> Label(o)],
         open |-> {o \in Orders : row[o] # Absent /\ rowStatus[o] \in Open}] \in Read
    BY DEF TypeOK, Read, Label
  <2> QED  BY <1>1, <2>1 DEF ReadRows, TypeOK, Read
<1>2. CASE ShowRows(s)
  <2>1. reads[s] \in Read
    BY DEF TypeOK, Read
  <2>2. list' \in [Orders -> Writes] /\ openIds' \subseteq Orders
    BY <1>2, <2>1 DEF ShowRows, Read
  <2> QED  BY <1>2, <2>2, IdleTyped DEF ShowRows, TypeOK, Read
<1>3. CASE FetchFails(s)
  BY <1>3, IdleTyped, IncidentTyped DEF FetchFails, TypeOK, Read
<1> QED  BY <1>1, <1>2, <1>3 DEF ReadStep

LEMMA TypeKept ==
    ASSUME TypeOK, [Next]_vars
    PROVE  TypeOK'
<1>1. CASE Resume
  BY <1>1, FetchTyped, IncidentTyped DEF Resume, Ask, Replay, TypeOK, Read
<1>3. CASE Cancel
  <2>1. PICK orders \in SUBSET Orders :
            Write(orders, "CANCEL_REQUESTED") /\ stamped' = Stamp(orders)
    BY <1>3 DEF Cancel
  <2>2. /\ row' \in [Orders -> Writes] /\ stamped' \in [Orders -> Writes]
        /\ rowStatus' \in [Orders -> Statuses \union {"none"}]
        /\ \A p \in Orders : row'[p] # Absent => rowStatus'[p] \in Statuses
        /\ reopened' \subseteq Orders
    BY <2>1, WriteTyped, KnownStatuses
  <2>3. /\ Ask
        /\ UNCHANGED <<due, told, outbox, clients, inbox>>
    BY <1>3 DEF Cancel
  <2>4. reads' \in [Slots -> Read] /\ incidents' \in 0..MaxIncidents
    BY <2>3, FetchTyped, IncidentTyped DEF Ask, Replay
  <2> QED  BY <2>2, <2>3, <2>4 DEF Ask, TypeOK, Read
<1>2. CASE UNCHANGED vars
  BY <1>2 DEF vars, TypeOK
<1> QED  BY <1>1, <1>2, <1>3, FeedTyped, SocketTyped, OrderTyped, ReadsTyped DEF Next, PageStep

LEMMA InitTyped == Init => TypeOK
<1> SUFFICES ASSUME Init PROVE TypeOK
  OBVIOUS
<1>1. PICK first \in Slots :
        reads = [s \in Slots |-> IF s = first THEN [Idle EXCEPT !.stage = "asked"] ELSE Idle]
  BY DEF Init
<1>2. reads \in [Slots -> Read]
  <2>1. [Idle EXCEPT !.stage = "asked"] \in Read
    BY IdleTyped, ReadTyped DEF Read
  <2> QED  BY <1>1, <2>1, IdleTyped
<1>3. inbox \in [Insts -> Seq(News)]
  BY DEF Init
<1>4. /\ {row, stamped, due} \subseteq [Orders -> Writes] /\ {ordersById, list} \subseteq [Orders -> Writes]
      /\ rowStatus \in [Orders -> Statuses \union {"none"}]
      /\ \A o \in Orders : row[o] # Absent => rowStatus[o] \in Statuses
  BY IdleTyped, WritesAreNumbers DEF Init, Absent, Statuses
<1>5. inst \in Insts /\ sock \in [Insts -> Stages] /\ incidents \in 0..MaxIncidents
  BY FeedAssumption DEF Init, Insts, Stages
<1> QED  BY <1>2, <1>3, <1>4, <1>5 DEF Init, TypeOK, Read

\* Types, for any orders, fetches, runs and incidents.
THEOREM TypeCorrect == Spec => []TypeOK
BY InitTyped, TypeKept, PTL DEF Spec

------------------------------------------------------------------------------
(* one socket                                                              *)

Inv == TypeOK /\ OldRunsAreOver /\ NewRunsAreIdle

\* A socket that moves on without a new run, and not to life.
LEMMA RunsKept ==
    ASSUME Inv, UNCHANGED inst, slips \subseteq slips',
           \A i \in Insts : \/ sock'[i] = sock[i]
                            \/ i <= inst /\ (i < inst => sock'[i] \notin Live \/ "leaked" \in slips'),
           \A i \in clients' : i <= inst
    PROVE  OldRunsAreOver' /\ NewRunsAreIdle'
<1>1. inst \in Nat /\ Insts \subseteq Nat
  BY DEF Inv, TypeOK, Insts
<1> QED  BY <1>1 DEF Inv, OldRunsAreOver, NewRunsAreIdle

\* The next run takes over.
LEMMA RunsFollow ==
    ASSUME Inv, NEW p \in Orders \union {NoOrder}, RunEffect(p), UNCHANGED <<clients, slips>>
    PROVE  OldRunsAreOver' /\ NewRunsAreIdle'
<1>1. /\ inst \in Nat /\ Insts \subseteq Nat /\ inst + 1 \in Insts /\ inst' = inst + 1
      /\ inst \in Insts
  BY FeedAssumption DEF RunEffect, Inv, TypeOK, Insts
<1>2. sock' = [CleanedUp EXCEPT ![inst + 1] = "token"]
  BY DEF RunEffect
<1>3. /\ sock'[inst] = CleanedUp[inst]
      /\ \A i \in Insts : i \notin {inst, inst + 1} => sock'[i] = sock[i]
  BY <1>1, <1>2, CleanedUpTyped DEF Inv
<1>4. sock'[inst] \notin Live
  BY <1>3, CleanedUpTyped DEF Inv
<1>5. OldRunsAreOver'
  <2> SUFFICES ASSUME "leaked" \notin slips, NEW i \in Insts, i < inst + 1
               PROVE  sock'[i] \notin Live
    BY <1>1 DEF OldRunsAreOver
  <2>1. CASE i = inst
    BY <2>1, <1>4
  <2>2. CASE i < inst
    BY <2>2, <1>1, <1>3 DEF Inv, OldRunsAreOver
  <2> QED  BY <1>1, <2>1, <2>2
<1>6. NewRunsAreIdle'
  <2>1. \A i \in Insts : i > inst + 1 => sock'[i] = "none"
    BY <1>1, <1>3 DEF Inv, NewRunsAreIdle
  <2>2. \A i \in clients : i <= inst + 1
    BY <1>1 DEF Inv, NewRunsAreIdle, TypeOK
  <2> QED  BY <1>1, <2>1, <2>2 DEF NewRunsAreIdle
<1> QED  BY <1>5, <1>6

LEMMA InvKept ==
    ASSUME Inv, [Next]_vars
    PROVE  Inv'
<1> SUFFICES OldRunsAreOver' /\ NewRunsAreIdle'
  BY TypeKept DEF Inv
<1>0. /\ inst \in Nat /\ Insts \subseteq Nat /\ \A i \in clients : i <= inst
      /\ clients \subseteq Insts
      /\ sock \in [Insts -> Stages]
      /\ \A i \in Insts : i > inst => sock[i] = "none"
      /\ "leaked" \notin slips => \A i \in Insts : i < inst => sock[i] \notin Live
  BY DEF Inv, TypeOK, NewRunsAreIdle, OldRunsAreOver, Insts
<1>1. CASE UNCHANGED <<inst, sock, clients>> /\ slips \subseteq slips'
  BY <1>0, <1>1, RunsKept
<1>2. ASSUME NEW gone \in SUBSET Insts, Break(gone),
             \A i \in gone : i <= inst
      PROVE  OldRunsAreOver' /\ NewRunsAreIdle'
  <2>1. \A i \in Insts : sock'[i] = sock[i] \/ (i <= inst /\ sock'[i] = "broken")
    BY <1>2 DEF Break
  <2> QED  BY <1>0, <1>2, <2>1, RunsKept DEF Break, Live
<1>3. CASE FeedStep
  <2>1. ASSUME NEW o \in Orders, RowStep(o) PROVE OldRunsAreOver' /\ NewRunsAreIdle'
    BY <2>1, <1>1 DEF RowStep, Announce, Backdate, WriteSilently, Republish, ReportUnwritten
  <2>2. ASSUME NEW e \in outbox, Publish(e) \/ LosePublication(e)
        PROVE  OldRunsAreOver' /\ NewRunsAreIdle'
    BY <2>2, <1>1 DEF Publish, LosePublication
  <2>3. ASSUME NEW i \in Insts, Accept(i) PROVE OldRunsAreOver' /\ NewRunsAreIdle'
    <3>1. i <= inst
      BY <2>3, <1>0 DEF Accept
    <3> QED  BY <2>3, <3>1, <1>0, RunsKept DEF Accept
  <2>4. ASSUME NEW i \in Insts, BreakConnection(i) PROVE OldRunsAreOver' /\ NewRunsAreIdle'
    <3>1. i <= inst
      BY <2>4, <1>0 DEF BreakConnection
    <3> QED  BY <2>4, <3>1, <1>2 DEF BreakConnection
  <2>5. CASE Restart
    BY <2>5, <1>0, <1>2 DEF Restart
  <2> QED  BY <1>3, <2>1, <2>2, <2>3, <2>4, <2>5 DEF FeedStep
<1>4. ASSUME NEW i \in Insts, SocketStep(i) PROVE OldRunsAreOver' /\ NewRunsAreIdle'
  <2>0. CASE Throws(i)
    <3>1. i <= inst
      BY <2>0, <1>0 DEF Throws
    <3>2. \A j \in Insts : sock'[j] = sock[j] \/ (j = i /\ (i < inst => sock'[j] = "dead"))
      BY <2>0, <1>0 DEF Throws, AfterClose
    <3> QED  BY <2>0, <3>1, <3>2, <1>0, RunsKept DEF Throws, Live
  <2>1. CASE GetToken(i)
    <3>1. i <= inst /\ slips \subseteq slips' /\ (i < inst => "leaked" \in slips')
      BY <2>1, <1>0 DEF GetToken
    <3>2. \A j \in Insts : sock'[j] = sock[j] \/ j = i
      BY <2>1, <1>0 DEF GetToken
    <3> QED  BY <2>1, <3>1, <3>2, <1>0, RunsKept DEF GetToken
  <2>2. CASE AuthFails(i)
    <3>1. i <= inst
      BY <2>2, <1>0 DEF AuthFails
    <3>2. \A j \in Insts : \/ sock'[j] = sock[j]
                           \/ j = i /\ sock'[j] = "dead"
                           \/ j = inst
      BY <2>2, CleanedUpTyped DEF AuthFails, Inv
    <3> QED  BY <2>2, <3>1, <3>2, <1>0, RunsKept DEF AuthFails, Live
  <2>3. CASE Opens(i)
    <3>1. i <= inst /\ (i < inst => "leaked" \in slips)
      BY <2>3, <1>0 DEF Opens, Live
    <3>2. \A j \in Insts : sock'[j] = sock[j] \/ j = i
      BY <2>3, <1>0 DEF Opens
    <3> QED  BY <2>3, <3>1, <3>2, <1>0, RunsKept DEF Opens
  <2>4. CASE Refuse(i)
    <3>1. i <= inst
      BY <2>4, <1>0 DEF Refuse
    <3>2. \A j \in Insts : sock'[j] = sock[j] \/ (j = i /\ sock'[j] = "broken")
      BY <2>4, <1>0 DEF Refuse
    <3> QED  BY <2>4, <3>1, <3>2, <1>0, RunsKept DEF Refuse, Live
  <2>5. CASE Closes(i)
    <3>1. i <= inst
      BY <2>5, <1>0 DEF Closes
    <3>2. \A j \in Insts : sock'[j] = sock[j] \/ (j = i /\ (i < inst => sock'[j] = "dead"))
      BY <2>5, <1>0 DEF Closes, AfterClose
    <3> QED  BY <2>5, <3>1, <3>2, <1>0, RunsKept DEF Closes, Live
  <2>6. CASE Reconnect(i)
    <3>1. i <= inst
      BY <2>6, <1>0 DEF Reconnect
    <3>2. \A j \in Insts : sock'[j] = sock[j] \/ (j = i /\ sock'[j] = "token")
      BY <2>6, <1>0 DEF Reconnect
    <3> QED  BY <2>6, <3>1, <3>2, <1>0, RunsKept DEF Reconnect, Live
  <2>7. CASE Hear(i)
    <3>1. RunEffect(NoOrder) \/ UNCHANGED sockets
      BY <2>7 DEF Hear
    <3>2. UNCHANGED <<clients, slips>>
      BY <2>7 DEF Hear
    <3> QED  BY <3>1, <3>2, <1>1, RunsFollow
  <2> QED  BY <1>4, <2>0, <2>1, <2>2, <2>3, <2>4, <2>5, <2>6, <2>7 DEF SocketStep
<1>5. ASSUME NEW o \in Orders, OrderStep(o) PROVE OldRunsAreOver' /\ NewRunsAreIdle'
  <2>1. CASE PlaceOrder(o)
    BY <2>1, RunsFollow DEF PlaceOrder
  <2>2. CASE StoreOrder(o) \/ OrderAccepted(o) \/ OrderFails(o)
    BY <2>2, <1>1 DEF StoreOrder, OrderAccepted, OrderFails
  <2> QED  BY <1>5, <2>1, <2>2 DEF OrderStep
<1>6. ASSUME NEW s \in Slots, ReadStep(s) PROVE OldRunsAreOver' /\ NewRunsAreIdle'
  BY <1>6, <1>1 DEF ReadStep, ReadRows, ShowRows, FetchFails
<1>7. CASE Cancel \/ Resume \/ UNCHANGED vars
  BY <1>7, <1>1 DEF Cancel, Resume, Ask, vars
<1> QED  BY <1>3, <1>4, <1>5, <1>6, <1>7 DEF Next, PageStep

LEMMA InvHolds == Spec => []Inv
<1>1. Init => Inv
  BY InitTyped DEF Init, Inv, OldRunsAreOver, NewRunsAreIdle, Live, Insts
<1> QED  BY <1>1, InvKept, PTL DEF Spec

\* Two sockets are those of two runs, one of which is over.
LEMMA OneSocketFollows ==
    ASSUME Inv
    PROVE  OneSocket
<1> SUFFICES ASSUME "leaked" \notin slips
             PROVE  ~ (Cardinality({i \in Insts : sock[i] \in Live}) > 1)
  BY DEF OneSocket, Live
<1>1. {i \in Insts : sock[i] \in Live} \subseteq {inst}
  BY DEF Inv, OldRunsAreOver, NewRunsAreIdle, TypeOK, Insts, Live
<1>2. {i \in Insts : sock[i] \in Live} \in {{}, {inst}}
  BY <1>1
<1>3. Cardinality({}) = 0 /\ Cardinality({inst}) = 1
  BY FS_EmptySet, FS_Singleton
<1> QED  BY <1>2, <1>3

\* However often the websocket effect runs again, a page has one socket, unless
\* a run was over before it had its token.
THEOREM OneSocketHolds == Spec => []OneSocket
BY InvHolds, OneSocketFollows, PTL

------------------------------------------------------------------------------
(* a page that never gives up                                              *)

\* A step that takes no socket away, opens none and leaves the page.
LEMMA KeptUpWithout ==
    ASSUME KeptUp, UNCHANGED <<inst, status>>,
           \A i \in Insts : \/ sock'[i] = sock[i]
                            \/ sock[i] = "token" /\ sock'[i] = "connecting"
                            \/ sock[i] = "retry" /\ sock'[i] = "token"
                            \/ sock'[i] = "broken",
           TypeOK
    PROVE  KeptUp'
BY DEF KeptUp, PageUp, TypeOK

LEMMA KeptUpFollows ==
    ASSUME Inv, KeptUp, [Next]_vars
    PROVE  KeptUp'
<1> USE DEF Inv
<1>0. sock \in [Insts -> Stages] /\ inst \in Insts
  BY DEF TypeOK
<1>1. CASE UNCHANGED <<inst, sock, status>>
  BY <1>1, KeptUpWithout
<1>2. ASSUME NEW p \in Orders \union {NoOrder}, RunEffect(p) PROVE KeptUp'
  <2>1. /\ inst + 1 \in Insts /\ inst' = inst + 1 /\ status' = status /\ inst # inst + 1
        /\ sock' = [CleanedUp EXCEPT ![inst + 1] = "token"]
    BY <1>2, FeedAssumption DEF RunEffect, TypeOK, Insts
  <2>2. sock'[inst + 1] = "token"
    BY <2>1, CleanedUpTyped
  <2>3. ASSUME NEW i \in Insts, sock[i] \in {"open", "broken", "closing"}, i # inst + 1
        PROVE  sock'[i] \in {"open", "broken", "closing"}
    BY <2>1, <2>3, CleanedUpTyped
  <2>4. sock[inst + 1] = "none"
    BY <2>1 DEF NewRunsAreIdle, TypeOK, Insts
  <2>5. status = "OPEN" => \E i \in Insts : sock'[i] \in {"open", "broken", "closing"}
    BY <2>3, <2>4 DEF KeptUp
  <2> QED  BY <2>1, <2>2, <2>5 DEF KeptUp
<1>3. ASSUME NEW gone \in SUBSET Insts, Break(gone) PROVE KeptUp'
  BY <1>0, <1>3, KeptUpWithout DEF Break
<1>4. CASE FeedStep
  BY <1>0, <1>1, <1>3, <1>4
     DEF FeedStep, RowStep, Announce, Backdate, WriteSilently, Republish, ReportUnwritten, Publish, LosePublication, Accept, BreakConnection, Restart, TypeOK
<1>5. ASSUME NEW i \in Insts, SocketStep(i) PROVE KeptUp'
  <2>0. CASE Throws(i)
    <3>1. /\ inst' = inst /\ sock' = [sock EXCEPT ![i] = AfterClose(i)] /\ sock[i] = "token"
          /\ \E label \in {"RECONNECTING", "ERROR"} : status' = LabelAfter(label)
      BY <2>0 DEF Throws
    <3>2. status' # "OPEN" /\ (PageUp' => PageUp)
      BY <3>1 DEF LabelAfter, PageUp
    <3>3. PageUp /\ i = inst => AfterClose(i) = "retry"
      BY <1>0 DEF AfterClose, Insts
    <3> QED  BY <1>0, <3>1, <3>2, <3>3 DEF KeptUp
  <2>1. CASE GetToken(i)
    BY <1>0, <2>1, KeptUpWithout DEF GetToken
  <2>2. CASE AuthFails(i)
    BY <2>2 DEF AuthFails, KeptUp, PageUp
  <2>3. CASE Opens(i)
    <3>1. status' = "OPEN" /\ inst' = inst /\ sock' = [sock EXCEPT ![i] = "open"] /\ PageUp
      BY <2>3 DEF Opens
    <3>2. sock'[inst] \in {sock[inst], "open"} /\ sock'[i] = "open"
      BY <1>0, <3>1
    <3> QED  BY <1>0, <3>1, <3>2 DEF KeptUp
  <2>4. CASE Refuse(i)
    BY <1>0, <2>4, KeptUpWithout DEF Refuse
  <2>5. CASE Closes(i)
    <3>1. /\ inst' = inst /\ sock' = [sock EXCEPT ![i] = AfterClose(i)]
          /\ status' = LabelAfter("RECONNECTING")
      BY <2>5 DEF Closes
    <3>2. status' # "OPEN" /\ (PageUp' => PageUp)
      BY <3>1 DEF LabelAfter, PageUp
    <3>3. PageUp /\ i = inst => AfterClose(i) = "retry"
      BY <1>0 DEF AfterClose, Insts
    <3> QED  BY <1>0, <3>1, <3>2, <3>3 DEF KeptUp
  <2>6. CASE Reconnect(i)
    BY <1>0, <2>6, KeptUpWithout DEF Reconnect
  <2>7. CASE Hear(i)
    <3>1. RunEffect(NoOrder) \/ UNCHANGED sockets
      BY <2>7 DEF Hear
    <3> QED  BY <3>1, <1>1, <1>2
  <2> QED  BY <1>5, <2>0, <2>1, <2>2, <2>3, <2>4, <2>5, <2>6, <2>7 DEF SocketStep
<1>6. ASSUME NEW o \in Orders, OrderStep(o) PROVE KeptUp'
  BY <1>6, <1>1, <1>2 DEF OrderStep, PlaceOrder, StoreOrder, OrderAccepted, OrderFails
<1>7. ASSUME NEW s \in Slots, ReadStep(s) PROVE KeptUp'
  BY <1>7, <1>1 DEF ReadStep, ReadRows, ShowRows, FetchFails
<1>8. CASE Cancel \/ Resume \/ UNCHANGED vars
  BY <1>8, <1>1 DEF Cancel, Resume, Ask, vars
<1> QED  BY <1>4, <1>5, <1>6, <1>7, <1>8 DEF Next, PageStep

\* A page that is up always has a socket or a step that leads to one, and says
\* that it is live only while there is, or has just been, an open socket.
THEOREM KeptUpHolds == Spec => []KeptUp
<1>1. Init => KeptUp
  BY FeedAssumption DEF Init, KeptUp, PageUp, Insts
<1> QED  BY <1>1, InvHolds, KeptUpFollows, PTL DEF Spec

------------------------------------------------------------------------------
(* what is under way                                                       *)

\* The messages of a connection.
Messages(s) == {s[k] : k \in DOMAIN s}

\* News of one order stand in the order in which its row was written.
Sorted(s) ==
    \A j, k \in DOMAIN s : j < k /\ s[j].order = s[k].order => s[j].rank <= s[k].rank

Travelling == outbox \union UNION {Messages(inbox[i]) : i \in Insts}

\* Messages are under way on registered connections only.
Registered ==
    /\ \A i \in Insts \ clients : inbox[i] = <<>>
    /\ \A i \in Insts : sock[i] = "open" => i \in clients

\* Nothing that is shown, read or sent was written later than the row.
ShownBehind ==
    /\ \A o \in Orders : list[o] <= row[o] /\ ordersById[o] <= row[o]
    /\ \A o \in Orders, s \in Slots : reads[s].rows[o] <= row[o]

SentBehind == \A e \in Travelling : e.rank <= row[e.order]

\* What is to be shown of an order comes before its row, and with its newest
\* event, unless that came late.
RowsBehind ==
    \A o \in Orders :
        /\ stamped[o] <= row[o] /\ due[o] <= row[o]
        /\ "backdated" \notin slips => due[o] <= stamped[o]
        /\ o \in told => row[o] # Absent
        /\ post[o] = "sent" => row[o] = Absent

Behind == ShownBehind /\ SentBehind /\ RowsBehind

\* While nothing changes places and the page has one socket, what is to come
\* is at least as new as what came.
InOrder ==
    slips \intersect {"reordered", "leaked"} = {} =>
        /\ \A e \in outbox : ordersById[e.order] <= e.rank
        /\ \A m \in Messages(inbox[inst]) : ordersById[m.order] <= m.rank
        /\ \A i \in Insts : Sorted(inbox[i])
        /\ \A i \in Insts : \A m \in Messages(inbox[i]), e \in outbox :
              m.order = e.order => m.rank <= e.rank

\* The types of all this, without the functions around it.
LEMMA Sizes ==
    ASSUME TypeOK
    PROVE  /\ \A o \in Orders : row[o] \in Nat /\ list[o] \in Nat /\ ordersById[o] \in Nat
           /\ \A o \in Orders : stamped[o] \in Nat /\ due[o] \in Nat
           /\ \A o \in Orders, s \in Slots : reads[s].rows[o] \in Nat
           /\ \A i \in Insts : inbox[i] \in Seq(News)
           /\ \A i \in Insts : \A m \in Messages(inbox[i]) :
                 m \in News /\ m.order \in Orders /\ m.rank \in Nat
           /\ \A e \in outbox : e \in News /\ e.order \in Orders /\ e.rank \in Nat
           /\ inst \in Insts
           /\ \A s \in Slots : reads[s].stage \in {"idle", "asked", "answered"}
<1>0. Writes \subseteq Nat
  BY WritesAreNumbers
<1>1. \A m \in News : m.order \in Orders /\ m.rank \in Nat
  BY <1>0 DEF News
<1>3. \A i \in Insts : inbox[i] \in Seq(News)
  BY DEF TypeOK
<1>4. \A i \in Insts : \A m \in Messages(inbox[i]) : m \in News
  BY <1>3 DEF Messages
<1>5. /\ \A o \in Orders : row[o] \in Nat /\ list[o] \in Nat /\ ordersById[o] \in Nat
      /\ \A o \in Orders : stamped[o] \in Nat /\ due[o] \in Nat
  BY <1>0 DEF TypeOK
<1>6. \A s \in Slots : reads[s] \in Read
  BY DEF TypeOK, Read
<1>7. \A o \in Orders, s \in Slots : reads[s].rows[o] \in Nat
  BY <1>0, <1>6 DEF Read
<1>8. \A s \in Slots : reads[s].stage \in {"idle", "asked", "answered"}
  BY <1>6 DEF Read
<1> QED  BY <1>1, <1>3, <1>4, <1>5, <1>7, <1>8 DEF TypeOK

\* A message is sent on a connection.
LEMMA AppendMessages ==
    ASSUME NEW s \in Seq(News), NEW e \in News
    PROVE  /\ Messages(Append(s, e)) = Messages(s) \union {e}
           /\ Sorted(s) /\ (\A m \in Messages(s) : m.order = e.order => m.rank <= e.rank)
                => Sorted(Append(s, e))
<1>1. /\ DOMAIN Append(s, e) = 1..(Len(s) + 1) /\ DOMAIN s = 1..Len(s) /\ Len(s) \in Nat
      /\ \A k \in 1..Len(s) : Append(s, e)[k] = s[k]
      /\ Append(s, e)[Len(s) + 1] = e
  BY AppendProperties
<1>2. Messages(Append(s, e)) = Messages(s) \union {e}
  <2>1. \A k \in 1..(Len(s) + 1) : k \in 1..Len(s) \/ k = Len(s) + 1
    BY <1>1
  <2>2. \A k \in 1..Len(s) : k \in 1..(Len(s) + 1)
    BY <1>1
  <2>3. Len(s) + 1 \in 1..(Len(s) + 1)
    BY <1>1
  <2> QED  BY <1>1, <2>1, <2>2, <2>3 DEF Messages
<1>3. ASSUME Sorted(s), \A m \in Messages(s) : m.order = e.order => m.rank <= e.rank
      PROVE  Sorted(Append(s, e))
  <2> DEFINE t == Append(s, e)
  <2> SUFFICES ASSUME NEW j \in DOMAIN t, NEW k \in DOMAIN t, j < k, t[j].order = t[k].order
               PROVE  t[j].rank <= t[k].rank
    BY DEF Sorted
  <2>1. j \in 1..Len(s) /\ (k \in 1..Len(s) \/ k = Len(s) + 1)
    BY <1>1
  <2>2. t[j] = s[j] /\ s[j] \in Messages(s)
    BY <1>1, <2>1 DEF Messages
  <2>3. CASE k \in 1..Len(s)
    <3>1. t[k] = s[k]
      BY <1>1, <2>3
    <3> QED  BY <1>1, <1>3, <2>1, <2>2, <2>3, <3>1 DEF Sorted
  <2>4. CASE k = Len(s) + 1
    BY <1>1, <1>3, <2>2, <2>4
  <2> QED  BY <2>1, <2>3, <2>4
<1> QED  BY <1>2, <1>3

\* The oldest message is taken off.
LEMMA TailMessages ==
    ASSUME NEW s \in Seq(News), s # <<>>
    PROVE  /\ Messages(s) = {Head(s)} \union Messages(Tail(s))
           /\ Sorted(s) => /\ Sorted(Tail(s))
                           /\ \A m \in Messages(Tail(s)) :
                                 m.order = Head(s).order => Head(s).rank <= m.rank
<1>1. /\ DOMAIN s = 1..Len(s) /\ Len(s) \in Nat /\ Len(s) >= 1
      /\ DOMAIN Tail(s) = 1..(Len(s) - 1)
      /\ Head(s) = s[1]
      /\ \A k \in 1..(Len(s) - 1) : Tail(s)[k] = s[k + 1]
  BY HeadTailProperties, EmptySeq
<1>2. \A k \in 1..(Len(s) - 1) : k + 1 \in 1..Len(s) /\ 1 < k + 1
  BY <1>1
<1>3. \A k \in 1..Len(s) : k = 1 \/ (k - 1 \in 1..(Len(s) - 1) /\ (k - 1) + 1 = k)
  BY <1>1
<1>4. Messages(s) = {Head(s)} \union Messages(Tail(s))
  <2>1. ASSUME NEW k \in DOMAIN s, k # 1 PROVE s[k] \in Messages(Tail(s))
    <3>1. k - 1 \in DOMAIN Tail(s) /\ (k - 1) + 1 = k
      BY <1>1, <1>3, <2>1
    <3>2. Tail(s)[k - 1] = s[k]
      BY <1>1, <3>1
    <3> QED  BY <3>1, <3>2 DEF Messages
  <2>2. \A k \in DOMAIN Tail(s) : Tail(s)[k] \in Messages(s)
    BY <1>1, <1>2 DEF Messages
  <2>3. Head(s) \in Messages(s)
    BY <1>1 DEF Messages
  <2>4. Messages(s) \subseteq {Head(s)} \union Messages(Tail(s))
    <3>1. \A k \in DOMAIN s : s[k] \in {Head(s)} \union Messages(Tail(s))
      BY <1>1, <2>1
    <3> QED  BY <3>1 DEF Messages
  <2>5. Messages(Tail(s)) \subseteq Messages(s)
    BY <2>2 DEF Messages
  <2> QED  BY <2>3, <2>4, <2>5
<1>5. ASSUME Sorted(s) PROVE Sorted(Tail(s))
  <2> SUFFICES ASSUME NEW j \in 1..(Len(s) - 1), NEW k \in 1..(Len(s) - 1), j < k,
                      Tail(s)[j].order = Tail(s)[k].order
               PROVE  Tail(s)[j].rank <= Tail(s)[k].rank
    BY <1>1 DEF Sorted
  <2>1. j + 1 \in DOMAIN s /\ k + 1 \in DOMAIN s /\ j + 1 < k + 1
    BY <1>1
  <2>2. Tail(s)[j] = s[j + 1] /\ Tail(s)[k] = s[k + 1]
    BY <1>1
  <2> QED  BY <1>5, <2>1, <2>2 DEF Sorted
<1>6. ASSUME Sorted(s), NEW k \in 1..(Len(s) - 1), Tail(s)[k].order = Head(s).order
      PROVE  Head(s).rank <= Tail(s)[k].rank
  <2>1. 1 \in DOMAIN s /\ k + 1 \in DOMAIN s /\ 1 < k + 1
    BY <1>1
  <2> QED  BY <1>1, <1>6, <2>1 DEF Sorted
<1>7. Sorted(s) => \A m \in Messages(Tail(s)) : m.order = Head(s).order => Head(s).rank <= m.rank
  BY <1>1, <1>6 DEF Messages
<1> QED  BY <1>4, <1>5, <1>7

LEMMA NoMessages == Messages(<<>>) = {} /\ Sorted(<<>>)
BY DEF Messages, Sorted

\* The next run has heard nothing and has no socket yet.
LEMMA NextRun ==
    ASSUME Inv, Registered, NEW p, RunEffect(p)
    PROVE  /\ inst + 1 \in Insts /\ inst' = inst + 1 /\ inst + 1 # inst
           /\ inbox[inst + 1] = <<>>
           /\ sock'[inst + 1] = "token" /\ closure'[inst + 1] = p
           /\ \A i \in Insts : sock'[i] = "open" => sock[i] = "open"
           /\ \A i \in Insts : i # inst + 1 => closure'[i] = closure[i]
           /\ sock[inst + 1] = "none"
<1>1. inst \in Nat /\ inst + 1 \in Insts /\ inst' = inst + 1 /\ inst + 1 # inst /\ inst + 1 > inst
  BY FeedAssumption DEF RunEffect, Inv, TypeOK, Insts
<1>2. inst + 1 \notin clients /\ sock[inst + 1] = "none"
  BY <1>1 DEF Inv, NewRunsAreIdle
<1>3. inbox[inst + 1] = <<>>
  BY <1>1, <1>2 DEF Registered
<1>4. sock' = [CleanedUp EXCEPT ![inst + 1] = "token"] /\ closure' = [closure EXCEPT ![inst + 1] = p]
  BY DEF RunEffect
<1>5. /\ CleanedUp \in [Insts -> Stages]
      /\ \A i \in Insts : i # inst => CleanedUp[i] = sock[i]
      /\ CleanedUp[inst] # "open"
  BY CleanedUpTyped DEF Inv, Live
<1>6. closure \in [Insts -> Orders \union {NoOrder}]
  BY DEF Inv, TypeOK
<1> QED  BY <1>1, <1>2, <1>3, <1>4, <1>5, <1>6

LEMMA RegisteredWithout ==
    ASSUME Registered, UNCHANGED <<clients, inbox>>,
           \A i \in Insts : sock'[i] = "open" => sock[i] = "open" \/ i \in clients
    PROVE  Registered'
BY DEF Registered

\* Connections that break, or are closed, take their messages with them.
LEMMA BreakEffect ==
    ASSUME TypeOK, NEW gone \in SUBSET Insts, Break(gone)
    PROVE  /\ clients' = clients \ gone
           /\ \A i \in gone : inbox'[i] = <<>> /\ sock'[i] # "open"
           /\ \A i \in Insts \ gone : inbox'[i] = inbox[i] /\ sock'[i] = sock[i]
           /\ \A i \in gone : \A m \in Messages(inbox[i]) : m.order \in missed' /\ m.order \in unheard'
           /\ missed \subseteq missed' /\ unheard \subseteq unheard'
           /\ UNCHANGED <<rows, outbox, inst, closure, status, slips, ticket, picture>>
BY DEF Break, Messages, TypeOK

LEMMA ClosesEffect ==
    ASSUME TypeOK, NEW i \in Insts, Closes(i)
    PROVE  /\ clients' = clients \ {i}
           /\ inbox'[i] = <<>> /\ sock'[i] # "open"
           /\ \A j \in Insts \ {i} : inbox'[j] = inbox[j] /\ sock'[j] = sock[j]
           /\ \A m \in Messages(inbox[i]) : m.order \in missed' /\ m.order \in unheard'
           /\ missed \subseteq missed' /\ unheard \subseteq unheard'
           /\ UNCHANGED <<rows, outbox, inst, closure, slips, ticket, picture>>
BY DEF Closes, AfterClose, Messages, TypeOK

\* A publication reaches the registered sockets.
LEMMA PublishEffect ==
    ASSUME TypeOK, NEW e \in outbox, Publish(e)
    PROVE  /\ outbox' = outbox \ {e}
           /\ \A i \in clients : /\ inbox'[i] = Append(inbox[i], e)
                                 /\ Messages(inbox'[i]) = Messages(inbox[i]) \union {e}
           /\ \A i \in Insts \ clients : inbox'[i] = inbox[i]
           /\ UNCHANGED <<rows, clients, sockets, ticket, picture>>
           /\ missed' = IF clients = {} THEN missed \union {e.order} ELSE missed
           /\ slips \subseteq slips'
           /\ "reordered" \notin slips' => \A f \in outbox : f.order = e.order => f.rank >= e.rank
<1>1. e \in News /\ clients \subseteq Insts /\ \A i \in Insts : inbox[i] \in Seq(News)
  BY DEF TypeOK
<1>2. inbox' = [i \in Insts |-> IF i \in clients THEN Append(inbox[i], e) ELSE inbox[i]]
  BY DEF Publish, Broadcast
<1>3. \A i \in clients : Messages(Append(inbox[i], e)) = Messages(inbox[i]) \union {e}
  BY <1>1, AppendMessages
<1>4. /\ slips' = IF OutOfTurn(e) THEN slips \union {"reordered"} ELSE slips
      /\ missed' = IF clients = {} THEN missed \union {e.order} ELSE missed
      /\ outbox' = outbox \ {e}
      /\ UNCHANGED <<rows, clients, sockets, ticket, picture>>
  BY DEF Publish
<1>5. "reordered" \notin slips' => \A f \in outbox : f.order = e.order => f.rank >= e.rank
  <2>1. "reordered" \notin slips' => ~ OutOfTurn(e)
    BY <1>4
  <2>2. \A f \in outbox : f.rank \in Nat
    BY Sizes
  <2> QED  BY <2>1, <2>2 DEF OutOfTurn
<1> QED  BY <1>1, <1>2, <1>3, <1>4, <1>5

\* A message is handled.
LEMMA HearEffect ==
    ASSUME TypeOK, NEW i \in Insts, Hear(i)
    PROVE  \E e \in Messages(inbox[i]) :
              /\ e = Head(inbox[i])
              /\ ordersById' = [ordersById EXCEPT ![e.order] = e.rank]
              /\ Messages(inbox[i]) = {e} \union Messages(inbox'[i])
              /\ inbox'[i] = Tail(inbox[i]) /\ inbox[i] \in Seq(News) /\ inbox[i] # <<>>
              /\ \A j \in Insts \ {i} : inbox'[j] = inbox[j]
              /\ sock[i] = "open"
              /\ UNCHANGED <<rows, outbox, clients, post, list, openIds, reads, history>>
              /\ \/ /\ closure[i] = e.order /\ Releases(e.status)
                    /\ ~ placing'
                 \/ /\ ~ (closure[i] = e.order /\ Releases(e.status))
                    /\ UNCHANGED <<placing, pending>>
              /\ RunEffect(NoOrder) \/ UNCHANGED sockets
<1> DEFINE e == Head(inbox[i])
<1>1. inbox[i] \in Seq(News) /\ inbox[i] # <<>>
  BY DEF Hear, TypeOK
<1>2. Messages(inbox[i]) = {e} \union Messages(Tail(inbox[i]))
  BY <1>1, TailMessages
<1>3. inbox' = [inbox EXCEPT ![i] = Tail(inbox[i])] /\ inbox \in [Insts -> Seq(News)]
  BY DEF Hear, TypeOK
<1>4. inbox'[i] = Tail(inbox[i]) /\ \A j \in Insts \ {i} : inbox'[j] = inbox[j]
  BY <1>3
<1>5. /\ ordersById' = [ordersById EXCEPT ![e.order] = e.rank]
      /\ sock[i] = "open"
      /\ UNCHANGED <<rows, outbox, clients, post, list, openIds, reads, history>>
      /\ \/ /\ closure[i] = e.order /\ Releases(e.status)
            /\ placing' = FALSE
         \/ /\ ~ (closure[i] = e.order /\ Releases(e.status))
            /\ UNCHANGED <<placing, pending>>
      /\ RunEffect(NoOrder) \/ UNCHANGED sockets
  BY DEF Hear
<1>6. e \in Messages(inbox[i])
  BY <1>2
<1> HIDE DEF e
<1> QED  BY <1>1, <1>2, <1>4, <1>5, <1>6 DEF e

------------------------------------------------------------------------------
(* the steps, by what they do to the rows and the page                     *)

\* An order whose row is open, and was never closed.
StillOpen(o) == row[o] # Absent /\ rowStatus[o] \in Open /\ o \notin reopened

\* Rows are written over, or left alone.
Grown ==
    \A o \in Orders :
        /\ row[o] <= row'[o]
        /\ stamped'[o] \in {stamped[o], row'[o]}
        /\ row'[o] # Absent => row[o] # Absent
        /\ StillOpen(o)' => StillOpen(o)

\* A fetch has been asked for.
Asked == \E s \in Slots : reads[s].stage = "asked"

\* The steps that say nothing of an order, and let nothing be heard of it.
Quiet ==
    /\ Grown
    /\ UNCHANGED <<due, told, outbox, clients, inbox, ordersById, inst, closure, pending,
                   missed, unheard>>
    /\ placing' => placing
    /\ slips \subseteq slips'
    /\ \A i \in Insts : sock'[i] = "open" => sock[i] = "open" \/ i \in clients

\* ... and leave the lists alone, but for an order that fails.
Aside ==
    /\ UNCHANGED <<list, openIds, reads>>
    /\ \A o \in Orders : post'[o] = post[o] \/ post'[o] = "failed"
    /\ \A i \in Insts : sock'[i] = "open" => sock[i] = "open"

\* ... or ask for the lists.
Asks ==
    /\ UNCHANGED <<list, openIds>>
    /\ Asked'
    /\ \A o \in Orders : post'[o] # "sent" \/ post'[o] = post[o]
    /\ \A s \in Slots : reads'[s].rows = reads[s].rows /\ reads'[s].open = reads[s].open

\* The steps that send news of o.
Loud(o) ==
    /\ Grown /\ row'[o] # Absent
    /\ \A p \in Orders \ {o} : due'[p] = due[p]
    /\ due'[o] \in {due[o], row'[o]}
    /\ "backdated" \notin slips' => due'[o] = due[o] \/ stamped'[o] = row'[o]
    /\ \E e \in News : /\ e.order = o /\ e.rank = row'[o]
                       /\ outbox' = outbox \union {e}
                       /\ told' = IF e.status \in Outcomes THEN told \union {o} ELSE told
    /\ slips \subseteq slips' /\ slips' \subseteq slips \union {"backdated", "unwritten"}
    /\ UNCHANGED <<clients, inbox, sockets, ticket, picture, missed, unheard>>

LEMMA NothingWritten ==
    ASSUME TypeOK, UNCHANGED <<row, rowStatus, stamped, reopened>>
    PROVE  Grown
BY Sizes DEF Grown, StillOpen

LEMMA WriteGrows ==
    ASSUME TypeOK, NEW orders \in SUBSET Orders, NEW st, Write(orders, st),
           stamped' \in {stamped, Stamp(orders)}
    PROVE  /\ Grown
           /\ \A o \in orders : row'[o] = row[o] + 1 /\ row'[o] # Absent
           /\ stamped' = Stamp(orders) => \A o \in orders : stamped'[o] = row'[o]
<1>1. /\ \A o \in orders : row[o] # Absent
      /\ row' = [o \in Orders |-> IF o \in orders THEN row[o] + 1 ELSE row[o]]
      /\ rowStatus' = [o \in Orders |-> IF o \in orders THEN st ELSE rowStatus[o]]
      /\ reopened' = IF st \in Open THEN reopened \union {o \in orders : rowStatus[o] \notin Open}
                     ELSE reopened
  BY DEF Write
<1>2. Stamp(orders) = [o \in Orders |-> IF o \in orders THEN row[o] + 1 ELSE stamped[o]]
  BY DEF Stamp
<1>3. \A o \in Orders : row[o] \in Nat
  BY Sizes
<1>4. \A o \in orders : row'[o] = row[o] + 1 /\ row'[o] # Absent
  BY <1>1, <1>3 DEF Absent
<1>5. ASSUME NEW o \in Orders
      PROVE  row[o] <= row'[o] /\ stamped'[o] \in {stamped[o], row'[o]}
             /\ (row'[o] # Absent => row[o] # Absent)
  <2>1. CASE o \in orders
    BY <1>1, <1>2, <1>3, <2>1
  <2>2. CASE o \notin orders
    BY <1>1, <1>2, <1>3, <2>2
  <2> QED  BY <2>1, <2>2
<1>6. ASSUME NEW o \in Orders, StillOpen(o)' PROVE StillOpen(o)
  <2>1. row[o] # Absent /\ rowStatus'[o] \in Open /\ o \notin reopened'
    BY <1>5, <1>6 DEF StillOpen
  <2>2. reopened \subseteq reopened'
    BY <1>1
  <2>3. CASE o \in orders
    BY <1>1, <2>1, <2>2, <2>3 DEF StillOpen
  <2>4. CASE o \notin orders
    BY <1>1, <2>1, <2>2, <2>4 DEF StillOpen
  <2> QED  BY <2>3, <2>4
<1>7. stamped' = Stamp(orders) => \A o \in orders : stamped'[o] = row'[o]
  BY <1>1, <1>2
<1> QED  BY <1>4, <1>5, <1>6, <1>7 DEF Grown

\* What is written is published.
LEMMA AnnounceIsLoud ==
    ASSUME TypeOK, NEW o \in Orders, Announce(o) \/ Backdate(o)
    PROVE  Loud(o)
<1>1. PICK st \in Announced :
          Write({o}, st) /\ Send([order |-> o, rank |-> row[o] + 1, status |-> st])
  BY DEF Announce, Backdate
<1> DEFINE e == [order |-> o, rank |-> row[o] + 1, status |-> st]
<1>2. stamped' \in {stamped, Stamp({o})} /\ st \in Statuses
  BY KnownStatuses DEF Announce, Backdate
<1>3. Grown /\ row'[o] = row[o] + 1 /\ row'[o] # Absent
  BY <1>1, <1>2, WriteGrows
<1>4. e \in News
  BY <1>1, <1>2, WriteTyped DEF News
<1>5. /\ outbox' = outbox \union {e}
      /\ told' = IF e.status \in Outcomes THEN told \union {o} ELSE told
  BY <1>1 DEF Send
<1>6. due' = [due EXCEPT ![o] = row[o] + 1] /\ due \in [Orders -> Writes]
  BY DEF Announce, Backdate, TypeOK
<1>7. due'[o] = row'[o] /\ \A p \in Orders \ {o} : due'[p] = due[p]
  BY <1>3, <1>6
<1>8. "backdated" \notin slips' => stamped'[o] = row'[o]
  <2>1. CASE Announce(o)
    <3>1. stamped' = Stamp({o})
      BY <2>1 DEF Announce
    <3> QED  BY <1>1, <3>1, WriteGrows
  <2>2. CASE Backdate(o)
    BY <2>2 DEF Backdate
  <2> QED  BY <2>1, <2>2
<1>9. /\ slips \subseteq slips' /\ slips' \subseteq slips \union {"backdated", "unwritten"}
      /\ UNCHANGED <<clients, inbox, sockets, ticket, picture, missed, unheard>>
  BY DEF Announce, Backdate
<1>10. e.order = o /\ e.rank = row'[o]
  BY <1>3
<1> HIDE DEF e
<1> QED  BY <1>3, <1>4, <1>5, <1>7, <1>8, <1>9, <1>10 DEF Loud

\* What was written before is published again.
LEMMA RepeatIsLoud ==
    ASSUME TypeOK, NEW o \in Orders, Republish(o) \/ ReportUnwritten(o)
    PROVE  Loud(o)
<1>1. PICK st \in Statuses : Send([order |-> o, rank |-> row[o], status |-> st])
  BY KnownStatuses DEF Republish, ReportUnwritten, Submitted, TypeOK
<1> DEFINE e == [order |-> o, rank |-> row[o], status |-> st]
<1>2. UNCHANGED <<row, rowStatus, stamped, due, reopened>> /\ row[o] # Absent
  BY DEF Republish, ReportUnwritten, Submitted
<1>3. Grown
  BY <1>2, NothingWritten
<1>4. e \in News /\ e.order = o /\ e.rank = row'[o]
  BY <1>2 DEF News, TypeOK
<1>5. /\ outbox' = outbox \union {e}
      /\ told' = IF e.status \in Outcomes THEN told \union {o} ELSE told
  BY <1>1 DEF Send
<1>6. /\ slips \subseteq slips' /\ slips' \subseteq slips \union {"backdated", "unwritten"}
      /\ UNCHANGED <<clients, inbox, sockets, ticket, picture, missed, unheard>>
  BY DEF Republish, ReportUnwritten
<1> HIDE DEF e
<1> QED  BY <1>2, <1>3, <1>4, <1>5, <1>6 DEF Loud

\* What is written without a word.
LEMMA SilenceIsQuiet ==
    ASSUME TypeOK, NEW o \in Orders, WriteSilently(o)
    PROVE  Quiet /\ Aside
<1>1. PICK st \in Unannounced : Write({o}, st) /\ stamped' \in {stamped, Stamp({o})}
  BY DEF WriteSilently
<1>2. Grown
  BY <1>1, WriteGrows
<1> QED  BY <1>2 DEF WriteSilently, Quiet, Aside

LEMMA FetchAsks ==
    ASSUME TypeOK, Fetch
    PROVE  /\ Asked'
           /\ \A s \in Slots : reads'[s].rows = reads[s].rows /\ reads'[s].open = reads[s].open
<1>1. PICK s \in Slots : reads' = [reads EXCEPT ![s].stage = "asked"]
  BY DEF Fetch
<1>2. \A t \in Slots : reads[t] \in Read
  BY DEF TypeOK, Read
<1>3. DOMAIN reads = Slots
  BY DEF TypeOK
<1>4. reads'[s] = [reads[s] EXCEPT !.stage = "asked"] /\ \A t \in Slots \ {s} : reads'[t] = reads[t]
  BY <1>1, <1>3
<1>5. /\ reads'[s].stage = "asked" /\ reads'[s].rows = reads[s].rows
      /\ reads'[s].open = reads[s].open
  BY <1>2, <1>4 DEF Read
<1> QED  BY <1>4, <1>5 DEF Asked

LEMMA CancelIsQuiet ==
    ASSUME TypeOK, Cancel
    PROVE  Quiet /\ Asks
<1>1. PICK orders \in SUBSET Orders :
          Write(orders, "CANCEL_REQUESTED") /\ stamped' = Stamp(orders)
  BY DEF Cancel
<1>2. Grown
  BY <1>1, WriteGrows
<1>3. Ask /\ UNCHANGED <<due, told, outbox, clients, inbox>>
  BY DEF Cancel
<1>4. /\ Asked'
      /\ \A s \in Slots : reads'[s].rows = reads[s].rows /\ reads'[s].open = reads[s].open
  BY <1>3, FetchAsks DEF Ask, Replay
<1> QED  BY <1>2, <1>3, <1>4 DEF Ask, Quiet, Asks

LEMMA Steps ==
    ASSUME TypeOK, [Next]_vars
    PROVE  \/ \E o \in Orders : Loud(o) \/ PlaceOrder(o) \/ StoreOrder(o)
           \/ \E e \in outbox : Publish(e) \/ LosePublication(e)
           \/ \E i \in Insts : Accept(i) \/ Closes(i) \/ Hear(i)
           \/ \E gone \in SUBSET Insts : Break(gone)
           \/ Quiet /\ (Aside \/ Asks \/ \E s \in Slots : ReadStep(s))
<1>0. sock \in [Insts -> Stages] /\ inst \in Insts /\ clients \subseteq Insts
  BY DEF TypeOK
<1>a. UNCHANGED rows => Grown
  BY NothingWritten
<1>1. ASSUME NEW i \in Insts, GetToken(i) \/ Throws(i) \/ Refuse(i) \/ Reconnect(i)
      PROVE  Quiet /\ Aside
  <2>1. \A j \in Insts : sock'[j] = "open" => sock[j] = "open"
    BY <1>0, <1>1 DEF GetToken, Throws, AfterClose, Refuse, Reconnect
  <2> QED  BY <1>a, <1>1, <2>1 DEF GetToken, Throws, Refuse, Reconnect, Quiet, Aside
<1>2. ASSUME NEW i \in Insts, AuthFails(i) PROVE Quiet /\ Aside
  <2>1. \A j \in Insts : sock'[j] = "open" => sock[j] = "open"
    BY <1>2, CleanedUpTyped DEF AuthFails, Live
  <2> QED  BY <1>a, <1>2, <2>1 DEF AuthFails, Quiet, Aside
<1>3. ASSUME NEW i \in Insts, Opens(i) PROVE Quiet /\ Asks
  <2>1. /\ Asked'
        /\ \A s \in Slots : reads'[s].rows = reads[s].rows /\ reads'[s].open = reads[s].open
    BY <1>3, FetchAsks DEF Opens, Replay
  <2> QED  BY <1>0, <1>a, <1>3, <2>1 DEF Opens, Quiet, Asks
<1>4. ASSUME NEW o \in Orders, OrderAccepted(o) PROVE Quiet /\ Asks
  <2>1. /\ Asked'
        /\ \A s \in Slots : reads'[s].rows = reads[s].rows /\ reads'[s].open = reads[s].open
    BY <1>4, FetchAsks DEF OrderAccepted
  <2>2. \A p \in Orders : post'[p] # "sent" \/ post'[p] = post[p]
    BY <1>4 DEF OrderAccepted, TypeOK
  <2> QED  BY <1>a, <1>4, <2>1, <2>2 DEF OrderAccepted, Quiet, Asks
<1>5. ASSUME NEW o \in Orders, OrderFails(o) PROVE Quiet /\ Aside
  <2>1. \A p \in Orders : post'[p] = post[p] \/ post'[p] = "failed"
    BY <1>5 DEF OrderFails, TypeOK
  <2> QED  BY <1>a, <1>5, <2>1 DEF OrderFails, Quiet, Aside
<1>6. ASSUME Resume PROVE Quiet /\ Asks
  <2>1. /\ Asked'
        /\ \A s \in Slots : reads'[s].rows = reads[s].rows /\ reads'[s].open = reads[s].open
    BY <1>6, FetchAsks DEF Resume, Ask, Replay
  <2> QED  BY <1>a, <1>6, <2>1 DEF Resume, Ask, Quiet, Asks
<1>7. ASSUME NEW s \in Slots, ReadStep(s) PROVE Quiet
  BY <1>a, <1>7 DEF ReadStep, ReadRows, ShowRows, FetchFails, Quiet
<1>8. ASSUME UNCHANGED vars PROVE Quiet /\ Aside
  BY <1>a, <1>8 DEF vars, Quiet, Aside
<1>9. ASSUME FeedStep
      PROVE  \/ \E o \in Orders : Loud(o)
             \/ \E e \in outbox : Publish(e) \/ LosePublication(e)
             \/ \E i \in Insts : Accept(i)
             \/ \E gone \in SUBSET Insts : Break(gone)
             \/ Quiet /\ Aside
  <2>1. ASSUME NEW i \in Insts, BreakConnection(i) PROVE \E gone \in SUBSET Insts : Break(gone)
    <3>1. Break({i})
      BY <2>1 DEF BreakConnection
    <3> QED  BY <3>1
  <2>2. ASSUME Restart PROVE \E gone \in SUBSET Insts : Break(gone)
    BY <1>0, <2>2 DEF Restart
  <2>3. ASSUME NEW o \in Orders, RowStep(o) PROVE Loud(o) \/ (Quiet /\ Aside)
    BY <2>3, AnnounceIsLoud, RepeatIsLoud, SilenceIsQuiet DEF RowStep
  <2> QED  BY <1>9, <2>1, <2>2, <2>3 DEF FeedStep
<1>10. ASSUME NEW i \in Insts, SocketStep(i)
       PROVE  Closes(i) \/ Hear(i) \/ (Quiet /\ (Aside \/ Asks))
  BY <1>1, <1>2, <1>3, <1>10 DEF SocketStep
<1>11. ASSUME NEW o \in Orders, OrderStep(o)
       PROVE  PlaceOrder(o) \/ StoreOrder(o) \/ (Quiet /\ (Aside \/ Asks))
  BY <1>4, <1>5, <1>11 DEF OrderStep
<1> QED  BY <1>6, <1>7, <1>8, <1>9, <1>10, <1>11, CancelIsQuiet DEF Next, PageStep

LEMMA RegisteredKept ==
    ASSUME Inv, Registered, [Next]_vars
    PROVE  Registered'
<1>0. TypeOK /\ clients \subseteq Insts /\ sock \in [Insts -> Stages]
  BY DEF Inv, TypeOK
<1>1. ASSUME NEW o \in Orders, Loud(o) \/ StoreOrder(o) PROVE Registered'
  BY <1>1, RegisteredWithout DEF Loud, StoreOrder
<1>2. ASSUME NEW o \in Orders, PlaceOrder(o) PROVE Registered'
  <2>1. RunEffect(o) /\ UNCHANGED <<clients, inbox>>
    BY <1>2 DEF PlaceOrder
  <2> QED  BY <2>1, NextRun, RegisteredWithout
<1>3. ASSUME NEW e \in outbox, Publish(e) PROVE Registered'
  BY <1>0, <1>3, PublishEffect DEF Registered
<1>4. ASSUME NEW e \in outbox, LosePublication(e) PROVE Registered'
  BY <1>4, RegisteredWithout DEF LosePublication
<1>5. ASSUME NEW i \in Insts, Accept(i) PROVE Registered'
  BY <1>0, <1>5 DEF Accept, Registered
<1>6. ASSUME NEW gone \in SUBSET Insts, Break(gone) PROVE Registered'
  <2>1. \A i \in Insts : i \notin clients' => inbox'[i] = <<>>
    BY <1>0, <1>6, BreakEffect DEF Registered
  <2>2. \A i \in Insts : sock'[i] = "open" => i \in clients'
    BY <1>0, <1>6, BreakEffect DEF Registered
  <2> QED  BY <2>1, <2>2 DEF Registered
<1>7. ASSUME NEW i \in Insts, Closes(i) PROVE Registered'
  <2>1. \A j \in Insts : j \notin clients' => inbox'[j] = <<>>
    BY <1>0, <1>7, ClosesEffect DEF Registered
  <2>2. \A j \in Insts : sock'[j] = "open" => j \in clients'
    BY <1>0, <1>7, ClosesEffect DEF Registered
  <2> QED  BY <2>1, <2>2 DEF Registered
<1>8. ASSUME NEW i \in Insts, Hear(i) PROVE Registered'
  <2>1. /\ \A j \in Insts \ {i} : inbox'[j] = inbox[j]
        /\ sock[i] = "open" /\ clients' = clients
        /\ RunEffect(NoOrder) \/ UNCHANGED sockets
    BY <1>0, <1>8, HearEffect
  <2>2. i \in clients
    BY <2>1 DEF Registered
  <2>3. \A j \in Insts : sock'[j] = "open" => sock[j] = "open"
    BY <2>1, NextRun
  <2> QED  BY <2>1, <2>2, <2>3 DEF Registered
<1>9. ASSUME Quiet PROVE Registered'
  BY <1>9, RegisteredWithout DEF Quiet
<1> QED  BY <1>0, <1>1, <1>2, <1>3, <1>4, <1>5, <1>6, <1>7, <1>8, <1>9, Steps

LEMMA TravellingNews ==
    ASSUME TypeOK
    PROVE  \A e \in Travelling : e \in News /\ e.order \in Orders /\ e.rank \in Nat
BY Sizes DEF Travelling

\* What a row that grew is now.
LEMMA GrownSizes ==
    ASSUME TypeOK, TypeOK', Grown, NEW o \in Orders
    PROVE  /\ row[o] \in Nat /\ row'[o] \in Nat /\ row[o] <= row'[o]
           /\ \A n \in Nat : n <= row[o] => n <= row'[o]
<1>1. row[o] \in Nat /\ row'[o] \in Nat
  BY Sizes, WritesAreNumbers DEF TypeOK
<1> QED  BY <1>1 DEF Grown

\* Rows grow, and what the page shows does not change.
LEMMA RowsGoOn ==
    ASSUME TypeOK, TypeOK', ShownBehind, Grown, UNCHANGED <<list, ordersById>>,
           \A s \in Slots : reads'[s].rows = reads[s].rows
    PROVE  ShownBehind'
<1>1. \A o \in Orders : list[o] <= row'[o] /\ ordersById[o] <= row'[o]
  BY Sizes, GrownSizes DEF ShownBehind
<1>2. \A o \in Orders, s \in Slots : reads[s].rows[o] <= row'[o]
  BY Sizes, GrownSizes DEF ShownBehind
<1> QED  BY <1>1, <1>2 DEF ShownBehind

\* ... and what is sent is not newer.
LEMMA NewsStaysBehind ==
    ASSUME TypeOK, TypeOK', SentBehind, Grown, NEW e \in Travelling
    PROVE  e.rank <= row'[e.order]
<1>1. e.order \in Orders /\ e.rank \in Nat /\ e.rank <= row[e.order]
  BY TravellingNews DEF SentBehind
<1> QED  BY <1>1, GrownSizes

\* ... and what is to be shown of an order is its newest event.
LEMMA RowsStayBehind ==
    ASSUME TypeOK, TypeOK', RowsBehind, Grown, slips \subseteq slips',
           \A o \in Orders :
              /\ \/ due'[o] = due[o]
                 \/ due'[o] = row'[o] /\ ("backdated" \notin slips' => stamped'[o] = row'[o])
              /\ o \in told' => o \in told \/ row'[o] # Absent
              /\ post'[o] = "sent" => post[o] = "sent"
    PROVE  RowsBehind'
<1> SUFFICES ASSUME NEW o \in Orders
             PROVE  /\ stamped'[o] <= row'[o] /\ due'[o] <= row'[o]
                    /\ "backdated" \notin slips' => due'[o] <= stamped'[o]
                    /\ o \in told' => row'[o] # Absent
                    /\ post'[o] = "sent" => row'[o] = Absent
  BY DEF RowsBehind
<1>1. /\ row[o] \in Nat /\ row'[o] \in Nat /\ row[o] <= row'[o]
      /\ stamped[o] \in Nat /\ due[o] \in Nat
  BY Sizes, GrownSizes
<1>2. /\ stamped[o] <= row[o] /\ due[o] <= row[o]
      /\ "backdated" \notin slips => due[o] <= stamped[o]
      /\ o \in told => row[o] # Absent
      /\ post[o] = "sent" => row[o] = Absent
  BY DEF RowsBehind
<1>3. /\ stamped'[o] \in {stamped[o], row'[o]}
      /\ row'[o] # Absent => row[o] # Absent
  BY DEF Grown
<1>4. row[o] # Absent => row'[o] # Absent
  BY <1>1 DEF Absent
<1>5. stamped'[o] <= row'[o] /\ due'[o] <= row'[o]
  BY <1>1, <1>2, <1>3
<1>6. "backdated" \notin slips' => due'[o] <= stamped'[o]
  BY <1>1, <1>2, <1>3
<1> QED  BY <1>2, <1>3, <1>4, <1>5, <1>6

LEMMA StoreOrderEffect ==
    ASSUME TypeOK, Behind, NEW o \in Orders, StoreOrder(o)
    PROVE  /\ row[o] = Absent /\ row'[o] = 1 /\ post[o] = "sent" /\ post'[o] = "stored"
           /\ \A p \in Orders \ {o} : row'[p] = row[p] /\ post'[p] = post[p]
           /\ \A p \in Orders \ {o} : StillOpen(p)' => StillOpen(p)
           /\ UNCHANGED <<stamped, due, told, outbox, clients, inbox, sockets, pending, placing,
                          picture, history>>
<1>1. /\ post[o] = "sent" /\ post' = [post EXCEPT ![o] = "stored"]
      /\ row' = [row EXCEPT ![o] = 1] /\ rowStatus' = [rowStatus EXCEPT ![o] = "RECEIVED"]
      /\ UNCHANGED <<stamped, due, told, reopened, outbox, clients, inbox, sockets, pending,
                     placing, picture, history>>
  BY DEF StoreOrder
<1>2. row[o] = Absent
  BY <1>1 DEF Behind, RowsBehind
<1>3. row'[o] = 1 /\ \A p \in Orders \ {o} : row'[p] = row[p] /\ post'[p] = post[p]
  BY <1>1 DEF TypeOK
<1>4. post'[o] = "stored" /\ \A p \in Orders \ {o} : rowStatus'[p] = rowStatus[p]
  BY <1>1 DEF TypeOK
<1> QED  BY <1>1, <1>2, <1>3, <1>4 DEF StillOpen

\* What the backend answers of an order is between what is to be shown and
\* what is written, and is something if there is a row.
LEMMA Labels ==
    ASSUME TypeOK, Behind, NEW o \in Orders
    PROVE  /\ Label(o) \in Nat /\ Label(o) <= row[o]
           /\ "backdated" \notin slips => due[o] <= Label(o)
           /\ Label(o) # Absent <=> row[o] # Absent
<1>1. /\ row[o] \in Nat /\ stamped[o] \in Nat /\ due[o] \in Nat
      /\ stamped[o] <= row[o] /\ due[o] <= row[o]
      /\ "backdated" \notin slips => due[o] <= stamped[o]
  BY Sizes DEF Behind, RowsBehind
<1>2. CASE stamped[o] # Absent
  BY <1>1, <1>2 DEF Label, Absent
<1>3. CASE stamped[o] = Absent
  BY <1>1, <1>3 DEF Label, Absent
<1> QED  BY <1>2, <1>3

\* The rows as the backend answers them.
Labelled == [o \in Orders |-> Label(o)]

OpenRows == {o \in Orders : row[o] # Absent /\ rowStatus[o] \in Open}

\* What becomes of the lists when an answer arrives or a fetch fails.
LEMMA ReadEffect ==
    ASSUME TypeOK, NEW s \in Slots, ReadStep(s)
    PROVE  /\ \A t \in Slots \ {s} : reads'[t] = reads[t]
           /\ UNCHANGED <<feed, sockets, ticket, ordersById>>
           /\ \/ /\ reads[s].stage = "asked"
                 /\ reads'[s] = [stage |-> "answered", rows |-> Labelled, open |-> OpenRows]
                 /\ UNCHANGED <<list, openIds, slips>>
              \/ /\ reads[s].stage = "answered" /\ reads'[s] = Idle
                 /\ list' = reads[s].rows /\ openIds' = reads[s].open
                 /\ slips \subseteq slips'
                 /\ slips' = {} => \A o \in Orders : ~ (reads[s].rows[o] < list[o])
              \/ reads'[s] = Idle /\ list' = NoRows /\ openIds' = {} /\ slips' # {}
<1>0. reads \in [Slots -> Read]
  BY DEF TypeOK, Read
<1>1. CASE ReadRows(s)
  <2>1. /\ reads[s].stage = "asked"
        /\ reads' = [reads EXCEPT ![s] = [stage |-> "answered", rows |-> Labelled, open |-> OpenRows]]
        /\ UNCHANGED <<feed, sockets, ticket, ordersById, list, openIds, history>>
    BY <1>1 DEF ReadRows, Labelled, OpenRows
  <2> QED  BY <1>0, <2>1
<1>2. CASE ShowRows(s)
  <2>1. /\ reads[s].stage = "answered" /\ reads' = [reads EXCEPT ![s] = Idle]
        /\ list' = reads[s].rows /\ openIds' = reads[s].open
        /\ UNCHANGED <<feed, sockets, ticket, ordersById>>
    BY <1>2 DEF ShowRows
  <2>2. slips \subseteq slips' /\ (slips' = {} => \A o \in Orders : ~ (reads[s].rows[o] < list[o]))
    BY <1>2 DEF ShowRows
  <2> QED  BY <1>0, <2>1, <2>2
<1>3. CASE FetchFails(s)
  <2>1. /\ reads' = [reads EXCEPT ![s] = Idle]
        /\ list' = NoRows /\ openIds' = {}
        /\ UNCHANGED <<feed, sockets, ticket, ordersById>>
        /\ slips' = slips \union {"failed"}
    BY <1>3 DEF FetchFails
  <2> QED  BY <1>0, <2>1
<1> QED  BY <1>1, <1>2, <1>3 DEF ReadStep

LEMMA BehindKept ==
    ASSUME Inv, Inv', Registered, Behind, [Next]_vars
    PROVE  Behind'
<1>0. /\ TypeOK /\ TypeOK' /\ clients \subseteq Insts /\ sock \in [Insts -> Stages]
      /\ post \in [Orders -> {"none", "sent", "stored", "done", "failed"}]
      /\ ordersById \in [Orders -> Writes]
  BY DEF Inv, TypeOK
<1>s. ShownBehind /\ SentBehind /\ RowsBehind
  BY DEF Behind
<1>r. \A o \in Orders : row[o] \in Nat
  BY <1>0, Sizes
<1>1. ASSUME NEW o \in Orders, Loud(o) PROVE Behind'
  <2>1. Grown /\ UNCHANGED <<inbox, picture, post>> /\ slips \subseteq slips'
    BY <1>1 DEF Loud
  <2>2. PICK e \in News : /\ e.order = o /\ e.rank = row'[o] /\ outbox' = outbox \union {e}
                          /\ told' = IF e.status \in Outcomes THEN told \union {o} ELSE told
    BY <1>1 DEF Loud
  <2>3. ShownBehind'
    BY <1>0, <1>s, <2>1, RowsGoOn
  <2>4. SentBehind'
    <3>1. Travelling' \subseteq Travelling \union {e}
      BY <2>1, <2>2 DEF Travelling
    <3>2. \A f \in Travelling : f.rank <= row'[f.order]
      BY <1>0, <1>s, <2>1, NewsStaysBehind
    <3>3. e.rank <= row'[e.order]
      BY <1>0, <2>1, <2>2, GrownSizes
    <3> QED  BY <3>1, <3>2, <3>3 DEF SentBehind
  <2>5. RowsBehind'
    <3>1. row'[o] # Absent /\ told' \subseteq told \union {o} /\ post' = post
      BY <1>1, <2>1, <2>2 DEF Loud
    <3>2. \A p \in Orders :
             \/ due'[p] = due[p]
             \/ due'[p] = row'[p] /\ ("backdated" \notin slips' => stamped'[p] = row'[p])
      BY <1>1 DEF Loud
    <3> QED  BY <1>0, <1>s, <2>1, <3>1, <3>2, RowsStayBehind
  <2> QED  BY <2>3, <2>4, <2>5 DEF Behind
<1>2. ASSUME NEW o \in Orders, StoreOrder(o) PROVE Behind'
  <2>1. /\ row[o] = Absent /\ row'[o] = 1 /\ post[o] = "sent" /\ post'[o] = "stored"
        /\ \A p \in Orders \ {o} : row'[p] = row[p] /\ post'[p] = post[p]
        /\ UNCHANGED <<stamped, due, told, outbox, inbox, picture, slips>>
    BY <1>0, <1>2, StoreOrderEffect
  <2>2. \A p \in Orders : row'[p] \in Nat /\ (\A n \in Nat : n <= row[p] => n <= row'[p])
    BY <1>r, <2>1 DEF Absent
  <2>3. ShownBehind'
    <3>1. \A p \in Orders : list[p] <= row'[p] /\ ordersById[p] <= row'[p]
      BY <1>0, <1>s, <2>2, Sizes DEF ShownBehind
    <3>2. \A p \in Orders, s \in Slots : reads[s].rows[p] <= row'[p]
      BY <1>0, <1>s, <2>2, Sizes DEF ShownBehind
    <3> QED  BY <2>1, <3>1, <3>2 DEF ShownBehind
  <2>4. SentBehind'
    <3>1. Travelling' = Travelling
      BY <2>1 DEF Travelling
    <3> QED  BY <1>0, <1>s, <2>2, <3>1, TravellingNews DEF SentBehind
  <2>5. RowsBehind'
    <3>1. \A p \in Orders : stamped[p] \in Nat /\ due[p] \in Nat
      BY <1>0, Sizes
    <3>2. \A p \in Orders : stamped[p] <= row'[p] /\ due[p] <= row'[p]
      BY <1>s, <2>2, <3>1 DEF RowsBehind
    <3>3. \A p \in Orders : p \in told => row'[p] # Absent
      BY <1>s, <2>1 DEF RowsBehind
    <3>4. \A p \in Orders : post'[p] = "sent" => row'[p] = Absent
      BY <1>s, <2>1 DEF RowsBehind
    <3> QED  BY <1>s, <2>1, <3>2, <3>3, <3>4 DEF RowsBehind
  <2> QED  BY <2>3, <2>4, <2>5 DEF Behind
<1>3. ASSUME Travelling' \subseteq Travelling, UNCHANGED <<rows, post, picture>>, slips \subseteq slips'
      PROVE  Behind'
  BY <1>3 DEF Behind, ShownBehind, SentBehind, RowsBehind
<1>4. ASSUME NEW o \in Orders, PlaceOrder(o) PROVE Behind'
  <2>1. /\ UNCHANGED <<feed, picture, history>> /\ row[o] = Absent
        /\ \A p \in Orders \ {o} : post'[p] = post[p]
    BY <1>0, <1>4 DEF PlaceOrder
  <2>2. Travelling' = Travelling
    BY <2>1 DEF Travelling
  <2> QED  BY <2>1, <2>2 DEF Behind, ShownBehind, SentBehind, RowsBehind
<1>5. ASSUME NEW e \in outbox, Publish(e) PROVE Behind'
  <2>1. \A i \in Insts : Messages(inbox'[i]) \subseteq Messages(inbox[i]) \union {e}
    BY <1>0, <1>5, PublishEffect
  <2>2. Travelling' \subseteq Travelling
    <3>1. outbox' = outbox \ {e}
      BY <1>0, <1>5, PublishEffect
    <3>2. \A i \in Insts : Messages(inbox'[i]) \subseteq Travelling
      BY <2>1 DEF Travelling
    <3> QED  BY <3>1, <3>2 DEF Travelling
  <2> QED  BY <1>0, <1>3, <1>5, <2>2, PublishEffect
<1>6. ASSUME NEW e \in outbox, LosePublication(e) PROVE Behind'
  <2>1. Travelling' \subseteq Travelling
    BY <1>6 DEF LosePublication, Travelling
  <2> QED  BY <1>3, <1>6, <2>1 DEF LosePublication
<1>7. ASSUME NEW i \in Insts, Accept(i) PROVE Behind'
  BY <1>3, <1>7 DEF Accept, Travelling
<1>8. ASSUME NEW gone \in SUBSET Insts, Break(gone) PROVE Behind'
  <2>1. \A i \in Insts : Messages(inbox'[i]) \subseteq Messages(inbox[i])
    BY <1>0, <1>8, BreakEffect, NoMessages
  <2>2. Travelling' \subseteq Travelling
    BY <1>0, <1>8, <2>1, BreakEffect DEF Travelling
  <2> QED  BY <1>0, <1>3, <1>8, <2>2, BreakEffect
<1>9. ASSUME NEW i \in Insts, Closes(i) PROVE Behind'
  <2>1. \A j \in Insts : Messages(inbox'[j]) \subseteq Messages(inbox[j])
    BY <1>0, <1>9, ClosesEffect, NoMessages
  <2>2. Travelling' \subseteq Travelling
    BY <1>0, <1>9, <2>1, ClosesEffect DEF Travelling
  <2> QED  BY <1>0, <1>3, <1>9, <2>2, ClosesEffect
<1>10. ASSUME NEW i \in Insts, Hear(i) PROVE Behind'
  <2>1. PICK e \in Messages(inbox[i]) :
           /\ ordersById' = [ordersById EXCEPT ![e.order] = e.rank]
           /\ Messages(inbox[i]) = {e} \union Messages(inbox'[i])
           /\ \A j \in Insts \ {i} : inbox'[j] = inbox[j]
           /\ UNCHANGED <<rows, outbox, post, list, reads, history>>
    BY <1>0, <1>10, HearEffect
  <2>2. e \in Travelling /\ Travelling' \subseteq Travelling
    BY <2>1 DEF Travelling
  <2>3. \A o \in Orders : ordersById'[o] <= row[o]
    <3>1. e.order \in Orders /\ e.rank <= row[e.order]
      BY <1>0, <1>s, <2>2, TravellingNews DEF SentBehind
    <3> QED  BY <1>0, <1>s, <2>1, <3>1 DEF ShownBehind
  <2> QED  BY <1>s, <2>1, <2>2, <2>3 DEF Behind, ShownBehind, SentBehind, RowsBehind
<1>11. ASSUME Quiet, \A o \in Orders : post'[o] = "sent" => post[o] = "sent"
       PROVE  SentBehind' /\ RowsBehind'
  <2>1. Grown /\ UNCHANGED <<due, told>> /\ Travelling' = Travelling /\ slips \subseteq slips'
    BY <1>11 DEF Quiet, Travelling
  <2>2. SentBehind'
    <3>1. \A f \in Travelling : f.rank <= row'[f.order]
      BY <1>0, <1>s, <2>1, NewsStaysBehind
    <3> QED  BY <2>1, <3>1 DEF SentBehind
  <2>3. RowsBehind'
    BY <1>0, <1>s, <1>11, <2>1, RowsStayBehind
  <2> QED  BY <2>2, <2>3
<1>12. ASSUME Quiet, Aside PROVE Behind'
  <2>1. \A o \in Orders : post'[o] = "sent" => post[o] = "sent"
    BY <1>12 DEF Aside
  <2>2. Grown /\ UNCHANGED <<list, ordersById, reads>>
    BY <1>12 DEF Quiet, Aside
  <2> QED  BY <1>0, <1>s, <1>11, <1>12, <2>1, <2>2, RowsGoOn DEF Behind
<1>13. ASSUME Quiet, Asks PROVE Behind'
  <2>1. \A o \in Orders : post'[o] = "sent" => post[o] = "sent"
    BY <1>13 DEF Asks
  <2>2. Grown /\ UNCHANGED <<list, ordersById>> /\ \A s \in Slots : reads'[s].rows = reads[s].rows
    BY <1>13 DEF Quiet, Asks
  <2> QED  BY <1>0, <1>s, <1>11, <1>13, <2>1, <2>2, RowsGoOn DEF Behind
<1>14. ASSUME Quiet, NEW s \in Slots, ReadStep(s) PROVE Behind'
  <2>1. /\ \A t \in Slots \ {s} : reads'[t] = reads[t]
        /\ UNCHANGED <<row, post, ordersById>>
    BY <1>0, <1>14, ReadEffect
  <2>2. \A o \in Orders : list'[o] <= row[o] /\ reads'[s].rows[o] <= row[o]
    <3>1. \A o \in Orders : NoRows[o] <= row[o] /\ Idle.rows[o] <= row[o] /\ Labelled[o] <= row[o]
      BY <1>0, <1>r, Labels DEF NoRows, Idle, Absent, Labelled
    <3>2. \A o \in Orders : list[o] <= row[o] /\ reads[s].rows[o] <= row[o]
      BY <1>s DEF ShownBehind
    <3>3. list' \in {list, reads[s].rows, NoRows}
      BY <1>0, <1>14, ReadEffect
    <3>4. reads'[s].rows \in {Labelled, Idle.rows}
      BY <1>0, <1>14, ReadEffect
    <3> QED  BY <3>1, <3>2, <3>3, <3>4
  <2>3. ShownBehind'
    BY <1>s, <2>1, <2>2 DEF ShownBehind
  <2> QED  BY <1>11, <1>14, <2>1, <2>3 DEF Behind
<1> QED  BY <1>0, <1>1, <1>2, <1>4, <1>5, <1>6, <1>7, <1>8, <1>9, <1>10, <1>12, <1>13, <1>14, Steps

------------------------------------------------------------------------------
(* no news goes back                                                       *)

Orderly == slips \intersect {"reordered", "leaked"} = {}

\* Nothing overtakes: the parts of InOrder.
HeardFirst ==
    /\ \A e \in outbox : ordersById[e.order] <= e.rank
    /\ \A m \in Messages(inbox[inst]) : ordersById[m.order] <= m.rank

SentFirst ==
    /\ \A i \in Insts : Sorted(inbox[i])
    /\ \A i \in Insts : \A m \in Messages(inbox[i]), e \in outbox :
          m.order = e.order => m.rank <= e.rank

LEMMA InOrderParts == InOrder <=> (Orderly => HeardFirst /\ SentFirst)
BY DEF InOrder, Orderly, HeardFirst, SentFirst

LEMMA InOrderPartsNext == InOrder' <=> (Orderly' => HeardFirst' /\ SentFirst')
BY DEF InOrder, Orderly, HeardFirst, SentFirst

\* Some messages are gone, and nothing else has changed.
LEMMA SomeGone ==
    ASSUME TypeOK, HeardFirst, SentFirst, outbox' \subseteq outbox, UNCHANGED <<inst, ordersById>>,
           \A i \in Insts : inbox'[i] \in {inbox[i], <<>>}
    PROVE  HeardFirst' /\ SentFirst'
<1>1. \A i \in Insts : Messages(inbox'[i]) \subseteq Messages(inbox[i]) /\ Sorted(inbox'[i])
  BY NoMessages DEF SentFirst
<1>2. inst \in Insts
  BY DEF TypeOK
<1> QED  BY <1>1, <1>2 DEF HeardFirst, SentFirst

\* A page with one socket hears of its orders through that of its current run.
LEMMA HearsOnce ==
    ASSUME Inv, Orderly, NEW i \in Insts, sock[i] = "open"
    PROVE  i = inst
<1>1. inst \in Nat /\ i \in Nat
  BY DEF Inv, TypeOK, Insts
<1>2. ~ (i < inst) /\ ~ (i > inst)
  BY DEF Inv, OldRunsAreOver, NewRunsAreIdle, Orderly, Live
<1> QED  BY <1>1, <1>2

LEMMA InOrderKept ==
    ASSUME Inv, Registered, Behind, InOrder, [Next]_vars
    PROVE  InOrder'
<1>0. /\ TypeOK /\ clients \subseteq Insts /\ inst \in Insts
      /\ ordersById \in [Orders -> Writes]
      /\ \A i \in Insts : inbox[i] \in Seq(News)
  BY DEF Inv, TypeOK
<1>i. Orderly => HeardFirst /\ SentFirst
  BY InOrderParts
<1>p. ASSUME Orderly' => Orderly, Orderly' => HeardFirst' /\ SentFirst' PROVE InOrder'
  BY <1>p, InOrderPartsNext
<1>1. ASSUME NEW o \in Orders, Loud(o) PROVE InOrder'
  <2>1. /\ row[o] <= row'[o] /\ UNCHANGED <<clients, inbox, sockets, picture>>
        /\ slips' \subseteq slips \union {"backdated", "unwritten"} /\ slips \subseteq slips'
    BY <1>1 DEF Loud, Grown
  <2>2. PICK e \in News : e.order = o /\ e.rank = row'[o] /\ outbox' = outbox \union {e}
    BY <1>1 DEF Loud
  <2>3. /\ ordersById[o] <= row[o] /\ ordersById[o] \in Nat /\ row[o] \in Nat
        /\ e.rank \in Nat
    BY <1>0, Sizes, WritesAreNumbers DEF Behind, ShownBehind, News
  <2>4. ordersById[e.order] <= e.rank
    BY <2>1, <2>2, <2>3
  <2>5. ASSUME NEW i \in Insts, NEW m \in Messages(inbox[i]), m.order = e.order PROVE m.rank <= e.rank
    <3>1. m \in Travelling
      BY DEF Travelling
    <3>2. m.rank \in Nat /\ m.rank <= row[o]
      BY <1>0, <2>2, <2>5, <3>1, TravellingNews DEF Behind, SentBehind
    <3> QED  BY <2>1, <2>2, <2>3, <3>2
  <2>6. ASSUME Orderly PROVE HeardFirst' /\ SentFirst'
    <3>1. HeardFirst'
      BY <1>i, <2>1, <2>2, <2>4, <2>6 DEF HeardFirst
    <3>2. SentFirst'
      BY <1>i, <2>1, <2>2, <2>5, <2>6 DEF SentFirst
    <3> QED  BY <3>1, <3>2
  <2>7. Orderly' => Orderly
    BY <2>1 DEF Orderly
  <2> QED  BY <1>p, <2>6, <2>7
<1>2. ASSUME outbox' \subseteq outbox, UNCHANGED <<inst, ordersById>>, slips \subseteq slips',
             \A i \in Insts : inbox'[i] \in {inbox[i], <<>>}
      PROVE  InOrder'
  <2>1. Orderly' => Orderly
    BY <1>2 DEF Orderly
  <2> QED  BY <1>0, <1>2, <1>i, <1>p, <2>1, SomeGone
<1>3. ASSUME NEW o \in Orders, StoreOrder(o) PROVE InOrder'
  BY <1>2, <1>3 DEF StoreOrder
<1>4. ASSUME NEW o \in Orders, PlaceOrder(o) PROVE InOrder'
  <2>1. RunEffect(o) /\ UNCHANGED <<feed, picture, history>>
    BY <1>4 DEF PlaceOrder
  <2>2. inst' \in Insts /\ inbox[inst'] = <<>>
    BY <2>1, NextRun
  <2>3. ASSUME Orderly PROVE HeardFirst' /\ SentFirst'
    BY <1>i, <2>1, <2>2, <2>3, NoMessages DEF HeardFirst, SentFirst
  <2>4. Orderly' => Orderly
    BY <2>1 DEF Orderly
  <2> QED  BY <1>p, <2>3, <2>4
<1>5. ASSUME NEW e \in outbox, Publish(e) PROVE InOrder'
  <2>1. /\ outbox' = outbox \ {e}
        /\ \A i \in clients : /\ inbox'[i] = Append(inbox[i], e)
                              /\ Messages(inbox'[i]) = Messages(inbox[i]) \union {e}
        /\ \A i \in Insts \ clients : inbox'[i] = inbox[i]
        /\ UNCHANGED <<inst, ordersById>>
        /\ slips \subseteq slips'
        /\ "reordered" \notin slips' => \A f \in outbox : f.order = e.order => f.rank >= e.rank
    BY <1>0, <1>5, PublishEffect
  <2>2. Orderly' => Orderly
    BY <2>1 DEF Orderly
  <2>3. ASSUME Orderly' PROVE HeardFirst' /\ SentFirst'
    <3>1. HeardFirst /\ SentFirst /\ \A f \in outbox : f.order = e.order => e.rank <= f.rank
      <4>1. \A f \in outbox : f.rank \in Nat
        BY <1>0, Sizes
      <4> QED  BY <1>i, <2>1, <2>2, <2>3, <4>1 DEF Orderly
    <3>2. HeardFirst'
      <4>1. Messages(inbox'[inst]) \subseteq Messages(inbox[inst]) \union {e}
        BY <1>0, <2>1
      <4> QED  BY <2>1, <3>1, <4>1 DEF HeardFirst
    <3>3. ASSUME NEW i \in Insts PROVE Sorted(inbox'[i])
      <4>1. CASE i \in clients
        <5>1. e \in News /\ \A m \in Messages(inbox[i]) : m.order = e.order => m.rank <= e.rank
          BY <1>0, <3>1 DEF SentFirst, TypeOK
        <5>2. Sorted(Append(inbox[i], e))
          BY <1>0, <3>1, <5>1, AppendMessages DEF SentFirst
        <5> QED  BY <2>1, <4>1, <5>2
      <4>2. CASE i \notin clients
        BY <2>1, <3>1, <4>2 DEF SentFirst
      <4> QED  BY <4>1, <4>2
    <3>4. ASSUME NEW i \in Insts, NEW m \in Messages(inbox'[i]), NEW f \in outbox', m.order = f.order
          PROVE  m.rank <= f.rank
      <4>1. m \in Messages(inbox[i]) \/ m = e
        BY <2>1, <3>4
      <4> QED  BY <2>1, <3>1, <3>4, <4>1 DEF SentFirst
    <3>5. SentFirst'
      BY <3>3, <3>4 DEF SentFirst
    <3> QED  BY <3>2, <3>5
  <2> QED  BY <1>p, <2>2, <2>3
<1>6. ASSUME NEW e \in outbox, LosePublication(e) PROVE InOrder'
  BY <1>2, <1>6 DEF LosePublication
<1>7. ASSUME NEW i \in Insts, Accept(i) PROVE InOrder'
  BY <1>2, <1>7 DEF Accept
<1>8. ASSUME NEW gone \in SUBSET Insts, Break(gone) PROVE InOrder'
  <2>1. \A i \in Insts : inbox'[i] \in {inbox[i], <<>>}
    BY <1>0, <1>8, BreakEffect
  <2> QED  BY <1>0, <1>2, <1>8, <2>1, BreakEffect
<1>9. ASSUME NEW i \in Insts, Closes(i) PROVE InOrder'
  <2>1. \A j \in Insts : inbox'[j] \in {inbox[j], <<>>}
    BY <1>0, <1>9, ClosesEffect
  <2> QED  BY <1>0, <1>2, <1>9, <2>1, ClosesEffect
<1>10. ASSUME NEW i \in Insts, Hear(i) PROVE InOrder'
  <2>1. PICK e \in Messages(inbox[i]) :
           /\ e = Head(inbox[i])
           /\ ordersById' = [ordersById EXCEPT ![e.order] = e.rank]
           /\ Messages(inbox[i]) = {e} \union Messages(inbox'[i])
           /\ inbox'[i] = Tail(inbox[i]) /\ inbox[i] # <<>>
           /\ \A j \in Insts \ {i} : inbox'[j] = inbox[j]
           /\ sock[i] = "open"
           /\ UNCHANGED <<outbox, slips>>
           /\ RunEffect(NoOrder) \/ UNCHANGED sockets
    BY <1>0, <1>10, HearEffect
  <2>2. Orderly' <=> Orderly
    BY <2>1 DEF Orderly
  <2>3. ASSUME Orderly PROVE HeardFirst' /\ SentFirst'
    <3>1. i = inst /\ HeardFirst /\ SentFirst
      BY <1>i, <2>1, <2>3, HearsOnce
    <3>2. /\ Sorted(inbox'[i])
          /\ \A m \in Messages(inbox'[i]) : m.order = e.order => e.rank <= m.rank
      BY <1>0, <2>1, <3>1, TailMessages DEF SentFirst
    <3>3. SentFirst'
      <4>1. \A j \in Insts : Messages(inbox'[j]) \subseteq Messages(inbox[j])
        BY <2>1
      <4>2. \A j \in Insts : Sorted(inbox'[j])
        BY <2>1, <3>1, <3>2 DEF SentFirst
      <4> QED  BY <2>1, <3>1, <4>1, <4>2 DEF SentFirst
    <3>4. \A f \in outbox' : ordersById'[f.order] <= f.rank
      <4>1. \A f \in outbox : e.order = f.order => e.rank <= f.rank
        BY <3>1 DEF SentFirst
      <4>2. \A f \in outbox : f.order \in Orders
        BY <1>0, Sizes
      <4> QED  BY <1>0, <2>1, <3>1, <4>1, <4>2 DEF HeardFirst
    <3>5. \A m \in Messages(inbox'[i]) : ordersById'[m.order] <= m.rank
      <4>1. \A m \in Messages(inbox'[i]) : m.order \in Orders /\ m \in Messages(inbox[i])
        BY <1>0, <2>1, Sizes
      <4> QED  BY <1>0, <2>1, <3>1, <3>2, <4>1 DEF HeardFirst
    <3>6. Messages(inbox'[inst']) \subseteq Messages(inbox'[i])
      <4>1. CASE RunEffect(NoOrder)
        <5>1. inst' = inst + 1 /\ inst + 1 \in Insts /\ inst + 1 # inst /\ inbox[inst + 1] = <<>>
          BY <4>1, NextRun
        <5> QED  BY <2>1, <3>1, <5>1, NoMessages
      <4>2. CASE UNCHANGED sockets
        BY <3>1, <4>2
      <4> QED  BY <2>1, <4>1, <4>2
    <3> QED  BY <3>3, <3>4, <3>5, <3>6 DEF HeardFirst
  <2> QED  BY <1>p, <2>2, <2>3
<1>11. ASSUME Quiet PROVE InOrder'
  BY <1>2, <1>11 DEF Quiet
<1> QED  BY <1>0, <1>1, <1>3, <1>4, <1>5, <1>6, <1>7, <1>8, <1>9, <1>10, <1>11, Steps

\* All that the page can rely on whatever it has missed.
Ordered == Inv /\ Registered /\ Behind /\ InOrder

LEMMA OrderedInit == Init => Ordered
<1> SUFFICES ASSUME Init PROVE Ordered
  OBVIOUS
<1>1. Inv
  BY InitTyped DEF Init, Inv, OldRunsAreOver, NewRunsAreIdle, Live, Insts
<1>2. /\ \A i \in Insts : inbox[i] = <<>> /\ sock[i] # "open"
      /\ outbox = {} /\ ordersById = NoRows /\ list = NoRows
      /\ \A o \in Orders : row[o] \in Nat /\ post[o] = "none"
      /\ \A o \in Orders, s \in Slots : reads[s].rows[o] = 0
      /\ inst \in Insts
  BY FeedAssumption DEF Init, Absent, Idle, NoRows, Insts
<1>3. Registered
  BY <1>2 DEF Registered
<1>4. Travelling = {}
  BY <1>2, NoMessages DEF Travelling
<1>5. Behind
  <2>1. ShownBehind /\ SentBehind
    BY <1>2, <1>4 DEF ShownBehind, SentBehind, NoRows, Absent
  <2>2. RowsBehind
    BY <1>2 DEF Init, RowsBehind
  <2> QED  BY <2>1, <2>2 DEF Behind
<1>6. InOrder
  BY <1>2, NoMessages DEF InOrder
<1> QED  BY <1>1, <1>3, <1>5, <1>6 DEF Ordered

LEMMA OrderedKept ==
    ASSUME Ordered, [Next]_vars
    PROVE  Ordered'
<1>1. Inv'
  BY InvKept DEF Ordered
<1>2. Registered' /\ Behind' /\ InOrder'
  BY <1>1, RegisteredKept, BehindKept, InOrderKept DEF Ordered
<1> QED  BY <1>1, <1>2 DEF Ordered

LEMMA OrderedHolds == Spec => []Ordered
BY OrderedInit, OrderedKept, PTL DEF Spec

\* Only a message that was handled replaces what was heard of an order.
LEMMA HeardForward ==
    ASSUME Ordered, [Next]_vars, NEW o \in Orders, ordersById'[o] < ordersById[o]
    PROVE  slips \intersect {"reordered", "leaked"} # {}
<1>0. TypeOK /\ \A p \in Orders : ordersById[p] \in Nat
  BY Sizes DEF Ordered, Inv
<1>1. CASE ordersById' = ordersById
  BY <1>0, <1>1
<1>2. ASSUME NEW i \in Insts, Hear(i)
      PROVE  slips \intersect {"reordered", "leaked"} # {}
  <2> SUFFICES ASSUME Orderly PROVE FALSE
    BY DEF Orderly
  <2>1. PICK e \in Messages(inbox[i]) :
           ordersById' = [ordersById EXCEPT ![e.order] = e.rank] /\ sock[i] = "open"
    BY <1>0, <1>2, HearEffect
  <2>2. i = inst
    BY <2>1, HearsOnce DEF Ordered
  <2>3. ordersById[e.order] <= e.rank /\ e.rank \in Nat /\ e.order \in Orders
    BY <1>0, <2>2, Sizes DEF Ordered, InOrder, Orderly
  <2>4. ordersById \in [Orders -> Writes]
    BY <1>0 DEF TypeOK
  <2> QED  BY <1>0, <2>1, <2>3, <2>4
<1>3. ASSUME NEW s \in Slots, ReadStep(s) PROVE ordersById' = ordersById
  BY <1>3 DEF ReadStep, ReadRows, ShowRows, FetchFails
<1>4. \/ ordersById' = ordersById
      \/ \E i \in Insts : Hear(i)
  BY <1>0, Steps, BreakEffect, ClosesEffect
     DEF Loud, PlaceOrder, StoreOrder, Publish, LosePublication, Accept, Quiet
<1> QED  BY <1>1, <1>2, <1>4

\* However writers, publications, sockets and runs of the effect interleave, and
\* whatever statuses are written over each other, what was heard of an order is
\* not replaced by the news of an earlier write, unless news was reordered or the
\* page had two sockets.
THEOREM NewsNeverRegresses == Spec => NewsDoesNotRegress
<1>1. ASSUME Ordered, [Next]_vars
      PROVE  [\A o \in Orders :
                 ordersById'[o] < ordersById[o] => slips \intersect {"reordered", "leaked"} # {}]_vars
  BY <1>1, HeardForward
<1> QED  BY <1>1, OrderedHolds, PTL DEF Spec, NewsDoesNotRegress

------------------------------------------------------------------------------
(* the ticket                                                              *)

\* News that would end the ticket of o is on its way.
OutboxReleases(o) == \E e \in outbox : e.order = o /\ Releases(e.status)

InboxReleases(o) ==
    \E i \in Insts : closure[i] = o /\ \E m \in Messages(inbox[i]) : m.order = o /\ Releases(m.status)

\* The ticket of an order whose outcome was sent is about to be released, or the
\* news was not heard of.
TicketKnown ==
    \A o \in Orders :
        pending = o /\ placing /\ o \in told /\ o \notin unheard
            => OutboxReleases(o) \/ InboxReleases(o)

\* Nothing about the ticket changes, but that messages of the order came or went.
LEMMA TicketWithout ==
    ASSUME TicketKnown, UNCHANGED <<told, pending>>, placing' => placing, unheard \subseteq unheard',
           \A o \in Orders : o \notin unheard' /\ (OutboxReleases(o) \/ InboxReleases(o))
                                => OutboxReleases(o)' \/ InboxReleases(o)'
    PROVE  TicketKnown'
BY DEF TicketKnown

LEMMA TicketKept ==
    ASSUME Ordered, TicketKnown, [Next]_vars
    PROVE  TicketKnown'
<1>0. /\ Inv /\ TypeOK /\ Registered /\ Behind /\ clients \subseteq Insts /\ inst \in Insts
      /\ \A i \in Insts : inbox[i] \in Seq(News)
  BY DEF Ordered, Inv, TypeOK
<1>1. ASSUME NEW p \in Orders, Loud(p) PROVE TicketKnown'
  <2>1. PICK e \in News : /\ e.order = p /\ outbox' = outbox \union {e}
                          /\ told' = IF e.status \in Outcomes THEN told \union {p} ELSE told
    BY <1>1 DEF Loud
  <2>2. UNCHANGED <<inbox, closure, pending, placing, unheard>>
    BY <1>1 DEF Loud
  <2>3. \A o \in Orders : OutboxReleases(o) \/ InboxReleases(o) => OutboxReleases(o)' \/ InboxReleases(o)'
    BY <2>1, <2>2 DEF OutboxReleases, InboxReleases
  <2>4. e.status \in Outcomes => OutboxReleases(p)'
    BY <2>1 DEF OutboxReleases, Outcomes, Releases
  <2>5. ASSUME NEW o \in Orders, pending' = o, placing', o \in told', o \notin unheard'
        PROVE  OutboxReleases(o)' \/ InboxReleases(o)'
    <3>1. CASE o \in told
      BY <2>2, <2>3, <2>5, <3>1 DEF TicketKnown
    <3>2. CASE o \notin told
      BY <2>1, <2>4, <2>5, <3>2
    <3> QED  BY <3>1, <3>2
  <2> QED  BY <2>5 DEF TicketKnown
<1>2. ASSUME NEW p \in Orders, StoreOrder(p) PROVE TicketKnown'
  <2>1. UNCHANGED <<told, outbox, inbox, closure, pending, placing, unheard>>
    BY <1>2 DEF StoreOrder
  <2>2. \A o \in Orders : OutboxReleases(o) \/ InboxReleases(o) => OutboxReleases(o)' \/ InboxReleases(o)'
    BY <2>1 DEF OutboxReleases, InboxReleases
  <2> QED  BY <2>1, <2>2, TicketWithout
<1>3. ASSUME NEW p \in Orders, PlaceOrder(p) PROVE TicketKnown'
  <2>1. pending' = p /\ told' = told /\ row[p] = Absent
    BY <1>3 DEF PlaceOrder
  <2>2. p \notin told
    BY <1>0, <2>1 DEF Behind, RowsBehind
  <2> QED  BY <2>1, <2>2 DEF TicketKnown
<1>4. ASSUME NEW e \in outbox, Publish(e) PROVE TicketKnown'
  <2>1. /\ outbox' = outbox \ {e}
        /\ \A i \in clients : Messages(inbox'[i]) = Messages(inbox[i]) \union {e}
        /\ \A i \in Insts \ clients : inbox'[i] = inbox[i]
        /\ UNCHANGED <<told, closure, pending, placing>>
    BY <1>0, <1>4, PublishEffect
  <2>2. /\ unheard \subseteq unheard'
        /\ Releases(e.status) /\ (\A i \in clients : closure[i] # e.order) => e.order \in unheard'
    BY <1>4 DEF Publish
  <2>3. ASSUME NEW o \in Orders, o \notin unheard', OutboxReleases(o)
        PROVE  OutboxReleases(o)' \/ InboxReleases(o)'
    <3>1. PICK f \in outbox : f.order = o /\ Releases(f.status)
      BY <2>3 DEF OutboxReleases
    <3>2. CASE f = e
      <4>1. PICK i \in clients : closure[i] = o
        BY <2>2, <2>3, <3>1, <3>2
      <4> QED  BY <1>0, <2>1, <3>1, <3>2, <4>1 DEF InboxReleases
    <3>3. CASE f # e
      BY <2>1, <3>1, <3>3 DEF OutboxReleases
    <3> QED  BY <3>2, <3>3
  <2>4. \A o \in Orders : InboxReleases(o) => InboxReleases(o)'
    <3>1. \A i \in Insts : Messages(inbox[i]) \subseteq Messages(inbox'[i])
      BY <2>1
    <3> QED  BY <2>1, <3>1 DEF InboxReleases
  <2> QED  BY <2>1, <2>2, <2>3, <2>4, TicketWithout
<1>5. ASSUME NEW e \in outbox, LosePublication(e) PROVE TicketKnown'
  <2>1. /\ outbox' = outbox \ {e} /\ unheard' = unheard \union {e.order}
        /\ UNCHANGED <<told, inbox, closure, pending, placing>>
    BY <1>5 DEF LosePublication
  <2>2. \A o \in Orders : o \notin unheard' /\ OutboxReleases(o) => OutboxReleases(o)'
    BY <2>1 DEF OutboxReleases
  <2>3. \A o \in Orders : InboxReleases(o) => InboxReleases(o)'
    BY <2>1 DEF InboxReleases
  <2> QED  BY <2>1, <2>2, <2>3, TicketWithout
<1>6. ASSUME UNCHANGED <<told, outbox, closure, ticket>>, unheard \subseteq unheard',
             \A i \in Insts : \/ inbox'[i] = inbox[i]
                              \/ \A m \in Messages(inbox[i]) : m.order \in unheard'
      PROVE  TicketKnown'
  <2>1. \A o \in Orders : OutboxReleases(o) => OutboxReleases(o)'
    BY <1>6 DEF OutboxReleases
  <2>2. \A o \in Orders : o \notin unheard' /\ InboxReleases(o) => InboxReleases(o)'
    BY <1>6 DEF InboxReleases
  <2> QED  BY <1>6, <2>1, <2>2, TicketWithout
<1>7. ASSUME NEW i \in Insts, Accept(i) PROVE TicketKnown'
  BY <1>6, <1>7 DEF Accept
<1>8. ASSUME NEW gone \in SUBSET Insts, Break(gone) PROVE TicketKnown'
  BY <1>0, <1>6, <1>8, BreakEffect
<1>9. ASSUME NEW i \in Insts, Closes(i) PROVE TicketKnown'
  BY <1>0, <1>6, <1>9, ClosesEffect
<1>10. ASSUME NEW i \in Insts, Hear(i) PROVE TicketKnown'
  <2>1. PICK e \in Messages(inbox[i]) :
           /\ Messages(inbox[i]) = {e} \union Messages(inbox'[i])
           /\ \A j \in Insts \ {i} : inbox'[j] = inbox[j]
           /\ UNCHANGED <<told, outbox, unheard>>
           /\ \/ /\ closure[i] = e.order /\ Releases(e.status)
                 /\ ~ placing'
              \/ /\ ~ (closure[i] = e.order /\ Releases(e.status))
                 /\ UNCHANGED <<placing, pending>>
           /\ RunEffect(NoOrder) \/ UNCHANGED sockets
    BY <1>0, <1>10, HearEffect
  <2>2. CASE ~ placing'
    BY <2>2 DEF TicketKnown
  <2>3. CASE ~ (closure[i] = e.order /\ Releases(e.status)) /\ UNCHANGED <<placing, pending>>
    <3>1. \A j \in Insts : closure'[j] = closure[j] \/ inbox[j] = <<>>
      BY <1>0, <2>1, NextRun
    <3>2. ASSUME NEW o \in Orders, InboxReleases(o) PROVE InboxReleases(o)'
      <4>1. PICK j \in Insts : closure[j] = o /\ \E m \in Messages(inbox[j]) : m.order = o /\ Releases(m.status)
        BY <3>2 DEF InboxReleases
      <4>2. PICK m \in Messages(inbox[j]) : m.order = o /\ Releases(m.status)
        BY <4>1
      <4>3. m \in Messages(inbox'[j])
        BY <2>1, <2>3, <4>1, <4>2
      <4>4. closure'[j] = o
        BY <3>1, <4>1, <4>2, NoMessages
      <4> QED  BY <4>2, <4>3, <4>4 DEF InboxReleases
    <3>3. \A o \in Orders : OutboxReleases(o) => OutboxReleases(o)'
      BY <2>1 DEF OutboxReleases
    <3> QED  BY <2>1, <2>3, <3>2, <3>3, TicketWithout
  <2> QED  BY <2>1, <2>2, <2>3
<1>11. ASSUME Quiet PROVE TicketKnown'
  <2>1. UNCHANGED <<told, outbox, inbox, closure, pending, unheard>> /\ (placing' => placing)
    BY <1>11 DEF Quiet
  <2>2. \A o \in Orders : OutboxReleases(o) \/ InboxReleases(o) => OutboxReleases(o)' \/ InboxReleases(o)'
    BY <2>1 DEF OutboxReleases, InboxReleases
  <2> QED  BY <2>1, <2>2, TicketWithout
<1> QED  BY <1>0, <1>1, <1>2, <1>3, <1>4, <1>5, <1>7, <1>8, <1>9, <1>10, <1>11, Steps

LEMMA TicketFollows ==
    ASSUME TypeOK, TicketKnown
    PROVE  TicketIsReleased
<1> SUFFICES ASSUME NEW o \in Orders, Settled, pending = o, o \in told, placing
             PROVE  o \in unheard
  BY DEF TicketIsReleased
<1>1. ~ OutboxReleases(o) /\ ~ InboxReleases(o)
  BY NoMessages DEF Settled, OutboxReleases, InboxReleases
<1> QED  BY <1>1 DEF TicketKnown

\* The ticket of an order whose outcome was to be published is free again once
\* everything has settled, whatever was written of it since, unless its news
\* found no socket that knew of the ticket.
THEOREM TicketIsFreed == Spec => []TicketIsReleased
<1>1. Init => TicketKnown
  BY DEF Init, TicketKnown
<1>2. ASSUME Ordered, TicketKnown, [Next]_vars PROVE TicketKnown'
  BY <1>2, TicketKept
<1>3. ASSUME Ordered, TicketKnown PROVE TicketIsReleased
  BY <1>3, TicketFollows DEF Ordered, Inv
<1> QED  BY <1>1, <1>2, <1>3, OrderedHolds, PTL DEF Spec

------------------------------------------------------------------------------
(* what the page shows                                                     *)

\* News of o is on its way.
NewsOf(o) == {e \in Travelling : e.order = o}

\* News of o that is as new as what is to be shown of it.
Brings(sent, o) == \E e \in sent : e.order = o /\ e.rank >= due[o]

\* An order the page hears of: it has heard the newest, or will.
Newest(o) ==
    slips = {} /\ o \notin missed /\ (ordersById[o] # Absent \/ NewsOf(o) # {})
        => ordersById[o] >= due[o] \/ Brings(Travelling, o)

\* The POST of o was answered, or there was none.
Answered(o) == post[o] \notin {"sent", "stored", "failed"}

\* What the page shows of an order is as new as it is to be, or the page will
\* hear of it or fetches it, or will when its socket opens.
Known(o) ==
    slips = {} /\ Answered(o) =>
        \/ list[o] >= due[o] \/ ordersById[o] >= due[o]
        \/ sock[inst] # "open"
        \/ Brings(outbox \union Messages(inbox[inst]), o)
        \/ Asked
        \/ \E s \in Slots : reads[s].stage = "answered" /\ reads[s].rows[o] >= due[o]

\* An order there is is listed, or will be.
Fetched(o) ==
    slips = {} /\ Answered(o) /\ row[o] # Absent =>
        \/ list[o] # Absent
        \/ Asked
        \/ \E s \in Slots : reads[s].stage = "answered" /\ reads[s].rows[o] # Absent

\* An order that is open and never was closed is among the open ones wherever
\* it is listed.
Opened(o) ==
    StillOpen(o) =>
        /\ list[o] # Absent => o \in openIds
        /\ \A s \in Slots : reads[s].rows[o] # Absent => o \in reads[s].open

\* What was heard of o, what is to be heard and what is to be shown are as they were.
LEMMA NewestWithout ==
    ASSUME NEW o \in Orders, Newest(o), slips \subseteq slips', o \in missed => o \in missed',
           due'[o] = due[o], ordersById'[o] = ordersById[o],
           o \notin missed' => NewsOf(o)' = NewsOf(o)
    PROVE  Newest(o)'
<1>1. Brings(Travelling, o) <=> \E e \in NewsOf(o) : e.rank >= due[o]
  BY DEF Brings, NewsOf
<1>2. Brings(Travelling, o)' <=> \E e \in NewsOf(o)' : e.rank >= due'[o]
  BY DEF Brings, NewsOf
<1> QED  BY <1>1, <1>2 DEF Newest

\* News that is sent is as new as anything that is to be shown of its order.
LEMMA LoudBrings ==
    ASSUME TypeOK, TypeOK', RowsBehind', NEW o \in Orders, Loud(o)
    PROVE  \E e \in outbox' : e.order = o /\ e.rank >= due'[o]
<1>1. PICK e \in News : e.order = o /\ e.rank = row'[o] /\ outbox' = outbox \union {e}
  BY DEF Loud
<1>2. due'[o] <= row'[o]
  BY DEF RowsBehind
<1>3. due'[o] \in Nat /\ row'[o] \in Nat
  BY WritesAreNumbers DEF TypeOK
<1> QED  BY <1>1, <1>2, <1>3

LEMMA NewestKept ==
    ASSUME Ordered, Ordered', NEW o \in Orders, Newest(o), [Next]_vars
    PROVE  Newest(o)'
<1>0. /\ Inv /\ TypeOK /\ TypeOK' /\ Registered /\ Behind /\ InOrder /\ clients \subseteq Insts
      /\ RowsBehind' /\ ordersById \in [Orders -> Writes]
  BY DEF Ordered, Inv, TypeOK, Behind
<1>1. ASSUME NEW p \in Orders, Loud(p) PROVE Newest(o)'
  <2>1. CASE o = p
    <3>1. \E e \in outbox' : e.order = o /\ e.rank >= due'[o]
      BY <1>0, <1>1, <2>1, LoudBrings
    <3>2. outbox' \subseteq Travelling'
      BY DEF Travelling
    <3> QED  BY <3>1, <3>2 DEF Newest, Brings
  <2>2. CASE o # p
    <3>1. PICK e \in News : e.order = p /\ outbox' = outbox \union {e}
      BY <1>1 DEF Loud
    <3>2. UNCHANGED <<inbox, ordersById, missed>> /\ due'[o] = due[o] /\ slips \subseteq slips'
      BY <1>1, <2>2 DEF Loud
    <3>3. NewsOf(o)' = NewsOf(o)
      BY <2>2, <3>1, <3>2 DEF NewsOf, Travelling
    <3> QED  BY <3>2, <3>3, NewestWithout
  <2> QED  BY <2>1, <2>2
<1>2. ASSUME NEW p \in Orders, StoreOrder(p) \/ PlaceOrder(p) PROVE Newest(o)'
  <2>1. UNCHANGED <<due, outbox, inbox, ordersById, missed, slips>>
    BY <1>2 DEF StoreOrder, PlaceOrder
  <2>2. NewsOf(o)' = NewsOf(o)
    BY <2>1 DEF NewsOf, Travelling
  <2> QED  BY <2>1, <2>2, NewestWithout
<1>4. ASSUME NEW e \in outbox, Publish(e) PROVE Newest(o)'
  <2>1. /\ outbox' = outbox \ {e}
        /\ \A i \in clients : Messages(inbox'[i]) = Messages(inbox[i]) \union {e}
        /\ \A i \in Insts \ clients : inbox'[i] = inbox[i]
        /\ UNCHANGED <<rows, clients, picture>>
        /\ missed' = IF clients = {} THEN missed \union {e.order} ELSE missed
        /\ slips \subseteq slips'
    BY <1>0, <1>4, PublishEffect
  <2>2. ASSUME o \notin missed' PROVE NewsOf(o)' = NewsOf(o)
    <3>1. Travelling' \subseteq Travelling
      BY <2>1 DEF Travelling
    <3>2. ASSUME NEW f \in Travelling, f.order = o PROVE f \in Travelling'
      <4>1. CASE f = e
        <5>1. PICK i \in clients : TRUE
          BY <2>1, <2>2, <3>2, <4>1
        <5>2. i \in Insts /\ e \in Messages(inbox'[i])
          BY <1>0, <2>1, <5>1
        <5> QED  BY <4>1, <5>2 DEF Travelling
      <4>2. CASE f # e /\ f \in outbox
        BY <2>1, <4>2 DEF Travelling
      <4>3. CASE \E i \in Insts : f \in Messages(inbox[i])
        <5>1. PICK i \in Insts : f \in Messages(inbox[i])
          BY <4>3
        <5>2. f \in Messages(inbox'[i])
          BY <2>1, <5>1
        <5> QED  BY <5>2 DEF Travelling
      <4> QED  BY <4>1, <4>2, <4>3 DEF Travelling
    <3> QED  BY <3>1, <3>2 DEF NewsOf
  <2>3. o \in missed => o \in missed'
    BY <2>1
  <2> QED  BY <2>1, <2>2, <2>3, NewestWithout
<1>5. ASSUME NEW e \in outbox, LosePublication(e) PROVE Newest(o)'
  <2>1. slips' # {}
    BY <1>5 DEF LosePublication
  <2> QED  BY <2>1 DEF Newest
<1>6. ASSUME UNCHANGED <<due, outbox, ordersById>>, slips \subseteq slips', missed \subseteq missed',
             \A i \in Insts : \/ inbox'[i] = inbox[i]
                              \/ /\ inbox'[i] = <<>>
                                 /\ \A m \in Messages(inbox[i]) : m.order \in missed'
      PROVE  Newest(o)'
  <2>1. ASSUME o \notin missed' PROVE NewsOf(o)' = NewsOf(o)
    <3>1. \A i \in Insts : Messages(inbox'[i]) \subseteq Messages(inbox[i])
      BY <1>6, NoMessages
    <3>2. \A i \in Insts : \A m \in Messages(inbox[i]) : m.order = o => m \in Messages(inbox'[i])
      BY <1>6, <2>1
    <3> QED  BY <1>6, <3>1, <3>2 DEF NewsOf, Travelling
  <2> QED  BY <1>6, <2>1, NewestWithout
<1>7. ASSUME NEW i \in Insts, Accept(i) PROVE Newest(o)'
  BY <1>6, <1>7 DEF Accept
<1>8. ASSUME NEW gone \in SUBSET Insts, Break(gone) PROVE Newest(o)'
  BY <1>0, <1>6, <1>8, BreakEffect
<1>9. ASSUME NEW i \in Insts, Closes(i) PROVE Newest(o)'
  BY <1>0, <1>6, <1>9, ClosesEffect
<1>10. ASSUME NEW i \in Insts, Hear(i) PROVE Newest(o)'
  <2>1. PICK e \in Messages(inbox[i]) :
           /\ ordersById' = [ordersById EXCEPT ![e.order] = e.rank]
           /\ Messages(inbox[i]) = {e} \union Messages(inbox'[i])
           /\ \A j \in Insts \ {i} : inbox'[j] = inbox[j]
           /\ sock[i] = "open"
           /\ UNCHANGED <<rows, outbox, history>>
    BY <1>0, <1>10, HearEffect
  <2>2. e \in Travelling /\ Travelling' \subseteq Travelling /\ Travelling \subseteq Travelling' \union {e}
    BY <2>1 DEF Travelling
  <2>3. e \in News /\ e.order \in Orders /\ e.rank \in Nat /\ due[o] \in Nat /\ ordersById[o] \in Nat
    BY <1>0, <2>2, TravellingNews, Sizes
  <2>4. CASE e.order # o
    <3>1. NewsOf(o)' = NewsOf(o) /\ ordersById'[o] = ordersById[o]
      BY <1>0, <2>1, <2>2, <2>4 DEF NewsOf
    <3> QED  BY <2>1, <3>1, NewestWithout
  <2>5. CASE e.order = o
    <3>1. ordersById'[o] = e.rank /\ due' = due
      BY <1>0, <2>1, <2>5
    <3> SUFFICES ASSUME slips = {}, o \notin missed
                 PROVE  e.rank >= due[o] \/ Brings(Travelling, o)'
      BY <2>1, <3>1 DEF Newest
    <3>2. ordersById[o] >= due[o] \/ Brings(Travelling, o)
      BY <2>2, <2>5 DEF Newest, NewsOf
    <3>3. CASE ordersById[o] >= due[o]
      <4>1. i = inst
        BY <1>0, <2>1, HearsOnce DEF Orderly
      <4>2. ordersById[o] <= e.rank
        BY <1>0, <2>1, <2>5, <4>1 DEF InOrder
      <4> QED  BY <2>3, <3>3, <4>2
    <3>4. CASE Brings(Travelling, o)
      BY <2>2, <3>1, <3>4 DEF Brings
    <3> QED  BY <3>2, <3>3, <3>4
  <2> QED  BY <2>4, <2>5
<1>11. ASSUME Quiet PROVE Newest(o)'
  <2>1. NewsOf(o)' = NewsOf(o)
    BY <1>11 DEF Quiet, NewsOf, Travelling
  <2> QED  BY <1>11, <2>1, NewestWithout DEF Quiet
<1> QED  BY <1>0, <1>1, <1>2, <1>4, <1>5, <1>7, <1>8, <1>9, <1>10, <1>11, Steps

\* Nothing that makes o known has changed, or something else does.
LEMMA KnownWithout ==
    ASSUME NEW o \in Orders, Known(o), slips \subseteq slips', Answered(o)' => Answered(o),
           UNCHANGED <<due, list, reads, ordersById>>,
           Brings(outbox \union Messages(inbox[inst]), o) =>
              sock'[inst'] # "open" \/ Brings(outbox \union Messages(inbox[inst]), o)',
           sock[inst] # "open" => sock'[inst'] # "open"
    PROVE  Known(o)'
<1>1. slips' = {} => slips = {}
  OBVIOUS
<1> QED  BY <1>1 DEF Known, Asked

LEMMA KnownKept ==
    ASSUME Ordered, Ordered', NEW o \in Orders, Known(o), [Next]_vars
    PROVE  Known(o)'
<1>0. /\ Inv /\ TypeOK /\ TypeOK' /\ Registered /\ Behind /\ InOrder /\ clients \subseteq Insts
      /\ inst \in Insts /\ ordersById \in [Orders -> Writes] /\ RowsBehind'
      /\ post \in [Orders -> {"none", "sent", "stored", "done", "failed"}]
  BY DEF Ordered, Inv, TypeOK, Behind
<1>1. ASSUME NEW p \in Orders, Loud(p) PROVE Known(o)'
  <2>1. UNCHANGED <<inbox, sockets, ticket, picture>> /\ slips \subseteq slips'
    BY <1>1 DEF Loud
  <2>2. CASE o = p
    <3>1. \E e \in outbox' : e.order = o /\ e.rank >= due'[o]
      BY <1>0, <1>1, <2>2, LoudBrings
    <3> QED  BY <3>1 DEF Known, Brings
  <2>3. CASE o # p
    <3>1. due'[o] = due[o] /\ outbox \subseteq outbox'
      BY <1>1, <2>3 DEF Loud
    <3>2. Brings(outbox \union Messages(inbox[inst]), o) => Brings(outbox \union Messages(inbox[inst]), o)'
      BY <2>1, <3>1 DEF Brings
    <3>3. slips' = {} => slips = {}
      BY <2>1
    <3> QED  BY <2>1, <3>1, <3>2, <3>3 DEF Known, Asked, Answered
  <2> QED  BY <2>2, <2>3
<1>2. ASSUME NEW p \in Orders, StoreOrder(p) PROVE Known(o)'
  <2>1. /\ post'[p] = "stored"
        /\ \A q \in Orders \ {p} : post'[q] = post[q]
        /\ UNCHANGED <<due, outbox, inbox, sockets, picture, history>>
    BY <1>0, <1>2, StoreOrderEffect
  <2>2. Answered(o)' => Answered(o)
    BY <2>1 DEF Answered
  <2>3. Brings(outbox \union Messages(inbox[inst]), o) => Brings(outbox \union Messages(inbox[inst]), o)'
    BY <2>1 DEF Brings
  <2> QED  BY <2>1, <2>2, <2>3, KnownWithout
<1>3. ASSUME NEW p, RunEffect(p) PROVE sock'[inst'] = "token"
  BY <1>0, <1>3, NextRun
<1>4. ASSUME NEW p \in Orders, PlaceOrder(p) PROVE Known(o)'
  <2>1. sock'[inst'] = "token"
    BY <1>3, <1>4 DEF PlaceOrder
  <2> QED  BY <2>1 DEF Known
<1>5. ASSUME NEW e \in outbox, Publish(e) PROVE Known(o)'
  <2>1. /\ outbox' = outbox \ {e}
        /\ \A i \in clients : Messages(inbox'[i]) = Messages(inbox[i]) \union {e}
        /\ \A i \in Insts \ clients : inbox'[i] = inbox[i]
        /\ UNCHANGED <<rows, clients, sockets, ticket, picture>>
        /\ slips \subseteq slips'
    BY <1>0, <1>5, PublishEffect
  <2>2. sock[inst] = "open" => inst \in clients
    BY <1>0 DEF Registered
  <2>3. ASSUME Brings(outbox \union Messages(inbox[inst]), o), sock[inst] = "open"
        PROVE  Brings(outbox \union Messages(inbox[inst]), o)'
    BY <2>1, <2>2, <2>3 DEF Brings
  <2>4. Answered(o)' = Answered(o)
    BY <2>1 DEF Answered
  <2> QED  BY <2>1, <2>3, <2>4, KnownWithout
<1>6. ASSUME NEW e \in outbox, LosePublication(e) PROVE Known(o)'
  <2>1. slips' # {}
    BY <1>6 DEF LosePublication
  <2> QED  BY <2>1 DEF Known
<1>7. ASSUME UNCHANGED <<due, outbox, inst, ticket, picture>>, slips \subseteq slips',
             \/ inbox'[inst] = inbox[inst] /\ sock'[inst] = sock[inst]
             \/ sock'[inst] # "open"
      PROVE  Known(o)'
  <2>1. Answered(o)' = Answered(o)
    BY <1>7 DEF Answered
  <2>2. Brings(outbox \union Messages(inbox[inst]), o) =>
           sock'[inst] # "open" \/ Brings(outbox \union Messages(inbox[inst]), o)'
    BY <1>7 DEF Brings
  <2> QED  BY <1>7, <2>1, <2>2, KnownWithout
<1>8. ASSUME NEW i \in Insts, Accept(i) PROVE Known(o)'
  BY <1>7, <1>8 DEF Accept
<1>9. ASSUME NEW gone \in SUBSET Insts, Break(gone) PROVE Known(o)'
  BY <1>0, <1>7, <1>9, BreakEffect
<1>10. ASSUME NEW i \in Insts, Closes(i) PROVE Known(o)'
  BY <1>0, <1>7, <1>10, ClosesEffect
<1>11. ASSUME NEW i \in Insts, Hear(i) PROVE Known(o)'
  <2>1. PICK e \in Messages(inbox[i]) :
           /\ ordersById' = [ordersById EXCEPT ![e.order] = e.rank]
           /\ Messages(inbox[i]) = {e} \union Messages(inbox'[i])
           /\ \A j \in Insts \ {i} : inbox'[j] = inbox[j]
           /\ sock[i] = "open"
           /\ UNCHANGED <<rows, outbox, post, list, reads, history>>
           /\ RunEffect(NoOrder) \/ UNCHANGED sockets
    BY <1>0, <1>11, HearEffect
  <2>2. CASE RunEffect(NoOrder)
    BY <1>3, <2>2 DEF Known
  <2>3. CASE UNCHANGED sockets
    <3>0. e \in Travelling
      BY <2>1 DEF Travelling
    <3>1. e.order \in Orders /\ e.rank \in Nat /\ due[o] \in Nat /\ ordersById[o] \in Nat
      BY <1>0, <3>0, Sizes, TravellingNews
    <3> SUFFICES ASSUME slips = {}, Answered(o), Known(o) PROVE Known(o)'
      BY <2>1 DEF Known, Answered
    <3>2. i = inst
      BY <1>0, <2>1, HearsOnce DEF Orderly
    <3>3. due' = due
      BY <2>1
    <3>4. ASSUME ordersById[o] >= due[o] PROVE ordersById'[o] >= due[o]
      <4>1. CASE e.order = o
        <5>1. ordersById[o] <= e.rank /\ ordersById'[o] = e.rank
          BY <1>0, <2>1, <3>2, <4>1 DEF InOrder
        <5> QED  BY <3>1, <3>4, <5>1
      <4>2. CASE e.order # o
        BY <1>0, <2>1, <3>4, <4>2
      <4> QED  BY <4>1, <4>2
    <3>5. ASSUME NEW f \in outbox \union Messages(inbox[inst]), f.order = o, f.rank >= due[o]
          PROVE  Brings(outbox \union Messages(inbox[inst]), o)' \/ ordersById'[o] >= due[o]
      <4>1. CASE f = e
        BY <1>0, <2>1, <3>5, <4>1
      <4>2. CASE f # e
        <5>1. f \in outbox' \union Messages(inbox'[inst'])
          BY <2>1, <2>3, <3>2, <3>5, <4>2
        <5> QED  BY <3>3, <3>5, <5>1 DEF Brings
      <4> QED  BY <4>1, <4>2
    <3>6. Brings(outbox \union Messages(inbox[inst]), o) =>
             Brings(outbox \union Messages(inbox[inst]), o)' \/ ordersById'[o] >= due[o]
      BY <3>5 DEF Brings
    <3> QED  BY <2>1, <2>3, <3>3, <3>4, <3>6 DEF Known, Asked
  <2> QED  BY <2>1, <2>2, <2>3
<1>12. ASSUME Quiet, Aside PROVE Known(o)'
  <2>1. Answered(o)' => Answered(o)
    BY <1>12 DEF Aside, Answered
  <2>2. sock[inst] # "open" => sock'[inst] # "open"
    BY <1>0, <1>12 DEF Aside
  <2>3. Brings(outbox \union Messages(inbox[inst]), o) => Brings(outbox \union Messages(inbox[inst]), o)'
    BY <1>12 DEF Quiet, Brings
  <2> QED  BY <1>12, <2>1, <2>2, <2>3, KnownWithout DEF Quiet, Aside
<1>13. ASSUME Quiet, Asks PROVE Known(o)'
  BY <1>13 DEF Asks, Known
<1>14. ASSUME Quiet, NEW s \in Slots, ReadStep(s) PROVE Known(o)'
  <2>1. /\ \A t \in Slots \ {s} : reads'[t] = reads[t]
        /\ UNCHANGED <<feed, sockets, ticket, ordersById>>
        /\ \/ reads'[s] = [stage |-> "answered", rows |-> Labelled, open |-> OpenRows]
           \/ /\ reads[s].stage = "answered" /\ reads'[s] = Idle /\ list' = reads[s].rows
              /\ slips \subseteq slips'
              /\ slips' = {} => \A p \in Orders : ~ (reads[s].rows[p] < list[p])
           \/ slips' # {}
    BY <1>0, <1>14, ReadEffect
  <2>2. /\ due' = due /\ Answered(o)' = Answered(o)
        /\ Brings(outbox \union Messages(inbox[inst]), o)' = Brings(outbox \union Messages(inbox[inst]), o)
    BY <2>1 DEF Answered, Brings
  <2>3. ASSUME reads'[s] = [stage |-> "answered", rows |-> Labelled, open |-> OpenRows], slips' = {}
        PROVE  Known(o)'
    <3>1. slips = {}
      BY <1>14, <2>3 DEF Quiet
    <3>2. Labelled[o] >= due[o]
      <4>1. due[o] <= Label(o) /\ Label(o) \in Nat /\ due[o] \in Nat
        BY <1>0, <3>1, Labels, Sizes
      <4> QED  BY <4>1 DEF Labelled
    <3>3. reads'[s].stage = "answered" /\ reads'[s].rows[o] >= due'[o]
      BY <2>2, <2>3, <3>2
    <3> QED  BY <3>3 DEF Known
  <2>4. ASSUME slips' = {}, reads[s].stage = "answered", reads'[s] = Idle, list' = reads[s].rows,
               ~ (reads[s].rows[o] < list[o])
        PROVE  Known(o)'
    <3> SUFFICES ASSUME slips = {}, Answered(o) PROVE Known(o)'
      BY <1>14, <2>2, <2>4 DEF Known, Quiet
    <3>1. list[o] >= due[o] => list'[o] >= due'[o]
      <4>1. list[o] \in Nat /\ due[o] \in Nat /\ reads[s].rows[o] \in Nat
        BY <1>0, Sizes
      <4> QED  BY <2>2, <2>4, <4>1
    <3>2. Asked => Asked'
      BY <2>1, <2>4 DEF Asked
    <3>3. ASSUME NEW t \in Slots, reads[t].stage = "answered", reads[t].rows[o] >= due[o]
          PROVE  \/ list'[o] >= due'[o]
                 \/ \E u \in Slots : reads'[u].stage = "answered" /\ reads'[u].rows[o] >= due'[o]
      <4>1. CASE t = s
        BY <2>2, <2>4, <3>3, <4>1
      <4>2. CASE t # s
        <5>1. reads'[t] = reads[t]
          BY <2>1, <4>2
        <5> QED  BY <2>2, <3>3, <5>1
      <4> QED  BY <4>1, <4>2
    <3> QED  BY <2>1, <2>2, <3>1, <3>2, <3>3 DEF Known
  <2>5. CASE slips' # {}
    BY <2>5 DEF Known
  <2> QED  BY <2>1, <2>3, <2>4, <2>5
<1> QED  BY <1>0, <1>1, <1>2, <1>4, <1>5, <1>6, <1>8, <1>9, <1>10, <1>11, <1>12, <1>13, <1>14, Steps

LEMMA FetchedWithout ==
    ASSUME NEW o \in Orders, Fetched(o), slips \subseteq slips', UNCHANGED <<list, reads>>,
           Answered(o)' => Answered(o) /\ (row'[o] # Absent => row[o] # Absent)
    PROVE  Fetched(o)'
<1>1. slips' = {} => slips = {}
  OBVIOUS
<1> QED  BY <1>1 DEF Fetched, Asked

LEMMA FetchedKept ==
    ASSUME Ordered, NEW o \in Orders, Fetched(o), [Next]_vars
    PROVE  Fetched(o)'
<1>0. /\ TypeOK /\ Behind
      /\ post \in [Orders -> {"none", "sent", "stored", "done", "failed"}]
  BY DEF Ordered, Inv, TypeOK
<1>1. ASSUME NEW p \in Orders, Loud(p) PROVE Fetched(o)'
  <2>1. UNCHANGED <<ticket, picture>> /\ slips \subseteq slips' /\ (row'[o] # Absent => row[o] # Absent)
    BY <1>1 DEF Loud, Grown
  <2> QED  BY <2>1, FetchedWithout DEF Answered
<1>2. ASSUME NEW p \in Orders, StoreOrder(p) PROVE Fetched(o)'
  <2>1. /\ post'[p] = "stored"
        /\ \A q \in Orders \ {p} : row'[q] = row[q] /\ post'[q] = post[q]
        /\ UNCHANGED <<picture, history>>
    BY <1>0, <1>2, StoreOrderEffect
  <2>2. Answered(o)' => Answered(o) /\ row'[o] = row[o]
    BY <2>1 DEF Answered
  <2> QED  BY <2>1, <2>2, FetchedWithout
<1>3. ASSUME NEW p \in Orders, PlaceOrder(p) PROVE Fetched(o)'
  <2>1. UNCHANGED <<row, picture, history>> /\ post' = [post EXCEPT ![p] = "sent"]
    BY <1>3 DEF PlaceOrder
  <2>2. Answered(o)' => Answered(o)
    BY <1>0, <2>1 DEF Answered
  <2> QED  BY <2>1, <2>2, FetchedWithout
<1>4. ASSUME UNCHANGED <<row, post, list, reads>>, slips \subseteq slips' PROVE Fetched(o)'
  BY <1>4, FetchedWithout DEF Answered
<1>5. ASSUME NEW e \in outbox, Publish(e) \/ LosePublication(e) PROVE Fetched(o)'
  BY <1>4, <1>5 DEF Publish, LosePublication
<1>6. ASSUME NEW i \in Insts, Accept(i) \/ Closes(i) \/ Hear(i) PROVE Fetched(o)'
  BY <1>4, <1>6 DEF Accept, Closes, Hear
<1>7. ASSUME NEW gone \in SUBSET Insts, Break(gone) PROVE Fetched(o)'
  BY <1>4, <1>7 DEF Break
<1>8. ASSUME Quiet, Aside PROVE Fetched(o)'
  <2>1. Answered(o)' => Answered(o)
    BY <1>8 DEF Aside, Answered
  <2>2. row'[o] # Absent => row[o] # Absent
    BY <1>8 DEF Quiet, Grown
  <2> QED  BY <1>8, <2>1, <2>2, FetchedWithout DEF Quiet, Aside
<1>9. ASSUME Quiet, Asks PROVE Fetched(o)'
  BY <1>9 DEF Asks, Fetched
<1>10. ASSUME Quiet, NEW s \in Slots, ReadStep(s) PROVE Fetched(o)'
  <2>1. /\ \A t \in Slots \ {s} : reads'[t] = reads[t]
        /\ UNCHANGED <<feed, sockets, ticket, ordersById>>
        /\ \/ reads'[s] = [stage |-> "answered", rows |-> Labelled, open |-> OpenRows]
           \/ /\ reads[s].stage = "answered" /\ reads'[s] = Idle /\ list' = reads[s].rows
              /\ slips \subseteq slips'
              /\ slips' = {} => \A p \in Orders : ~ (reads[s].rows[p] < list[p])
           \/ slips' # {}
    BY <1>0, <1>10, ReadEffect
  <2>2. CASE reads'[s] = [stage |-> "answered", rows |-> Labelled, open |-> OpenRows]
    <3>1. row[o] # Absent => reads'[s].rows[o] # Absent
      BY <1>0, <2>2, Labels DEF Labelled
    <3>2. reads'[s].stage = "answered" /\ row' = row
      BY <2>1, <2>2
    <3> QED  BY <3>1, <3>2 DEF Fetched
  <2>3. ASSUME slips' = {}, reads[s].stage = "answered", reads'[s] = Idle, list' = reads[s].rows,
               ~ (reads[s].rows[o] < list[o])
        PROVE  Fetched(o)'
    <3> SUFFICES ASSUME slips = {}, Answered(o), row[o] # Absent PROVE Fetched(o)'
      BY <1>10, <2>1, <2>3 DEF Fetched, Quiet, Answered
    <3>1. list[o] # Absent => list'[o] # Absent
      <4>1. list[o] \in Nat /\ reads[s].rows[o] \in Nat
        BY <1>0, Sizes
      <4> QED  BY <2>3, <4>1 DEF Absent
    <3>2. Asked => Asked'
      BY <2>1, <2>3 DEF Asked
    <3>3. ASSUME NEW t \in Slots, reads[t].stage = "answered", reads[t].rows[o] # Absent
          PROVE  \/ list'[o] # Absent
                 \/ \E u \in Slots : reads'[u].stage = "answered" /\ reads'[u].rows[o] # Absent
      <4>1. CASE t = s
        BY <2>3, <3>3, <4>1
      <4>2. CASE t # s
        <5>1. reads'[t] = reads[t]
          BY <2>1, <4>2
        <5> QED  BY <3>3, <5>1
      <4> QED  BY <4>1, <4>2
    <3> QED  BY <3>1, <3>2, <3>3 DEF Fetched
  <2>4. CASE slips' # {}
    BY <2>4 DEF Fetched
  <2> QED  BY <2>1, <2>2, <2>3, <2>4
<1> QED  BY <1>0, <1>1, <1>2, <1>3, <1>5, <1>6, <1>7, <1>8, <1>9, <1>10, Steps

LEMMA OpenedWithout ==
    ASSUME NEW o \in Orders, Opened(o), StillOpen(o)' => StillOpen(o),
           UNCHANGED <<list, openIds>>,
           \A s \in Slots : reads'[s].rows = reads[s].rows /\ reads'[s].open = reads[s].open
    PROVE  Opened(o)'
BY DEF Opened

LEMMA OpenedKept ==
    ASSUME Ordered, NEW o \in Orders, Opened(o), [Next]_vars
    PROVE  Opened(o)'
<1>0. /\ TypeOK /\ Behind
  BY DEF Ordered, Inv
<1>1. ASSUME NEW p \in Orders, Loud(p) PROVE Opened(o)'
  BY <1>1, OpenedWithout DEF Loud, Grown
<1>2. ASSUME NEW p \in Orders, StoreOrder(p) PROVE Opened(o)'
  <2>1. /\ row[p] = Absent /\ UNCHANGED picture
        /\ \A q \in Orders \ {p} : StillOpen(q)' => StillOpen(q)
    BY <1>0, <1>2, StoreOrderEffect
  <2>2. CASE o = p
    <3>1. list[o] = Absent /\ \A s \in Slots : reads[s].rows[o] = Absent
      BY <1>0, <2>1, <2>2, Sizes DEF Behind, ShownBehind, Absent
    <3> QED  BY <2>1, <3>1 DEF Opened
  <2>3. CASE o # p
    BY <2>1, <2>3, OpenedWithout
  <2> QED  BY <2>2, <2>3
<1>3. ASSUME UNCHANGED <<row, rowStatus, reopened, list, openIds, reads>> PROVE Opened(o)'
  BY <1>3, OpenedWithout DEF StillOpen
<1>4. ASSUME NEW p \in Orders, PlaceOrder(p) PROVE Opened(o)'
  BY <1>3, <1>4 DEF PlaceOrder
<1>5. ASSUME NEW e \in outbox, Publish(e) \/ LosePublication(e) PROVE Opened(o)'
  BY <1>3, <1>5 DEF Publish, LosePublication
<1>6. ASSUME NEW i \in Insts, Accept(i) \/ Closes(i) \/ Hear(i) PROVE Opened(o)'
  BY <1>3, <1>6 DEF Accept, Closes, Hear
<1>7. ASSUME NEW gone \in SUBSET Insts, Break(gone) PROVE Opened(o)'
  BY <1>3, <1>7 DEF Break
<1>8. ASSUME Quiet, Aside PROVE Opened(o)'
  BY <1>8, OpenedWithout DEF Quiet, Grown, Aside
<1>9. ASSUME Quiet, Asks PROVE Opened(o)'
  BY <1>9, OpenedWithout DEF Quiet, Grown, Asks
<1>10. ASSUME NEW s \in Slots, ReadStep(s) PROVE Opened(o)'
  <2>1. /\ \A t \in Slots \ {s} : reads'[t] = reads[t]
        /\ UNCHANGED rows
        /\ \/ /\ reads'[s] = [stage |-> "answered", rows |-> Labelled, open |-> OpenRows]
              /\ UNCHANGED <<list, openIds>>
           \/ reads'[s] = Idle /\ list' = reads[s].rows /\ openIds' = reads[s].open
           \/ reads'[s] = Idle /\ list' = NoRows
    BY <1>0, <1>10, ReadEffect
  <2> SUFFICES ASSUME StillOpen(o) PROVE Opened(o)'
    BY <2>1 DEF Opened, StillOpen
  <2>2. /\ list[o] # Absent => o \in openIds
        /\ \A t \in Slots : reads[t].rows[o] # Absent => o \in reads[t].open
    BY DEF Opened
  <2>3. list'[o] # Absent => o \in openIds'
    BY <2>1, <2>2 DEF NoRows
  <2>4. o \in OpenRows
    BY DEF StillOpen, OpenRows
  <2>5. reads'[s].rows[o] # Absent => o \in reads'[s].open
    BY <2>1, <2>4 DEF Idle, NoRows
  <2>6. \A t \in Slots : reads'[t].rows[o] # Absent => o \in reads'[t].open
    BY <2>1, <2>2, <2>5
  <2> QED  BY <2>3, <2>6 DEF Opened
<1> QED  BY <1>0, <1>1, <1>2, <1>4, <1>5, <1>6, <1>7, <1>8, <1>9, <1>10, Steps

Followed == \A o \in Orders : Newest(o) /\ Known(o) /\ Fetched(o) /\ Opened(o)

LEMMA FollowedInit == Init => Followed
<1> SUFFICES ASSUME Init, NEW o \in Orders PROVE Newest(o) /\ Known(o) /\ Fetched(o) /\ Opened(o)
  BY DEF Followed
<1>1. NewsOf(o) = {} /\ ordersById[o] = Absent
  BY NoMessages DEF Init, NewsOf, Travelling, NoRows
<1>2. Asked
  BY DEF Init, Asked, Idle
<1>3. list[o] = Absent /\ \A s \in Slots : reads[s].rows[o] = Absent
  BY DEF Init, NoRows, Idle
<1> QED  BY <1>1, <1>2, <1>3 DEF Newest, Known, Fetched, Opened

\* Once everything has settled, what is drawn is what was heard, or else what
\* was fetched.
LEMMA ShownFollows ==
    ASSUME Ordered, Followed
    PROVE  ShownIsCurrent
<1>0. TypeOK
  BY DEF Ordered, Inv
<1> SUFFICES ASSUME Settled, slips = {}, NEW o \in Orders, row[o] # Absent,
                    post[o] # "failed", ~ (o \in missed /\ ordersById[o] # Absent)
             PROVE  /\ list[o] # Absent /\ Merged(o) >= due[o]
                    /\ rowStatus[o] \in Open => o \in ShownOpen \/ o \in reopened
  BY DEF ShownIsCurrent
<1>1. /\ \A i \in Insts : Messages(inbox[i]) = {}
      /\ outbox = {} /\ sock[inst] = "open" /\ Answered(o)
      /\ \A s \in Slots : reads[s].stage = "idle"
  BY NoMessages DEF Settled, Answered, Idle
<1>2. Travelling = {} /\ inst \in Insts
  BY <1>0, <1>1 DEF Travelling, TypeOK
<1>3. list[o] # Absent
  BY <1>1 DEF Followed, Fetched, Asked
<1>4. list[o] >= due[o] \/ ordersById[o] >= due[o]
  BY <1>1, <1>2 DEF Followed, Known, Asked, Brings
<1>5. Merged(o) >= due[o]
  <2>1. CASE ordersById[o] # Absent
    <3>1. ordersById[o] >= due[o]
      BY <1>2, <2>1 DEF Followed, Newest, Brings
    <3> QED  BY <2>1, <3>1 DEF Merged
  <2>2. CASE ordersById[o] = Absent
    <3>1. list[o] \in Nat /\ due[o] \in Nat
      BY <1>0, Sizes
    <3> QED  BY <1>4, <2>2, <3>1 DEF Merged, Absent
  <2> QED  BY <2>1, <2>2
<1>6. ASSUME rowStatus[o] \in Open, o \notin reopened PROVE o \in ShownOpen
  BY <1>3, <1>6 DEF Followed, Opened, StillOpen, ShownOpen
<1> QED  BY <1>3, <1>5, <1>6

\* A page that has settled shows every order with a status at least as new as the
\* last that was to be published, and an open order as open, whatever statuses
\* are written over each other, with or without a word, for every number of orders,
\* fetches and runs of the effect, but for the exceptions the property names.
THEOREM ShownBecomesCurrent == Spec => []ShownIsCurrent
<1>1. ASSUME Ordered, Followed, [Next]_vars PROVE Followed'
  <2>0. Ordered'
    BY <1>1, OrderedKept
  <2>1. ASSUME NEW o \in Orders PROVE Newest(o)' /\ Known(o)' /\ Fetched(o)' /\ Opened(o)'
    BY <1>1, <2>0, NewestKept, KnownKept, FetchedKept, OpenedKept DEF Followed
  <2> QED  BY <2>1 DEF Followed
<1> QED  BY <1>1, FollowedInit, ShownFollows, OrderedHolds, PTL DEF Spec

================================================================================
