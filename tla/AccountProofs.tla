------------------------------- MODULE AccountProofs -------------------------------
(***************************************************************************)
(* Proofs about Account: types; one socket per user; that a position is    *)
(* the sum of its fills; whose fault it is when the event service ends;    *)
(* and that an answer which comes from no cache does not take the page     *)
(* back.                                                                   *)
(***************************************************************************)
EXTENDS Account, TLAPS

\* A timer is due for a close, which was a fault.
Typed == TypeOK /\ timers <= faults

\* What the steps of the other module leave alone.
USE DEF stream, requests

------------------------------------------------------------------------------
(* types                                                                   *)

\* A request, an order or a timer starts a socket that is free, or none.
LEMMA StartTyped ==
    ASSUME TypeOK, Start
    PROVE  /\ sockets' \in [Sockets -> {"none", "connecting", "subscribed"}]
           /\ entry' \in Sockets \union {NoSocket}
<1>1. CASE MayStart /\ \E i \in Sockets : sockets[i] = "none"
  <2>1. PICK i \in Sockets : sockets[i] = "none" /\ i = CHOOSE j \in Sockets : sockets[j] = "none"
    BY <1>1
  <2> QED  BY <2>1, <1>1 DEF Start, TypeOK
<1>2. CASE ~ (MayStart /\ \E i \in Sockets : sockets[i] = "none")
  BY <1>2 DEF Start, TypeOK
<1> QED  BY <1>1, <1>2

\* A position is a natural number, whatever was read for it.
LEMMA QuantityTyped ==
    ASSUME NEW side, NEW quantity \in Nat
    PROVE  NewQuantity(side, quantity) \in Nat /\ Holding(side, quantity) \in Nat
BY DEF NewQuantity, Holding

\* One field of a table changes.
LEMMA Updated ==
    ASSUME NEW S, NEW T, NEW R, NEW f \in [S -> [T -> R]], NEW s \in S, NEW t \in T, NEW r \in R
    PROVE  [f EXCEPT ![s][t] = r] \in [S -> [T -> R]]
OBVIOUS

LEMMA StreamTyped ==
    ASSUME Typed, StreamStep, UNCHANGED requests
    PROVE  Typed'
<1> USE StreamAssumption DEF Typed, TypeOK, Fault, CanFail
<1>1. ASSUME NEW i \in Sockets, Acknowledge(i) PROVE Typed'
  BY <1>1 DEF Acknowledge
<1>2. ASSUME NEW i \in Sockets, NEW reopens \in BOOLEAN, Close(i, reopens) PROVE Typed'
  <2>1. entry' \in Sockets \union {NoSocket} /\ slips' \subseteq {"fill", "stream", "publish"}
    BY <1>2 DEF Close, EntryAfterClose
  <2>2. timers' \in 0..MaxFaults /\ timers' <= faults' /\ faults' \in 0..MaxFaults
    BY <1>2 DEF Close
  <2> QED  BY <1>2, <2>1, <2>2 DEF Close
<1>3. CASE Reopen
  BY <1>3, StartTyped DEF Reopen
<1>4. ASSUME NEW side \in {"BUY", "SELL"}, Trade(side) PROVE Typed'
  <2>1. trades' \in 0..MaxTrades /\ due' \in Nat /\ shown' \in 0..MaxTrades
    BY <1>4, QuantityTyped DEF Trade
  <2>2. reports' \in [Trades -> [Sockets ->
            [stage : {"none", "arrived", "read"}, side : {"BUY", "SELL"}, seen : Nat]]]
    BY <1>4 DEF Trade, NoReport
  <2>3. alone' \subseteq Calls /\ slips' \subseteq {"fill", "stream", "publish"}
    BY <1>4 DEF Trade
  <2> QED  BY <1>4, <2>1, <2>2, <2>3 DEF Trade
<1>5. ASSUME NEW t \in Trades, NEW i \in Sockets, ReadPosition(t, i) PROVE Typed'
  <2> DEFINE Report == [stage : {"none", "arrived", "read"}, side : {"BUY", "SELL"}, seen : Nat]
  <2>1. reports[t][i] \in Report /\ reports \in [Trades -> [Sockets -> Report]]
    OBVIOUS
  <2>2. HasRead(t, i) \in Report /\ NoReport \in Report
    BY <2>1 DEF HasRead, NoReport
  <2>3. faults \in Nat /\ MaxFaults \in Nat /\ faults <= MaxFaults /\ slips \subseteq {"fill", "stream", "publish"}
    OBVIOUS
  <2>4. /\ slips' \subseteq {"fill", "stream", "publish"}
        /\ faults' \in 0..MaxFaults /\ faults <= faults'
        /\ reports' \in [Trades -> [Sockets -> Report]]
    <3> HIDE DEF Typed, TypeOK, Report
    <3>1. CASE reports' = [reports EXCEPT ![t][i] = HasRead(t, i)] /\ UNCHANGED <<faults, slips>>
      BY <2>1, <2>2, <2>3, <3>1, Updated
    <3>2. CASE Fault /\ reports' = [reports EXCEPT ![t][i] = NoReport] /\ slips' = slips \union {"fill"}
      BY <2>1, <2>2, <2>3, <3>2, Updated
    <3> QED  BY <1>5, <3>1, <3>2 DEF ReadPosition
  <2>5. UNCHANGED <<trades, due, sockets, entry, timers, position, shown, alone>>
    BY <1>5 DEF ReadPosition
  <2> QED  BY <2>4, <2>5
<1>6. ASSUME NEW t \in Trades, NEW i \in Sockets, WritePosition(t, i) PROVE Typed'
  <2>1. position' \in Nat
    BY <1>6, QuantityTyped DEF WritePosition, Written
  <2> QED  BY <1>6, <2>1 DEF WritePosition, NoReport
<1>7. ASSUME NEW t \in Trades, NEW i \in Sockets, DeleteFails(t, i) PROVE Typed'
  BY <1>7 DEF DeleteFails, NoReport
<1> QED  BY <1>1, <1>2, <1>3, <1>4, <1>5, <1>6, <1>7 DEF StreamStep, HandlerStep

\* A promise is rejected, or an answer arrives, and the calls keep their type.
LEMMA CallsTyped ==
    ASSUME TypeOK, NEW n \in Calls, NEW data \in 0..MaxTrades,
           Reject(n) \/ Refuse(n) \/ Answer(n, data)
    PROVE  /\ calls' \in [Calls -> [stage : {"none", "publishing", "pending", "answered", "failed",
                                            "lost", "done"}, data : 0..MaxTrades]]
           /\ orphans' \subseteq Calls
           /\ gatewayCache' \in 0..MaxTrades \union {NoData}
<1>0. NoCall.data \in 0..MaxTrades
  BY StreamAssumption DEF NoCall
<1>1. CASE Reject(n)
  BY <1>0, <1>1 DEF Reject, TypeOK, NoCall
<1>2. CASE Refuse(n)
  BY <1>1, <1>2 DEF Refuse, TypeOK
<1>3. CASE Answer(n, data)
  BY <1>3 DEF Answer, TypeOK
<1> QED  BY <1>1, <1>2, <1>3

LEMMA RequestTyped ==
    ASSUME Typed, RequestStep
    PROVE  Typed'
<1> USE StreamAssumption DEF Typed, TypeOK
<1>1. ASSUME NEW n \in Calls, Ask(n) PROVE Typed'
  <2>1. /\ work' \in [Calls -> [stage : {"none", "requested", "fetching", "fetched"}, data : 0..MaxTrades]]
        /\ alone' \subseteq Calls
    BY <1>1 DEF Ask
  <2>2. gatewayCache # NoData => gatewayCache \in 0..MaxTrades
    OBVIOUS
  <2>3. calls' \in [Calls -> [stage : {"none", "publishing", "pending", "answered", "failed",
                                     "lost", "done"}, data : 0..MaxTrades]]
    BY <1>1, <2>2 DEF Ask
  <2> QED  BY <1>1, <2>1, <2>3 DEF Ask
<1>2. ASSUME NEW n \in Calls, Published(n) PROVE Typed'
  BY <1>2 DEF Published
<1>3. ASSUME NEW n \in Calls, PublishFails(n) PROVE Typed'
  <2>1. faults' \in 0..MaxFaults /\ timers <= faults' /\ slips' \subseteq {"fill", "stream", "publish"}
    BY <1>3 DEF PublishFails, Fault, CanFail
  <2>2. /\ calls' \in [Calls -> [stage : {"none", "publishing", "pending", "answered", "failed",
                                         "lost", "done"}, data : 0..MaxTrades]]
        /\ orphans' \subseteq Calls
    BY <1>3 DEF PublishFails
  <2>3. work' \in [Calls -> [stage : {"none", "requested", "fetching", "fetched"}, data : 0..MaxTrades]]
    <3>1. work' = work \/ work' = [work EXCEPT ![n] = NoWork]
      BY <1>3 DEF PublishFails
    <3>2. NoWork \in [stage : {"none", "requested", "fetching", "fetched"}, data : 0..MaxTrades]
      BY DEF NoWork
    <3> QED  BY <3>1, <3>2
  <2> QED  BY <1>3, <2>1, <2>2, <2>3 DEF PublishFails
<1>4. ASSUME NEW n \in Calls, TimesOut(n) PROVE Typed'
  <2>1. faults' \in 0..MaxFaults /\ timers <= faults' /\ slips' \subseteq {"fill", "stream", "publish"}
    <3>1. /\ faults \in 0..MaxFaults /\ MaxFaults \in Nat
          /\ timers \in Nat /\ timers <= faults
          /\ slips \subseteq {"fill", "stream", "publish"}
      OBVIOUS
    <3>2. timers' = timers
      BY <1>4 DEF TimesOut
    <3> HIDE DEF Typed, TypeOK
    <3>3. CASE UNCHANGED <<faults, slips>>
      BY <3>1, <3>2, <3>3
    <3>4. CASE Fault /\ slips' = slips \union {"publish"}
      BY <3>1, <3>2, <3>4 DEF Fault, CanFail
    <3> QED  BY <1>4, <3>3, <3>4 DEF TimesOut
  <2> QED  BY <1>4, <2>1, CallsTyped DEF TimesOut
<1>5. ASSUME NEW n \in Calls, TakeAnswer(n) PROVE Typed'
  BY <1>5 DEF TakeAnswer, NoCall, Show
<1>6. ASSUME NEW n \in Calls, AnswerCached(n) PROVE Typed'
  BY <1>6, CallsTyped, StartTyped DEF AnswerCached, NoWork
<1>7. ASSUME NEW n \in Calls, BeginFetch(n) PROVE Typed'
  BY <1>7, StartTyped DEF BeginFetch
<1>8. ASSUME NEW n \in Calls, Fetched(n) PROVE Typed'
  BY <1>8 DEF Fetched
<1>9. ASSUME NEW n \in Calls, FetchFails(n) PROVE Typed'
  BY <1>9, CallsTyped DEF FetchFails, NoWork, Fault, CanFail
<1>10. ASSUME NEW n \in Calls, Reply(n) PROVE Typed'
  BY <1>10, CallsTyped DEF Reply, NoWork, Show
<1>11. CASE ReconcilePublish
  BY <1>11 DEF ReconcilePublish, Show
<1> QED  BY <1>1, <1>2, <1>3, <1>4, <1>5, <1>6, <1>7, <1>8, <1>9, <1>10, <1>11 DEF RequestStep

LEMMA OtherTyped ==
    ASSUME Typed, ExecutionEnds \/ OrderStarts \/ UNCHANGED vars
    PROVE  Typed'
<1> USE StreamAssumption DEF Typed, TypeOK
<1>1. CASE ExecutionEnds
  BY <1>1 DEF ExecutionEnds, NoReport, NoWork, Fault, CanFail
<1>2. CASE OrderStarts
  BY <1>2, StartTyped DEF OrderStarts
<1>3. CASE UNCHANGED vars
  BY <1>3 DEF vars
<1> QED  BY <1>1, <1>2, <1>3

LEMMA TypedHolds == Spec => []Typed
<1>1. Init => Typed
  BY StreamAssumption DEF Init, Typed, TypeOK, NoReport, NoCall, NoWork
<1>2. Typed /\ [Next]_vars => Typed'
  BY StreamTyped, RequestTyped, OtherTyped DEF Next
<1> QED  BY <1>1, <1>2, PTL DEF Spec

\* Types, for every number of sockets, requests, trades and faults.
THEOREM TypeCorrect == Spec => []TypeOK
<1>1. Typed => TypeOK
  BY DEF Typed
<1> QED  BY <1>1, TypedHolds, PTL

------------------------------------------------------------------------------
(* one socket                                                              *)

\* Only a free registry lets a socket start, and it then knows that socket.
LEMMA StartKeepsOne ==
    ASSUME Typed, OneStream, Start
    PROVE  OneStream'
<1> USE DEF Typed, TypeOK, OneStream
<1>1. CASE MayStart /\ \E i \in Sockets : sockets[i] = "none"
  <2>1. PICK i \in Sockets : /\ sockets' = [sockets EXCEPT ![i] = "connecting"]
                             /\ entry' = i
    <3> DEFINE i == CHOOSE j \in Sockets : sockets[j] = "none"
    <3>1. i \in Sockets
      BY <1>1
    <3> QED  BY <1>1, <3>1 DEF Start
  <2>2. \A j \in Sockets : sockets[j] = "none"
    BY <1>1, StreamAssumption DEF MayStart
  <2> QED  BY <2>1, <2>2
<1>2. CASE ~ (MayStart /\ \E i \in Sockets : sockets[i] = "none")
  BY <1>2 DEF Start
<1> QED  BY <1>1, <1>2

LEMMA OneStreamKept ==
    ASSUME Typed, OneStream, [Next]_vars
    PROVE  OneStream'
<1>1. CASE Start
  BY <1>1, StartKeepsOne
<1>2. CASE UNCHANGED <<sockets, entry>>
  BY <1>2 DEF OneStream
<1>3. ASSUME NEW i \in Sockets, Acknowledge(i) PROVE OneStream'
  BY <1>3 DEF Acknowledge, OneStream, Typed, TypeOK
<1>4. ASSUME NEW i \in Sockets, NEW reopens \in BOOLEAN, Close(i, reopens) PROVE OneStream'
  BY <1>4 DEF Close, EntryAfterClose, OneStream, Typed, TypeOK
<1>5. CASE ExecutionEnds
  BY <1>5 DEF ExecutionEnds, OneStream
<1>6. CASE StreamStep
  <2>1. CASE Reopen
    BY <2>1, <1>1 DEF Reopen
  <2>2. CASE HandlerStep
    BY <2>2, <1>2 DEF HandlerStep, ReadPosition, WritePosition, DeleteFails
  <2>3. ASSUME NEW side \in {"BUY", "SELL"}, Trade(side) PROVE OneStream'
    BY <2>3, <1>2 DEF Trade
  <2> QED  BY <1>6, <1>3, <1>4, <2>1, <2>2, <2>3 DEF StreamStep
<1>7. CASE RequestStep
  <2>1. ASSUME NEW n \in Calls, AnswerCached(n) \/ BeginFetch(n) PROVE OneStream'
    BY <2>1, <1>1 DEF AnswerCached, BeginFetch
  <2>2. ASSUME NEW n \in Calls, Ask(n) \/ Published(n) \/ PublishFails(n) PROVE OneStream'
    BY <2>2, <1>2 DEF Ask, Published, PublishFails
  <2>3. ASSUME NEW n \in Calls,
               TimesOut(n) \/ TakeAnswer(n) \/ Fetched(n) \/ FetchFails(n) \/ Reply(n)
        PROVE  OneStream'
    BY <2>3, <1>2 DEF TimesOut, TakeAnswer, Fetched, FetchFails, Reply
  <2>4. CASE ReconcilePublish
    BY <2>4, <1>2 DEF ReconcilePublish
  <2> QED  BY <1>7, <2>1, <2>2, <2>3, <2>4 DEF RequestStep
<1>8. CASE OrderStarts
  BY <1>8, <1>1 DEF OrderStarts
<1>9. CASE UNCHANGED vars
  BY <1>9, <1>2 DEF vars
<1> QED  BY <1>5, <1>6, <1>7, <1>8, <1>9 DEF Next

\* A user has at most one socket and the registry knows it, however many
\* sockets, requests and faults there are.
THEOREM OneStreamHolds == Spec => []OneStream
<1>1. Init => OneStream
  BY DEF Init, OneStream
<1>2. Typed /\ OneStream /\ [Next]_vars => OneStream'
  BY OneStreamKept
<1> QED  BY <1>1, <1>2, TypedHolds, PTL DEF Spec

------------------------------------------------------------------------------
(* the sum of the fills: without a slip one handler is at work at a time,  *)
(* and what it has yet to write is all that is missing.                    *)

Handling(t, i) == reports[t][i] # NoReport

\* The handler knows the position, and its trade leads to what is due.
Catching(t, i) ==
    /\ reports[t][i].stage \in {"arrived", "read"}
    /\ reports[t][i].stage = "read" => reports[t][i].seen = position
    /\ due = Holding(reports[t][i].side, position)

Summed ==
    "fill" \notin slips =>
        /\ \A t, u \in Trades, i, j \in Sockets :
              Handling(t, i) /\ Handling(u, j) => t = u /\ i = j
        /\ \A t \in Trades, i \in Sockets : Handling(t, i) => Catching(t, i)
        /\ (\A t \in Trades : ~ InHandling(t)) => position = due

\* The handler of the last report has written the position, or dropped it.
LEMMA LastWritten ==
    ASSUME Typed, Summed, "fill" \notin slips, NEW t \in Trades, NEW i \in Sockets, Handling(t, i),
           reports' = [reports EXCEPT ![t][i] = NoReport], position' = due, due' = due
    PROVE  Summed'
<1>1. \A u \in Trades, j \in Sockets : reports'[u][j] = NoReport
  BY DEF Typed, TypeOK, Summed, Handling
<1> QED  BY <1>1 DEF Summed, Handling, InHandling

LEMMA SummedAfterStream ==
    ASSUME Typed, OneStream, Summed, StreamStep
    PROVE  Summed'
<1>0. /\ trades \in 0..MaxTrades /\ MaxTrades \in Nat /\ position \in Nat /\ due \in Nat
      /\ reports \in [Trades -> [Sockets ->
            [stage : {"none", "arrived", "read"}, side : {"BUY", "SELL"}, seen : Nat]]]
      /\ sockets \in [Sockets -> {"none", "connecting", "subscribed"}]
  BY StreamAssumption DEF Typed, TypeOK
<1>1. CASE UNCHANGED <<reports, position, due>> /\ slips \subseteq slips'
  BY <1>1 DEF Summed, Handling, Catching, InHandling
<1>2. CASE "fill" \in slips'
  BY <1>2 DEF Summed
<1>3. ASSUME NEW side \in {"BUY", "SELL"}, Trade(side) PROVE Summed'
  <2>1. CASE Subscribed = {} \/ (\E t \in Trades : InHandling(t)) \/ "fill" \in slips
    BY <1>2, <1>3, <2>1 DEF Trade
  <2>2. CASE Subscribed # {} /\ (\A t \in Trades : ~ InHandling(t)) /\ "fill" \notin slips
    <3>1. position = due
      BY <2>2 DEF Summed
    <3>2. trades + 1 \in Trades
      BY <1>0, <1>3 DEF Trade, Trades
    <3> DEFINE news == [NoReport EXCEPT !.stage = "arrived", !.side = side]
    <3>3. /\ news.stage = "arrived" /\ news.side = side
          /\ NoReport.stage = "none"
      BY DEF NoReport
    <3> HIDE DEF news
    <3>4. /\ reports' = [reports EXCEPT ![trades + 1] =
                [i \in Sockets |-> IF i \in Subscribed THEN news ELSE NoReport]]
          /\ due' = Holding(side, due) /\ position' = position
      BY <1>3 DEF Trade, news
    <3>5. \A t \in Trades, i \in Sockets :
             reports'[t][i] = IF t = trades + 1 /\ i \in Subscribed THEN news ELSE NoReport
      BY <1>0, <2>2, <3>2, <3>4 DEF InHandling
    <3>6. \A i, j \in Subscribed : i = j
      BY DEF Subscribed, OneStream
    <3>7. \A t \in Trades, i \in Sockets : Handling(t, i)' =>
             /\ t = trades + 1 /\ i \in Subscribed /\ reports'[t][i] = news
      BY <3>5 DEF Handling
    <3>8. \A t \in Trades, i \in Sockets : Handling(t, i)' => Catching(t, i)'
      BY <3>1, <3>3, <3>4, <3>7 DEF Catching
    <3>9. \E t \in Trades, i \in Sockets : reports'[t][i] # NoReport
      <4>1. PICK i \in Sockets : i \in Subscribed
        BY <2>2 DEF Subscribed
      <4>2. reports'[trades + 1][i] # NoReport
        BY <3>2, <3>3, <3>5, <4>1
      <4> QED  BY <3>2, <4>2
    <3>10. ~ (\A t \in Trades : ~ InHandling(t))'
      BY <3>9 DEF InHandling
    <3>11. \A t, u \in Trades, i, j \in Sockets :
              Handling(t, i)' /\ Handling(u, j)' => t = u /\ i = j
      BY <3>6, <3>7
    <3> QED  BY <3>8, <3>10, <3>11 DEF Summed
  <2> QED  BY <2>1, <2>2
<1>4. ASSUME NEW t \in Trades, NEW i \in Sockets, ReadPosition(t, i), "fill" \notin slips'
      PROVE  Summed'
  <2>1. /\ reports' = [reports EXCEPT ![t][i] = HasRead(t, i)] /\ slips' = slips
        /\ UNCHANGED <<position, due>>
        /\ reports[t][i].stage = "arrived"
    BY <1>4 DEF ReadPosition
  <2>2. /\ HasRead(t, i).stage = "read" /\ HasRead(t, i).seen = position
        /\ HasRead(t, i).side = reports[t][i].side
    BY DEF HasRead
  <2>3. Handling(t, i) /\ Catching(t, i)
    BY <1>4, <2>1 DEF Handling, NoReport, Summed
  <2>4. /\ reports'[t][i] = HasRead(t, i)
        /\ \A u \in Trades, j \in Sockets : u # t \/ j # i => reports'[u][j] = reports[u][j]
    BY <1>0, <2>1
  <2>5. \A u \in Trades, j \in Sockets : u # t \/ j # i => reports[u][j] = NoReport
    BY <1>4, <2>1, <2>3 DEF Summed, Handling
  <2>6. Handling(t, i)' /\ Catching(t, i)'
    BY <2>1, <2>2, <2>3, <2>4 DEF Handling, Catching, NoReport
  <2>7. \A u \in Trades, j \in Sockets : Handling(u, j)' => u = t /\ j = i
    BY <2>4, <2>5 DEF Handling
  <2>8. \E j \in Sockets : reports'[t][j] # NoReport
    BY <2>6 DEF Handling
  <2>9. ~ (\A u \in Trades : ~ InHandling(u))'
    BY <2>8 DEF InHandling
  <2> QED  BY <2>6, <2>7, <2>9 DEF Summed
<1>5. ASSUME NEW t \in Trades, NEW i \in Sockets, WritePosition(t, i) PROVE Summed'
  <2>1. CASE "fill" \in slips
    BY <1>2, <1>5, <2>1 DEF WritePosition
  <2>2. CASE "fill" \notin slips
    <3>1. Handling(t, i) /\ reports[t][i].stage = "read"
      BY <1>5 DEF WritePosition, Handling, NoReport
    <3>2. due = Holding(reports[t][i].side, position) /\ reports[t][i].seen = position
      BY <2>2, <3>1 DEF Summed, Catching
    <3>3. position' = due
      BY <1>0, <1>5, <3>2 DEF WritePosition, Written, NewQuantity, Holding
    <3> QED  BY <1>5, <2>2, <3>1, <3>3, LastWritten DEF WritePosition
  <2> QED  BY <2>1, <2>2
<1>6. ASSUME NEW t \in Trades, NEW i \in Sockets, DeleteFails(t, i) PROVE Summed'
  BY <1>2, <1>6 DEF DeleteFails
<1>7. CASE Reopen \/ \E i \in Sockets : Acknowledge(i) \/ \E reopens \in BOOLEAN : Close(i, reopens)
  BY <1>1, <1>7 DEF Reopen, Acknowledge, Close
<1> QED  BY <1>2, <1>3, <1>4, <1>5, <1>6, <1>7 DEF StreamStep, HandlerStep

LEMMA SummedKept ==
    ASSUME Typed, OneStream, Summed, [Next]_vars
    PROVE  Summed'
<1>1. CASE UNCHANGED <<reports, position, due>> /\ slips \subseteq slips'
  BY <1>1 DEF Summed, Handling, Catching, InHandling
<1>2. CASE StreamStep
  BY <1>2, SummedAfterStream
<1>3. CASE RequestStep
  <2>1. ASSUME NEW n \in Calls, Ask(n) \/ Published(n) \/ PublishFails(n) \/ TimesOut(n)
                                \/ TakeAnswer(n)
        PROVE  Summed'
    BY <1>1, <2>1 DEF Ask, Published, PublishFails, TimesOut, TakeAnswer
  <2>2. ASSUME NEW n \in Calls, AnswerCached(n) \/ BeginFetch(n) \/ Fetched(n) \/ FetchFails(n)
                                \/ Reply(n)
        PROVE  Summed'
    BY <1>1, <2>2 DEF AnswerCached, BeginFetch, Fetched, FetchFails, Reply
  <2>3. CASE ReconcilePublish
    BY <1>1, <2>3 DEF ReconcilePublish
  <2> QED  BY <1>3, <2>1, <2>2, <2>3 DEF RequestStep
<1>4. CASE ExecutionEnds
  BY <1>4 DEF ExecutionEnds, Summed
<1>5. CASE OrderStarts \/ UNCHANGED vars
  BY <1>1, <1>5 DEF OrderStarts, vars
<1> QED  BY <1>2, <1>3, <1>4, <1>5 DEF Next

\* For every number of sockets, trades and faults: with all handlers at rest
\* the position is what the trades add up to, unless a fill was missed, met
\* another, failed or was cut short.
THEOREM PositionIsSumOfFillsHolds == Spec => []PositionIsSumOfFills
<1>1. Init => Summed
  BY DEF Init, Summed, Handling
<1>2. Typed /\ OneStream /\ Summed /\ [Next]_vars => Summed'
  BY SummedKept
<1>3. Summed => PositionIsSumOfFills
  BY DEF Summed, PositionIsSumOfFills
<1> QED  BY <1>1, <1>2, <1>3, TypedHolds, OneStreamHolds, PTL DEF Spec

------------------------------------------------------------------------------
(* who ends the event service                                              *)

\* Without a slip of a publication every promise that can be rejected has a
\* handler, and nobody was lost.
Blameless ==
    "publish" \notin slips =>
        /\ orphans = {}
        /\ \A n \in Calls : calls[n].stage # "lost"

\* A promise that has its handler takes nobody with it.
LEMMA HandledRejection ==
    ASSUME Typed, Blameless, NEW n \in Calls, Handled(n), Reject(n), UNCHANGED slips
    PROVE  Blameless'
BY DEF Typed, TypeOK, Blameless, Handled, Reject

LEMMA BlamelessKept ==
    ASSUME Typed, Blameless, [Next]_vars
    PROVE  Blameless'
<1>1. CASE UNCHANGED <<orphans, calls>> /\ slips \subseteq slips'
  BY <1>1 DEF Blameless
<1>2. CASE "publish" \in slips'
  BY <1>2 DEF Blameless
<1>3. ASSUME NEW n \in Calls, NEW data \in 0..MaxTrades, Answer(n, data), UNCHANGED slips
      PROVE  Blameless'
  BY <1>3 DEF Blameless, Answer, Typed, TypeOK
<1>4. CASE RequestStep
  <2>1. ASSUME NEW n \in Calls, Ask(n) PROVE Blameless'
    BY <2>1 DEF Ask, Blameless, Typed, TypeOK
  <2>2. ASSUME NEW n \in Calls, Published(n) PROVE Blameless'
    BY <2>2 DEF Published, Blameless, Typed, TypeOK
  <2>3. ASSUME NEW n \in Calls, PublishFails(n) PROVE Blameless'
    BY <2>3, <1>2 DEF PublishFails
  <2>4. ASSUME NEW n \in Calls, TimesOut(n) PROVE Blameless'
    <3>1. CASE "publish" \in slips
      BY <2>4, <3>1, <1>2 DEF TimesOut
    <3>2. CASE "publish" \notin slips /\ Armed(n) /\ UNCHANGED slips
      BY <2>4, <3>2, HandledRejection DEF TimesOut, Armed, Handled, Blameless
    <3> QED  BY <2>4, <3>1, <3>2, <1>2 DEF TimesOut
  <2>5. ASSUME NEW n \in Calls, TakeAnswer(n) PROVE Blameless'
    BY <2>5 DEF TakeAnswer, NoCall, Blameless, Typed, TypeOK
  <2>6. ASSUME NEW n \in Calls, AnswerCached(n) PROVE Blameless'
    BY <2>6, <1>3 DEF AnswerCached, Typed, TypeOK
  <2>7. ASSUME NEW n \in Calls, BeginFetch(n) \/ Fetched(n) PROVE Blameless'
    BY <2>7, <1>1 DEF BeginFetch, Fetched
  <2>8. ASSUME NEW n \in Calls, FetchFails(n) PROVE Blameless'
    <3>1. CASE "publish" \in slips \/ calls[n].stage = "publishing"
      BY <2>8, <3>1, <1>2 DEF FetchFails
    <3>2. CASE "publish" \notin slips /\ calls[n].stage # "publishing"
      <4>1. UNCHANGED slips
        BY <2>8, <3>2 DEF FetchFails
      <4>2. CASE Addressees(n) = {}
        BY <2>8, <4>1, <4>2, <1>1 DEF FetchFails, Refuse
      <4>3. CASE Addressees(n) # {}
        <5>1. Handled(n)
          BY <3>2, <4>3 DEF Addressees, Outstanding, Handled, Blameless
        <5> QED  BY <2>8, <4>1, <4>3, <5>1, HandledRejection DEF FetchFails, Refuse
      <4> QED  BY <4>2, <4>3
    <3> QED  BY <3>1, <3>2
  <2>9. ASSUME NEW n \in Calls, Reply(n) PROVE Blameless'
    BY <2>9, <1>3 DEF Reply, Typed, TypeOK
  <2>10. CASE ReconcilePublish
    BY <2>10, <1>1 DEF ReconcilePublish
  <2> QED  BY <1>4, <2>1, <2>2, <2>3, <2>4, <2>5, <2>6, <2>7, <2>8, <2>9, <2>10 DEF RequestStep
<1>5. CASE StreamStep /\ UNCHANGED requests
  <2>1. slips \subseteq slips'
    BY <1>5 DEF StreamStep, Acknowledge, Close, Reopen, HandlerStep, ReadPosition,
                WritePosition, DeleteFails, Trade
  <2> QED  BY <1>5, <2>1, <1>1
<1>6. CASE ExecutionEnds \/ OrderStarts \/ UNCHANGED vars
  BY <1>6, <1>1 DEF ExecutionEnds, OrderStarts, vars
<1> QED  BY <1>4, <1>5, <1>6 DEF Next

\* However many requests there are, one costs another its answer only after a
\* slip of a publication of the event service.
THEOREM OthersAreUnharmedHolds == Spec => []OthersAreUnharmed
<1>1. Init => Blameless
  BY DEF Init, Blameless, NoCall
<1>2. Typed /\ Blameless /\ [Next]_vars => Blameless'
  BY BlamelessKept
<1>3. Blameless => OthersAreUnharmed
  BY DEF Blameless, OthersAreUnharmed
<1> QED  BY <1>1, <1>2, <1>3, TypedHolds, PTL DEF Spec

------------------------------------------------------------------------------
(* answers that do not take the page back                                  *)

\* Nothing is newer than the trades.
Bounded ==
    /\ shown <= trades
    /\ \A n \in Calls : calls[n].data <= trades /\ work[n].data <= trades
    /\ gatewayCache # NoData => gatewayCache <= trades
    /\ executionCache # NoData => executionCache <= trades

\* Work is done for requests that have no answer yet.
Ordered ==
    /\ \A n \in alone : calls[n].stage # "none"
    /\ \A n \in Calls : work[n].stage # "none" => calls[n].stage \notin {"none", "answered"}

\* What is on its way to a request that was alone is as new as the page.
Current ==
    \A n \in alone :
        /\ work[n].stage = "fetched" => shown <= work[n].data
        /\ calls[n].stage = "answered" => shown <= calls[n].data

Fresh == Bounded /\ Ordered /\ Current

\* A request that is rejected loses its answer or never had one.
LEMMA RejectionShape ==
    ASSUME Typed, NEW n \in Calls, Reject(n)
    PROVE  /\ \A m \in Calls : \/ calls'[m] = calls[m]
                               \/ /\ calls'[m].stage \in {"failed", "lost"}
                                  /\ calls'[m].data \in {0, calls[m].data}
           /\ gatewayCache' \in {gatewayCache, NoData}
<1> USE DEF Typed, TypeOK
<1>1. CASE Handled(n)
  BY <1>1 DEF Reject
<1>2. CASE ~ Handled(n)
  BY <1>2 DEF Reject, NoCall
<1> QED  BY <1>1, <1>2

\* Rejecting requests and dropping work leaves everything as fresh as it was.
LEMMA FreshAfterRejection ==
    ASSUME Typed, Fresh,
           \A m \in Calls : \/ calls'[m] = calls[m]
                            \/ /\ calls'[m].stage \in {"failed", "lost"}
                               /\ calls'[m].data \in {0, calls[m].data},
           \A m \in Calls : work'[m] = work[m] \/ work'[m] = NoWork,
           gatewayCache' \in {gatewayCache, NoData},
           executionCache' = executionCache \/ executionCache' <= trades,
           UNCHANGED <<trades, shown, alone>>
    PROVE  Fresh'
<1> USE DEF Typed, TypeOK, Fresh
<1>1. \A m \in Calls : work'[m].data \in {0, work[m].data} /\ work'[m].stage \in {"none", work[m].stage}
  BY DEF NoWork
<1>2. \A m \in Calls : calls'[m].data \in {0, calls[m].data}
                       /\ calls'[m].stage \in {"failed", "lost", calls[m].stage}
  OBVIOUS
<1>3. Bounded'
  <2>1. /\ trades \in Nat /\ shown <= trades
        /\ \A m \in Calls : calls[m].data <= trades /\ work[m].data <= trades
    BY DEF Bounded
  <2>2. \A m \in Calls : calls'[m].data <= trades /\ work'[m].data <= trades
    <3> HIDE DEF Typed, TypeOK, Fresh
    <3> QED  BY <1>1, <1>2, <2>1
  <2>3. /\ gatewayCache' # NoData => gatewayCache' <= trades
        /\ executionCache' # NoData => executionCache' <= trades
    BY DEF Bounded
  <2> QED  BY <2>1, <2>2, <2>3 DEF Bounded
<1>4. Ordered'
  BY <1>1, <1>2 DEF Ordered
<1>5. Current'
  BY <1>1, <1>2 DEF Current, NoWork
<1> QED  BY <1>3, <1>4, <1>5

\* A step that touches neither requests nor what is shown.
LEMMA FreshWithout ==
    ASSUME Typed, Fresh, UNCHANGED <<calls, gatewayCache, executionCache, work, shown, alone, trades>>
    PROVE  Fresh'
BY DEF Fresh, Bounded, Ordered, Current

LEMMA FreshAfterStream ==
    ASSUME Typed, Fresh, StreamStep, UNCHANGED requests
    PROVE  Fresh'
<1>1. ASSUME NEW side \in {"BUY", "SELL"}, Trade(side) PROVE Fresh'
  <2>1. /\ trades' = trades + 1 /\ trades \in Nat /\ shown' \in {shown, trades + 1} /\ alone' \subseteq alone
        /\ shown' # shown => alone' = {}
    BY <1>1 DEF Trade, Typed, TypeOK
  <2>2. Bounded'
    BY <2>1 DEF Fresh, Bounded, Typed, TypeOK
  <2>3. Ordered' /\ Current'
    BY <2>1 DEF Fresh, Ordered, Current
  <2> QED  BY <2>2, <2>3 DEF Fresh
<1>2. ASSUME NEW i \in Sockets, Acknowledge(i) PROVE Fresh'
  BY <1>2, FreshWithout DEF Acknowledge
<1>3. ASSUME NEW i \in Sockets, NEW reopens \in BOOLEAN, Close(i, reopens) PROVE Fresh'
  BY <1>3, FreshWithout DEF Close
<1>4. CASE Reopen \/ HandlerStep
  BY <1>4, FreshWithout DEF Reopen, HandlerStep, ReadPosition, WritePosition, DeleteFails
<1> QED  BY <1>1, <1>2, <1>3, <1>4 DEF StreamStep

\* The answer of a request that was worked for, and what the page may hear
\* before it.
LEMMA FreshAfterReply ==
    ASSUME Typed, Fresh, NEW n \in Calls, Reply(n)
    PROVE  Fresh'
<1> USE DEF Typed, TypeOK, Fresh
<1>1. work[n].stage = "fetched" /\ work[n].data \in Nat /\ work[n].data <= trades
  BY DEF Reply, Bounded
<1>2. \A m \in Calls : \/ calls'[m] = calls[m]
                       \/ m = n /\ calls'[m] = [stage |-> "answered", data |-> work[n].data]
  BY DEF Reply, Answer, Receivers, Addressees
<1>3. calls[n].stage \notin {"none", "answered"}
  BY <1>1 DEF Ordered
<1>4. work'[n] = NoWork /\ \A m \in Calls : m # n => work'[m] = work[m]
  BY DEF Reply
<1>5. \/ UNCHANGED <<shown, alone>>
      \/ shown' = work[n].data /\ alone' = alone \intersect {n}
  BY DEF Reply, Show
<1>6. trades' = trades /\ gatewayCache' = work[n].data /\ executionCache' = work[n].data
  BY DEF Reply, Answer, stream
<1>7. \A m \in Calls : calls'[m].data <= trades
  BY <1>1, <1>2 DEF Bounded
<1>8. \A m \in Calls : work'[m].data <= trades
  BY <1>4 DEF Bounded, NoWork
<1>9. Bounded'
  <2>1. shown' <= trades
    BY <1>1, <1>5 DEF Bounded
  <2> HIDE DEF Typed, TypeOK, Fresh
  <2> QED  BY <1>1, <1>6, <1>7, <1>8, <2>1 DEF Bounded
<1>10. Ordered'
  <2>1. alone \subseteq Calls /\ alone' \subseteq alone
    BY <1>5
  <2>2. Ordered
    OBVIOUS
  <2> HIDE DEF Typed, TypeOK, Fresh
  <2> QED  BY <1>2, <1>4, <2>1, <2>2 DEF Ordered, NoWork
<1>11. Current'
  <2>1. ASSUME NEW m \in alone', m # n PROVE shown' = shown /\ m \in alone /\ UNCHANGED calls[m] /\ UNCHANGED work[m]
    BY <2>1, <1>2, <1>4, <1>5
  <2>2. ASSUME n \in alone' PROVE shown' <= work[n].data
    BY <2>2, <1>1, <1>5 DEF Current
  <2>3. calls'[n].stage = "answered" => calls'[n].data = work[n].data
    BY <1>2, <1>3
  <2> QED  BY <2>1, <2>2, <2>3, <1>4 DEF Current, NoWork
<1> QED  BY <1>9, <1>10, <1>11

LEMMA FreshAfterRequest ==
    ASSUME Typed, Fresh, RequestStep
    PROVE  Fresh'
<1>1. ASSUME NEW n \in Calls, Ask(n) PROVE Fresh'
  <2> USE DEF Typed, TypeOK, Fresh
  <2>0. UNCHANGED <<shown, trades, gatewayCache, executionCache>> /\ calls[n].stage = "none" /\ n \notin alone
    BY <1>1 DEF Ask, Ordered
  <2>1. CASE gatewayCache # NoData /\ UNCHANGED <<work, alone>>
             /\ calls' = [calls EXCEPT ![n] = [stage |-> "answered", data |-> gatewayCache]]
    BY <2>0, <2>1 DEF Bounded, Ordered, Current
  <2>2. CASE /\ calls' = [calls EXCEPT ![n] = [stage |-> "publishing", data |-> 0]]
             /\ work' = [work EXCEPT ![n] = [stage |-> "requested", data |-> 0]]
             /\ alone' = alone \union {n}
    BY <2>0, <2>2 DEF Bounded, Ordered, Current
  <2> QED  BY <1>1, <2>1, <2>2 DEF Ask
<1>2. ASSUME NEW n \in Calls, Published(n) PROVE Fresh'
  <2>1. /\ calls[n].stage = "publishing"
        /\ calls'[n].stage = "pending" /\ calls'[n].data = calls[n].data
        /\ \A m \in Calls : m # n => calls'[m] = calls[m]
    BY <1>2 DEF Published, Typed, TypeOK
  <2>2. UNCHANGED <<shown, alone, trades, work, gatewayCache, executionCache>>
    BY <1>2 DEF Published, stream
  <2>3. Bounded'
    BY <2>1, <2>2 DEF Fresh, Bounded
  <2>4. Ordered' /\ Current'
    BY <2>1, <2>2 DEF Fresh, Ordered, Current, Typed, TypeOK
  <2> QED  BY <2>3, <2>4 DEF Fresh
<1>3. ASSUME NEW n \in Calls, PublishFails(n) PROVE Fresh'
  <2>1. \A m \in Calls : \/ calls'[m] = calls[m]
                         \/ calls'[m].stage = "failed" /\ calls'[m].data = calls[m].data
    BY <1>3 DEF PublishFails, Typed, TypeOK
  <2>2. \A m \in Calls : work'[m] = work[m] \/ work'[m] = NoWork
    BY <1>3 DEF PublishFails, Typed, TypeOK
  <2> QED  BY <1>3, <2>1, <2>2, FreshAfterRejection DEF PublishFails
<1>4. ASSUME NEW n \in Calls, TimesOut(n) PROVE Fresh'
  BY <1>4, RejectionShape, FreshAfterRejection DEF TimesOut
<1>5. ASSUME NEW n \in Calls, TakeAnswer(n) PROVE Fresh'
  <2>1. /\ calls'[n].stage = "done" /\ calls'[n].data = 0
        /\ \A m \in Calls : m # n => calls'[m] = calls[m]
    BY <1>5 DEF TakeAnswer, NoCall, Typed, TypeOK
  <2>2. /\ shown' \in {calls[n].data, 0} /\ alone' = {}
        /\ UNCHANGED <<trades, work, gatewayCache, executionCache>>
    BY <1>5 DEF TakeAnswer, Show, stream
  <2>3. shown' <= trades
    BY <2>2 DEF Fresh, Bounded, Typed, TypeOK
  <2>4. \A m \in Calls : calls'[m].data <= trades
    BY <2>1 DEF Fresh, Bounded, Typed, TypeOK
  <2>5. Bounded'
    BY <2>2, <2>3, <2>4 DEF Fresh, Bounded
  <2>6. Ordered' /\ Current'
    BY <2>1, <2>2 DEF Fresh, Ordered, Current
  <2> QED  BY <2>5, <2>6 DEF Fresh
<1>6. ASSUME NEW n \in Calls, AnswerCached(n) PROVE Fresh'
  <2> USE DEF Typed, TypeOK, Fresh
  <2>1. executionCache \in Nat /\ executionCache <= trades
    BY <1>6 DEF AnswerCached, Bounded
  <2>2. \A m \in Calls : \/ calls'[m] = calls[m]
                         \/ m = n /\ calls'[m] = [stage |-> "answered", data |-> executionCache]
    BY <1>6 DEF AnswerCached, Answer, Receivers, Addressees
  <2>3. work'[n] = NoWork /\ \A m \in Calls : m # n => work'[m] = work[m]
    BY <1>6 DEF AnswerCached
  <2>4. /\ alone' = alone \ {n} /\ gatewayCache' = executionCache
        /\ UNCHANGED <<trades, shown, executionCache>>
    BY <1>6 DEF AnswerCached, Answer
  <2>5. Bounded'
    <3>1. \A m \in Calls : calls'[m].data <= trades
      <4>1. \A m \in Calls : calls'[m].data \in {calls[m].data, executionCache}
        <5> HIDE DEF Typed, TypeOK, Fresh
        <5> QED  BY <2>2
      <4> QED  BY <2>1, <4>1 DEF Bounded
    <3>2. \A m \in Calls : work'[m].data <= trades
      BY <2>3 DEF Bounded, NoWork
    <3>3. /\ shown' <= trades' /\ gatewayCache' <= trades'
          /\ executionCache' # NoData => executionCache' <= trades'
      BY <2>1, <2>4 DEF Bounded
    <3> QED  BY <2>4, <3>1, <3>2, <3>3 DEF Bounded
  <2>6. Ordered' /\ Current'
    BY <2>2, <2>3, <2>4 DEF Ordered, Current, NoWork
  <2> QED  BY <2>5, <2>6
<1>7. ASSUME NEW n \in Calls, BeginFetch(n) PROVE Fresh'
  <2>1. /\ work[n].stage = "requested"
        /\ work'[n].stage = "fetching" /\ work'[n].data = work[n].data
        /\ \A m \in Calls : m # n => work'[m] = work[m]
    BY <1>7 DEF BeginFetch, Typed, TypeOK
  <2>2. UNCHANGED <<shown, alone, trades, calls, gatewayCache, executionCache>>
    BY <1>7 DEF BeginFetch
  <2> QED  BY <2>1, <2>2 DEF Fresh, Bounded, Ordered, Current, Typed, TypeOK
<1>8. ASSUME NEW n \in Calls, Fetched(n) PROVE Fresh'
  <2>1. /\ work[n].stage = "fetching"
        /\ work'[n] = [stage |-> "fetched", data |-> trades]
        /\ \A m \in Calls : m # n => work'[m] = work[m]
    BY <1>8 DEF Fetched, Typed, TypeOK
  <2>2. UNCHANGED <<shown, alone, trades, calls, gatewayCache, executionCache>>
    BY <1>8 DEF Fetched, stream
  <2>3. trades \in Nat /\ \A m \in Calls : work'[m].data <= trades
    BY <2>1 DEF Fresh, Bounded, Typed, TypeOK
  <2>4. Bounded'
    BY <2>2, <2>3 DEF Fresh, Bounded
  <2>5. Ordered'
    BY <2>1, <2>2 DEF Fresh, Ordered
  <2>6. Current'
    <3>1. alone \subseteq Calls /\ shown <= trades
      BY DEF Fresh, Bounded, Typed, TypeOK
    <3> QED  BY <2>1, <2>2, <3>1 DEF Fresh, Current
  <2> QED  BY <2>4, <2>5, <2>6 DEF Fresh
<1>9. ASSUME NEW n \in Calls, FetchFails(n) PROVE Fresh'
  <2>1. \A m \in Calls : work'[m] = work[m] \/ work'[m] = NoWork
    BY <1>9 DEF FetchFails, Typed, TypeOK
  <2>2. /\ UNCHANGED <<trades, shown, alone>>
        /\ executionCache' = executionCache \/ executionCache' <= trades
    BY <1>9 DEF FetchFails, stream, Fresh, Bounded
  <2>3. CASE Addressees(n) = {}
    BY <1>9, <2>1, <2>2, <2>3, FreshAfterRejection DEF FetchFails, Refuse
  <2>4. CASE Reject(n)
    BY <2>1, <2>2, <2>4, RejectionShape, FreshAfterRejection
  <2> QED  BY <1>9, <2>3, <2>4 DEF FetchFails, Refuse
<1>10. ASSUME NEW n \in Calls, Reply(n) PROVE Fresh'
  BY <1>10, FreshAfterReply
<1>11. CASE ReconcilePublish
  <2>1. /\ shown' \in 0..trades /\ alone' = {}
        /\ UNCHANGED <<trades, calls, work, gatewayCache, executionCache>>
    BY <1>11 DEF ReconcilePublish, Show, stream, requests
  <2> QED  BY <2>1 DEF Fresh, Bounded, Ordered, Current, Typed, TypeOK
<1> QED  BY <1>1, <1>2, <1>3, <1>4, <1>5, <1>6, <1>7, <1>8, <1>9, <1>10, <1>11 DEF RequestStep

LEMMA FreshKept ==
    ASSUME Typed, Fresh, [Next]_vars
    PROVE  Fresh'
<1>1. CASE ExecutionEnds
  <2>1. /\ \A m \in Calls : calls'[m] = calls[m] /\ work'[m] = NoWork
        /\ executionCache' = NoData /\ UNCHANGED <<trades, shown, alone, gatewayCache>>
    BY <1>1 DEF ExecutionEnds
  <2> QED  BY <2>1 DEF Fresh, Bounded, Ordered, Current, NoWork, Typed, TypeOK
<1>2. CASE OrderStarts
  BY <1>2, FreshWithout DEF OrderStarts
<1>3. CASE UNCHANGED vars
  BY <1>3, FreshWithout DEF vars
<1> QED  BY <1>1, <1>2, <1>3, FreshAfterStream, FreshAfterRequest DEF Next

\* Only the page takes an answer.
LEMMA OnlyTakenIsDone ==
    ASSUME Typed, [Next]_vars, NEW n \in Calls,
           calls[n].stage = "answered", calls'[n].stage = "done"
    PROVE  TakeAnswer(n)
<1> USE DEF Typed, TypeOK
<1>1. calls' # calls
  OBVIOUS
<1>2. PICK m \in Calls : \/ Ask(m) \/ Published(m) \/ PublishFails(m) \/ TimesOut(m) \/ TakeAnswer(m)
                         \/ AnswerCached(m) \/ FetchFails(m) \/ Reply(m)
  BY <1>1 DEF Next, RequestStep, vars, ExecutionEnds, OrderStarts, BeginFetch, Fetched, ReconcilePublish
<1>3. ~ Ask(m) /\ ~ Published(m) /\ ~ PublishFails(m)
  BY DEF Ask, Published, PublishFails
<1>4. ~ Reject(m)
  BY RejectionShape
<1>5. ~ TimesOut(m) /\ ~ FetchFails(m)
  BY <1>1, <1>4 DEF TimesOut, FetchFails, Refuse
<1>6. ~ AnswerCached(m) /\ ~ Reply(m)
  <2>1. ASSUME NEW data, Answer(m, data) PROVE FALSE
    <3>1. calls'[n] = calls[n] \/ calls'[n].stage = "answered"
      BY <2>1 DEF Answer
    <3> QED  BY <3>1
  <2> QED  BY <2>1 DEF AnswerCached, Reply
<1>7. CASE TakeAnswer(m) /\ m # n
  BY <1>7 DEF TakeAnswer
<1> QED  BY <1>2, <1>3, <1>5, <1>6, <1>7

\* For any number of requests and trades: an answer from no cache, with nothing
\* else shown since it was asked for, is at least as new as what is shown.
THEOREM AnswersDoNotRegressHolds == Spec => AnswersDoNotRegress
<1>1. Init => Fresh
  BY DEF Init, Fresh, Bounded, Ordered, Current, NoCall, NoWork
<1>2. Typed /\ Fresh /\ [Next]_vars => Fresh'
  BY FreshKept
<1>3. ASSUME Typed, Fresh, [Next]_vars, NEW n \in Calls,
             calls[n].stage = "answered", calls'[n].stage = "done", n \in alone
      PROVE  shown' >= shown
  <2>1. shown' = calls[n].data
    BY <1>3, OnlyTakenIsDone DEF TakeAnswer, Show
  <2> QED  BY <1>3, <2>1 DEF Fresh, Current, Typed, TypeOK
<1>4. Typed /\ Fresh /\ [Next]_vars =>
        [\A n \in Calls :
            /\ calls[n].stage = "answered" /\ calls'[n].stage = "done"
            /\ n \in alone
            => shown' >= shown]_vars
  BY <1>3
<1> QED  BY <1>1, <1>2, <1>4, TypedHolds, PTL DEF Spec, AnswersDoNotRegress

================================================================================
