---------------------------------- MODULE Account ----------------------------------
(***************************************************************************)
(* A user's balances and position: the page's requests, the data stream    *)
(* they start, the trades it tells of, and the end of the execution        *)
(* service, which forgets the stream, its timers and what it was doing.    *)
(***************************************************************************)
EXTENDS AccountRequests

vars == <<stream, shown, alone, faults, slips, requests>>

\* The execution service ends: it is stopped, or the write of a position
\* fails, which nothing catches.  It is started again.
ExecutionEnds ==
    /\ Fault
    /\ sockets' = [i \in Sockets |-> "none"] /\ entry' = NoSocket /\ timers' = 0
    /\ reports' = [t \in Trades |-> [i \in Sockets |-> NoReport]]
    /\ work' = [n \in Calls |-> NoWork]
    /\ executionCache' = NoData
    /\ slips' = slips \union {"fill", "stream"}
    /\ UNCHANGED <<trades, due, position, shown, alone, calls, orphans, gatewayCache>>

\* Any order starts the stream as well.
OrderStarts ==
    /\ Start
    /\ UNCHANGED <<trades, due, timers, reports, position, shown, alone, faults, slips, requests>>

StreamStep ==
    \/ \E i \in Sockets : Acknowledge(i) \/ \E reopens \in BOOLEAN : Close(i, reopens)
    \/ Reopen \/ HandlerStep
    \/ HasRoom /\ \E side \in {"BUY", "SELL"} : Trade(side)

Init ==
    /\ trades = 0
    /\ due = 0
    /\ sockets = [i \in Sockets |-> "none"] /\ entry = NoSocket /\ timers = 0
    /\ reports = [t \in Trades |-> [i \in Sockets |-> NoReport]]
    /\ position = 0
    /\ shown = 0 /\ alone = {} /\ faults = 0 /\ slips = {}
    /\ calls = [n \in Calls |-> NoCall]
    /\ orphans = {}
    /\ work = [n \in Calls |-> NoWork]
    /\ gatewayCache = NoData /\ executionCache = NoData

Next ==
    \/ StreamStep /\ UNCHANGED requests
    \/ RequestStep \/ ExecutionEnds \/ OrderStarts

\* Publications return, timers fire and the page takes its answers;
\* subscriptions are acknowledged.  Each happens so often at most that none
\* can keep another waiting for ever.
Fairness ==
    /\ WF_vars(\E n \in Calls : Published(n) \/ TimesOut(n) \/ TakeAnswer(n))
    /\ WF_vars((Reopen \/ \E i \in Sockets : Acknowledge(i)) /\ UNCHANGED requests)

Spec == Init /\ [][Next]_vars /\ Fairness

------------------------------------------------------------------------------
(* properties                                                              *)

TypeOK ==
    /\ trades \in 0..MaxTrades /\ position \in Nat
    /\ due \in Nat
    /\ sockets \in [Sockets -> {"none", "connecting", "subscribed"}]
    /\ entry \in Sockets \union {NoSocket} /\ timers \in 0..MaxFaults
    /\ reports \in [Trades -> [Sockets ->
          [stage : {"none", "arrived", "read"}, side : {"BUY", "SELL"}, seen : Nat]]]
    /\ shown \in 0..MaxTrades
    /\ alone \subseteq Calls /\ faults \in 0..MaxFaults
    /\ slips \subseteq {"fill", "stream", "publish"}
    /\ calls \in [Calls -> [stage : {"none", "publishing", "pending", "answered", "failed", "lost", "done"},
                           data : 0..MaxTrades]]
    /\ orphans \subseteq Calls
    /\ work \in [Calls -> [stage : {"none", "requested", "fetching", "fetched"}, data : 0..MaxTrades]]
    /\ {gatewayCache, executionCache} \subseteq 0..MaxTrades \union {NoData}

\* However requests, orders, closes and timers meet, a user has one socket,
\* and the registry knows it.
OneStream == \A i \in Sockets : sockets[i] # "none" => entry = i

\* All handlers at rest, the position is what the trades add up to, unless a
\* trade was missed, two handlers met, or one failed or was cut short.
PositionIsSumOfFills ==
    "fill" \notin slips /\ (\A t \in Trades : ~ InHandling(t)) => position = due

\* A request that is answered late, refused or never heard of costs no other
\* request its answer, unless a publication of the event service failed, took
\* too long or was overtaken.
OthersAreUnharmed == (\E n \in Calls : calls[n].stage = "lost") => "publish" \in slips

\* Every request of the page comes to an end, whatever its publication, its
\* answer and the processes do.
CallsEnd == []<>(\A n \in Calls : calls[n].stage \in {"none", "done"})

\* A socket that broke is replaced, unless Binance refuses the user or the
\* service ends.
StreamReturns ==
    timers > 0 ~> \/ entry # NoSocket /\ sockets[entry] = "subscribed"
                  \/ "stream" \in slips

\* An answer that comes from no cache, and with nothing else shown since it
\* was asked for, never takes the page back to older balances.
AnswersDoNotRegress ==
    [][\A n \in Calls :
        /\ calls[n].stage = "answered" /\ calls'[n].stage = "done"
        /\ n \in alone
        => shown' >= shown]_vars

================================================================================
