-------------------------------- MODULE UserStream --------------------------------
(***************************************************************************)
(* One user's data stream in the execution service: the registry that      *)
(* keeps it to one socket, the close handler and its timer, the balances   *)
(* it pushes to the page, and the reports of trades, whose handlers read a *)
(* position, write it back and publish the news, and overlap each other.   *)
(*                                                                         *)
(* Abstractions.  Trades are numbered.  Each is for one unit of one symbol *)
(* and changes the balance of one asset, whose version is the number of    *)
(* trades so far; the page's other balances are left out.  The order row   *)
(* and its event, which a report writes before the position, are           *)
(* OrderLifecycle's; prices and profit are left out.                       *)
(***************************************************************************)
EXTENDS Naturals, FiniteSets

CONSTANTS
    Sockets,       \* sockets to Binance
    MaxTrades,     \* bound on the trades
    MaxFaults,     \* bound on broken sockets and failed calls
    NoSocket       \* the registry has no entry

ASSUME StreamAssumption ==
    MaxTrades \in Nat /\ MaxFaults \in Nat /\ IsFiniteSet(Sockets) /\ NoSocket \notin Sockets

Trades == 1..MaxTrades

VARIABLES
    trades,        \* at Binance
    due,           \* history: the position the trades add up to
    sockets,       \* "none", "connecting" or "subscribed"
    entry,         \* userStreams: the registered socket, or NoSocket
    timers,        \* reconnects that are due
    reports,       \* the handler of each trade's report on each socket
    position,      \* the row's quantity; 0 when there is no row
    shown,         \* the version of the balances the page shows
    alone,         \* fresh requests since whose start nothing else was shown
    faults,        \* so far
    slips          \* history: what may have cost a fill, the stream or a request

stream == <<trades, due, sockets, entry, timers, reports, position>>

NoReport == [stage |-> "none", side |-> "BUY", seen |-> 0]
Subscribed == {i \in Sockets : sockets[i] = "subscribed"}
InHandling(t) == \E i \in Sockets : reports[t][i] # NoReport
CanFail == faults < MaxFaults
Fault == CanFail /\ faults' = faults + 1

------------------------------------------------------------------------------
(* the socket                                                              *)

\* Mutant: the registry is not looked at.
MayStartAnyway == TRUE

\* userStreams.has(uid)
MayStart == entry = NoSocket

\* startUserDataStream.
Start ==
    IF MayStart /\ \E i \in Sockets : sockets[i] = "none"
    THEN LET i == CHOOSE j \in Sockets : sockets[j] = "none"
         IN  sockets' = [sockets EXCEPT ![i] = "connecting"] /\ entry' = i
    ELSE UNCHANGED <<sockets, entry>>

\* The subscription is acknowledged.
Acknowledge(i) ==
    /\ sockets[i] = "connecting"
    /\ sockets' = [sockets EXCEPT ![i] = "subscribed"]
    /\ UNCHANGED <<trades, due, entry, timers, reports, position, shown, alone, faults, slips>>

\* Mutant: the entry of a closed socket stays.
EntryStays(i) == entry

\* The close handler deletes the entry of its own socket.
EntryAfterClose(i) == IF entry = i THEN NoSocket ELSE entry

\* A socket breaks, or its subscription is refused and nothing reopens it.
Close(i, reopens) ==
    /\ sockets[i] # "none"
    /\ sockets[i] = "connecting" \/ reopens
    /\ Fault
    /\ sockets' = [sockets EXCEPT ![i] = "none"]
    /\ entry' = EntryAfterClose(i)
    /\ timers' = IF entry = i /\ reopens THEN timers + 1 ELSE timers
    /\ slips' = IF reopens THEN slips ELSE slips \union {"stream"}
    /\ UNCHANGED <<trades, due, reports, position, shown, alone>>

\* The timer of a closed socket fires.
Reopen ==
    /\ timers > 0
    /\ timers' = timers - 1
    /\ Start
    /\ UNCHANGED <<trades, due, reports, position, shown, alone, faults, slips>>

------------------------------------------------------------------------------
(* trades                                                                  *)

\* What a user holds after a trade; what was not bought here does not count.
Holding(side, quantity) ==
    IF side = "BUY" THEN quantity + 1 ELSE IF quantity = 0 THEN 0 ELSE quantity - 1

\* Mutant: the last unit that is sold leaves the row as it is.
NewQuantityKept(side, quantity) ==
    IF side = "BUY" THEN quantity + 1 ELSE IF quantity > 1 THEN quantity - 1 ELSE quantity

\* applyFillToPositions: a sale takes what there is, and no row is left at 0.
NewQuantity(side, quantity) ==
    LET sold == IF quantity < 1 THEN quantity ELSE 1
    IN  IF side = "BUY" THEN quantity + 1 ELSE quantity - sold

\* A trade is executed, and told to whoever is subscribed; the changed balance
\* is forwarded to the page at once.
Trade(side) ==
    /\ trades < MaxTrades
    /\ trades' = trades + 1
    /\ due' = Holding(side, due)
    /\ reports' = [reports EXCEPT ![trades + 1] = [i \in Sockets |->
          IF i \in Subscribed THEN [NoReport EXCEPT !.stage = "arrived", !.side = side] ELSE NoReport]]
    /\ slips' = IF Subscribed = {} \/ \E t \in Trades : InHandling(t)
                THEN slips \union {"fill"} ELSE slips
    /\ IF Subscribed = {} THEN UNCHANGED <<shown, alone>>
       ELSE shown' = trades + 1 /\ alone' = {}
    /\ UNCHANGED <<sockets, entry, timers, position, faults>>

HasRead(t, i) == [stage |-> "read", side |-> reports[t][i].side, seen |-> position]

\* The order's row is stored, and the position is read; when that fails the
\* fill is dropped.
ReadPosition(t, i) ==
    /\ reports[t][i].stage = "arrived"
    /\ \/ /\ reports' = [reports EXCEPT ![t][i] = HasRead(t, i)]
          /\ UNCHANGED <<faults, slips>>
       \/ /\ Fault
          /\ reports' = [reports EXCEPT ![t][i] = NoReport]
          /\ slips' = slips \union {"fill"}
    /\ UNCHANGED <<trades, due, sockets, entry, timers, position, shown, alone>>

Written(t, i) == NewQuantity(reports[t][i].side, reports[t][i].seen)

\* It is written back, from what was read, and the order's status is published.
WritePosition(t, i) ==
    /\ reports[t][i].stage = "read"
    /\ position' = Written(t, i)
    /\ reports' = [reports EXCEPT ![t][i] = NoReport]
    /\ UNCHANGED <<trades, due, sockets, entry, timers, shown, alone, faults, slips>>

\* Only the deletion of a row may fail unnoticed.
DeleteFails(t, i) ==
    /\ reports[t][i].stage = "read" /\ Written(t, i) = 0
    /\ Fault
    /\ reports' = [reports EXCEPT ![t][i] = NoReport]
    /\ slips' = slips \union {"fill"}
    /\ UNCHANGED <<trades, due, sockets, entry, timers, position, shown, alone>>

HandlerStep ==
    \E t \in Trades, i \in Sockets :
        ReadPosition(t, i) \/ WritePosition(t, i) \/ DeleteFails(t, i)

================================================================================
