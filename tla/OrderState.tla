------------------------------ MODULE OrderState ------------------------------
(***************************************************************************)
(* What the services that handle an order share: the OrderCommand rows of  *)
(* the database, the order command stream, and the exchange behind the     *)
(* Binance client.  The modules OrderRequests (backend), OrderProcessor    *)
(* (execution service), OrderExchange (Binance and its user data stream)   *)
(* and OrderReconciliation each add the steps of one participant;          *)
(* OrderLifecycle composes them.                                           *)
(*                                                                         *)
(* Abstractions.  All orders belong to one user and one symbol, so a       *)
(* cancel-all reaches each of them.  Of a row only `status' and            *)
(* `binanceOrderId' (linked) are kept: they are what the handlers branch   *)
(* on.  Quantities, prices and the OrderEvent log are left out, and the    *)
(* events published to clients too; that writing them may fail is not.     *)
(* Delivery is at least once, which is what CommandStream establishes.     *)
(* Binance's statuses are those the code names: one it does not know, such *)
(* as EXPIRED_IN_MATCH, would be recorded as an open one and is left out.  *)
(***************************************************************************)
EXTENDS Integers, Sequences, FiniteSets

CONSTANTS
    Orders,          \* order ids; each is also the clientOrderId at Binance
    Requests,        \* HTTP requests the backend handles at one time
    Workers,         \* instances of the execution service
    RequestTypes,    \* what users ask for: submit, cancel, cancelAll
    Outcomes,        \* what becomes of orders at Binance
    MaxEntries,      \* bound on the stream, and so on the requests
    MaxPlacements,   \* bound on the exchange orders with one clientOrderId
    MaxReports,      \* bound on the execution reports under way
    MaxFaults        \* bound on crashes and failed calls

ASSUME OrderAssumption ==
    /\ IsFiniteSet(Workers) /\ IsFiniteSet(Requests)
    /\ RequestTypes \subseteq {"submit", "cancel", "cancelAll"}
    /\ Outcomes \subseteq {"NEW", "PARTIALLY_FILLED", "FILLED", "EXPIRED"}
    /\ MaxEntries \in Nat /\ MaxPlacements \in Nat
    /\ MaxReports \in Nat /\ MaxFaults \in Nat

VARIABLES
    status,          \* OrderCommand.status of each row
    linked,          \* OrderCommand.binanceOrderId: which placement, or 0
    stream,          \* the commands appended so far
    taken,           \* how many of them the group has read
    unacked,         \* those read and not acknowledged
    placements,      \* Binance: the orders placed under each clientOrderId
    reports,         \* execution reports on their way to this user's stream
    requests,        \* the backend's handlers
    workers,         \* the execution service's handlers
    recon,           \* the reconciliation worker
    faults,          \* history: crashes and failed calls
    lost,            \* history: placements whose outcome was never recorded
    dropped          \* history: orders with a command nobody will finish

rows == <<status, linked>>
queue == <<stream, taken, unacked>>
exchange == <<placements, reports>>
history == <<faults, lost, dropped>>
vars == <<rows, queue, exchange, requests, workers, recon, history>>

------------------------------------------------------------------------------
(* Statuses.                                                               *)

TerminalStatuses == {"FILLED", "CANCELED", "REJECTED", "EXPIRED"}

CancelInFlightStatuses == {"CANCEL_REQUESTED", "CANCEL_PENDING"}

\* Open for the backend (OPEN_ORDER_STATUSES) and for the execution service
\* (CANCEL_OPEN_STATUSES); they differ in NEW, which no code writes.
OpenStatuses ==
    {"RECEIVED", "PENDING", "SUBMITTED", "PARTIALLY_FILLED",
     "CANCEL_REJECTED", "CANCEL_APPEND_FAILED"} \union CancelInFlightStatuses

Statuses == {"absent", "STREAM_APPEND_FAILED"} \union OpenStatuses \union TerminalStatuses

OpenAtExchange == {"NEW", "PARTIALLY_FILLED"}

ExchangeStatuses == OpenAtExchange \union {"FILLED", "CANCELED", "EXPIRED"}

------------------------------------------------------------------------------
(* The row an update leaves behind.                                        *)

SetStatus(o, s) ==
    /\ status' = [status EXCEPT ![o] = s]
    /\ UNCHANGED linked

SetStatusAndLink(o, s, p) ==
    /\ status' = [status EXCEPT ![o] = s]
    /\ linked' = [linked EXCEPT ![o] = p]

------------------------------------------------------------------------------
(* The exchange as its client sees it.                                     *)

PlacementIds == 1..MaxPlacements

\* A clientOrderId is unique among open orders only.
OpenPlacements(o) == {p \in DOMAIN placements[o] : placements[o][p] \in OpenAtExchange}

\* The order a query by orderId, or by origClientOrderId, answers for.
Lookup(o, id) == IF id # 0 THEN id ELSE Len(placements[o])

------------------------------------------------------------------------------
Fault ==
    /\ faults < MaxFaults
    /\ faults' = faults + 1

Entry == [type : {"submit", "cancel", "cancelAll"}, orders : SUBSET Orders]

Report == [order : Orders, placement : PlacementIds, status : ExchangeStatuses]
==============================================================================
