----------------------------- MODULE OrderExchange ----------------------------
(***************************************************************************)
(* Binance after an order was placed, and the user data stream that tells  *)
(* the execution service about it: startUserDataStream in                  *)
(* apps/execution-service/src/index.js.                                    *)
(*                                                                         *)
(* Binance itself is external: its orders trade or expire.  It sends an    *)
(* execution report for each change, and the service may miss any of them  *)
(* (the stream is opened by the first command and reconnects).  Handlers   *)
(* of two reports overlap, as each is asynchronous, so reports take effect *)
(* in any order.  The report of a cancel carries the cancel's own client   *)
(* id, not the order's, and so never reaches the order's row.              *)
(***************************************************************************)
EXTENDS OrderState

\* An order trades in part or in full, or expires, and Binance reports it.
OrderMoves(o, p, s) ==
    /\ p \in OpenPlacements(o)
    /\ s \in Outcomes \ {"NEW", placements[o][p]}
    /\ placements' = [placements EXCEPT ![o][p] = s]
    /\ \E sent \in SUBSET {[order |-> o, placement |-> p, status |-> s]} :
        /\ Cardinality(reports \union sent) <= MaxReports
        /\ reports' = reports \union sent
    /\ UNCHANGED <<rows, queue, requests, workers, recon, history>>

\* mapBinanceOrderStatusToLocal of the user data stream.
ReportedStatus(s) == IF s = "NEW" THEN "PARTIALLY_FILLED" ELSE s

\* The executionReport handler: the row is written whatever it says.
HandleReport(rep) ==
    /\ rep \in reports
    /\ reports' = reports \ {rep}
    /\ SetStatusAndLink(rep.order, ReportedStatus(rep.status), rep.placement)
    /\ UNCHANGED <<queue, placements, requests, workers, recon, history>>

ExchangeStep ==
    \/ \E o \in Orders, p \in PlacementIds, s \in Outcomes : OrderMoves(o, p, s)
    \/ \E rep \in reports : HandleReport(rep)
==============================================================================
