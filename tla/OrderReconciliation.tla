-------------------------- MODULE OrderReconciliation -------------------------
(***************************************************************************)
(* The reconciliation worker:                                              *)
(* apps/execution-service/src/reconciliationWorker.js.                     *)
(*                                                                         *)
(* A cycle takes a snapshot of the rows that look unfinished, then asks    *)
(* Binance about them one after another and writes back what it answers    *)
(* when that differs from the snapshot.  The row may have changed since.   *)
(* Staleness (updatedAt) and the batch size choose among the rows: any     *)
(* non-empty set of them may be taken.                                     *)
(***************************************************************************)
EXTENDS OrderState

\* Mutant: a partially filled order is left to the user data stream.
ReconciledStatusesNotPartial ==
    {"PENDING", "SUBMITTED"} \union CancelInFlightStatuses

\* RECONCILIATION_ORDER_STATUSES
ReconciledStatuses ==
    {"PENDING", "SUBMITTED", "PARTIALLY_FILLED"} \union CancelInFlightStatuses

Reconciler ==
    [todo : SUBSET Orders,                   \* rows of the snapshot still to check
     status : [Orders -> Statuses],          \* the snapshot
     linked : [Orders -> 0..MaxPlacements],
     fetched : ExchangeStatuses,             \* Binance's answer for one of them
     writing : SUBSET Orders]                \* that one, when its row will be written

IdleReconciler ==
    [todo |-> {}, status |-> [o \in Orders |-> "absent"],
     linked |-> [o \in Orders |-> 0], fetched |-> "NEW", writing |-> {}]

\* The cycle is over when no row is left to check.
Continue(r) == IF r.todo = {} /\ r.writing = {} THEN IdleReconciler ELSE r

ReconcileSelect ==
    /\ recon = IdleReconciler
    /\ \E S \in SUBSET {o \in Orders : status[o] \in ReconciledStatuses} :
        /\ S # {}
        /\ recon' = [recon EXCEPT !.todo = S,
                !.status = [o \in Orders |-> IF o \in S THEN status[o] ELSE "absent"],
                !.linked = [o \in Orders |-> IF o \in S THEN linked[o] ELSE 0]]
    /\ UNCHANGED <<rows, queue, exchange, requests, workers, history>>

\* mapBinanceOrderStatusToLocal of the reconciliation worker.
ReconciledStatus(s) == IF s = "NEW" THEN "SUBMITTED" ELSE s

\* fetchOrder by binanceOrderId or by client id, and hasMaterialOrderChange:
\* a changed status or id is material, other fields may be.
ReconcileFetch(o) ==
    LET p == Lookup(o, recon.linked[o])
    IN  /\ recon.writing = {} /\ o \in recon.todo
        /\ p # 0
        /\ \E material \in BOOLEAN :
            /\ \/ material
               \/ /\ ReconciledStatus(placements[o][p]) = recon.status[o]
                  /\ recon.linked[o] = p
            /\ recon' = Continue([recon EXCEPT
                    !.todo = @ \ {o}, !.fetched = placements[o][p],
                    !.linked[o] = p, !.writing = IF material THEN {o} ELSE {}])
        /\ UNCHANGED <<rows, queue, exchange, requests, workers, history>>

\* Binance knows no such order.
ReconcileUnknown(o) ==
    /\ recon.writing = {} /\ o \in recon.todo
    /\ Lookup(o, recon.linked[o]) = 0
    /\ recon' = Continue([recon EXCEPT !.todo = @ \ {o}])
    /\ UNCHANGED <<rows, queue, exchange, requests, workers, history>>

ReconcileWrite(o) ==
    /\ o \in recon.writing
    /\ SetStatusAndLink(o, ReconciledStatus(recon.fetched), recon.linked[o])
    /\ recon' = Continue([recon EXCEPT !.writing = {}])
    /\ UNCHANGED <<queue, exchange, requests, workers, history>>

\* The call or the update rejects, and the cycle goes on with the next row.
ReconcileFails(o) ==
    /\ Fault
    /\ o \in recon.todo \union recon.writing
    /\ recon.writing \subseteq {o}
    /\ recon' = Continue([recon EXCEPT !.todo = @ \ {o}, !.writing = {}])
    /\ UNCHANGED <<rows, queue, exchange, requests, workers, lost, dropped>>

ReconcileStep ==
    \/ ReconcileSelect
    \/ \E o \in Orders : ReconcileFetch(o) \/ ReconcileUnknown(o) \/ ReconcileWrite(o)
==============================================================================
