---------------------------- MODULE OrderLifecycle ----------------------------
(***************************************************************************)
(* The life of orders in TradeCO: the backend's endpoints, the execution   *)
(* service's command handlers, Binance with its user data stream, and the  *)
(* reconciliation worker, all writing the same OrderCommand rows without a *)
(* lock or a version check.                                                *)
(***************************************************************************)
EXTENDS OrderRequests, OrderProcessor, OrderExchange, OrderReconciliation

TypeOK ==
    /\ status \in [Orders -> Statuses]
    /\ linked \in [Orders -> 0..MaxPlacements]
    /\ stream \in Seq(Entry) /\ Len(stream) <= MaxEntries
    /\ taken \in 0..Len(stream)
    /\ unacked \subseteq 1..taken
    /\ placements \in [Orders -> Seq(ExchangeStatuses)]
    /\ reports \subseteq Report
    /\ requests \in [Requests -> Request]
    /\ workers \in [Workers -> Worker]
    /\ recon \in Reconciler
    /\ faults \in 0..MaxFaults
    /\ lost \in [Orders -> Nat]
    /\ dropped \subseteq Orders

Init ==
    /\ status = [o \in Orders |-> "absent"]
    /\ linked = [o \in Orders |-> 0]
    /\ stream = <<>> /\ taken = 0 /\ unacked = {}
    /\ placements = [o \in Orders |-> <<>>]
    /\ reports = {}
    /\ requests = [r \in Requests |-> IdleRequest]
    /\ workers = [w \in Workers |-> IdleWorker]
    /\ recon = IdleReconciler
    /\ faults = 0
    /\ lost = [o \in Orders |-> 0]
    /\ dropped = {}

RequestActs(r) ==
    \/ \E o \in Orders : CreateOrder(r, o) \/ RetrySubmit(r, o) \/ RequestCancel(r, o)
    \/ RequestCancelAll(r)
    \/ RequestStep(r) \/ AppendFails(r) \/ MarkAppendFailedRejects(r) \/ RequestDies(r)

Work(w) ==
    \/ TakeNew(w) \/ (\E e \in unacked : TakePending(w, e))
    \/ WorkerStep(w) \/ SubmitUnanswered(w) \/ CancelUnanswered(w) \/ Abort(w)

Reconcile == ReconcileStep \/ \E o \in Orders : ReconcileFails(o)

Next ==
    \/ \E r \in Requests : RequestActs(r)
    \/ \E w \in Workers : Work(w)
    \/ ExchangeStep
    \/ Reconcile

Spec == Init /\ [][Next]_vars

------------------------------------------------------------------------------
(* Safety.                                                                 *)

\* An order is placed a second time only because the outcome of an earlier
\* placement was never recorded (reply lost, or the handler died before the
\* row was written), or because several instances handled it at once.
PlacementsAccounted ==
    \A o \in Orders : Len(placements[o]) <= Cardinality(Workers) + lost[o]

\* A closed row tells the truth: some order under its clientOrderId ended so.
ClosedRowsAreTrue ==
    \A o \in Orders :
        status[o] \in {"FILLED", "CANCELED", "EXPIRED"} =>
            \E p \in DOMAIN placements[o] : placements[o][p] = status[o]

\* With one instance, a row says REJECTED while an order of that id is open at
\* Binance only if the outcome of a placement was lost.
RejectedIsNotOpen ==
    Cardinality(Workers) = 1 =>
        \A o \in Orders :
            status[o] = "REJECTED" /\ OpenPlacements(o) # {} => lost[o] > 0

\* Somebody will still write the row of an order whose submit or cancel is
\* under way: a request that has yet to append, or a command that is unread,
\* pending or being handled.
Backed(o, type) ==
    \/ \E r \in Requests : requests[r].at # "idle" /\ o \in requests[r].targets
    \/ \E e \in DOMAIN stream :
        /\ e > taken \/ e \in unacked \/ \E w \in Workers : workers[w].entry = e
        /\ stream[e].type \in type
        /\ stream[e].type # "cancelAll" => o \in stream[e].orders

\* No order is left in PENDING or CANCEL_REQUESTED with nobody to move it on,
\* unless its command was dropped.  A PENDING order that is at Binance is moved
\* on by reconciliation: its submit may be over, when a handler died after it
\* had written PENDING over a report.
NobodyForgotten ==
    \A o \in Orders :
        /\ status[o] = "PENDING" =>
             \/ o \in dropped \/ Backed(o, {"submit"})
             \/ "PENDING" \in ReconciledStatuses /\ placements[o] # <<>>
        /\ status[o] = "CANCEL_REQUESTED" =>
             o \in dropped \/ Backed(o, {"cancel", "cancelAll"})

------------------------------------------------------------------------------
(* What the documents say, and the code does not keep.                     *)

\* Submitting is idempotent in the order id (redis-stream-contracts.md): an
\* order is placed at Binance at most once.
AtMostOnePlacement == \A o \in Orders : Len(placements[o]) <= 1

------------------------------------------------------------------------------
(* Liveness.                                                               *)

\* Handlers run to their end, instances keep reading, and the reconciliation
\* timer keeps firing.  Users, Binance and its reports owe nothing.
Fairness ==
    /\ \A r \in Requests : WF_vars(RequestStep(r))
    /\ \A w \in Workers :
        /\ WF_vars(TakeNew(w) \/ \E e \in unacked : TakePending(w, e))
        /\ WF_vars(WorkerStep(w))
    /\ WF_vars(ReconcileStep)

FairSpec == Spec /\ Fairness

ClosedAtExchange(o) == placements[o] # <<>> /\ OpenPlacements(o) = {}

\* Once everything placed for an order is closed at Binance, the row closes
\* too (or the order is placed again), though reports may be missed or come
\* late and the reconciliation may write back an old answer first.
ClosingIsRecorded ==
    \A o \in Orders :
        ClosedAtExchange(o) ~> status[o] \in TerminalStatuses \/ OpenPlacements(o) # {}

\* Stale local open orders are reconciled with Binance
\* (codex-autonomous-execution-plan.md): a row does not stay open for ever
\* after its order was closed there.
OpenRowsAreReconciled ==
    \A o \in Orders :
        ClosedAtExchange(o) /\ status[o] \in OpenStatuses ~> status[o] \notin OpenStatuses
==============================================================================
