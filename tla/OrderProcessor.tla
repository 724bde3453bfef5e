---------------------------- MODULE OrderProcessor ----------------------------
(***************************************************************************)
(* The execution service's command handlers:                               *)
(* apps/execution-service/src/orderCommandProcessor.js.                    *)
(*                                                                         *)
(* A worker is one instance's consumer loop, which handles one command at  *)
(* a time.  It is given the next unread entry or an entry still pending:   *)
(* one whose handling failed, or one that another, slow instance holds     *)
(* (XAUTOCLAIM).  Every row update and every call of Binance is a step; an *)
(* exception anywhere leaves the entry pending or, at the last attempt,    *)
(* sends it to the dead-letter stream.                                     *)
(***************************************************************************)
EXTENDS OrderState

WorkerSteps ==
    {"idle", "submit", "pending", "place", "record", "reject",
     "cancel", "mark", "call", "persist", "refuse", "done"}

Worker ==
    [at : WorkerSteps,
     entry : 0..MaxEntries,                      \* the command it handles
     targets : SUBSET Orders,                    \* the rows it will settle
     todo : SUBSET Orders,                       \* those it has still to write
     ref : [Orders -> 0..MaxPlacements],         \* their binanceOrderId: read, then answered
     outcome : ExchangeStatuses]                 \* status in the answer to a submit

NoRef == [o \in Orders |-> 0]

IdleWorker ==
    [at |-> "idle", entry |-> 0, targets |-> {}, todo |-> {}, ref |-> NoRef,
     outcome |-> "NEW"]

Proceed(w, step) == workers' = [workers EXCEPT ![w].at = step]

TypeOf(w) == stream[workers[w].entry].type

\* The order a submit or a cancel names.
OrderOf(w) == CHOOSE o \in stream[workers[w].entry].orders : TRUE

Settle(w, step, todo) ==
    workers' = [workers EXCEPT
        ![w].at = IF todo = {} THEN "done" ELSE step, ![w].todo = todo]

\* The next row of the command is written; after the last one it moves on.
Written(w, o, next) ==
    workers' = [workers EXCEPT ![w].todo = @ \ {o},
                               ![w].at = IF workers[w].todo = {o} THEN next ELSE @]

------------------------------------------------------------------------------
(* Delivery.                                                               *)

Begin(w, e) ==
    /\ workers[w].at = "idle"
    /\ workers' = [workers EXCEPT ![w] =
            [IdleWorker EXCEPT !.entry = e,
                !.at = IF stream[e].type = "submit" THEN "submit" ELSE "cancel"]]
    /\ UNCHANGED <<rows, stream, exchange, requests, recon, history>>

TakeNew(w) ==
    /\ taken < Len(stream)
    /\ taken' = taken + 1
    /\ unacked' = unacked \union {taken + 1}
    /\ Begin(w, taken + 1)

TakePending(w, e) ==
    /\ e \in unacked
    /\ Begin(w, e)
    /\ UNCHANGED <<taken, unacked>>

\* processCommand returned: the consumer acknowledges.
Finish(w) ==
    /\ workers[w].at = "done"
    /\ unacked' = unacked \ {workers[w].entry}
    /\ workers' = [workers EXCEPT ![w] = IdleWorker]
    /\ UNCHANGED <<rows, stream, taken, exchange, requests, recon, history>>

------------------------------------------------------------------------------
(* order.submit.requested.v1                                               *)

\* Mutant: only the status counts, not the exchange's order id.
AlreadySubmittedByStatus(o) ==
    status[o] \in {"SUBMITTED", "PARTIALLY_FILLED", "FILLED"}

\* isAlreadySubmitted
AlreadySubmitted(o) ==
    linked[o] # 0 \/ status[o] \in {"SUBMITTED", "PARTIALLY_FILLED", "FILLED"}

SubmitRead(w) ==
    /\ workers[w].at = "submit"
    /\ Proceed(w, IF AlreadySubmitted(OrderOf(w)) THEN "done" ELSE "pending")
    /\ UNCHANGED <<rows, queue, exchange, requests, recon, history>>

SubmitMarkPending(w) ==
    /\ workers[w].at = "pending"
    /\ SetStatus(OrderOf(w), "PENDING")
    /\ Proceed(w, "place")
    /\ UNCHANGED <<queue, exchange, requests, recon, history>>

\* Binance takes the order, unless one with its clientOrderId is open, and
\* reports it as new and, if it traded at once, as it stands then.
Place(o, outcome) ==
    LET p == Len(placements[o]) + 1
    IN  /\ OpenPlacements(o) = {}
        /\ p <= MaxPlacements
        /\ placements' = [placements EXCEPT ![o] = Append(@, outcome)]
        /\ \E sent \in SUBSET {[order |-> o, placement |-> p, status |-> s] :
                               s \in {"NEW", outcome}} :
            /\ Cardinality(reports \union sent) <= MaxReports
            /\ reports' = reports \union sent

SubmitPlaced(w) ==
    /\ workers[w].at = "place"
    /\ \E outcome \in Outcomes :
        /\ Place(OrderOf(w), outcome)
        /\ workers' = [workers EXCEPT ![w].at = "record", ![w].outcome = outcome,
                            ![w].ref[OrderOf(w)] = Len(placements[OrderOf(w)]) + 1]
    /\ UNCHANGED <<rows, queue, requests, recon, history>>

\* The filters, the credential or Binance refuse the order.
SubmitRefused(w) ==
    /\ workers[w].at = "place"
    /\ Proceed(w, "reject")
    /\ UNCHANGED <<rows, queue, exchange, requests, recon, history>>

\* Binance takes the order, but the call ends in an error (timeout, 5xx).
SubmitUnanswered(w) ==
    /\ Fault
    /\ workers[w].at = "place"
    /\ \E outcome \in Outcomes : Place(OrderOf(w), outcome)
    /\ lost' = [lost EXCEPT ![OrderOf(w)] = @ + 1]
    /\ Proceed(w, "reject")
    /\ UNCHANGED <<rows, queue, requests, recon, dropped>>

\* normalizeOrderStatus
RecordedStatus(s) == IF s = "NEW" THEN "SUBMITTED" ELSE s

SubmitRecord(w) ==
    /\ workers[w].at = "record"
    /\ SetStatusAndLink(OrderOf(w), RecordedStatus(workers[w].outcome),
                        workers[w].ref[OrderOf(w)])
    /\ Proceed(w, "done")
    /\ UNCHANGED <<queue, exchange, requests, recon, history>>

\* rejectOrder
SubmitReject(w) ==
    /\ workers[w].at = "reject"
    /\ SetStatus(OrderOf(w), "REJECTED")
    /\ Proceed(w, "done")
    /\ UNCHANGED <<queue, exchange, requests, recon, history>>

------------------------------------------------------------------------------
(* order.cancel.requested.v1 and order.cancel_all.requested.v1             *)

\* Mutant: a row whose cancel is already requested is passed over.
CancelTargetsNotRequested(w) ==
    IF TypeOf(w) = "cancel"
    THEN {o \in {OrderOf(w)} : status[o] \notin TerminalStatuses \union {"CANCEL_REQUESTED"}}
    ELSE {o \in Orders : status[o] \in OpenStatuses \ {"CANCEL_REQUESTED"}}

\* The cancel handler's early return, or the rows findLocalOpenOrders finds.
CancelTargets(w) ==
    IF TypeOf(w) = "cancel"
    THEN {o \in {OrderOf(w)} : status[o] \notin TerminalStatuses}
    ELSE {o \in Orders : status[o] \in OpenStatuses}

CancelRead(w) ==
    /\ workers[w].at = "cancel"
    /\ workers' = [workers EXCEPT ![w] =
            [@ EXCEPT !.targets = CancelTargets(w), !.todo = CancelTargets(w),
                      !.ref = [o \in Orders |-> IF o \in CancelTargets(w)
                                                THEN linked[o] ELSE 0],
                      !.at = IF CancelTargets(w) # {} THEN "mark"
                             ELSE IF TypeOf(w) = "cancel" THEN "done" ELSE "call"]]
    /\ UNCHANGED <<rows, queue, exchange, requests, recon, history>>

\* markCancelPending
CancelMark(w) ==
    /\ workers[w].at = "mark"
    /\ \E o \in workers[w].todo : SetStatus(o, "CANCEL_PENDING") /\ Written(w, o, "call")
    /\ UNCHANGED <<queue, exchange, requests, recon, history>>

\* The open orders Binance cancels for this call: the one the snapshot of the
\* row named, by orderId or by origClientOrderId, or all of the symbol.
Cancelable(w) ==
    {o \in Orders :
        \E p \in OpenPlacements(o) :
            TypeOf(w) = "cancel" => o = OrderOf(w) /\ workers[w].ref[o] \in {0, p}}

Cancel(S) ==
    /\ placements' = [o \in Orders |->
            [p \in DOMAIN placements[o] |->
                IF o \in S /\ p \in OpenPlacements(o) THEN "CANCELED"
                ELSE placements[o][p]]]
    /\ UNCHANGED reports

\* Results without a local order among the targets are passed over.
CancelAnswered(w) ==
    /\ workers[w].at = "call"
    /\ Cancelable(w) # {}
    /\ Cancel(Cancelable(w))
    /\ LET todo == Cancelable(w) \cap workers[w].targets
       IN  workers' = [workers EXCEPT ![w] =
                [@ EXCEPT !.todo = todo, !.at = IF todo = {} THEN "done" ELSE "persist",
                          !.ref = [o \in Orders |-> IF o \in todo
                                    THEN CHOOSE p \in OpenPlacements(o) : TRUE
                                    ELSE workers[w].ref[o]]]]
    /\ UNCHANGED <<rows, queue, requests, recon, history>>

\* No credential, or Binance has nothing to cancel or refuses.
CancelRefused(w) ==
    /\ workers[w].at = "call"
    /\ Settle(w, "refuse", workers[w].targets)
    /\ UNCHANGED <<rows, queue, exchange, requests, recon, history>>

CancelUnanswered(w) ==
    /\ Fault
    /\ workers[w].at = "call"
    /\ Cancelable(w) # {}
    /\ Cancel(Cancelable(w))
    /\ Settle(w, "refuse", workers[w].targets)
    /\ UNCHANGED <<rows, queue, requests, recon, lost, dropped>>

\* persistCanceledOrder
CancelPersist(w) ==
    /\ workers[w].at = "persist"
    /\ \E o \in workers[w].todo :
        /\ SetStatusAndLink(o, "CANCELED", workers[w].ref[o])
        /\ Written(w, o, "done")
    /\ UNCHANGED <<queue, exchange, requests, recon, history>>

\* Mutant: an order Binance does not know as open counts as canceled.
CancelRejectAsCanceled(w) ==
    /\ workers[w].at = "refuse"
    /\ \E o \in workers[w].todo : SetStatus(o, "CANCELED") /\ Written(w, o, "done")
    /\ UNCHANGED <<queue, exchange, requests, recon, history>>

\* rejectCancelOrder
CancelReject(w) ==
    /\ workers[w].at = "refuse"
    /\ \E o \in workers[w].todo : SetStatus(o, "CANCEL_REJECTED") /\ Written(w, o, "done")
    /\ UNCHANGED <<queue, exchange, requests, recon, history>>

------------------------------------------------------------------------------
(* Exceptions and crashes.                                                 *)

\* The rows an unfinished command leaves as they are; a cancel-all that was
\* not begun, those it would have found.
Abandoned(w) ==
    IF workers[w].at = "done" THEN {}
    ELSE stream[workers[w].entry].orders
         \union (IF workers[w].at = "cancel" THEN CancelTargets(w) ELSE workers[w].targets)

\* Another instance handles the same entry and may acknowledge it.
HeldElsewhere(w) ==
    \E v \in Workers \ {w} : workers[v].entry = workers[w].entry

\* The handler ends in the middle: the instance dies, or a database or Redis
\* call rejects.  The entry stays pending or is dead-lettered.
Abort(w) ==
    /\ Fault
    /\ workers[w].at # "idle"
    /\ unacked' \in {unacked, unacked \ {workers[w].entry}}
    /\ dropped' = IF workers[w].entry \in unacked' /\ ~HeldElsewhere(w) THEN dropped
                  ELSE dropped \union Abandoned(w)
    /\ lost' = IF workers[w].at = "record" THEN [lost EXCEPT ![OrderOf(w)] = @ + 1]
               ELSE lost
    /\ workers' = [workers EXCEPT ![w] = IdleWorker]
    /\ UNCHANGED <<rows, stream, taken, exchange, requests, recon>>

WorkerStep(w) ==
    \/ SubmitRead(w) \/ SubmitMarkPending(w) \/ SubmitPlaced(w) \/ SubmitRefused(w)
    \/ SubmitRecord(w) \/ SubmitReject(w)
    \/ CancelRead(w) \/ CancelMark(w) \/ CancelAnswered(w) \/ CancelRefused(w)
    \/ CancelPersist(w) \/ CancelReject(w)
    \/ Finish(w)
==============================================================================
