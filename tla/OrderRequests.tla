----------------------------- MODULE OrderRequests ----------------------------
(***************************************************************************)
(* The backend's order endpoints: apps/backend/src/index.js, POST /orders, *)
(* DELETE /orders/:orderId and DELETE /orders/open.                        *)
(*                                                                         *)
(* Each handler reads rows, writes them one by one, appends one command    *)
(* and, if the append fails, writes the rows again; other requests and     *)
(* services run between any two of these awaits.  A request that changes   *)
(* nothing (a refused draft, an unknown order, a duplicate POST, a DELETE  *)
(* of an order that is closed or whose cancel is in flight) is no step.    *)
(***************************************************************************)
EXTENDS OrderState

RequestSteps == {"idle", "mark", "append", "recover", "fail"}

Request ==
    [at : RequestSteps, type : {"submit", "cancel", "cancelAll"},
     targets : SUBSET Orders,        \* the rows the request is about
     todo : SUBSET Orders,           \* those it has still to write
     was : Statuses]                 \* the submitted row when it was read

IdleRequest ==
    [at |-> "idle", type |-> "submit", targets |-> {}, todo |-> {}, was |-> "absent"]

\* The request bound: every request in flight may append one command.
Room ==
    Len(stream) + Cardinality({r \in Requests : requests[r].at # "idle"}) < MaxEntries

Accept(r, type) ==
    /\ requests[r].at = "idle"
    /\ type \in RequestTypes
    /\ Room

BeginSubmit(r, o, was) ==
    requests' = [requests EXCEPT ![r] =
        [at |-> "append", type |-> "submit", targets |-> {o}, todo |-> {},
         was |-> was]]

BeginCancel(r, type, targets) ==
    requests' = [requests EXCEPT ![r] =
        [at |-> IF targets = {} THEN "append" ELSE "mark", type |-> type,
         targets |-> targets, todo |-> targets, was |-> "absent"]]

Goto(r, step) == requests' = [requests EXCEPT ![r].at = step]

Respond(r) == requests' = [requests EXCEPT ![r] = IdleRequest]

\* The next row of the request is written; after the last one it moves on.
WriteRow(r, o, s, next) ==
    /\ SetStatus(o, s)
    /\ requests' = [requests EXCEPT
            ![r] = IF requests[r].todo # {o}
                   THEN [@ EXCEPT !.todo = requests[r].todo \ {o}]
                   ELSE IF next = "idle" THEN IdleRequest
                   ELSE [@ EXCEPT !.todo = {}, !.at = next]]

\* XADD of the command: a cancel-all names no order.
AppendEntry(r) ==
    stream' = Append(stream,
        [type   |-> requests[r].type,
         orders |-> IF requests[r].type = "cancelAll" THEN {} ELSE requests[r].targets])

CreateOrder(r, o) ==
    /\ Accept(r, "submit")
    /\ status[o] = "absent"
    /\ SetStatus(o, "RECEIVED")
    /\ BeginSubmit(r, o, "RECEIVED")
    /\ UNCHANGED <<queue, exchange, workers, recon, history>>

\* A duplicate POST of an order whose append failed (shouldRetryStreamAppend).
RetrySubmit(r, o) ==
    /\ Accept(r, "submit")
    /\ status[o] = "STREAM_APPEND_FAILED"
    /\ BeginSubmit(r, o, "STREAM_APPEND_FAILED")
    /\ UNCHANGED <<rows, queue, exchange, workers, recon, history>>

RequestCancel(r, o) ==
    /\ Accept(r, "cancel")
    /\ status[o] \in OpenStatuses \ CancelInFlightStatuses
    /\ BeginCancel(r, "cancel", {o})
    /\ UNCHANGED <<rows, queue, exchange, workers, recon, history>>

RequestCancelAll(r) ==
    /\ Accept(r, "cancelAll")
    /\ BeginCancel(r, "cancelAll", {o \in Orders : status[o] \in OpenStatuses})
    /\ UNCHANGED <<rows, queue, exchange, workers, recon, history>>

MarkCancelRequested(r) ==
    /\ requests[r].at = "mark"
    /\ \E o \in requests[r].todo : WriteRow(r, o, "CANCEL_REQUESTED", "append")
    /\ UNCHANGED <<queue, exchange, workers, recon, history>>

AppendCommand(r) ==
    /\ requests[r].at = "append"
    /\ AppendEntry(r)
    /\ IF requests[r].was = "STREAM_APPEND_FAILED" THEN Goto(r, "recover") ELSE Respond(r)
    /\ UNCHANGED <<rows, taken, unacked, exchange, workers, recon, history>>

\* The row of a retried submit is set back after its append.
RecoverReceived(r) ==
    /\ requests[r].at = "recover"
    /\ \E o \in requests[r].targets : SetStatus(o, "RECEIVED")
    /\ Respond(r)
    /\ UNCHANGED <<queue, exchange, workers, recon, history>>

\* XADD rejects, whether or not Redis has the entry.
AppendFails(r) ==
    /\ Fault
    /\ requests[r].at = "append"
    /\ AppendEntry(r) \/ UNCHANGED stream
    /\ requests' = [requests EXCEPT ![r] =
            IF requests[r].targets = {} THEN IdleRequest
            ELSE [@ EXCEPT !.at = "fail", !.todo = requests[r].targets]]
    /\ UNCHANGED <<rows, taken, unacked, exchange, workers, recon, lost, dropped>>

MarkAppendFailed(r) ==
    /\ requests[r].at = "fail"
    /\ \E o \in requests[r].todo :
        WriteRow(r, o, IF requests[r].type = "submit" THEN "STREAM_APPEND_FAILED"
                       ELSE "CANCEL_APPEND_FAILED", "idle")
    /\ UNCHANGED <<queue, exchange, workers, recon, history>>

\* That update rejects: the error is logged, and the next row is tried.
MarkAppendFailedRejects(r) ==
    /\ Fault
    /\ requests[r].at = "fail"
    /\ \E o \in requests[r].todo :
        /\ WriteRow(r, o, status[o], "idle")
        /\ dropped' = dropped \union {o}
    /\ UNCHANGED <<queue, exchange, workers, recon, lost>>

\* The backend dies, or a database call rejects and the handler answers 500.
RequestDies(r) ==
    /\ Fault
    /\ requests[r].at # "idle"
    /\ Respond(r)
    /\ dropped' = dropped \union requests[r].targets
    /\ UNCHANGED <<rows, queue, exchange, workers, recon, lost>>

RequestStep(r) ==
    \/ MarkCancelRequested(r) \/ AppendCommand(r)
    \/ RecoverReceived(r) \/ MarkAppendFailed(r)
==============================================================================
