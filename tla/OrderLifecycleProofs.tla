-------------------------- MODULE OrderLifecycleProofs --------------------------
(***************************************************************************)
(* Proofs about OrderLifecycle, for any number of orders, requests,        *)
(* instances, entries, placements, reports and faults.                     *)
(*                                                                         *)
(* Handlers write rows without a lock, so an invariant must say what each  *)
(* of them knows between its steps.  It knows two kinds of things: where   *)
(* its command comes from (Shape), and what Binance has done (Truth), and  *)
(* Binance only ever adds placements and never reopens one (Grows), so     *)
(* what a handler knows stays true while others run.  On this rest three   *)
(* arguments: who may still place an order (Counts), that with one         *)
(* instance nobody places behind its back (Alone), and who will move a row *)
(* on (Minded).                                                            *)
(***************************************************************************)
EXTENDS OrderLifecycle, FiniteSetTheorems, SequenceTheorems, TLAPS

SubmitSteps == {"submit", "pending", "place", "record", "reject"}
CancelSteps == {"cancel", "mark", "call", "persist", "refuse"}

\* Worker w handles a submit of o.
Submits(w, o) == workers[w].at \in SubmitSteps /\ stream[workers[w].entry].orders = {o}

------------------------------------------------------------------------------
(* Shape: commands name the orders they should, and handlers hold what     *)
(* they were given.                                                        *)

Names(type, orders) ==
    IF type = "cancelAll" THEN orders \subseteq Orders ELSE \E o \in Orders : orders = {o}

EntryOk(e) ==
    /\ Names(stream[e].type, stream[e].orders)
    /\ stream[e].type = "cancelAll" => stream[e].orders = {}

Appending == {r \in Requests : requests[r].at \in {"mark", "append"}}

RequestOk(r) ==
    requests[r].at # "idle" =>
        /\ Names(requests[r].type, requests[r].targets)
        /\ requests[r].todo \subseteq requests[r].targets
        /\ requests[r].at = "mark" => requests[r].type # "submit"

WorkerOk(w) ==
    LET it == workers[w]
    IN  /\ it.at = "idle" => it.entry = 0
        /\ it.at # "idle" => it.entry \in 1..taken
        /\ it.at \in SubmitSteps => stream[it.entry].type = "submit"
        /\ it.at \in CancelSteps => stream[it.entry].type # "submit"
        /\ it.at = "mark" => it.todo \subseteq it.targets

Shape ==
    /\ \A e \in DOMAIN stream : EntryOk(e)
    /\ Len(stream) + Cardinality(Appending) <= MaxEntries
    /\ \A r \in Requests : RequestOk(r)
    /\ \A w \in Workers : WorkerOk(w)

------------------------------------------------------------------------------
(* Truth: what rows and handlers say of Binance.                           *)

ClosedStatuses == {"FILLED", "CANCELED", "EXPIRED"}

\* Statuses a row has only after it was linked.
LinkedStatuses == {"SUBMITTED", "PARTIALLY_FILLED"} \union ClosedStatuses

\* Binance has placement p of order o, and it ended so, if s says it ended.
True(o, s, p) ==
    /\ p \in DOMAIN placements[o]
    /\ s \in LinkedStatuses
    /\ s \in ClosedStatuses => placements[o][p] = s

RowTrue(o) ==
    /\ linked[o] \in 0..Len(placements[o])
    /\ status[o] \in LinkedStatuses => linked[o] # 0
    /\ status[o] \in ClosedStatuses => \E p \in DOMAIN placements[o] : placements[o][p] = status[o]

WorkerTrue(w) ==
    LET it == workers[w]
    IN  /\ \A o \in Orders : it.ref[o] \in 0..Len(placements[o])
        /\ \A o \in Orders : Submits(w, o) /\ it.at = "record" =>
              True(o, RecordedStatus(it.outcome), it.ref[o])
        /\ it.at = "persist" => \A o \in it.todo : True(o, "CANCELED", it.ref[o])

ReconTrue ==
    /\ \A o \in Orders : recon.linked[o] \in 0..Len(placements[o])
    /\ \A o \in recon.writing : True(o, ReconciledStatus(recon.fetched), recon.linked[o])

ReportTrue(rep) == True(rep.order, ReportedStatus(rep.status), rep.placement)

Truth ==
    /\ \A o \in Orders : Len(placements[o]) <= MaxPlacements
    /\ \A o \in Orders : RowTrue(o)
    /\ \A w \in Workers : WorkerTrue(w)
    /\ ReconTrue
    /\ \A rep \in reports : ReportTrue(rep)

------------------------------------------------------------------------------
(* Counts: who may still place an order.                                   *)

AboutToPlace(o) == {w \in Workers : Submits(w, o) /\ workers[w].at \in {"pending", "place"}}
Recording(o) == {w \in Workers : Submits(w, o) /\ workers[w].at = "record"}

CountsOf(o) ==
    /\ linked[o] = 0 => Len(placements[o]) <= lost[o] + Cardinality(Recording(o))
    /\ Len(placements[o]) + Cardinality(AboutToPlace(o)) <= lost[o] + Cardinality(Workers)

Counts == \A o \in Orders : CountsOf(o)

------------------------------------------------------------------------------
(* Alone: with one instance, an order is not placed before its submit.     *)

AloneWith(w) ==
    \A o \in Orders : Submits(w, o) =>
        /\ workers[w].at \in {"pending", "place", "reject"} /\ lost[o] = 0 => placements[o] = <<>>
        /\ workers[w].at \in {"place", "record"} => status[o] # "REJECTED"

Alone == Cardinality(Workers) = 1 => RejectedIsNotOpen /\ \A w \in Workers : AloneWith(w)

------------------------------------------------------------------------------
(* Minded: who moves a row on.                                             *)

\* An entry that is still pending, and that nobody handles.
Waiting(e) == e \in unacked /\ \A w \in Workers : workers[w].entry # e

WillSubmit(w, o) == Submits(w, o) /\ workers[w].at # "record"

PendingMinded(o) ==
    \/ o \in dropped
    \/ placements[o] # <<>>
    \/ \E w \in Workers : WillSubmit(w, o)
    \/ \E e \in DOMAIN stream :
          Waiting(e) /\ stream[e].type = "submit" /\ stream[e].orders = {o}

\* Request r has marked o or will, and has yet to append or to take it back.
WillAppend(r, o) ==
    /\ requests[r].type # "submit"
    /\ \/ requests[r].at \in {"mark", "append"} /\ o \in requests[r].targets
       \/ requests[r].at = "fail" /\ o \in requests[r].todo

Cancels(e, o) ==
    /\ stream[e].type # "submit"
    /\ stream[e].type = "cancel" => stream[e].orders = {o}

\* Worker w will find o, or has found it and will mark it.
WillMark(w, o) ==
    \/ workers[w].at = "cancel" /\ Cancels(workers[w].entry, o)
    \/ workers[w].at = "mark" /\ Cancels(workers[w].entry, o) /\ o \in workers[w].todo

CancelMinded(o) ==
    \/ o \in dropped
    \/ \E r \in Requests : WillAppend(r, o)
    \/ \E w \in Workers : WillMark(w, o)
    \/ \E e \in DOMAIN stream : (e > taken \/ Waiting(e)) /\ Cancels(e, o)

Minded ==
    \A o \in Orders :
        /\ status[o] = "PENDING" => PendingMinded(o)
        /\ status[o] = "CANCEL_REQUESTED" => CancelMinded(o)

Inv == TypeOK /\ Shape /\ Truth /\ Counts /\ Alone /\ Minded

------------------------------------------------------------------------------
(* types                                                                   *)

\* What the updates of a row keep.
LEMMA RowTyped ==
    ASSUME TypeOK, NEW o, NEW s \in Statuses, NEW p \in 0..MaxPlacements,
           SetStatus(o, s) \/ SetStatusAndLink(o, s, p)
    PROVE  status' \in [Orders -> Statuses] /\ linked' \in [Orders -> 0..MaxPlacements]
BY DEF TypeOK, SetStatus, SetStatusAndLink

LEMMA RequestTyped ==
    ASSUME TypeOK, NEW r \in Requests, NEW it \in Request, requests' = [requests EXCEPT ![r] = it]
    PROVE  requests' \in [Requests -> Request]
BY DEF TypeOK

LEMMA IdleRequestTyped == IdleRequest \in Request
BY DEF IdleRequest, Request, RequestSteps, Statuses

\* A row is written, and the request goes on with the next one.
LEMMA WriteRowTyped ==
    ASSUME TypeOK, NEW r \in Requests, NEW o \in requests[r].todo, NEW s \in Statuses,
           NEW next \in RequestSteps, WriteRow(r, o, s, next)
    PROVE  /\ status' \in [Orders -> Statuses] /\ linked' \in [Orders -> 0..MaxPlacements]
           /\ requests' \in [Requests -> Request]
<1>1. requests[r] \in Request
  BY DEF TypeOK
<1>2. requests' \in [Requests -> Request]
  <2> DEFINE it == IF requests[r].todo # {o}
                   THEN [requests[r] EXCEPT !.todo = @ \ {o}]
                   ELSE IF next = "idle" THEN IdleRequest
                   ELSE [requests[r] EXCEPT !.todo = {}, !.at = next]
  <2>1. it \in Request
    BY <1>1, IdleRequestTyped DEF Request
  <2>2. requests' = [requests EXCEPT ![r] = it]
    BY DEF WriteRow
  <2> HIDE DEF it
  <2> QED  BY <2>1, <2>2, RequestTyped
<1>3. SetStatus(o, s)
  BY DEF WriteRow
<1> QED  BY <1>2, <1>3 DEF TypeOK, SetStatus

\* The entry of a request.
LEMMA EntryTyped ==
    ASSUME TypeOK, NEW r \in Requests, AppendEntry(r), Len(stream) < MaxEntries
    PROVE  stream' \in Seq(Entry) /\ Len(stream') = Len(stream) + 1
<1> DEFINE e == [type |-> requests[r].type,
                 orders |-> IF requests[r].type = "cancelAll" THEN {} ELSE requests[r].targets]
<1>1. e \in Entry
  BY DEF TypeOK, Request, Entry
<1>2. stream' = Append(stream, e)
  BY DEF AppendEntry
<1> HIDE DEF e
<1> QED  BY <1>1, <1>2 DEF TypeOK

\* A request that has yet to append has room to.
LEMMA RoomToAppend ==
    ASSUME TypeOK, Shape, NEW r \in Requests, requests[r].at \in {"mark", "append"}
    PROVE  Len(stream) < MaxEntries
<1>1. IsFiniteSet(Appending) /\ r \in Appending
  BY OrderAssumption, FS_Subset DEF Appending
<1>2. Cardinality(Appending) \in Nat /\ Cardinality(Appending) # 0
  BY <1>1, FS_CardinalityType, FS_EmptySet
<1> QED  BY <1>2, OrderAssumption DEF Shape, TypeOK

LEMMA RequestActsTyped ==
    ASSUME TypeOK, Shape, NEW r \in Requests, RequestActs(r)
    PROVE  TypeOK'
<1>0. requests[r] \in Request /\ IdleRequest \in Request
  BY IdleRequestTyped DEF TypeOK
<1>1. ASSUME NEW o \in Orders, CreateOrder(r, o) PROVE TypeOK'
  <2>1. requests' \in [Requests -> Request]
    BY <1>1, RequestTyped DEF CreateOrder, BeginSubmit, Request, RequestSteps, Statuses, OpenStatuses
  <2> QED  BY <1>1, <2>1, OrderAssumption
           DEF CreateOrder, TypeOK, SetStatus, Statuses, OpenStatuses, queue, exchange, history
<1>2. ASSUME NEW o \in Orders, RetrySubmit(r, o) PROVE TypeOK'
  <2>1. requests' \in [Requests -> Request]
    BY <1>2, RequestTyped DEF RetrySubmit, BeginSubmit, Request, RequestSteps, Statuses
  <2> QED  BY <1>2, <2>1 DEF RetrySubmit, TypeOK, rows, queue, exchange, history
<1>3. ASSUME NEW type \in {"cancel", "cancelAll"}, NEW targets \in SUBSET Orders,
             BeginCancel(r, type, targets)
      PROVE  requests' \in [Requests -> Request]
  BY <1>3, RequestTyped DEF BeginCancel, Request, RequestSteps, Statuses
<1>4. ASSUME NEW o \in Orders, RequestCancel(r, o) PROVE TypeOK'
  BY <1>4, <1>3 DEF RequestCancel, TypeOK, rows, queue, exchange, history
<1>5. CASE RequestCancelAll(r)
  BY <1>5, <1>3 DEF RequestCancelAll, TypeOK, rows, queue, exchange, history
<1>6. CASE MarkCancelRequested(r)
  <2>1. "CANCEL_REQUESTED" \in Statuses /\ "append" \in RequestSteps
    BY DEF Statuses, OpenStatuses, CancelInFlightStatuses, RequestSteps
  <2>2. /\ status' \in [Orders -> Statuses] /\ linked' \in [Orders -> 0..MaxPlacements]
        /\ requests' \in [Requests -> Request]
    BY <1>6, <2>1, WriteRowTyped DEF MarkCancelRequested
  <2> QED  BY <1>6, <2>2 DEF MarkCancelRequested, TypeOK, queue, exchange, history
<1>7. CASE AppendCommand(r)
  <2>1. requests' \in [Requests -> Request]
    <3>1. [requests[r] EXCEPT !.at = "recover"] \in Request
      BY <1>0 DEF Request, RequestSteps
    <3> QED  BY <1>7, <1>0, <3>1, RequestTyped DEF AppendCommand, Goto, Respond
  <2>2. stream' \in Seq(Entry) /\ Len(stream') = Len(stream) + 1 /\ Len(stream) < MaxEntries
    BY <1>7, EntryTyped, RoomToAppend DEF AppendCommand
  <2>3. Len(stream) \in Nat /\ taken \in 0..Len(stream')
    BY <2>2 DEF TypeOK
  <2> QED  BY <1>7, <2>1, <2>2, <2>3, OrderAssumption DEF AppendCommand, TypeOK, rows, exchange, history
<1>8. CASE RecoverReceived(r)
  <2>1. requests' \in [Requests -> Request]
    BY <1>8, <1>0, RequestTyped DEF RecoverReceived, Respond
  <2> QED  BY <1>8, <2>1 DEF RecoverReceived, TypeOK, SetStatus, Statuses, OpenStatuses, queue, exchange, history
<1>9. CASE AppendFails(r)
  <2>1. requests' \in [Requests -> Request]
    <3>1. [requests[r] EXCEPT !.at = "fail", !.todo = requests[r].targets] \in Request
      BY <1>0 DEF Request, RequestSteps
    <3> QED  BY <1>9, <1>0, <3>1, RequestTyped DEF AppendFails
  <2>2. /\ stream' \in Seq(Entry) /\ Len(stream') <= MaxEntries /\ Len(stream) \in Nat
        /\ Len(stream') >= Len(stream) /\ Len(stream') \in Nat
    <3>1. stream \in Seq(Entry) /\ Len(stream) \in Nat /\ Len(stream) < MaxEntries
      BY <1>9, RoomToAppend DEF AppendFails, TypeOK
    <3>2. UNCHANGED stream \/ (stream' \in Seq(Entry) /\ Len(stream') = Len(stream) + 1)
      BY <1>9, <3>1, EntryTyped DEF AppendFails
    <3> QED  BY <3>1, <3>2, OrderAssumption
  <2>3. faults' \in 0..MaxFaults
    BY <1>9, OrderAssumption DEF AppendFails, Fault, TypeOK
  <2> QED  BY <1>9, <2>1, <2>2, <2>3 DEF AppendFails, TypeOK, rows, exchange
<1>10. CASE MarkAppendFailed(r)
  <2>1. {"STREAM_APPEND_FAILED", "CANCEL_APPEND_FAILED"} \subseteq Statuses /\ "idle" \in RequestSteps
    BY DEF Statuses, OpenStatuses, RequestSteps
  <2>2. /\ status' \in [Orders -> Statuses] /\ linked' \in [Orders -> 0..MaxPlacements]
        /\ requests' \in [Requests -> Request]
    BY <1>10, <2>1, WriteRowTyped DEF MarkAppendFailed
  <2> QED  BY <1>10, <2>2 DEF MarkAppendFailed, TypeOK, queue, exchange, history
<1>11. CASE MarkAppendFailedRejects(r)
  <2>1. PICK o \in requests[r].todo :
            WriteRow(r, o, status[o], "idle") /\ dropped' = dropped \union {o}
    BY <1>11 DEF MarkAppendFailedRejects
  <2>2. o \in Orders /\ status[o] \in Statuses /\ "idle" \in RequestSteps
    BY <1>0 DEF TypeOK, Request, RequestSteps
  <2>3. /\ status' \in [Orders -> Statuses] /\ linked' \in [Orders -> 0..MaxPlacements]
        /\ requests' \in [Requests -> Request]
    BY <2>1, <2>2, WriteRowTyped
  <2>4. faults' \in 0..MaxFaults
    BY <1>11, OrderAssumption DEF MarkAppendFailedRejects, Fault, TypeOK
  <2> QED  BY <1>11, <2>1, <2>2, <2>3, <2>4 DEF MarkAppendFailedRejects, TypeOK, queue, exchange
<1>12. CASE RequestDies(r)
  <2>1. requests' \in [Requests -> Request]
    BY <1>12, <1>0, RequestTyped DEF RequestDies, Respond
  <2>2. requests[r].targets \subseteq Orders /\ faults' \in 0..MaxFaults
    BY <1>0, <1>12, OrderAssumption DEF Request, RequestDies, Fault, TypeOK
  <2> QED  BY <1>12, <2>1, <2>2 DEF RequestDies, TypeOK, rows, queue, exchange
<1> QED  BY <1>1, <1>2, <1>4, <1>5, <1>6, <1>7, <1>8, <1>9, <1>10, <1>11, <1>12 DEF RequestActs, RequestStep

LEMMA WorkerTyped ==
    ASSUME TypeOK, NEW w \in Workers, NEW it \in Worker, workers' = [workers EXCEPT ![w] = it]
    PROVE  workers' \in [Workers -> Worker]
BY DEF TypeOK

LEMMA ProceedTyped ==
    ASSUME TypeOK, NEW w \in Workers, NEW step \in WorkerSteps, Proceed(w, step)
    PROVE  workers' \in [Workers -> Worker]
<1>1. [workers[w] EXCEPT !.at = step] \in Worker
  BY DEF TypeOK, Worker
<1>2. workers' = [workers EXCEPT ![w] = [workers[w] EXCEPT !.at = step]]
  BY DEF Proceed, TypeOK, Worker
<1> QED  BY <1>1, <1>2, WorkerTyped

LEMMA SettleTyped ==
    ASSUME TypeOK, NEW w \in Workers, NEW step \in WorkerSteps, NEW todo \in SUBSET Orders,
           Settle(w, step, todo)
    PROVE  workers' \in [Workers -> Worker]
<1> DEFINE it == [workers[w] EXCEPT !.at = IF todo = {} THEN "done" ELSE step, !.todo = todo]
<1>0. workers[w] \in Worker /\ "done" \in WorkerSteps
  BY DEF TypeOK, WorkerSteps
<1>1. it \in Worker
  BY <1>0 DEF Worker
<1>2. workers' = [workers EXCEPT ![w] = it]
  BY DEF Settle, TypeOK, Worker
<1> HIDE DEF it
<1> QED  BY <1>1, <1>2, WorkerTyped

LEMMA WrittenTyped ==
    ASSUME TypeOK, NEW w \in Workers, NEW next \in WorkerSteps, NEW o, Written(w, o, next)
    PROVE  workers' \in [Workers -> Worker]
<1> DEFINE it == [workers[w] EXCEPT !.todo = workers[w].todo \ {o},
                                    !.at = IF workers[w].todo = {o} THEN next ELSE workers[w].at]
<1>1. it \in Worker
  BY DEF TypeOK, Worker
<1>2. workers' = [workers EXCEPT ![w] = it]
  BY DEF Written, TypeOK, Worker
<1> HIDE DEF it
<1> QED  BY <1>1, <1>2, WorkerTyped

LEMMA IdleWorkerTyped == IdleWorker \in Worker
BY OrderAssumption DEF IdleWorker, Worker, WorkerSteps, NoRef, ExchangeStatuses, OpenAtExchange

LEMMA BegunTyped ==
    ASSUME NEW step \in WorkerSteps, NEW e \in 0..MaxEntries
    PROVE  [IdleWorker EXCEPT !.entry = e, !.at = step] \in Worker
BY IdleWorkerTyped DEF Worker

\* A worker that handles a submit or a cancel has one order.
LEMMA OneOrder ==
    ASSUME TypeOK, Shape, NEW w \in Workers, workers[w].at # "idle", TypeOf(w) # "cancelAll"
    PROVE  OrderOf(w) \in Orders /\ stream[workers[w].entry].orders = {OrderOf(w)}
<1>1. workers[w].entry \in DOMAIN stream
  BY DEF Shape, WorkerOk, TypeOK
<1>2. PICK o \in Orders : stream[workers[w].entry].orders = {o}
  BY <1>1 DEF Shape, EntryOk, Names, TypeOf
<1>3. OrderOf(w) = o
  BY <1>2 DEF OrderOf
<1> QED  BY <1>2, <1>3

LEMMA SubmitHasOrder ==
    ASSUME TypeOK, Shape, NEW w \in Workers, workers[w].at \in SubmitSteps
    PROVE  /\ OrderOf(w) \in Orders /\ Submits(w, OrderOf(w))
           /\ \A o : Submits(w, o) => o = OrderOf(w)
<1>1. workers[w].at # "idle" /\ TypeOf(w) # "cancelAll"
  BY DEF SubmitSteps, Shape, WorkerOk, TypeOf
<1> QED  BY <1>1, OneOrder DEF Submits

\* Placing an order adds one to what Binance has of it.
LEMMA PlaceTyped ==
    ASSUME TypeOK, NEW o \in Orders, NEW outcome \in Outcomes, Place(o, outcome)
    PROVE  /\ placements' \in [Orders -> Seq(ExchangeStatuses)]
           /\ placements'[o] = Append(placements[o], outcome)
           /\ \A q \in Orders \ {o} : placements'[q] = placements[q]
           /\ Len(placements[o]) + 1 \in 1..MaxPlacements
           /\ reports' \subseteq Report
<1>1. outcome \in ExchangeStatuses
  BY OrderAssumption DEF ExchangeStatuses, OpenAtExchange
<1>2. /\ placements' = [placements EXCEPT ![o] = Append(placements[o], outcome)]
      /\ Len(placements[o]) + 1 <= MaxPlacements
  BY DEF Place
<1>3. placements[o] \in Seq(ExchangeStatuses) /\ Len(placements[o]) \in Nat
  BY DEF TypeOK
<1>4. Len(placements[o]) + 1 \in PlacementIds
  BY <1>2, <1>3, OrderAssumption DEF PlacementIds
<1>5. reports' \subseteq Report
  <2>1. PICK sent \in SUBSET {[order |-> o, placement |-> Len(placements[o]) + 1, status |-> s] :
                              s \in {"NEW", outcome}} :
            reports' = reports \union sent
    BY DEF Place
  <2>2. \A s \in {"NEW", outcome} :
            [order |-> o, placement |-> Len(placements[o]) + 1, status |-> s] \in Report
    BY <1>1, <1>4 DEF Report, ExchangeStatuses, OpenAtExchange
  <2> QED  BY <2>1, <2>2 DEF TypeOK
<1> QED  BY <1>1, <1>2, <1>3, <1>4, <1>5 DEF TypeOK, PlacementIds

\* A cancel closes what was open, and leaves the rest.
LEMMA CancelEffect ==
    ASSUME TypeOK, NEW S, Cancel(S), NEW o \in Orders
    PROVE  /\ placements'[o] \in Seq(ExchangeStatuses)
           /\ Len(placements'[o]) = Len(placements[o])
           /\ DOMAIN placements'[o] = DOMAIN placements[o]
           /\ \A p \in DOMAIN placements[o] : placements'[o][p] =
                 IF o \in S /\ p \in OpenPlacements(o) THEN "CANCELED" ELSE placements[o][p]
<1>1. placements[o] \in Seq(ExchangeStatuses)
  BY DEF TypeOK
<1>2. placements'[o] = [p \in DOMAIN placements[o] |->
          IF o \in S /\ p \in OpenPlacements(o) THEN "CANCELED" ELSE placements[o][p]]
  BY DEF Cancel
<1>3. DOMAIN placements[o] = 1..Len(placements[o]) /\ Len(placements[o]) \in Nat
  BY <1>1
<1>4. \A p \in 1..Len(placements[o]) : placements'[o][p] \in ExchangeStatuses
  BY <1>1, <1>2, <1>3 DEF ExchangeStatuses
<1>5. placements'[o] \in [1..Len(placements[o]) -> ExchangeStatuses]
  BY <1>2, <1>3, <1>4
<1>6. placements'[o] \in Seq(ExchangeStatuses)
  BY <1>3, <1>5, SeqDef
<1>7. DOMAIN placements'[o] = 1..Len(placements'[o]) /\ Len(placements'[o]) \in Nat
  BY <1>6
<1> QED  BY <1>2, <1>3, <1>6, <1>7

LEMMA CancelTyped ==
    ASSUME TypeOK, NEW S, Cancel(S)
    PROVE  placements' \in [Orders -> Seq(ExchangeStatuses)] /\ reports' \subseteq Report
BY CancelEffect DEF Cancel, TypeOK

LEMMA WorkTyped ==
    ASSUME TypeOK, Shape, Truth, NEW w \in Workers, Work(w)
    PROVE  TypeOK'
<1>0. workers[w] \in Worker
  BY DEF TypeOK
<1>1. ASSUME NEW e \in 1..MaxEntries, Begin(w, e) PROVE workers' \in [Workers -> Worker]
  <2> DEFINE step == IF stream[e].type = "submit" THEN "submit" ELSE "cancel"
             it == [IdleWorker EXCEPT !.entry = e, !.at = step]
  <2>2. workers' = [workers EXCEPT ![w] = it]
    BY <1>1 DEF Begin
  <2>3. step \in WorkerSteps
    BY DEF WorkerSteps
  <2> HIDE DEF step
  <2>4. e \in 0..MaxEntries
    BY OrderAssumption
  <2>1. it \in Worker
    BY <2>3, <2>4, BegunTyped
  <2> HIDE DEF it
  <2> QED  BY <2>1, <2>2, WorkerTyped
<1>2. CASE TakeNew(w)
  <2>1. taken + 1 \in 1..MaxEntries /\ taken' \in 0..Len(stream) /\ unacked' \subseteq 1..taken'
    BY <1>2, OrderAssumption DEF TakeNew, TypeOK
  <2> QED  BY <1>1, <1>2, <2>1 DEF TakeNew, Begin, TypeOK, rows, exchange, history
<1>3. ASSUME NEW e \in unacked, TakePending(w, e) PROVE TypeOK'
  <2>1. e \in 1..MaxEntries
    BY OrderAssumption DEF TypeOK
  <2> QED  BY <1>1, <1>3, <2>1 DEF TakePending, Begin, TypeOK, rows, exchange, history
<1>4. CASE SubmitRead(w)
  <2>1. workers' \in [Workers -> Worker]
    BY <1>4, ProceedTyped DEF SubmitRead, WorkerSteps
  <2> QED  BY <1>4, <2>1 DEF SubmitRead, TypeOK, rows, queue, exchange, history
<1>5. CASE SubmitMarkPending(w)
  <2>1. workers' \in [Workers -> Worker]
    BY <1>5, ProceedTyped DEF SubmitMarkPending, WorkerSteps
  <2> QED  BY <1>5, <2>1 DEF SubmitMarkPending, TypeOK, SetStatus, Statuses, OpenStatuses, queue, exchange, history
<1>6. CASE SubmitPlaced(w)
  <2> DEFINE o == OrderOf(w)
  <2>1. o \in Orders
    BY <1>6, SubmitHasOrder DEF SubmitPlaced, SubmitSteps
  <2>2. PICK outcome \in Outcomes :
            /\ Place(o, outcome)
            /\ workers' = [workers EXCEPT ![w].at = "record", ![w].outcome = outcome,
                                          ![w].ref[o] = Len(placements[o]) + 1]
    BY <1>6 DEF SubmitPlaced
  <2> HIDE DEF o
  <2>3. /\ placements' \in [Orders -> Seq(ExchangeStatuses)] /\ reports' \subseteq Report
        /\ Len(placements[o]) + 1 \in 0..MaxPlacements
    BY <2>1, <2>2, PlaceTyped
  <2>4. workers' \in [Workers -> Worker]
    <3> DEFINE it == [workers[w] EXCEPT !.at = "record", !.outcome = outcome,
                                        !.ref = [workers[w].ref EXCEPT ![o] = Len(placements[o]) + 1]]
    <3>1. outcome \in ExchangeStatuses
      BY OrderAssumption DEF ExchangeStatuses, OpenAtExchange
    <3>2. it \in Worker
      BY <1>0, <2>1, <2>3, <3>1 DEF Worker, WorkerSteps
    <3>3. workers' = [workers EXCEPT ![w] = it]
      BY <1>0, <2>2 DEF Worker, TypeOK
    <3> HIDE DEF it
    <3> QED  BY <3>2, <3>3, WorkerTyped
  <2> QED  BY <1>6, <2>3, <2>4 DEF SubmitPlaced, TypeOK, rows, queue, history
<1>7. CASE SubmitRefused(w)
  <2>1. workers' \in [Workers -> Worker]
    BY <1>7, ProceedTyped DEF SubmitRefused, WorkerSteps
  <2> QED  BY <1>7, <2>1 DEF SubmitRefused, TypeOK, rows, queue, exchange, history
<1>8. CASE SubmitUnanswered(w)
  <2>1. OrderOf(w) \in Orders
    BY <1>8, SubmitHasOrder DEF SubmitUnanswered, SubmitSteps
  <2>2. placements' \in [Orders -> Seq(ExchangeStatuses)] /\ reports' \subseteq Report
    BY <1>8, <2>1, PlaceTyped DEF SubmitUnanswered
  <2>3. workers' \in [Workers -> Worker]
    BY <1>8, ProceedTyped DEF SubmitUnanswered, WorkerSteps
  <2>4. lost' \in [Orders -> Nat] /\ faults' \in 0..MaxFaults
    BY <1>8, <2>1, OrderAssumption DEF SubmitUnanswered, Fault, TypeOK
  <2> QED  BY <1>8, <2>2, <2>3, <2>4 DEF SubmitUnanswered, TypeOK, rows, queue
<1>9. CASE SubmitRecord(w)
  <2>1. OrderOf(w) \in Orders
    BY <1>9, SubmitHasOrder DEF SubmitRecord, SubmitSteps
  <2>2. workers[w].ref[OrderOf(w)] \in 0..MaxPlacements
    BY <1>0, <2>1 DEF Worker
  <2>3. RecordedStatus(workers[w].outcome) \in Statuses
    BY <1>0 DEF Worker, RecordedStatus, ExchangeStatuses, OpenAtExchange, Statuses, OpenStatuses, TerminalStatuses
  <2>4. status' \in [Orders -> Statuses] /\ linked' \in [Orders -> 0..MaxPlacements]
    BY <1>9, <2>2, <2>3, RowTyped DEF SubmitRecord
  <2>5. workers' \in [Workers -> Worker]
    BY <1>9, ProceedTyped DEF SubmitRecord, WorkerSteps
  <2> QED  BY <1>9, <2>4, <2>5 DEF SubmitRecord, TypeOK, queue, exchange, history
<1>10. CASE SubmitReject(w)
  <2>1. workers' \in [Workers -> Worker]
    BY <1>10, ProceedTyped DEF SubmitReject, WorkerSteps
  <2> QED  BY <1>10, <2>1 DEF SubmitReject, TypeOK, SetStatus, Statuses, TerminalStatuses, queue, exchange, history
<1>11. CASE CancelRead(w)
  <2>1. CancelTargets(w) \subseteq Orders
    <3>1. CASE TypeOf(w) = "cancel"
      BY <3>1, <1>11, OneOrder DEF CancelRead, CancelTargets
    <3> QED  BY <3>1 DEF CancelTargets
  <2> DEFINE known == [o \in Orders |-> IF o \in CancelTargets(w) THEN linked[o] ELSE 0]
             step == IF CancelTargets(w) # {} THEN "mark"
                     ELSE IF TypeOf(w) = "cancel" THEN "done" ELSE "call"
             it == [workers[w] EXCEPT !.targets = CancelTargets(w), !.todo = CancelTargets(w),
                                      !.ref = known, !.at = step]
  <2>3. workers' = [workers EXCEPT ![w] = it]
    BY <1>11 DEF CancelRead
  <2>5. known \in [Orders -> 0..MaxPlacements] /\ step \in WorkerSteps
    BY OrderAssumption DEF TypeOK, WorkerSteps
  <2> HIDE DEF known, step
  <2>2. it \in Worker
    BY <1>0, <2>1, <2>5 DEF Worker
  <2> HIDE DEF it
  <2>4. workers' \in [Workers -> Worker]
    BY <2>2, <2>3, WorkerTyped
  <2> QED  BY <1>11, <2>4 DEF CancelRead, TypeOK, rows, queue, exchange, history
<1>12. CASE CancelMark(w)
  <2>1. PICK o \in workers[w].todo : SetStatus(o, "CANCEL_PENDING") /\ Written(w, o, "call")
    BY <1>12 DEF CancelMark
  <2>2. "CANCEL_PENDING" \in Statuses /\ "call" \in WorkerSteps
    BY DEF Statuses, OpenStatuses, CancelInFlightStatuses, WorkerSteps
  <2>3. workers' \in [Workers -> Worker]
    BY <2>1, <2>2, WrittenTyped
  <2> QED  BY <1>12, <2>1, <2>2, <2>3 DEF CancelMark, SetStatus, TypeOK, queue, exchange, history
<1>13. CASE CancelAnswered(w)
  <2> DEFINE todo == Cancelable(w) \cap workers[w].targets
             found == [o \in Orders |-> IF o \in todo
                          THEN CHOOSE p \in OpenPlacements(o) : TRUE ELSE workers[w].ref[o]]
             it == [workers[w] EXCEPT !.todo = todo,
                        !.at = IF todo = {} THEN "done" ELSE "persist", !.ref = found]
  <2>1. found \in [Orders -> 0..MaxPlacements]
    <3>1. ASSUME NEW o \in todo PROVE (CHOOSE p \in OpenPlacements(o) : TRUE) \in 0..MaxPlacements
      <4>1. o \in Orders /\ OpenPlacements(o) # {}
        BY DEF Cancelable
      <4>2. (CHOOSE p \in OpenPlacements(o) : TRUE) \in OpenPlacements(o)
        BY <4>1
      <4>3. DOMAIN placements[o] = 1..Len(placements[o]) /\ Len(placements[o]) \in 0..MaxPlacements
        BY <4>1, OrderAssumption DEF Truth, TypeOK
      <4> QED  BY <4>2, <4>3, OrderAssumption DEF OpenPlacements
    <3> QED  BY <1>0, <3>1 DEF Worker
  <2>2. todo \subseteq Orders
    BY DEF Cancelable
  <2>3. workers' = [workers EXCEPT ![w] = it]
    BY <1>13 DEF CancelAnswered
  <2> HIDE DEF todo, found
  <2>4. it \in Worker
    BY <1>0, <2>1, <2>2 DEF Worker, WorkerSteps
  <2> HIDE DEF it
  <2>5. workers' \in [Workers -> Worker]
    BY <2>3, <2>4, WorkerTyped
  <2> QED  BY <1>13, <2>5, CancelTyped DEF CancelAnswered, TypeOK, rows, queue, history
<1>14. workers[w].targets \subseteq Orders /\ "refuse" \in WorkerSteps
  BY <1>0 DEF Worker, WorkerSteps
<1>15. CASE CancelRefused(w)
  <2>1. workers' \in [Workers -> Worker]
    BY <1>14, <1>15, SettleTyped DEF CancelRefused
  <2> QED  BY <1>15, <2>1 DEF CancelRefused, TypeOK, rows, queue, exchange, history
<1>16. CASE CancelUnanswered(w)
  <2>1. workers' \in [Workers -> Worker]
    BY <1>14, <1>16, SettleTyped DEF CancelUnanswered
  <2>2. faults' \in 0..MaxFaults
    BY <1>16, OrderAssumption DEF CancelUnanswered, Fault, TypeOK
  <2> QED  BY <1>16, <2>1, <2>2, CancelTyped DEF CancelUnanswered, TypeOK, rows, queue
<1>17. CASE CancelPersist(w)
  <2>1. PICK o \in workers[w].todo :
            SetStatusAndLink(o, "CANCELED", workers[w].ref[o]) /\ Written(w, o, "done")
    BY <1>17 DEF CancelPersist
  <2>2. "CANCELED" \in Statuses /\ "done" \in WorkerSteps
    BY DEF Statuses, TerminalStatuses, WorkerSteps
  <2>3. o \in Orders /\ workers[w].ref[o] \in 0..MaxPlacements
    BY <1>0 DEF Worker
  <2>4. workers' \in [Workers -> Worker]
    BY <2>1, <2>2, WrittenTyped
  <2>5. status' \in [Orders -> Statuses] /\ linked' \in [Orders -> 0..MaxPlacements]
    BY <2>1, <2>2, <2>3, RowTyped
  <2> QED  BY <1>17, <2>4, <2>5 DEF CancelPersist, TypeOK, queue, exchange, history
<1>18. CASE CancelReject(w)
  <2>1. PICK o \in workers[w].todo : SetStatus(o, "CANCEL_REJECTED") /\ Written(w, o, "done")
    BY <1>18 DEF CancelReject
  <2>2. "CANCEL_REJECTED" \in Statuses /\ "done" \in WorkerSteps
    BY DEF Statuses, OpenStatuses, WorkerSteps
  <2>3. workers' \in [Workers -> Worker]
    BY <2>1, <2>2, WrittenTyped
  <2> QED  BY <1>18, <2>1, <2>2, <2>3 DEF CancelReject, SetStatus, TypeOK, queue, exchange, history
<1>19. CASE Finish(w)
  BY <1>19, IdleWorkerTyped, WorkerTyped DEF Finish, TypeOK, rows, exchange, history
<1>20. CASE Abort(w)
  <2>1. workers' \in [Workers -> Worker]
    BY <1>20, IdleWorkerTyped, WorkerTyped DEF Abort
  <2>2. Abandoned(w) \subseteq Orders
    <3>1. workers[w].entry \in DOMAIN stream
      BY <1>20 DEF Abort, Shape, WorkerOk, TypeOK
    <3>4. stream[workers[w].entry] \in Entry
      BY <3>1 DEF TypeOK
    <3>2. stream[workers[w].entry].orders \subseteq Orders
      BY <3>4 DEF Entry
    <3>3. CancelTargets(w) \subseteq Orders
      BY <1>20, OneOrder DEF Abort, CancelTargets
    <3> QED  BY <1>14, <3>2, <3>3 DEF Abandoned
  <2>3. lost' \in [Orders -> Nat]
    <3>1. CASE workers[w].at = "record"
      <4>1. OrderOf(w) \in Orders
        BY <3>1, SubmitHasOrder DEF SubmitSteps
      <4>2. lost' = [lost EXCEPT ![OrderOf(w)] = @ + 1]
        BY <1>20, <3>1 DEF Abort
      <4> QED  BY <4>1, <4>2 DEF TypeOK
    <3> QED  BY <1>20, <3>1 DEF Abort, TypeOK
  <2>4. faults' \in 0..MaxFaults /\ unacked' \subseteq 1..taken /\ dropped' \subseteq Orders
    BY <1>20, <2>2, OrderAssumption DEF Abort, Fault, TypeOK
  <2> QED  BY <1>20, <2>1, <2>3, <2>4 DEF Abort, TypeOK, rows, exchange
<1> QED  BY <1>2, <1>3, <1>4, <1>5, <1>6, <1>7, <1>8, <1>9, <1>10, <1>11, <1>12, <1>13, <1>15, <1>16,
            <1>17, <1>18, <1>19, <1>20 DEF Work, WorkerStep

LEMMA ExchangeTyped ==
    ASSUME TypeOK, ExchangeStep
    PROVE  TypeOK'
<1>1. ASSUME NEW o \in Orders, NEW p \in PlacementIds, NEW s \in Outcomes, OrderMoves(o, p, s) PROVE TypeOK'
  <2>1. s \in ExchangeStatuses /\ placements[o] \in Seq(ExchangeStatuses) /\ p \in DOMAIN placements[o]
    BY <1>1, OrderAssumption DEF OrderMoves, OpenPlacements, TypeOK, ExchangeStatuses, OpenAtExchange
  <2>2. p \in 1..Len(placements[o])
    BY <2>1
  <2>3. [placements[o] EXCEPT ![p] = s] \in Seq(ExchangeStatuses)
    BY <2>1, <2>2, ExceptSeq
  <2>4. placements' = [placements EXCEPT ![o] = [placements[o] EXCEPT ![p] = s]]
    BY <1>1 DEF OrderMoves, TypeOK
  <2>5. placements' \in [Orders -> Seq(ExchangeStatuses)]
    BY <2>3, <2>4 DEF TypeOK
  <2>6. reports' \subseteq Report
    <3>1. PICK sent \in SUBSET {[order |-> o, placement |-> p, status |-> s]} :
              reports' = reports \union sent
      BY <1>1 DEF OrderMoves
    <3>2. [order |-> o, placement |-> p, status |-> s] \in Report
      BY <2>1 DEF Report
    <3> QED  BY <3>1, <3>2 DEF TypeOK
  <2> QED  BY <1>1, <2>5, <2>6 DEF OrderMoves, TypeOK, rows, queue, history
<1>2. ASSUME NEW rep \in reports, HandleReport(rep) PROVE TypeOK'
  <2>1. rep \in Report
    BY DEF TypeOK
  <2>2. rep.placement \in 0..MaxPlacements /\ ReportedStatus(rep.status) \in Statuses
    BY <2>1 DEF Report, PlacementIds, ReportedStatus, ExchangeStatuses, OpenAtExchange, Statuses,
                OpenStatuses, TerminalStatuses
  <2>3. status' \in [Orders -> Statuses] /\ linked' \in [Orders -> 0..MaxPlacements]
    BY <1>2, <2>2, RowTyped DEF HandleReport
  <2> QED  BY <1>2, <2>3 DEF HandleReport, TypeOK, queue, history
<1> QED  BY <1>1, <1>2 DEF ExchangeStep

LEMMA IdleReconcilerTyped == IdleReconciler \in Reconciler
BY OrderAssumption DEF IdleReconciler, Reconciler, Statuses, ExchangeStatuses, OpenAtExchange

LEMMA ContinueTyped ==
    ASSUME NEW r \in Reconciler
    PROVE  Continue(r) \in Reconciler
BY IdleReconcilerTyped DEF Continue

\* What is looked up is at Binance, or nothing is.
LEMMA LookupTyped ==
    ASSUME TypeOK, Truth, NEW o \in Orders, NEW id \in 0..Len(placements[o])
    PROVE  /\ Lookup(o, id) \in 0..Len(placements[o])
           /\ Lookup(o, id) # 0 => Lookup(o, id) \in DOMAIN placements[o]
           /\ Len(placements[o]) \in 0..MaxPlacements
           /\ \A p \in DOMAIN placements[o] : placements[o][p] \in ExchangeStatuses
<1>1. placements[o] \in Seq(ExchangeStatuses)
  BY DEF TypeOK
<1>2. DOMAIN placements[o] = 1..Len(placements[o]) /\ Len(placements[o]) \in Nat
  BY <1>1
<1>3. \A p \in DOMAIN placements[o] : placements[o][p] \in ExchangeStatuses
  BY <1>1, <1>2
<1> QED  BY <1>2, <1>3, OrderAssumption DEF Lookup, Truth

LEMMA ReconcileTyped ==
    ASSUME TypeOK, Truth, Reconcile
    PROVE  TypeOK'
<1>0. recon \in Reconciler
  BY DEF TypeOK
<1>1. CASE ReconcileSelect
  <2> DEFINE StatusOf(S) == [o \in Orders |-> IF o \in S THEN status[o] ELSE "absent"]
             LinkOf(S) == [o \in Orders |-> IF o \in S THEN linked[o] ELSE 0]
  <2>1. PICK S \in SUBSET Orders :
            recon' = [recon EXCEPT !.todo = S, !.status = StatusOf(S), !.linked = LinkOf(S)]
    BY <1>1 DEF ReconcileSelect
  <2>3. StatusOf(S) \in [Orders -> Statuses] /\ LinkOf(S) \in [Orders -> 0..MaxPlacements]
    BY OrderAssumption DEF TypeOK, Statuses
  <2> HIDE DEF StatusOf, LinkOf
  <2>2. recon' \in Reconciler
    BY <1>0, <2>1, <2>3 DEF Reconciler
  <2> QED  BY <1>1, <2>2 DEF ReconcileSelect, TypeOK, rows, queue, exchange, history
<1>2. ASSUME NEW o \in Orders, ReconcileFetch(o) PROVE TypeOK'
  <2> DEFINE p == Lookup(o, recon.linked[o])
  <2>1. p \in 0..MaxPlacements /\ placements[o][p] \in ExchangeStatuses
    BY <1>2, LookupTyped, OrderAssumption DEF ReconcileFetch, Truth, ReconTrue
  <2>2. PICK material \in BOOLEAN :
            recon' = Continue([recon EXCEPT
                    !.todo = recon.todo \ {o}, !.fetched = placements[o][p],
                    !.linked[o] = p, !.writing = IF material THEN {o} ELSE {}])
    BY <1>2 DEF ReconcileFetch
  <2> HIDE DEF p
  <2>3. [recon EXCEPT !.todo = recon.todo \ {o}, !.fetched = placements[o][p],
                      !.linked[o] = p, !.writing = IF material THEN {o} ELSE {}] \in Reconciler
    BY <1>0, <2>1 DEF Reconciler
  <2>4. recon' \in Reconciler
    BY <2>2, <2>3, ContinueTyped
  <2> QED  BY <1>2, <2>4 DEF ReconcileFetch, TypeOK, rows, queue, exchange, history
<1>3. ASSUME NEW o \in Orders, ReconcileUnknown(o) PROVE TypeOK'
  <2>1. [recon EXCEPT !.todo = recon.todo \ {o}] \in Reconciler
    BY <1>0 DEF Reconciler
  <2>2. recon' \in Reconciler
    BY <1>3, <2>1, ContinueTyped DEF ReconcileUnknown
  <2> QED  BY <1>3, <2>2 DEF ReconcileUnknown, TypeOK, rows, queue, exchange, history
<1>4. ASSUME NEW o \in Orders, ReconcileWrite(o) PROVE TypeOK'
  <2>1. [recon EXCEPT !.writing = {}] \in Reconciler
    BY <1>0 DEF Reconciler
  <2>2. recon' \in Reconciler
    BY <1>4, <2>1, ContinueTyped DEF ReconcileWrite
  <2>3. recon.linked[o] \in 0..MaxPlacements /\ ReconciledStatus(recon.fetched) \in Statuses
    BY <1>0 DEF Reconciler, ReconciledStatus, ExchangeStatuses, OpenAtExchange, Statuses,
                OpenStatuses, TerminalStatuses
  <2>4. status' \in [Orders -> Statuses] /\ linked' \in [Orders -> 0..MaxPlacements]
    BY <1>4, <2>3, RowTyped DEF ReconcileWrite
  <2> QED  BY <1>4, <2>2, <2>4 DEF ReconcileWrite, TypeOK, queue, exchange, history
<1>5. ASSUME NEW o \in Orders, ReconcileFails(o) PROVE TypeOK'
  <2>1. [recon EXCEPT !.todo = recon.todo \ {o}, !.writing = {}] \in Reconciler
    BY <1>0 DEF Reconciler
  <2>2. recon' \in Reconciler
    BY <1>5, <2>1, ContinueTyped DEF ReconcileFails
  <2>3. faults' \in 0..MaxFaults
    BY <1>5, OrderAssumption DEF ReconcileFails, Fault, TypeOK
  <2> QED  BY <1>5, <2>2, <2>3 DEF ReconcileFails, TypeOK, rows, queue, exchange
<1> QED  BY <1>1, <1>2, <1>3, <1>4, <1>5 DEF Reconcile, ReconcileStep

LEMMA TypeKept ==
    ASSUME TypeOK, Shape, Truth, [Next]_vars
    PROVE  TypeOK'
<1>1. CASE UNCHANGED vars
  BY <1>1 DEF vars, rows, queue, exchange, history, TypeOK
<1> QED  BY <1>1, RequestActsTyped, WorkTyped, ExchangeTyped, ReconcileTyped DEF Next

------------------------------------------------------------------------------
(* frames: what the steps of each participant leave alone                  *)

\* Binance adds placements, and a closed one stays as it is.
PlacementsGrow ==
    \A o \in Orders :
        /\ Len(placements[o]) <= Len(placements'[o])
        /\ \A p \in DOMAIN placements[o] :
              placements[o][p] \in ClosedStatuses => placements'[o][p] = placements[o][p]

\* Commands are appended, and never changed.
StreamGrows ==
    /\ Len(stream) <= Len(stream')
    /\ \A e \in DOMAIN stream : stream'[e] = stream[e]

LEMMA RequestFrame ==
    ASSUME TypeOK, Shape, NEW r \in Requests, RequestActs(r)
    PROVE  /\ UNCHANGED <<linked, taken, unacked, placements, reports, workers, recon, lost>>
           /\ \A q \in Requests \ {r} : requests'[q] = requests[q]
           /\ dropped \subseteq dropped'
           /\ stream' = stream \/ (AppendEntry(r) /\ requests[r].at = "append")
           /\ \A o \in Orders : \/ status'[o] = status[o]
                                \/ status'[o] \in {"RECEIVED", "STREAM_APPEND_FAILED",
                                                   "CANCEL_REQUESTED", "CANCEL_APPEND_FAILED"}
<1>1. ASSUME NEW o \in Orders, CreateOrder(r, o) \/ RetrySubmit(r, o) \/ RequestCancel(r, o)
      PROVE  /\ UNCHANGED <<linked, taken, unacked, placements, reports, workers, recon, lost, dropped, stream>>
             /\ \A q \in Requests \ {r} : requests'[q] = requests[q]
             /\ \A q \in Orders : status'[q] = status[q] \/ status'[q] = "RECEIVED"
  BY <1>1 DEF TypeOK, CreateOrder, RetrySubmit, RequestCancel, BeginSubmit, BeginCancel, SetStatus,
              rows, queue, exchange, history
<1>2. CASE RequestCancelAll(r)
  BY <1>2 DEF TypeOK, RequestCancelAll, BeginCancel, rows, queue, exchange, history
<1>3. CASE MarkCancelRequested(r)
  BY <1>3 DEF TypeOK, MarkCancelRequested, WriteRow, SetStatus, queue, exchange, history
<1>4. CASE AppendCommand(r)
  BY <1>4 DEF TypeOK, AppendCommand, Goto, Respond, rows, exchange, history
<1>5. CASE RecoverReceived(r)
  BY <1>5 DEF TypeOK, RecoverReceived, Respond, SetStatus, queue, exchange, history
<1>6. CASE AppendFails(r)
  BY <1>6 DEF TypeOK, AppendFails, rows, exchange
<1>7. CASE MarkAppendFailed(r)
  BY <1>7 DEF TypeOK, MarkAppendFailed, WriteRow, SetStatus, queue, exchange, history
<1>8. CASE MarkAppendFailedRejects(r)
  BY <1>8 DEF TypeOK, MarkAppendFailedRejects, WriteRow, SetStatus, queue, exchange
<1>9. CASE RequestDies(r)
  BY <1>9 DEF TypeOK, RequestDies, Respond, rows, queue, exchange
<1> QED  BY <1>1, <1>2, <1>3, <1>4, <1>5, <1>6, <1>7, <1>8, <1>9 DEF RequestActs, RequestStep

\* What the updates of a worker change, and that they change no other.
LEMMA ProceedEffect ==
    ASSUME TypeOK, NEW w \in Workers, NEW step, Proceed(w, step)
    PROVE  /\ \A v \in Workers \ {w} : workers'[v] = workers[v]
           /\ workers'[w].at = step /\ workers'[w].entry = workers[w].entry
           /\ workers'[w].targets = workers[w].targets /\ workers'[w].todo = workers[w].todo
           /\ workers'[w].ref = workers[w].ref /\ workers'[w].outcome = workers[w].outcome
BY DEF Proceed, TypeOK, Worker

LEMMA SettleEffect ==
    ASSUME TypeOK, NEW w \in Workers, NEW step, NEW todo, Settle(w, step, todo)
    PROVE  /\ \A v \in Workers \ {w} : workers'[v] = workers[v]
           /\ workers'[w].at = IF todo = {} THEN "done" ELSE step
           /\ workers'[w].todo = todo /\ workers'[w].entry = workers[w].entry
           /\ workers'[w].targets = workers[w].targets /\ workers'[w].ref = workers[w].ref
BY DEF Settle, TypeOK, Worker

LEMMA WrittenEffect ==
    ASSUME TypeOK, NEW w \in Workers, NEW o, NEW next, Written(w, o, next)
    PROVE  /\ \A v \in Workers \ {w} : workers'[v] = workers[v]
           /\ workers'[w].at = IF workers[w].todo = {o} THEN next ELSE workers[w].at
           /\ workers'[w].todo = workers[w].todo \ {o} /\ workers'[w].entry = workers[w].entry
           /\ workers'[w].targets = workers[w].targets /\ workers'[w].ref = workers[w].ref
<1> DEFINE it == [workers[w] EXCEPT !.todo = workers[w].todo \ {o},
                                    !.at = IF workers[w].todo = {o} THEN next ELSE workers[w].at]
<1>1. workers' = [workers EXCEPT ![w] = it]
  BY DEF Written, TypeOK, Worker
<1>2. /\ it.at = IF workers[w].todo = {o} THEN next ELSE workers[w].at
      /\ it.todo = workers[w].todo \ {o} /\ it.entry = workers[w].entry
      /\ it.targets = workers[w].targets /\ it.ref = workers[w].ref
  BY DEF TypeOK, Worker
<1> HIDE DEF it
<1> QED  BY <1>1, <1>2 DEF TypeOK

\* The placement of an order, and what its worker knows of it.
LEMMA PlacedEffect ==
    ASSUME TypeOK, Shape, NEW w \in Workers, SubmitPlaced(w)
    PROVE  /\ OrderOf(w) \in Orders
           /\ \E outcome \in Outcomes : Place(OrderOf(w), outcome) /\ workers'[w].outcome = outcome
           /\ \A v \in Workers \ {w} : workers'[v] = workers[v]
           /\ workers'[w].at = "record" /\ workers'[w].entry = workers[w].entry
           /\ workers'[w].targets = workers[w].targets /\ workers'[w].todo = workers[w].todo
           /\ workers'[w].ref[OrderOf(w)] = Len(placements[OrderOf(w)]) + 1
           /\ \A q \in Orders \ {OrderOf(w)} : workers'[w].ref[q] = workers[w].ref[q]
<1> DEFINE o == OrderOf(w)
<1>1. o \in Orders
  BY SubmitHasOrder DEF SubmitPlaced, SubmitSteps
<1>2. PICK outcome \in Outcomes :
          /\ Place(o, outcome)
          /\ workers' = [workers EXCEPT ![w].at = "record", ![w].outcome = outcome,
                                        ![w].ref[o] = Len(placements[o]) + 1]
  BY DEF SubmitPlaced
<1> HIDE DEF o
<1> DEFINE it == [workers[w] EXCEPT !.at = "record", !.outcome = outcome,
                                    !.ref = [workers[w].ref EXCEPT ![o] = Len(placements[o]) + 1]]
<1>3. workers' = [workers EXCEPT ![w] = it]
  BY <1>2 DEF Worker, TypeOK
<1>4. /\ it.at = "record" /\ it.entry = workers[w].entry /\ it.outcome = outcome
      /\ it.targets = workers[w].targets /\ it.todo = workers[w].todo
      /\ it.ref[o] = Len(placements[o]) + 1
      /\ \A q \in Orders \ {o} : it.ref[q] = workers[w].ref[q]
  BY <1>1 DEF Worker, TypeOK
<1> HIDE DEF it
<1> QED  BY <1>1, <1>2, <1>3, <1>4 DEF TypeOK, o

\* What a cancel reads, and what it learns from the answer to its call.
LEMMA ReadEffect ==
    ASSUME TypeOK, NEW w \in Workers, CancelRead(w)
    PROVE  /\ \A v \in Workers \ {w} : workers'[v] = workers[v]
           /\ workers'[w].at = IF CancelTargets(w) # {} THEN "mark"
                               ELSE IF TypeOf(w) = "cancel" THEN "done" ELSE "call"
           /\ workers'[w].entry = workers[w].entry
           /\ workers'[w].targets = CancelTargets(w) /\ workers'[w].todo = CancelTargets(w)
           /\ \A o \in Orders : workers'[w].ref[o] = IF o \in CancelTargets(w) THEN linked[o] ELSE 0
<1> DEFINE known == [o \in Orders |-> IF o \in CancelTargets(w) THEN linked[o] ELSE 0]
           step == IF CancelTargets(w) # {} THEN "mark"
                   ELSE IF TypeOf(w) = "cancel" THEN "done" ELSE "call"
           it == [workers[w] EXCEPT !.targets = CancelTargets(w), !.todo = CancelTargets(w),
                                    !.ref = known, !.at = step]
<1>1. workers' = [workers EXCEPT ![w] = it]
  BY DEF CancelRead
<1>2. \A o \in Orders : known[o] = IF o \in CancelTargets(w) THEN linked[o] ELSE 0
  OBVIOUS
<1> HIDE DEF known, step
<1>3. /\ it.at = step /\ it.entry = workers[w].entry /\ it.ref = known
      /\ it.targets = CancelTargets(w) /\ it.todo = CancelTargets(w)
  BY DEF TypeOK, Worker
<1> HIDE DEF it
<1> QED  BY <1>1, <1>2, <1>3 DEF TypeOK, step

LEMMA AnsweredEffect ==
    ASSUME TypeOK, NEW w \in Workers, CancelAnswered(w)
    PROVE  LET todo == Cancelable(w) \cap workers[w].targets
           IN  /\ \A v \in Workers \ {w} : workers'[v] = workers[v]
               /\ workers'[w].at = IF todo = {} THEN "done" ELSE "persist"
               /\ workers'[w].entry = workers[w].entry /\ workers'[w].todo = todo
               /\ workers'[w].targets = workers[w].targets
               /\ \A o \in Orders : workers'[w].ref[o] =
                     IF o \in todo THEN CHOOSE p \in OpenPlacements(o) : TRUE ELSE workers[w].ref[o]
<1> DEFINE todo == Cancelable(w) \cap workers[w].targets
           found == [o \in Orders |-> IF o \in todo
                        THEN CHOOSE p \in OpenPlacements(o) : TRUE ELSE workers[w].ref[o]]
           it == [workers[w] EXCEPT !.todo = todo,
                      !.at = IF todo = {} THEN "done" ELSE "persist", !.ref = found]
<1>1. workers' = [workers EXCEPT ![w] = it]
  BY DEF CancelAnswered
<1>2. \A o \in Orders : found[o] =
          IF o \in todo THEN CHOOSE p \in OpenPlacements(o) : TRUE ELSE workers[w].ref[o]
  OBVIOUS
<1> HIDE DEF found, todo
<1>3. /\ it.at = IF todo = {} THEN "done" ELSE "persist"
      /\ it.entry = workers[w].entry /\ it.ref = found
      /\ it.targets = workers[w].targets /\ it.todo = todo
  BY DEF TypeOK, Worker
<1> HIDE DEF it
<1>4. \A v \in Workers \ {w} : workers'[v] = workers[v]
  BY <1>1 DEF TypeOK
<1>5. workers'[w] = it
  BY <1>1 DEF TypeOK
<1> QED  BY <1>2, <1>3, <1>4, <1>5 DEF todo

LEMMA WorkFrame ==
    ASSUME TypeOK, Shape, NEW w \in Workers, Work(w)
    PROVE  /\ UNCHANGED <<stream, requests, recon>>
           /\ \A v \in Workers \ {w} : workers'[v] = workers[v]
           /\ taken <= taken'
<1>1. CASE TakeNew(w)
  BY <1>1 DEF TypeOK, TakeNew, Begin, rows, exchange, history
<1>2. ASSUME NEW e, TakePending(w, e)
      PROVE  UNCHANGED <<stream, requests, recon, taken>> /\ \A v \in Workers \ {w} : workers'[v] = workers[v]
  BY <1>2 DEF TypeOK, TakePending, Begin, rows, exchange, history
<1>3. CASE SubmitRead(w) \/ SubmitMarkPending(w) \/ SubmitRefused(w)
  BY <1>3 DEF TypeOK, SubmitRead, SubmitMarkPending, SubmitRefused, Proceed, queue
<1>4. CASE SubmitPlaced(w) \/ SubmitUnanswered(w)
  <2>1. UNCHANGED <<queue, requests, recon>>
    BY <1>4 DEF SubmitPlaced, SubmitUnanswered
  <2>2. \A v \in Workers \ {w} : workers'[v] = workers[v]
    BY <1>4, PlacedEffect, ProceedEffect DEF SubmitUnanswered
  <2> QED  BY <2>1, <2>2 DEF queue, TypeOK
<1>5. CASE SubmitRecord(w) \/ SubmitReject(w)
  BY <1>5 DEF TypeOK, SubmitRecord, SubmitReject, Proceed, queue
<1>6. CASE CancelRead(w) \/ CancelMark(w)
  BY <1>6, WrittenEffect DEF TypeOK, CancelRead, CancelMark, queue
<1>7. CASE CancelAnswered(w) \/ CancelRefused(w) \/ CancelUnanswered(w)
  BY <1>7 DEF TypeOK, CancelAnswered, CancelRefused, CancelUnanswered, Settle, queue
<1>8. CASE CancelPersist(w) \/ CancelReject(w)
  BY <1>8, WrittenEffect DEF TypeOK, CancelPersist, CancelReject, queue
<1>9. CASE Finish(w) \/ Abort(w)
  BY <1>9 DEF TypeOK, Finish, Abort
<1> QED  BY <1>1, <1>2, <1>3, <1>4, <1>5, <1>6, <1>7, <1>8, <1>9 DEF Work, WorkerStep, TypeOK

LEMMA ExchangeFrame ==
    ASSUME ExchangeStep
    PROVE  UNCHANGED <<stream, taken, unacked, requests, workers, recon, lost, dropped>>
BY DEF ExchangeStep, OrderMoves, HandleReport, queue, history

LEMMA ReconcileFrame ==
    ASSUME Reconcile
    PROVE  UNCHANGED <<stream, taken, unacked, placements, reports, requests, workers, lost, dropped>>
BY DEF Reconcile, ReconcileStep, ReconcileSelect, ReconcileFetch, ReconcileUnknown, ReconcileWrite,
       ReconcileFails, queue, exchange, history

------------------------------------------------------------------------------
(* what grows                                                              *)

LEMMA PlaceGrows ==
    ASSUME TypeOK, NEW o \in Orders, NEW outcome \in Outcomes, Place(o, outcome)
    PROVE  PlacementsGrow
<1>1. ASSUME NEW q \in Orders
      PROVE  /\ Len(placements[q]) <= Len(placements'[q])
             /\ \A p \in DOMAIN placements[q] : placements'[q][p] = placements[q][p]
  <2>1. placements[q] \in Seq(ExchangeStatuses) /\ outcome \in ExchangeStatuses
    BY OrderAssumption DEF TypeOK, ExchangeStatuses, OpenAtExchange
  <2>2. placements'[q] = placements[q] \/ placements'[q] = Append(placements[q], outcome)
    BY PlaceTyped
  <2> QED  BY <2>1, <2>2
<1> QED  BY <1>1 DEF PlacementsGrow

LEMMA CancelGrows ==
    ASSUME TypeOK, NEW S, Cancel(S)
    PROVE  PlacementsGrow
<1>1. ASSUME NEW q \in Orders
      PROVE  /\ Len(placements[q]) <= Len(placements'[q])
             /\ \A p \in DOMAIN placements[q] :
                    placements[q][p] \in ClosedStatuses => placements'[q][p] = placements[q][p]
  <2>1. Len(placements[q]) \in Nat
    BY DEF TypeOK
  <2> QED  BY <2>1, CancelEffect DEF OpenPlacements, OpenAtExchange, ClosedStatuses
<1> QED  BY <1>1 DEF PlacementsGrow

\* What a move of an order at Binance does to its placements.
LEMMA MoveEffect ==
    ASSUME TypeOK, NEW o \in Orders, NEW p, NEW s \in Outcomes, OrderMoves(o, p, s)
    PROVE  /\ p \in DOMAIN placements[o] /\ placements[o][p] \in OpenAtExchange
           /\ \A q \in Orders : Len(placements'[q]) = Len(placements[q])
           /\ \A q \in Orders : DOMAIN placements'[q] = DOMAIN placements[q]
           /\ \A q \in Orders : \A i \in DOMAIN placements[q] :
                 placements'[q][i] = IF q = o /\ i = p THEN s ELSE placements[q][i]
<1>1. placements' = [placements EXCEPT ![o] = [placements[o] EXCEPT ![p] = s]]
  BY DEF OrderMoves, TypeOK
<1>2. p \in DOMAIN placements[o] /\ placements[o][p] \in OpenAtExchange
  BY DEF OrderMoves, OpenPlacements
<1>3. ASSUME NEW q \in Orders
      PROVE  /\ Len(placements'[q]) = Len(placements[q])
             /\ DOMAIN placements'[q] = DOMAIN placements[q]
             /\ \A i \in DOMAIN placements[q] :
                   placements'[q][i] = IF q = o /\ i = p THEN s ELSE placements[q][i]
  <2>1. placements[q] \in Seq(ExchangeStatuses) /\ s \in ExchangeStatuses
    BY OrderAssumption DEF TypeOK, ExchangeStatuses, OpenAtExchange
  <2>2. CASE q # o
    BY <1>1, <2>2 DEF TypeOK
  <2>3. CASE q = o
    <3>1. placements'[q] = [placements[q] EXCEPT ![p] = s]
      BY <1>1, <2>3 DEF TypeOK
    <3>2. Len(placements'[q]) = Len(placements[q]) /\ placements'[q] \in Seq(ExchangeStatuses)
      BY <1>2, <2>1, <2>3, <3>1, ExceptSeq
    <3>3. DOMAIN placements[q] = 1..Len(placements[q]) /\ DOMAIN placements'[q] = 1..Len(placements'[q])
      BY <2>1, <3>2
    <3> QED  BY <1>2, <2>3, <3>1, <3>2, <3>3
  <2> QED  BY <2>2, <2>3
<1> QED  BY <1>2, <1>3

LEMMA StillGrows ==
    ASSUME TypeOK, UNCHANGED placements
    PROVE  PlacementsGrow
<1>1. \A o \in Orders : Len(placements[o]) \in Nat
  BY DEF TypeOK
<1> QED  BY <1>1 DEF PlacementsGrow

LEMMA WorkGrows ==
    ASSUME TypeOK, Shape, NEW w \in Workers, Work(w)
    PROVE  PlacementsGrow
<1>1. CASE SubmitPlaced(w)
  BY <1>1, PlacedEffect, PlaceGrows
<1>2. CASE SubmitUnanswered(w)
  BY <1>2, SubmitHasOrder, PlaceGrows DEF SubmitUnanswered, SubmitSteps
<1>3. CASE CancelAnswered(w) \/ CancelUnanswered(w)
  BY <1>3, CancelGrows DEF CancelAnswered, CancelUnanswered
<1>4. CASE \/ TakeNew(w) \/ (\E e \in unacked : TakePending(w, e)) \/ Finish(w) \/ Abort(w)
  BY <1>4, StillGrows DEF TakeNew, TakePending, Begin, Finish, Abort, exchange
<1>5. CASE \/ SubmitRead(w) \/ SubmitMarkPending(w) \/ SubmitRefused(w) \/ SubmitRecord(w) \/ SubmitReject(w)
  BY <1>5, StillGrows DEF SubmitRead, SubmitMarkPending, SubmitRefused, SubmitRecord, SubmitReject, exchange
<1>6. CASE \/ CancelRead(w) \/ CancelMark(w) \/ CancelRefused(w) \/ CancelPersist(w) \/ CancelReject(w)
  BY <1>6, StillGrows DEF CancelRead, CancelMark, CancelRefused, CancelPersist, CancelReject, exchange
<1> QED  BY <1>1, <1>2, <1>3, <1>4, <1>5, <1>6 DEF Work, WorkerStep

LEMMA ExchangeGrows ==
    ASSUME TypeOK, ExchangeStep
    PROVE  PlacementsGrow
<1>1. ASSUME NEW o \in Orders, NEW p \in PlacementIds, NEW s \in Outcomes, OrderMoves(o, p, s)
      PROVE  PlacementsGrow
  <2>1. \A q \in Orders : Len(placements[q]) \in Nat
    BY DEF TypeOK
  <2> QED  BY <1>1, <2>1, MoveEffect DEF PlacementsGrow, OpenAtExchange, ClosedStatuses
<1>2. CASE \E rep \in reports : HandleReport(rep)
  BY <1>2, StillGrows DEF HandleReport
<1> QED  BY <1>1, <1>2 DEF ExchangeStep

LEMMA PlacementsKept ==
    ASSUME TypeOK, Shape, [Next]_vars
    PROVE  PlacementsGrow
<1>1. CASE UNCHANGED vars
  BY <1>1, StillGrows DEF vars, exchange
<1>2. ASSUME NEW r \in Requests, RequestActs(r) PROVE PlacementsGrow
  BY <1>2, RequestFrame, StillGrows
<1> QED  BY <1>1, <1>2, WorkGrows, ExchangeGrows, ReconcileFrame, StillGrows DEF Next

\* The new entry of a request, behind those that were there.
LEMMA AppendEffect ==
    ASSUME TypeOK, NEW r \in Requests, AppendEntry(r)
    PROVE  /\ Len(stream') = Len(stream) + 1 /\ DOMAIN stream' = 1..Len(stream) + 1
           /\ \A e \in DOMAIN stream : stream'[e] = stream[e]
           /\ stream'[Len(stream) + 1].type = requests[r].type
           /\ stream'[Len(stream) + 1].orders =
                 IF requests[r].type = "cancelAll" THEN {} ELSE requests[r].targets
<1> DEFINE e == [type |-> requests[r].type,
                 orders |-> IF requests[r].type = "cancelAll" THEN {} ELSE requests[r].targets]
<1>1. e \in Entry
  BY DEF TypeOK, Request, Entry
<1>2. stream' = Append(stream, e) /\ stream \in Seq(Entry)
  BY DEF AppendEntry, TypeOK
<1>3. /\ e.type = requests[r].type
      /\ e.orders = IF requests[r].type = "cancelAll" THEN {} ELSE requests[r].targets
  OBVIOUS
<1> HIDE DEF e
<1>4. stream'[Len(stream) + 1] = e /\ Len(stream') = Len(stream) + 1
  BY <1>1, <1>2
<1>5. DOMAIN stream' = 1..Len(stream) + 1
  BY <1>1, <1>2
<1>6. \A i \in DOMAIN stream : stream'[i] = stream[i]
  BY <1>1, <1>2
<1> QED  BY <1>3, <1>4, <1>5, <1>6

LEMMA StreamKept ==
    ASSUME TypeOK, Shape, [Next]_vars
    PROVE  StreamGrows /\ taken <= taken'
<1>0. Len(stream) \in Nat /\ taken \in Nat
  BY DEF TypeOK
<1>1. CASE UNCHANGED vars
  BY <1>0, <1>1 DEF vars, queue, StreamGrows
<1>2. ASSUME NEW r \in Requests, RequestActs(r) PROVE StreamGrows /\ taken <= taken'
  BY <1>0, <1>2, RequestFrame, AppendEffect DEF StreamGrows
<1>3. ASSUME NEW w \in Workers, Work(w) PROVE StreamGrows /\ taken <= taken'
  BY <1>0, <1>3, WorkFrame DEF StreamGrows
<1> QED  BY <1>0, <1>1, <1>2, <1>3, ExchangeFrame, ReconcileFrame DEF Next, StreamGrows

------------------------------------------------------------------------------
(* shapes                                                                  *)

\* What the write of a row does to its request.
LEMMA WriteRowEffect ==
    ASSUME TypeOK, NEW r \in Requests, NEW o, NEW s, NEW next, WriteRow(r, o, s, next)
    PROVE  /\ status' = [status EXCEPT ![o] = s] /\ linked' = linked
           /\ \A q \in Requests \ {r} : requests'[q] = requests[q]
           /\ requests[r].todo # {o} =>
                /\ requests'[r].at = requests[r].at /\ requests'[r].type = requests[r].type
                /\ requests'[r].targets = requests[r].targets
                /\ requests'[r].todo = requests[r].todo \ {o}
           /\ requests[r].todo = {o} /\ next # "idle" =>
                /\ requests'[r].at = next /\ requests'[r].type = requests[r].type
                /\ requests'[r].targets = requests[r].targets /\ requests'[r].todo = {}
           /\ requests[r].todo = {o} /\ next = "idle" => requests'[r] = IdleRequest
<1>1. CASE requests[r].todo # {o}
  BY <1>1 DEF WriteRow, SetStatus, TypeOK, Request
<1>2. CASE requests[r].todo = {o} /\ next # "idle"
  BY <1>2 DEF WriteRow, SetStatus, TypeOK, Request
<1>3. CASE requests[r].todo = {o} /\ next = "idle"
  BY <1>3 DEF WriteRow, SetStatus, TypeOK
<1> QED  BY <1>1, <1>2, <1>3

\* The request after a step of its own.
LEMMA RequestOkKept ==
    ASSUME TypeOK, Shape, NEW r \in Requests, RequestActs(r)
    PROVE  RequestOk(r)'
<1>0. RequestOk(r) /\ IdleRequest.at = "idle"
  BY DEF Shape, IdleRequest
<1>1. ASSUME NEW o \in Orders, CreateOrder(r, o) \/ RetrySubmit(r, o) PROVE RequestOk(r)'
  <2>1. /\ requests'[r].at = "append" /\ requests'[r].type = "submit"
        /\ requests'[r].targets = {o} /\ requests'[r].todo = {}
    BY <1>1 DEF CreateOrder, RetrySubmit, BeginSubmit, TypeOK
  <2> QED  BY <2>1 DEF RequestOk, Names
<1>2. ASSUME NEW o \in Orders, RequestCancel(r, o) PROVE RequestOk(r)'
  <2>1. requests'[r].type = "cancel" /\ requests'[r].targets = {o} /\ requests'[r].todo = {o}
    BY <1>2 DEF RequestCancel, BeginCancel, TypeOK
  <2> QED  BY <2>1 DEF RequestOk, Names
<1>3. CASE RequestCancelAll(r)
  <2>1. /\ requests'[r].type = "cancelAll" /\ requests'[r].todo = requests'[r].targets
        /\ requests'[r].targets \subseteq Orders
    BY <1>3 DEF RequestCancelAll, BeginCancel, TypeOK
  <2> QED  BY <2>1 DEF RequestOk, Names
<1>4. CASE MarkCancelRequested(r)
  <2>1. PICK o \in requests[r].todo : WriteRow(r, o, "CANCEL_REQUESTED", "append")
    BY <1>4 DEF MarkCancelRequested
  <2>2. requests[r].at = "mark"
    BY <1>4 DEF MarkCancelRequested
  <2> QED  BY <1>0, <2>1, <2>2, WriteRowEffect DEF RequestOk
<1>5. CASE AppendCommand(r)
  <2>1. \/ requests'[r] = IdleRequest
        \/ /\ requests'[r].type = requests[r].type /\ requests'[r].targets = requests[r].targets
           /\ requests'[r].todo = requests[r].todo /\ requests'[r].at = "recover"
    BY <1>5 DEF AppendCommand, Goto, Respond, TypeOK, Request
  <2> QED  BY <1>0, <1>5, <2>1 DEF RequestOk, AppendCommand
<1>6. CASE RecoverReceived(r) \/ RequestDies(r)
  <2>1. requests'[r] = IdleRequest
    BY <1>6 DEF RecoverReceived, RequestDies, Respond, TypeOK
  <2> QED  BY <1>0, <2>1 DEF RequestOk
<1>7. CASE AppendFails(r)
  <2>1. \/ requests'[r] = IdleRequest
        \/ /\ requests'[r].type = requests[r].type /\ requests'[r].targets = requests[r].targets
           /\ requests'[r].todo = requests[r].targets
    BY <1>7 DEF AppendFails, TypeOK, Request
  <2> QED  BY <1>0, <1>7, <2>1 DEF RequestOk, AppendFails
<1>8. CASE MarkAppendFailed(r) \/ MarkAppendFailedRejects(r)
  <2>1. PICK o \in requests[r].todo : \E s : WriteRow(r, o, s, "idle")
    BY <1>8 DEF MarkAppendFailed, MarkAppendFailedRejects
  <2>2. requests[r].at = "fail"
    BY <1>8 DEF MarkAppendFailed, MarkAppendFailedRejects
  <2> QED  BY <1>0, <2>1, <2>2, WriteRowEffect DEF RequestOk
<1> QED  BY <1>1, <1>2, <1>3, <1>4, <1>5, <1>6, <1>7, <1>8 DEF RequestActs, RequestStep

\* Every request in flight has room for its command.
LEMMA RoomKept ==
    ASSUME TypeOK, Shape, NEW r \in Requests, RequestActs(r)
    PROVE  Len(stream') + Cardinality(Appending') <= MaxEntries
<1>0. /\ IsFiniteSet(Appending) /\ Cardinality(Appending) \in Nat /\ Len(stream) \in Nat /\ MaxEntries \in Nat
      /\ Len(stream) + Cardinality(Appending) <= MaxEntries
  BY OrderAssumption, FS_Subset, FS_CardinalityType DEF Appending, TypeOK, Shape
<1>f. \A q \in Requests \ {r} : requests'[q] = requests[q]
  BY RequestFrame
\* A request is taken only if there is room for its command too.
<1>1. ASSUME Room, requests[r].at = "idle", UNCHANGED stream
      PROVE  Len(stream') + Cardinality(Appending') <= MaxEntries
  <2> DEFINE busy == {q \in Requests : requests[q].at # "idle"}
  <2>1. IsFiniteSet(busy) /\ IsFiniteSet(busy \union {r})
    BY OrderAssumption, FS_Subset, FS_AddElement
  <2>2. Cardinality(busy \union {r}) = Cardinality(busy) + 1 /\ Cardinality(busy) \in Nat
    BY <1>1, <2>1, FS_AddElement, FS_CardinalityType
  <2>3. Appending' \subseteq busy \union {r}
    BY <1>f DEF Appending
  <2>4. Cardinality(Appending') <= Cardinality(busy) + 1 /\ Cardinality(Appending') \in Nat
    BY <2>1, <2>2, <2>3, FS_Subset, FS_CardinalityType
  <2>5. Len(stream) + Cardinality(busy) < MaxEntries
    BY <1>1 DEF Room
  <2> HIDE DEF busy
  <2> QED  BY <1>0, <1>1, <2>2, <2>4, <2>5
\* One that goes on, or ends, takes no more room than it had.
<1>2. ASSUME UNCHANGED stream, requests'[r].at \in {"mark", "append"} => r \in Appending
      PROVE  Len(stream') + Cardinality(Appending') <= MaxEntries
  <2>1. Appending' \subseteq Appending
    BY <1>2, <1>f DEF Appending
  <2>2. Cardinality(Appending') <= Cardinality(Appending) /\ Cardinality(Appending') \in Nat
    BY <1>0, <2>1, FS_Subset, FS_CardinalityType
  <2> QED  BY <1>0, <1>2, <2>2
\* One that has appended gives its room up.
<1>3. ASSUME r \in Appending, requests'[r].at \notin {"mark", "append"}, Len(stream') = Len(stream) + 1
      PROVE  Len(stream') + Cardinality(Appending') <= MaxEntries
  <2>1. Appending' = Appending \ {r}
    BY <1>3, <1>f DEF Appending
  <2>2. Cardinality(Appending') = Cardinality(Appending) - 1
    BY <1>0, <1>3, <2>1, FS_RemoveElement
  <2> QED  BY <1>0, <1>3, <2>2
<1>4. IdleRequest.at = "idle"
  BY DEF IdleRequest
<1>5. ASSUME NEW o \in Orders, CreateOrder(r, o) \/ RetrySubmit(r, o) \/ RequestCancel(r, o)
      PROVE  Len(stream') + Cardinality(Appending') <= MaxEntries
  BY <1>1, <1>5 DEF CreateOrder, RetrySubmit, RequestCancel, Accept, queue
<1>6. CASE RequestCancelAll(r)
  BY <1>1, <1>6 DEF RequestCancelAll, Accept, queue
<1>7. CASE MarkCancelRequested(r)
  BY <1>2, <1>7 DEF MarkCancelRequested, Appending, queue
<1>8. CASE AppendCommand(r)
  <2>1. requests'[r].at \in {"idle", "recover"}
    BY <1>4, <1>8 DEF AppendCommand, Goto, Respond, TypeOK, Request
  <2> QED  BY <1>3, <1>8, <2>1, AppendEffect DEF AppendCommand, Appending
<1>9. CASE RecoverReceived(r) \/ RequestDies(r)
  <2>1. requests'[r].at = "idle" /\ UNCHANGED stream
    BY <1>4, <1>9 DEF RecoverReceived, RequestDies, Respond, TypeOK, queue
  <2> QED  BY <1>2, <2>1
<1>10. CASE AppendFails(r)
  <2>1. requests'[r].at \in {"idle", "fail"} /\ r \in Appending
    BY <1>4, <1>10 DEF AppendFails, TypeOK, Request, Appending
  <2> QED  BY <1>2, <1>3, <1>10, <2>1, AppendEffect DEF AppendFails
<1>11. CASE MarkAppendFailed(r) \/ MarkAppendFailedRejects(r)
  <2>1. PICK o \in requests[r].todo : \E s : WriteRow(r, o, s, "idle")
    BY <1>11 DEF MarkAppendFailed, MarkAppendFailedRejects
  <2>2. requests[r].at = "fail" /\ UNCHANGED stream
    BY <1>11 DEF MarkAppendFailed, MarkAppendFailedRejects, queue
  <2>3. requests'[r].at \in {"fail", "idle"}
    BY <1>4, <2>1, <2>2, WriteRowEffect
  <2> QED  BY <1>2, <2>2, <2>3
<1> QED  BY <1>5, <1>6, <1>7, <1>8, <1>9, <1>10, <1>11 DEF RequestActs, RequestStep

\* A worker that is given a command, and one that is rid of it.
LEMMA BeginEffect ==
    ASSUME TypeOK, NEW w \in Workers, NEW e, Begin(w, e)
    PROVE  /\ workers[w].at = "idle" /\ workers'[w].entry = e
           /\ workers'[w].at = IF stream[e].type = "submit" THEN "submit" ELSE "cancel"
           /\ workers'[w].targets = {} /\ workers'[w].todo = {} /\ workers'[w].ref = NoRef
           /\ \A v \in Workers \ {w} : workers'[v] = workers[v]
           /\ UNCHANGED <<rows, stream, exchange, requests, recon, history>>
<1> DEFINE step == IF stream[e].type = "submit" THEN "submit" ELSE "cancel"
           it == [IdleWorker EXCEPT !.entry = e, !.at = step]
<1>1. workers' = [workers EXCEPT ![w] = it]
  BY DEF Begin
<1> HIDE DEF step
<1>2. it.entry = e /\ it.at = step /\ it.targets = {} /\ it.todo = {} /\ it.ref = NoRef
  BY DEF IdleWorker
<1> HIDE DEF it
<1> QED  BY <1>1, <1>2 DEF Begin, TypeOK, step

LEMMA EndEffect ==
    ASSUME TypeOK, NEW w \in Workers, Finish(w) \/ Abort(w)
    PROVE  /\ workers'[w].at = "idle" /\ workers'[w].entry = 0 /\ workers'[w].targets = {}
           /\ workers'[w].todo = {} /\ workers'[w].ref = NoRef
           /\ \A v \in Workers \ {w} : workers'[v] = workers[v]
BY DEF Finish, Abort, IdleWorker, TypeOK

\* The steps of a worker that stay within its command.
LEMMA WithinCommand ==
    ASSUME TypeOK, Shape, NEW w \in Workers, WorkerStep(w) \/ SubmitUnanswered(w) \/ CancelUnanswered(w),
           ~ Finish(w)
    PROVE  /\ workers'[w].entry = workers[w].entry /\ workers[w].at # "idle"
           /\ \/ workers[w].at \in SubmitSteps /\ workers'[w].at \in SubmitSteps \union {"done"}
              \/ workers[w].at \in CancelSteps /\ workers'[w].at \in CancelSteps \union {"done"}
<1>1. CASE SubmitRead(w) \/ SubmitMarkPending(w) \/ SubmitRefused(w) \/ SubmitRecord(w) \/ SubmitReject(w)
  BY <1>1, ProceedEffect DEF SubmitRead, SubmitMarkPending, SubmitRefused, SubmitRecord, SubmitReject, SubmitSteps
<1>2. CASE SubmitPlaced(w)
  BY <1>2, PlacedEffect DEF SubmitPlaced, SubmitSteps
<1>3. CASE SubmitUnanswered(w)
  BY <1>3, ProceedEffect DEF SubmitUnanswered, SubmitSteps
<1>4. CASE CancelRead(w)
  BY <1>4, ReadEffect DEF CancelRead, CancelSteps
<1>5. CASE CancelMark(w) \/ CancelPersist(w) \/ CancelReject(w)
  BY <1>5, WrittenEffect DEF CancelMark, CancelPersist, CancelReject, CancelSteps
<1>6. CASE CancelAnswered(w)
  BY <1>6, AnsweredEffect DEF CancelAnswered, CancelSteps
<1>7. CASE CancelRefused(w) \/ CancelUnanswered(w)
  BY <1>7, SettleEffect DEF CancelRefused, CancelUnanswered, CancelSteps
<1> QED  BY <1>1, <1>2, <1>3, <1>4, <1>5, <1>6, <1>7 DEF WorkerStep

LEMMA MarkStaysWithinTargets ==
    ASSUME TypeOK, Shape, NEW w \in Workers, WorkerStep(w) \/ SubmitUnanswered(w) \/ CancelUnanswered(w),
           ~ Finish(w), workers'[w].at = "mark"
    PROVE  workers'[w].todo \subseteq workers'[w].targets
<1>1. CASE CancelRead(w)
  BY <1>1, ReadEffect
<1>2. CASE CancelMark(w)
  <2>1. WorkerOk(w) /\ workers[w].at = "mark" /\ \E o : Written(w, o, "call")
    BY <1>2 DEF Shape, CancelMark
  <2> QED  BY <2>1, WrittenEffect DEF WorkerOk
<1>3. CASE SubmitRead(w) \/ SubmitMarkPending(w) \/ SubmitRefused(w) \/ SubmitRecord(w) \/ SubmitReject(w)
           \/ SubmitUnanswered(w)
  BY <1>3, ProceedEffect DEF SubmitRead, SubmitMarkPending, SubmitRefused, SubmitRecord, SubmitReject,
                             SubmitUnanswered
<1>4. CASE SubmitPlaced(w)
  BY <1>4, PlacedEffect
<1>5. CASE CancelAnswered(w)
  BY <1>5, AnsweredEffect
<1>6. CASE CancelRefused(w) \/ CancelUnanswered(w)
  BY <1>6, SettleEffect DEF CancelRefused, CancelUnanswered
<1>7. CASE CancelPersist(w) \/ CancelReject(w)
  BY <1>7, WrittenEffect DEF CancelPersist, CancelReject
<1> QED  BY <1>1, <1>2, <1>3, <1>4, <1>5, <1>6, <1>7 DEF WorkerStep

LEMMA WorkerOkKept ==
    ASSUME TypeOK, TypeOK', Shape, NEW w \in Workers, Work(w)
    PROVE  \A v \in Workers : WorkerOk(v)'
<1>0. /\ UNCHANGED stream /\ \A v \in Workers \ {w} : workers'[v] = workers[v]
      /\ taken <= taken' /\ taken \in Nat /\ taken' \in Nat
  BY WorkFrame DEF TypeOK
<1>1. \A v \in Workers \ {w} : WorkerOk(v)'
  BY <1>0 DEF Shape, WorkerOk
<1>2. WorkerOk(w)'
  <2>1. CASE TakeNew(w)
    <3>1. Begin(w, taken + 1) /\ taken' = taken + 1
      BY <2>1 DEF TakeNew
    <3> QED  BY <1>0, <3>1, BeginEffect DEF WorkerOk, SubmitSteps, CancelSteps
  <2>2. ASSUME NEW e \in unacked, TakePending(w, e) PROVE WorkerOk(w)'
    <3>1. Begin(w, e) /\ taken' = taken /\ e \in 1..taken
      BY <2>2 DEF TakePending, TypeOK
    <3> QED  BY <1>0, <3>1, BeginEffect DEF WorkerOk, SubmitSteps, CancelSteps
  <2>3. CASE Finish(w) \/ Abort(w)
    BY <2>3, EndEffect DEF WorkerOk, SubmitSteps, CancelSteps
  <2>4. CASE (WorkerStep(w) \/ SubmitUnanswered(w) \/ CancelUnanswered(w)) /\ ~ Finish(w)
    <3>1. /\ workers'[w].entry = workers[w].entry /\ workers[w].at # "idle"
          /\ \/ workers[w].at \in SubmitSteps /\ workers'[w].at \in SubmitSteps \union {"done"}
             \/ workers[w].at \in CancelSteps /\ workers'[w].at \in CancelSteps \union {"done"}
      BY <2>4, WithinCommand
    <3>2. workers'[w].at # "idle" /\ workers[w].entry \in 1..taken
      BY <3>1 DEF Shape, WorkerOk, SubmitSteps, CancelSteps
    <3>3. workers'[w].entry \in 1..taken'
      BY <1>0, <3>1, <3>2
    <3>4. workers'[w].at = "mark" => workers'[w].todo \subseteq workers'[w].targets
      BY <2>4, MarkStaysWithinTargets
    <3> QED  BY <1>0, <3>1, <3>2, <3>3, <3>4 DEF Shape, WorkerOk, SubmitSteps, CancelSteps
  <2> QED  BY <2>1, <2>2, <2>3, <2>4 DEF Work, WorkerStep
<1> QED  BY <1>1, <1>2

LEMMA ShapeKept ==
    ASSUME TypeOK, TypeOK', Shape, [Next]_vars
    PROVE  Shape'
<1>0. /\ StreamGrows /\ taken <= taken' /\ taken \in Nat /\ taken' \in Nat
      /\ DOMAIN stream = 1..Len(stream) /\ Len(stream) \in Nat /\ taken <= Len(stream)
  BY StreamKept DEF TypeOK
\* No command of the past is touched.
<1>1. UNCHANGED stream => \A e \in DOMAIN stream' : EntryOk(e)'
  BY DEF Shape, EntryOk
<1>2. UNCHANGED workers => \A w \in Workers : WorkerOk(w)'
  <2> SUFFICES ASSUME UNCHANGED workers, NEW w \in Workers PROVE WorkerOk(w)'
    OBVIOUS
  <2>1. WorkerOk(w)
    BY DEF Shape
  <2>2. CASE workers[w].at = "idle"
    BY <2>1, <2>2 DEF WorkerOk, SubmitSteps, CancelSteps
  <2>3. CASE workers[w].at # "idle"
    <3>1. workers[w].entry \in 1..taken
      BY <2>1, <2>3 DEF WorkerOk
    <3>2. workers[w].entry \in DOMAIN stream /\ workers[w].entry \in 1..taken'
      BY <1>0, <3>1
    <3>3. stream'[workers[w].entry] = stream[workers[w].entry]
      BY <1>0, <3>2 DEF StreamGrows
    <3> QED  BY <2>1, <2>3, <3>2, <3>3 DEF WorkerOk
  <2> QED  BY <2>2, <2>3
<1>3. UNCHANGED requests => Appending' = Appending /\ \A r \in Requests : RequestOk(r)'
  BY DEF Shape, RequestOk, Appending
<1>4. CASE UNCHANGED vars
  BY <1>1, <1>2, <1>3, <1>4 DEF vars, queue, Shape
<1>5. ASSUME NEW r \in Requests, RequestActs(r) PROVE Shape'
  <2>1. \A e \in DOMAIN stream' : EntryOk(e)'
    <3>1. CASE AppendEntry(r) /\ requests[r].at = "append"
      <4>1. RequestOk(r) /\ requests[r].at # "idle"
        BY <3>1 DEF Shape
      <4>2. ASSUME NEW e \in DOMAIN stream' PROVE EntryOk(e)'
        <5>1. CASE e \in DOMAIN stream
          BY <3>1, <5>1, AppendEffect DEF Shape, EntryOk
        <5>2. CASE e = Len(stream) + 1
          BY <3>1, <4>1, <5>2, AppendEffect DEF RequestOk, EntryOk, Names
        <5> QED  BY <1>0, <3>1, <5>1, <5>2, AppendEffect
      <4> QED  BY <4>2
    <3> QED  BY <1>1, <1>5, <3>1, RequestFrame
  <2>2. \A q \in Requests : RequestOk(q)'
    BY <1>5, RequestFrame, RequestOkKept DEF Shape, RequestOk
  <2>3. Len(stream') + Cardinality(Appending') <= MaxEntries
    BY <1>5, RoomKept
  <2>4. \A w \in Workers : WorkerOk(w)'
    BY <1>2, <1>5, RequestFrame
  <2> QED  BY <2>1, <2>2, <2>3, <2>4 DEF Shape
<1>6. ASSUME NEW w \in Workers, Work(w) PROVE Shape'
  BY <1>1, <1>3, <1>6, WorkFrame, WorkerOkKept DEF Shape
<1>7. CASE ExchangeStep \/ Reconcile
  BY <1>1, <1>2, <1>3, <1>7, ExchangeFrame, ReconcileFrame DEF Shape
<1> QED  BY <1>4, <1>5, <1>6, <1>7 DEF Next

------------------------------------------------------------------------------
(* truths                                                                  *)

LEMMA SequencesOfPlacements ==
    ASSUME TypeOK, NEW o \in Orders
    PROVE  DOMAIN placements[o] = 1..Len(placements[o]) /\ Len(placements[o]) \in Nat
<1>1. placements[o] \in Seq(ExchangeStatuses)
  BY DEF TypeOK
<1> QED  BY <1>1

\* What is true of Binance stays true.
LEMMA TrueStays ==
    ASSUME TypeOK, TypeOK', PlacementsGrow, NEW o \in Orders
    PROVE  /\ \A s, p : True(o, s, p) =>
                /\ p \in DOMAIN placements'[o] /\ s \in LinkedStatuses
                /\ s \in ClosedStatuses => placements'[o][p] = s
           /\ \A i \in 0..Len(placements[o]) : i \in 0..Len(placements'[o])
           /\ \A p \in DOMAIN placements[o] :
                /\ p \in DOMAIN placements'[o]
                /\ placements[o][p] \in ClosedStatuses => placements'[o][p] = placements[o][p]
<1>1. /\ DOMAIN placements[o] = 1..Len(placements[o]) /\ Len(placements[o]) \in Nat
      /\ DOMAIN placements'[o] = 1..Len(placements'[o]) /\ Len(placements'[o]) \in Nat
  <2>1. placements[o] \in Seq(ExchangeStatuses) /\ placements'[o] \in Seq(ExchangeStatuses)
    BY DEF TypeOK
  <2> QED  BY <2>1
<1>2. /\ Len(placements[o]) <= Len(placements'[o])
      /\ \A p \in DOMAIN placements[o] :
            placements[o][p] \in ClosedStatuses => placements'[o][p] = placements[o][p]
  BY DEF PlacementsGrow
<1>3. \A p \in DOMAIN placements[o] : p \in DOMAIN placements'[o]
  BY <1>1, <1>2
<1>4. \A i \in 0..Len(placements[o]) : i \in 0..Len(placements'[o])
  BY <1>1, <1>2
<1> QED  BY <1>2, <1>3, <1>4 DEF True

\* A row that no handler with news of Binance writes stays true.
LEMMA RowStays ==
    ASSUME TypeOK, TypeOK', Truth, PlacementsGrow, NEW o \in Orders, linked'[o] = linked[o],
           status'[o] = status[o] \/ status'[o] \notin LinkedStatuses
    PROVE  RowTrue(o)'
<1>1. RowTrue(o)
  BY DEF Truth
<1>2. linked'[o] \in 0..Len(placements'[o])
  BY <1>1, TrueStays DEF RowTrue
<1>3. status'[o] \in LinkedStatuses => linked'[o] # 0
  BY <1>1 DEF RowTrue
<1>4. status'[o] \in ClosedStatuses => \E p \in DOMAIN placements'[o] : placements'[o][p] = status'[o]
  BY <1>1, TrueStays DEF RowTrue, LinkedStatuses
<1> QED  BY <1>2, <1>3, <1>4 DEF RowTrue

\* A row that is written with what is true of Binance is true.
LEMMA RowWritten ==
    ASSUME TypeOK, TypeOK', PlacementsGrow, NEW o \in Orders, NEW s, NEW p, True(o, s, p),
           status'[o] = s, linked'[o] = p
    PROVE  RowTrue(o)'
<1>1. /\ p \in DOMAIN placements'[o] /\ s \in LinkedStatuses
      /\ s \in ClosedStatuses => placements'[o][p] = s
  BY TrueStays
<1>2. p \in 0..Len(placements'[o]) /\ p # 0
  <2>1. placements'[o] \in Seq(ExchangeStatuses)
    BY DEF TypeOK
  <2> QED  BY <1>1, <2>1
<1> QED  BY <1>1, <1>2 DEF RowTrue

\* A worker has the same order as long as it has the same command.
LEMMA SubmitsStays ==
    ASSUME TypeOK, Shape, StreamGrows, NEW w \in Workers, workers'[w].entry = workers[w].entry,
           workers[w].at # "idle", NEW o
    PROVE  /\ stream'[workers'[w].entry] = stream[workers[w].entry]
           /\ workers[w].entry \in DOMAIN stream
           /\ (workers'[w].at \in SubmitSteps <=> workers[w].at \in SubmitSteps) =>
                 (Submits(w, o)' <=> Submits(w, o))
<1>1. workers[w].entry \in DOMAIN stream
  BY DEF TypeOK, Shape, WorkerOk
<1> QED  BY <1>1 DEF StreamGrows, Submits

LEMMA WorkerStays ==
    ASSUME TypeOK, TypeOK', Shape, Truth, PlacementsGrow, StreamGrows,
           NEW w \in Workers, workers'[w] = workers[w]
    PROVE  WorkerTrue(w)'
<1>0. WorkerTrue(w)
  BY DEF Truth
<1>1. \A o \in Orders : workers'[w].ref[o] \in 0..Len(placements'[o])
  BY <1>0, TrueStays DEF WorkerTrue
<1>2. ASSUME NEW o \in Orders, Submits(w, o)', workers'[w].at = "record"
      PROVE  True(o, RecordedStatus(workers[w].outcome), workers[w].ref[o])'
  <2>1. Submits(w, o)
    BY <1>2, SubmitsStays DEF Submits
  <2>2. True(o, RecordedStatus(workers[w].outcome), workers[w].ref[o])
    BY <1>0, <1>2, <2>1 DEF WorkerTrue
  <2> QED  BY <2>2, TrueStays DEF True, RecordedStatus
<1>3. ASSUME workers'[w].at = "persist", NEW o \in workers'[w].todo
      PROVE  True(o, "CANCELED", workers[w].ref[o])'
  <2>1. True(o, "CANCELED", workers[w].ref[o]) /\ o \in Orders
    BY <1>0, <1>3 DEF WorkerTrue, TypeOK, Worker
  <2> QED  BY <2>1, TrueStays DEF True
<1> QED  BY <1>1, <1>2, <1>3 DEF WorkerTrue

\* A worker that knows nothing of Binance but placements it knew, or none.
LEMMA WorkerKnowsNoMore ==
    ASSUME TypeOK, TypeOK', Truth, PlacementsGrow, NEW w \in Workers,
           workers'[w].at \notin {"record", "persist"},
           workers'[w].ref = workers[w].ref \/ workers'[w].ref = NoRef
    PROVE  WorkerTrue(w)'
<1>1. ASSUME NEW o \in Orders PROVE workers'[w].ref[o] \in 0..Len(placements'[o])
  <2>1. workers[w].ref[o] \in 0..Len(placements[o]) /\ 0 \in 0..Len(placements[o])
    BY SequencesOfPlacements DEF Truth, WorkerTrue
  <2> QED  BY <2>1, TrueStays DEF NoRef
<1> QED  BY <1>1 DEF WorkerTrue

LEMMA ReconStays ==
    ASSUME TypeOK, TypeOK', Truth, PlacementsGrow, recon' = recon
    PROVE  ReconTrue'
<1>1. ReconTrue /\ recon.writing \subseteq Orders
  BY DEF Truth, TypeOK, Reconciler
<1>2. \A o \in Orders : recon'.linked[o] \in 0..Len(placements'[o])
  BY <1>1, TrueStays DEF ReconTrue
<1>3. ASSUME NEW o \in recon'.writing
      PROVE  True(o, ReconciledStatus(recon.fetched), recon.linked[o])'
  BY <1>1, <1>3, TrueStays DEF ReconTrue, True, ReconciledStatus
<1> QED  BY <1>2, <1>3 DEF ReconTrue

LEMMA ReportsStay ==
    ASSUME TypeOK, TypeOK', Truth, PlacementsGrow, NEW rep \in reports
    PROVE  ReportTrue(rep)'
<1>1. ReportTrue(rep) /\ rep.order \in Orders
  BY DEF Truth, TypeOK, Report
<1> QED  BY <1>1, TrueStays DEF ReportTrue, True, ReportedStatus

LEMMA RequestTruth ==
    ASSUME TypeOK, TypeOK', Shape, Truth, PlacementsGrow, StreamGrows, NEW r \in Requests, RequestActs(r)
    PROVE  Truth'
<1>0. /\ UNCHANGED <<linked, placements, reports, workers, recon>>
      /\ \A o \in Orders : \/ status'[o] = status[o]
                           \/ status'[o] \in {"RECEIVED", "STREAM_APPEND_FAILED",
                                              "CANCEL_REQUESTED", "CANCEL_APPEND_FAILED"}
  BY RequestFrame
<1>1. \A o \in Orders : RowTrue(o)'
  BY <1>0, RowStays DEF LinkedStatuses, ClosedStatuses
<1> QED  BY <1>0, <1>1, WorkerStays, ReconStays, ReportsStay DEF Truth

LEMMA ExchangeTruth ==
    ASSUME TypeOK, TypeOK', Shape, Truth, PlacementsGrow, StreamGrows, ExchangeStep
    PROVE  Truth'
<1>1. (\A w \in Workers : WorkerTrue(w)') /\ ReconTrue'
  BY ExchangeFrame, WorkerStays, ReconStays
<1>2. ASSUME NEW o \in Orders, NEW p \in PlacementIds, NEW s \in Outcomes, OrderMoves(o, p, s)
      PROVE  Truth'
  <2>1. UNCHANGED <<status, linked>>
    BY <1>2 DEF OrderMoves, rows
  <2>2. \A q \in Orders : RowTrue(q)'
    BY <2>1, RowStays
  <2>3. \A q \in Orders : Len(placements'[q]) <= MaxPlacements
    BY <1>2, MoveEffect DEF Truth
  <2>4. ASSUME NEW rep \in reports' PROVE ReportTrue(rep)'
    <3>1. CASE rep \in reports
      BY <3>1, ReportsStay
    <3>2. CASE rep = [order |-> o, placement |-> p, status |-> s]
      <4>1. rep.order = o /\ rep.placement = p /\ rep.status = s
        BY <3>2
      <4>2. p \in DOMAIN placements'[o] /\ placements'[o][p] = s
        BY <1>2, MoveEffect
      <4>3. /\ ReportedStatus(s) \in LinkedStatuses
            /\ ReportedStatus(s) \in ClosedStatuses => ReportedStatus(s) = s
        BY OrderAssumption DEF ReportedStatus, LinkedStatuses, ClosedStatuses
      <4> QED  BY <4>1, <4>2, <4>3 DEF ReportTrue, True
    <3> QED  BY <1>2, <2>4, <3>1, <3>2 DEF OrderMoves
  <2> QED  BY <1>1, <2>2, <2>3, <2>4 DEF Truth
<1>3. ASSUME NEW rep \in reports, HandleReport(rep) PROVE Truth'
  <2>1. UNCHANGED placements /\ reports' \subseteq reports
    BY <1>3 DEF HandleReport
  <2>2. SetStatusAndLink(rep.order, ReportedStatus(rep.status), rep.placement)
    BY <1>3 DEF HandleReport
  <2>3. rep.order \in Orders /\ True(rep.order, ReportedStatus(rep.status), rep.placement)
    BY DEF Truth, ReportTrue, TypeOK, Report
  <2>4. ASSUME NEW q \in Orders PROVE RowTrue(q)'
    <3>1. CASE q = rep.order
      BY <2>2, <2>3, <3>1, RowWritten DEF SetStatusAndLink, TypeOK
    <3>2. CASE q # rep.order
      BY <2>2, <3>2, RowStays DEF SetStatusAndLink, TypeOK
    <3> QED  BY <3>1, <3>2
  <2> QED  BY <1>1, <2>1, <2>4, ReportsStay DEF Truth
<1> QED  BY <1>2, <1>3 DEF ExchangeStep

LEMMA ReconcileTruth ==
    ASSUME TypeOK, TypeOK', Shape, Truth, PlacementsGrow, StreamGrows, Reconcile
    PROVE  Truth'
<1>0. UNCHANGED <<placements, reports, workers>> /\ recon \in Reconciler
  BY ReconcileFrame DEF TypeOK
<1>1. (\A w \in Workers : WorkerTrue(w)') /\ (\A rep \in reports' : ReportTrue(rep)')
  BY <1>0, WorkerStays, ReportsStay
<1>2. \A o \in Orders : Len(placements'[o]) <= MaxPlacements
  BY <1>0 DEF Truth
<1>3. UNCHANGED <<status, linked>> => \A o \in Orders : RowTrue(o)'
  BY RowStays
\* The reconciler stays true when it goes on, or starts over, without news.
<1>4. ASSUME NEW it \in Reconciler, recon' = Continue(it), it.writing \subseteq recon.writing,
             it.linked = recon.linked, it.fetched = recon.fetched
      PROVE  ReconTrue'
  <2>1. CASE recon' = it
    BY <1>0, <1>4, <2>1 DEF Truth, ReconTrue, True
  <2>2. CASE recon' = IdleReconciler
    <3>1. recon'.writing = {} /\ \A o \in Orders : recon'.linked[o] = 0
      BY <2>2 DEF IdleReconciler
    <3>2. \A o \in Orders : 0 \in 0..Len(placements'[o])
      BY <1>0, SequencesOfPlacements
    <3> QED  BY <3>1, <3>2 DEF ReconTrue
  <2> QED  BY <1>4, <2>1, <2>2 DEF Continue
<1>5. CASE ReconcileSelect
  <2> DEFINE StatusOf(S) == [o \in Orders |-> IF o \in S THEN status[o] ELSE "absent"]
             LinkOf(S) == [o \in Orders |-> IF o \in S THEN linked[o] ELSE 0]
  <2>1. PICK S \in SUBSET Orders :
            recon' = [recon EXCEPT !.todo = S, !.status = StatusOf(S), !.linked = LinkOf(S)]
    BY <1>5 DEF ReconcileSelect
  <2>2. \A o \in Orders : LinkOf(S)[o] = linked[o] \/ LinkOf(S)[o] = 0
    OBVIOUS
  <2> HIDE DEF StatusOf, LinkOf
  <2>3. recon'.linked = LinkOf(S) /\ recon'.writing = recon.writing
    BY <1>0, <2>1 DEF Reconciler
  <2>4. recon.writing = {}
    BY <1>5 DEF ReconcileSelect, IdleReconciler
  <2>5. \A o \in Orders : linked[o] \in 0..Len(placements'[o]) /\ 0 \in 0..Len(placements'[o])
    BY <1>0, SequencesOfPlacements DEF Truth, RowTrue
  <2>6. ReconTrue'
    BY <2>2, <2>3, <2>4, <2>5 DEF ReconTrue
  <2> QED  BY <1>1, <1>2, <1>3, <1>5, <2>6 DEF Truth, ReconcileSelect, rows
<1>6. ASSUME NEW o \in Orders, ReconcileFetch(o) PROVE Truth'
  <2> DEFINE p == Lookup(o, recon.linked[o])
  <2>1. p \in DOMAIN placements[o] /\ placements[o][p] \in ExchangeStatuses
    BY <1>6, LookupTyped DEF ReconcileFetch, Truth, ReconTrue
  <2>2. PICK material \in BOOLEAN :
            recon' = Continue([recon EXCEPT
                    !.todo = recon.todo \ {o}, !.fetched = placements[o][p],
                    !.linked[o] = p, !.writing = IF material THEN {o} ELSE {}])
    BY <1>6 DEF ReconcileFetch
  <2> HIDE DEF p
  <2> DEFINE it == [recon EXCEPT
                    !.todo = recon.todo \ {o}, !.fetched = placements[o][p],
                    !.linked[o] = p, !.writing = IF material THEN {o} ELSE {}]
  <2>3. /\ it.fetched = placements[o][p] /\ it.linked = [recon.linked EXCEPT ![o] = p]
        /\ it.writing \subseteq {o}
    BY <1>0 DEF Reconciler
  <2>4. recon' = it \/ recon' = IdleReconciler
    BY <2>2 DEF Continue
  <2> HIDE DEF it
  <2>5. p \in 0..Len(placements'[o]) /\ recon.linked \in [Orders -> 0..MaxPlacements]
    BY <1>0, <2>1, SequencesOfPlacements DEF Reconciler
  <2>6. True(o, ReconciledStatus(placements[o][p]), p)
    BY <2>1 DEF True, ReconciledStatus, ExchangeStatuses, OpenAtExchange, LinkedStatuses, ClosedStatuses
  <2>7. CASE recon' = it
    <3>1. \A q \in Orders : recon'.linked[q] \in 0..Len(placements'[q])
      BY <1>0, <2>3, <2>5, <2>7 DEF Truth, ReconTrue
    <3>2. \A q \in recon'.writing :
              q = o /\ recon'.fetched = placements[o][p] /\ recon'.linked[q] = p
      BY <2>3, <2>5, <2>7
    <3> QED  BY <1>0, <1>1, <1>2, <1>3, <1>6, <2>6, <3>1, <3>2 DEF ReconTrue, Truth, True, ReconcileFetch, rows
  <2>8. CASE recon' = IdleReconciler
    <3>1. ReconTrue'
      <4>1. recon'.writing = {} /\ \A q \in Orders : recon'.linked[q] = 0
        BY <2>8 DEF IdleReconciler
      <4>2. \A q \in Orders : 0 \in 0..Len(placements'[q])
        BY <1>0, SequencesOfPlacements
      <4> QED  BY <4>1, <4>2 DEF ReconTrue
    <3> QED  BY <1>1, <1>2, <1>3, <1>6, <3>1 DEF Truth, ReconcileFetch, rows
  <2> QED  BY <2>4, <2>7, <2>8
<1>7. ASSUME NEW o \in Orders, ReconcileUnknown(o) PROVE Truth'
  <2> DEFINE it == [recon EXCEPT !.todo = recon.todo \ {o}]
  <2>1. it \in Reconciler /\ it.writing = recon.writing /\ it.linked = recon.linked /\ it.fetched = recon.fetched
    BY <1>0 DEF Reconciler
  <2>2. recon' = Continue(it)
    BY <1>7 DEF ReconcileUnknown
  <2> HIDE DEF it
  <2> QED  BY <1>1, <1>2, <1>3, <1>4, <1>7, <2>1, <2>2 DEF Truth, ReconcileUnknown, rows
<1>8. ASSUME NEW o \in Orders, ReconcileWrite(o) PROVE Truth'
  <2> DEFINE it == [recon EXCEPT !.writing = {}]
  <2>1. it \in Reconciler /\ it.writing = {} /\ it.linked = recon.linked /\ it.fetched = recon.fetched
    BY <1>0 DEF Reconciler
  <2>2. recon' = Continue(it)
    BY <1>8 DEF ReconcileWrite
  <2> HIDE DEF it
  <2>3. True(o, ReconciledStatus(recon.fetched), recon.linked[o])
    BY <1>8 DEF ReconcileWrite, Truth, ReconTrue
  <2>4. SetStatusAndLink(o, ReconciledStatus(recon.fetched), recon.linked[o])
    BY <1>8 DEF ReconcileWrite
  <2>5. ASSUME NEW q \in Orders PROVE RowTrue(q)'
    <3>1. CASE q = o
      BY <2>3, <2>4, <3>1, RowWritten DEF SetStatusAndLink, TypeOK
    <3>2. CASE q # o
      BY <2>4, <3>2, RowStays DEF SetStatusAndLink, TypeOK
    <3> QED  BY <3>1, <3>2
  <2>6. ReconTrue'
    BY <1>4, <2>1, <2>2
  <2> QED  BY <1>1, <1>2, <2>5, <2>6 DEF Truth
<1>9. ASSUME NEW o \in Orders, ReconcileFails(o) PROVE Truth'
  <2> DEFINE it == [recon EXCEPT !.todo = recon.todo \ {o}, !.writing = {}]
  <2>1. it \in Reconciler /\ it.writing = {} /\ it.linked = recon.linked /\ it.fetched = recon.fetched
    BY <1>0 DEF Reconciler
  <2>2. recon' = Continue(it)
    BY <1>9 DEF ReconcileFails
  <2> HIDE DEF it
  <2> QED  BY <1>1, <1>2, <1>3, <1>4, <1>9, <2>1, <2>2 DEF Truth, ReconcileFails, rows
<1> QED  BY <1>5, <1>6, <1>7, <1>8, <1>9 DEF Reconcile, ReconcileStep

\* An order is placed: Binance has it, and reports what it says of it.
LEMMA PlaceTruth ==
    ASSUME TypeOK, TypeOK', Truth, PlacementsGrow, NEW o \in Orders, NEW outcome \in Outcomes,
           Place(o, outcome)
    PROVE  /\ \A q \in Orders : Len(placements'[q]) <= MaxPlacements
           /\ \A rep \in reports' : ReportTrue(rep)'
           /\ LET p == Len(placements[o]) + 1
              IN  /\ p \in DOMAIN placements'[o] /\ placements'[o][p] = outcome
                  /\ p \in 0..Len(placements'[o])
<1> DEFINE p == Len(placements[o]) + 1
<1>1. placements[o] \in Seq(ExchangeStatuses) /\ outcome \in ExchangeStatuses
  BY OrderAssumption DEF TypeOK, ExchangeStatuses, OpenAtExchange
<1>2. /\ placements'[o] = Append(placements[o], outcome)
      /\ \A q \in Orders \ {o} : placements'[q] = placements[q]
      /\ p \in 1..MaxPlacements
  BY PlaceTyped
<1>3. /\ Len(placements'[o]) = p /\ p \in DOMAIN placements'[o] /\ placements'[o][p] = outcome
      /\ p \in 0..Len(placements'[o])
  BY <1>1, <1>2
<1> HIDE DEF p
<1>4. \A q \in Orders : Len(placements'[q]) <= MaxPlacements
  BY <1>2, <1>3, OrderAssumption DEF Truth
<1>5. ASSUME NEW rep \in reports' PROVE ReportTrue(rep)'
  <2>1. CASE rep \in reports
    BY <2>1, ReportsStay
  <2>2. ASSUME NEW s \in {"NEW", outcome}, rep = [order |-> o, placement |-> p, status |-> s]
        PROVE  ReportTrue(rep)'
    <3>1. rep.order = o /\ rep.placement = p /\ rep.status = s
      BY <2>2
    <3>2. /\ ReportedStatus(s) \in LinkedStatuses
          /\ ReportedStatus(s) \in ClosedStatuses => ReportedStatus(s) = outcome
      BY OrderAssumption DEF ReportedStatus, LinkedStatuses, ClosedStatuses
    <3> QED  BY <1>3, <3>1, <3>2 DEF ReportTrue, True
  <2> QED  BY <1>5, <2>1, <2>2 DEF Place, p
<1> QED  BY <1>3, <1>4, <1>5 DEF p

\* A cancel that Binance answers: what it found open is canceled.
LEMMA CancelTruth ==
    ASSUME TypeOK, TypeOK', Truth, PlacementsGrow, NEW S, Cancel(S)
    PROVE  /\ \A q \in Orders : Len(placements'[q]) <= MaxPlacements
           /\ \A rep \in reports' : ReportTrue(rep)'
<1>1. \A q \in Orders : Len(placements'[q]) <= MaxPlacements
  BY CancelEffect DEF Truth
<1>2. reports' = reports
  BY DEF Cancel
<1> QED  BY <1>1, <1>2, ReportsStay

LEMMA WorkTruth ==
    ASSUME TypeOK, TypeOK', Shape, Truth, PlacementsGrow, StreamGrows, NEW w \in Workers, Work(w)
    PROVE  Truth'
<1>0. (\A v \in Workers \ {w} : WorkerTrue(v)') /\ ReconTrue' /\ workers[w] \in Worker
  BY WorkFrame, WorkerStays, ReconStays DEF TypeOK
<1>1. UNCHANGED exchange => /\ \A o \in Orders : Len(placements'[o]) <= MaxPlacements
                            /\ \A rep \in reports' : ReportTrue(rep)'
  BY ReportsStay DEF Truth, exchange
<1>2. UNCHANGED rows => \A o \in Orders : RowTrue(o)'
  BY RowStays DEF rows
\* Rows that are written without news of Binance.
<1>3. ASSUME NEW o, NEW s, s \notin LinkedStatuses, SetStatus(o, s) PROVE \A q \in Orders : RowTrue(q)'
  BY <1>3, RowStays DEF SetStatus, TypeOK
\* Rows that are written with news of it.
<1>4. ASSUME NEW o \in Orders, NEW s, NEW p, True(o, s, p), SetStatusAndLink(o, s, p)
      PROVE  \A q \in Orders : RowTrue(q)'
  <2>1. RowTrue(o)'
    BY <1>4, RowWritten DEF SetStatusAndLink, TypeOK
  <2>2. \A q \in Orders \ {o} : RowTrue(q)'
    BY <1>4, RowStays DEF SetStatusAndLink, TypeOK
  <2> QED  BY <2>1, <2>2
<1>5. CASE TakeNew(w) \/ \E e \in unacked : TakePending(w, e)
  <2>1. PICK e : Begin(w, e)
    BY <1>5 DEF TakeNew, TakePending
  <2>2. WorkerTrue(w)'
    BY <2>1, BeginEffect, WorkerKnowsNoMore
  <2>3. UNCHANGED rows /\ UNCHANGED exchange
    BY <2>1 DEF Begin
  <2> QED  BY <1>0, <1>1, <1>2, <2>2, <2>3 DEF Truth
<1>6. CASE Finish(w) \/ Abort(w)
  <2>1. WorkerTrue(w)'
    BY <1>6, EndEffect, WorkerKnowsNoMore
  <2>2. UNCHANGED rows /\ UNCHANGED exchange
    BY <1>6 DEF Finish, Abort
  <2> QED  BY <1>0, <1>1, <1>2, <2>1, <2>2 DEF Truth
<1>7. CASE SubmitRead(w) \/ SubmitRefused(w)
  <2>1. WorkerTrue(w)'
    BY <1>7, ProceedEffect, WorkerKnowsNoMore DEF SubmitRead, SubmitRefused
  <2>2. UNCHANGED rows /\ UNCHANGED exchange
    BY <1>7 DEF SubmitRead, SubmitRefused
  <2> QED  BY <1>0, <1>1, <1>2, <2>1, <2>2 DEF Truth
<1>8. CASE SubmitMarkPending(w) \/ SubmitReject(w)
  <2>1. WorkerTrue(w)'
    BY <1>8, ProceedEffect, WorkerKnowsNoMore DEF SubmitMarkPending, SubmitReject
  <2>2. UNCHANGED exchange /\ (SetStatus(OrderOf(w), "PENDING") \/ SetStatus(OrderOf(w), "REJECTED"))
    BY <1>8 DEF SubmitMarkPending, SubmitReject
  <2> QED  BY <1>0, <1>1, <1>3, <2>1, <2>2 DEF Truth, LinkedStatuses, ClosedStatuses
<1>9. CASE SubmitPlaced(w)
  <2> DEFINE o == OrderOf(w)
             p == Len(placements[o]) + 1
  <2>1. PICK outcome \in Outcomes : Place(o, outcome) /\ workers'[w].outcome = outcome
    BY <1>9, PlacedEffect
  <2>2. /\ o \in Orders
        /\ workers'[w].at = "record" /\ workers'[w].entry = workers[w].entry
        /\ workers'[w].ref[o] = p
        /\ \A q \in Orders \ {o} : workers'[w].ref[q] = workers[w].ref[q]
    BY <1>9, PlacedEffect
  <2>3. /\ p \in DOMAIN placements'[o] /\ placements'[o][p] = outcome /\ p \in 0..Len(placements'[o])
        /\ \A q \in Orders : Len(placements'[q]) <= MaxPlacements
        /\ \A rep \in reports' : ReportTrue(rep)'
    BY <2>1, <2>2, PlaceTruth
  <2>4. \A q : Submits(w, q)' => q = o
    BY <1>9, <2>2, SubmitHasOrder, SubmitsStays DEF SubmitPlaced, SubmitSteps
  <2> HIDE DEF o, p
  <2>5. \A q \in Orders : workers'[w].ref[q] \in 0..Len(placements'[q])
    BY <2>2, <2>3, TrueStays DEF Truth, WorkerTrue
  <2>6. /\ RecordedStatus(outcome) \in LinkedStatuses
        /\ RecordedStatus(outcome) \in ClosedStatuses => RecordedStatus(outcome) = outcome
    BY OrderAssumption DEF RecordedStatus, LinkedStatuses, ClosedStatuses
  <2>7. WorkerTrue(w)'
    BY <2>1, <2>2, <2>3, <2>4, <2>5, <2>6 DEF WorkerTrue, True
  <2>8. UNCHANGED rows
    BY <1>9 DEF SubmitPlaced
  <2> QED  BY <1>0, <1>2, <2>3, <2>7, <2>8 DEF Truth
<1>10. CASE SubmitUnanswered(w)
  <2>1. PICK outcome \in Outcomes : Place(OrderOf(w), outcome)
    BY <1>10 DEF SubmitUnanswered
  <2>2. WorkerTrue(w)'
    BY <1>10, ProceedEffect, WorkerKnowsNoMore DEF SubmitUnanswered
  <2>3. OrderOf(w) \in Orders /\ UNCHANGED rows
    BY <1>10, SubmitHasOrder DEF SubmitUnanswered, SubmitSteps
  <2> QED  BY <1>0, <1>2, <2>1, <2>2, <2>3, PlaceTruth DEF Truth
<1>11. CASE SubmitRecord(w)
  <2>1. WorkerTrue(w)'
    BY <1>11, ProceedEffect, WorkerKnowsNoMore DEF SubmitRecord
  <2>2. OrderOf(w) \in Orders /\ Submits(w, OrderOf(w)) /\ UNCHANGED exchange
    BY <1>11, SubmitHasOrder DEF SubmitRecord, SubmitSteps
  <2>3. True(OrderOf(w), RecordedStatus(workers[w].outcome), workers[w].ref[OrderOf(w)])
    BY <1>11, <2>2 DEF Truth, WorkerTrue, SubmitRecord
  <2>4. \A q \in Orders : RowTrue(q)'
    BY <1>4, <1>11, <2>2, <2>3 DEF SubmitRecord
  <2> QED  BY <1>0, <1>1, <2>1, <2>2, <2>4 DEF Truth
<1>12. CASE CancelRead(w)
  <2>1. ASSUME NEW o \in Orders PROVE workers'[w].ref[o] \in 0..Len(placements'[o])
    <3>1. linked[o] \in 0..Len(placements[o]) /\ 0 \in 0..Len(placements[o])
      BY SequencesOfPlacements DEF Truth, RowTrue
    <3> QED  BY <1>12, <3>1, ReadEffect, TrueStays
  <2>2. WorkerTrue(w)'
    BY <1>12, <2>1, ReadEffect DEF WorkerTrue
  <2> QED  BY <1>0, <1>1, <1>2, <1>12, <2>2 DEF Truth, CancelRead
<1>13. CASE CancelMark(w) \/ CancelReject(w)
  <2>1. PICK o \in workers[w].todo, s \in {"CANCEL_PENDING", "CANCEL_REJECTED"}, next \in {"call", "done"} :
            SetStatus(o, s) /\ Written(w, o, next)
    BY <1>13 DEF CancelMark, CancelReject
  <2>2. WorkerTrue(w)'
    BY <1>13, <2>1, WrittenEffect, WorkerKnowsNoMore DEF CancelMark, CancelReject
  <2>3. UNCHANGED exchange
    BY <1>13 DEF CancelMark, CancelReject
  <2> QED  BY <1>0, <1>1, <1>3, <2>1, <2>2, <2>3 DEF Truth, LinkedStatuses, ClosedStatuses
<1>14. CASE CancelAnswered(w)
  <2> DEFINE todo == Cancelable(w) \cap workers[w].targets
  <2>1. /\ workers'[w].at \in {"done", "persist"} /\ workers'[w].todo = todo
        /\ \A o \in Orders : workers'[w].ref[o] =
              IF o \in todo THEN CHOOSE p \in OpenPlacements(o) : TRUE ELSE workers[w].ref[o]
    BY <1>14, AnsweredEffect
  <2>2. ASSUME NEW o \in todo
        PROVE  /\ o \in Orders /\ workers'[w].ref[o] \in DOMAIN placements'[o]
               /\ workers'[w].ref[o] \in 0..Len(placements'[o])
               /\ placements'[o][workers'[w].ref[o]] = "CANCELED"
    <3>1. o \in Orders /\ o \in Cancelable(w) /\ OpenPlacements(o) # {}
      BY DEF Cancelable
    <3>2. (CHOOSE p \in OpenPlacements(o) : TRUE) \in OpenPlacements(o)
      BY <3>1
    <3>3. workers'[w].ref[o] \in OpenPlacements(o)
      BY <2>1, <3>1, <3>2
    <3>4. workers'[w].ref[o] \in DOMAIN placements[o]
      BY <3>3 DEF OpenPlacements
    <3>5. placements'[o][workers'[w].ref[o]] = "CANCELED" /\ DOMAIN placements'[o] = DOMAIN placements[o]
      BY <1>14, <3>1, <3>3, <3>4, CancelEffect DEF CancelAnswered
    <3>6. workers'[w].ref[o] \in 0..Len(placements[o])
      BY <3>1, <3>4, SequencesOfPlacements
    <3> QED  BY <3>1, <3>4, <3>5, <3>6, TrueStays
  <2> HIDE DEF todo
  <2>3. \A o \in Orders : workers'[w].ref[o] \in 0..Len(placements'[o])
    BY <2>1, <2>2, TrueStays DEF Truth, WorkerTrue
  <2>4. WorkerTrue(w)'
    BY <2>1, <2>2, <2>3 DEF WorkerTrue, True, LinkedStatuses, ClosedStatuses
  <2>5. Cancel(Cancelable(w)) /\ UNCHANGED rows
    BY <1>14 DEF CancelAnswered
  <2> QED  BY <1>0, <1>2, <2>4, <2>5, CancelTruth DEF Truth
<1>15. CASE CancelRefused(w) \/ CancelUnanswered(w)
  <2>1. WorkerTrue(w)'
    BY <1>15, SettleEffect, WorkerKnowsNoMore DEF CancelRefused, CancelUnanswered
  <2>2. UNCHANGED rows /\ (UNCHANGED exchange \/ Cancel(Cancelable(w)))
    BY <1>15 DEF CancelRefused, CancelUnanswered
  <2> QED  BY <1>0, <1>1, <1>2, <2>1, <2>2, CancelTruth DEF Truth
<1>16. CASE CancelPersist(w)
  <2>1. PICK o \in workers[w].todo :
            SetStatusAndLink(o, "CANCELED", workers[w].ref[o]) /\ Written(w, o, "done")
    BY <1>16 DEF CancelPersist
  <2>2. workers[w].at = "persist" /\ UNCHANGED exchange
    BY <1>16 DEF CancelPersist
  <2>3. o \in Orders /\ \A q \in workers[w].todo : True(q, "CANCELED", workers[w].ref[q]) /\ q \in Orders
    BY <1>0, <2>2 DEF Truth, WorkerTrue, Worker
  <2>4. \A q \in Orders : RowTrue(q)'
    BY <1>4, <2>1, <2>3
  <2>5. /\ workers'[w].at \in {"persist", "done"} /\ workers'[w].todo \subseteq workers[w].todo
        /\ workers'[w].ref = workers[w].ref
    BY <2>1, <2>2, WrittenEffect
  <2>6. WorkerTrue(w)'
    <3>1. \A q \in Orders : workers'[w].ref[q] \in 0..Len(placements'[q])
      BY <2>5, TrueStays DEF Truth, WorkerTrue
    <3>2. \A q \in workers'[w].todo : True(q, "CANCELED", workers[w].ref[q])'
      BY <2>2, <2>3, <2>5 DEF True, exchange
    <3> QED  BY <2>5, <3>1, <3>2 DEF WorkerTrue, True
  <2> QED  BY <1>0, <1>1, <2>2, <2>4, <2>6 DEF Truth
<1> QED  BY <1>5, <1>6, <1>7, <1>8, <1>9, <1>10, <1>11, <1>12, <1>13, <1>14, <1>15, <1>16 DEF Work, WorkerStep

LEMMA TruthKept ==
    ASSUME TypeOK, TypeOK', Shape, Truth, [Next]_vars
    PROVE  Truth'
<1>1. PlacementsGrow /\ StreamGrows
  BY PlacementsKept, StreamKept
<1>2. CASE UNCHANGED vars
  <2>1. UNCHANGED <<status, linked, placements, reports, workers, recon>>
    BY <1>2 DEF vars, rows, exchange
  <2> QED  BY <1>1, <2>1, RowStays, WorkerStays, ReconStays, ReportsStay DEF Truth
<1> QED  BY <1>1, <1>2, RequestTruth, WorkTruth, ExchangeTruth, ReconcileTruth DEF Next

------------------------------------------------------------------------------
(* counts                                                                  *)

LEMMA TrueIsLinked ==
    ASSUME TypeOK, NEW o \in Orders, NEW s, NEW p, True(o, s, p)
    PROVE  p # 0
BY SequencesOfPlacements DEF True

\* A linked row stays linked.
LEMMA LinksStay ==
    ASSUME TypeOK, Shape, Truth, [Next]_vars, NEW o \in Orders, linked[o] # 0
    PROVE  linked'[o] # 0
<1>0. ASSUME NEW q \in Orders, NEW s, NEW p, True(q, s, p), SetStatusAndLink(q, s, p) PROVE linked'[o] # 0
  BY <1>0, TrueIsLinked DEF SetStatusAndLink, TypeOK
<1>1. CASE UNCHANGED vars
  BY <1>1 DEF vars, rows
<1>2. ASSUME NEW r \in Requests, RequestActs(r) PROVE linked'[o] # 0
  BY <1>2, RequestFrame
<1>3. ASSUME NEW w \in Workers, Work(w) PROVE linked'[o] # 0
  <2>1. CASE \/ TakeNew(w) \/ (\E e \in unacked : TakePending(w, e)) \/ Finish(w) \/ Abort(w)
             \/ SubmitRead(w) \/ SubmitPlaced(w) \/ SubmitRefused(w) \/ SubmitUnanswered(w)
    BY <2>1 DEF TakeNew, TakePending, Begin, Finish, Abort, SubmitRead, SubmitPlaced, SubmitRefused,
                SubmitUnanswered, rows
  <2>2. CASE CancelRead(w) \/ CancelAnswered(w) \/ CancelRefused(w) \/ CancelUnanswered(w)
    BY <2>2 DEF CancelRead, CancelAnswered, CancelRefused, CancelUnanswered, rows
  <2>3. CASE SubmitMarkPending(w) \/ SubmitReject(w) \/ CancelMark(w) \/ CancelReject(w)
    BY <2>3 DEF SubmitMarkPending, SubmitReject, CancelMark, CancelReject, SetStatus
  <2>4. CASE SubmitRecord(w)
    <3>1. OrderOf(w) \in Orders /\ Submits(w, OrderOf(w))
      BY <2>4, SubmitHasOrder DEF SubmitRecord, SubmitSteps
    <3>2. True(OrderOf(w), RecordedStatus(workers[w].outcome), workers[w].ref[OrderOf(w)])
      BY <2>4, <3>1 DEF Truth, WorkerTrue, SubmitRecord
    <3> QED  BY <1>0, <2>4, <3>1, <3>2 DEF SubmitRecord
  <2>5. CASE CancelPersist(w)
    <3>1. PICK q \in workers[w].todo : SetStatusAndLink(q, "CANCELED", workers[w].ref[q])
      BY <2>5 DEF CancelPersist
    <3>2. q \in Orders /\ True(q, "CANCELED", workers[w].ref[q])
      BY <2>5 DEF CancelPersist, Truth, WorkerTrue, TypeOK, Worker
    <3> QED  BY <1>0, <3>1, <3>2
  <2> QED  BY <1>3, <2>1, <2>2, <2>3, <2>4, <2>5 DEF Work, WorkerStep
<1>4. CASE ExchangeStep
  <2>1. ASSUME NEW rep \in reports, HandleReport(rep) PROVE linked'[o] # 0
    <3>1. rep.order \in Orders /\ True(rep.order, ReportedStatus(rep.status), rep.placement)
      BY DEF Truth, ReportTrue, TypeOK, Report
    <3> QED  BY <1>0, <2>1, <3>1 DEF HandleReport
  <2> QED  BY <1>4, <2>1 DEF ExchangeStep, OrderMoves, rows
<1>5. CASE Reconcile
  <2>1. ASSUME NEW q \in Orders, ReconcileWrite(q) PROVE linked'[o] # 0
    BY <1>0, <2>1 DEF ReconcileWrite, Truth, ReconTrue
  <2> QED  BY <1>5, <2>1 DEF Reconcile, ReconcileStep, ReconcileSelect, ReconcileFetch, ReconcileUnknown,
                             ReconcileFails, rows
<1> QED  BY <1>1, <1>2, <1>3, <1>4, <1>5 DEF Next

\* Sets that differ in one member at most.
LEMMA OneMember ==
    ASSUME NEW S, NEW T, NEW w, IsFiniteSet(S), IsFiniteSet(T), \A v : v # w => (v \in S <=> v \in T)
    PROVE  /\ Cardinality(S) \in Nat /\ Cardinality(T) \in Nat
           /\ (w \in S <=> w \in T) => Cardinality(T) = Cardinality(S)
           /\ w \in S /\ w \notin T => Cardinality(T) = Cardinality(S) - 1
           /\ w \notin S /\ w \in T => Cardinality(T) = Cardinality(S) + 1
<1>1. Cardinality(S) \in Nat /\ Cardinality(T) \in Nat
  BY FS_CardinalityType
<1>2. (w \in S <=> w \in T) => T = S
  OBVIOUS
<1>3. ASSUME w \in S, w \notin T PROVE Cardinality(T) = Cardinality(S) - 1
  <2>1. T = S \ {w}
    BY <1>3
  <2> QED  BY <1>3, <2>1, FS_RemoveElement
<1>4. ASSUME w \notin S, w \in T PROVE Cardinality(T) = Cardinality(S) + 1
  <2>1. T = S \union {w}
    BY <1>4
  <2> QED  BY <1>4, <2>1, FS_AddElement
<1> QED  BY <1>1, <1>2, <1>3, <1>4

\* The workers that are placing an order, before a step of w and after it.
LEMMA CountedBefore ==
    ASSUME TypeOK, TypeOK', NEW o \in Orders
    PROVE  /\ IsFiniteSet(AboutToPlace(o)) /\ IsFiniteSet(Recording(o)) /\ IsFiniteSet(AboutToPlace(o)')
           /\ IsFiniteSet(Recording(o)')
           /\ Cardinality(AboutToPlace(o)) \in Nat /\ Cardinality(Recording(o)) \in Nat
           /\ Cardinality(Workers) \in Nat
           /\ Len(placements[o]) \in Nat /\ lost[o] \in Nat
           /\ Len(placements'[o]) \in Nat /\ lost'[o] \in Nat
<1>1. /\ AboutToPlace(o) \subseteq Workers /\ Recording(o) \subseteq Workers
      /\ AboutToPlace(o)' \subseteq Workers /\ Recording(o)' \subseteq Workers
  BY DEF AboutToPlace, Recording
<1>2. /\ IsFiniteSet(AboutToPlace(o)) /\ IsFiniteSet(Recording(o)) /\ IsFiniteSet(AboutToPlace(o)')
      /\ IsFiniteSet(Recording(o)')
  BY <1>1, OrderAssumption, FS_Subset
<1>3. Len(placements[o]) \in Nat /\ lost[o] \in Nat
  BY DEF TypeOK
<1>4. Len(placements'[o]) \in Nat /\ lost'[o] \in Nat
  BY DEF TypeOK
<1>5. /\ Cardinality(AboutToPlace(o)) \in Nat /\ Cardinality(Recording(o)) \in Nat
      /\ Cardinality(Workers) \in Nat
  BY <1>2, OrderAssumption, FS_CardinalityType
<1> QED  BY <1>2, <1>3, <1>4, <1>5

\* Those that record an outcome and those about to place are different workers.
LEMMA AllOfWorkers ==
    ASSUME TypeOK, TypeOK', NEW o \in Orders
    PROVE  Cardinality(Recording(o)) + Cardinality(AboutToPlace(o)') <= Cardinality(Workers)
              \/ Recording(o) \cap AboutToPlace(o)' # {}
<1> SUFFICES ASSUME Recording(o) \cap AboutToPlace(o)' = {}
             PROVE  Cardinality(Recording(o)) + Cardinality(AboutToPlace(o)') <= Cardinality(Workers)
  OBVIOUS
<1>1. IsFiniteSet(Recording(o)) /\ IsFiniteSet(AboutToPlace(o)')
  BY CountedBefore
<1>2. Recording(o) \union AboutToPlace(o)' \subseteq Workers
  BY DEF Recording, AboutToPlace
<1>3. Cardinality(Recording(o) \union AboutToPlace(o)') <= Cardinality(Workers)
  BY <1>2, OrderAssumption, FS_Subset
<1>4. Cardinality(Recording(o) \union AboutToPlace(o)') =
         Cardinality(Recording(o)) + Cardinality(AboutToPlace(o)') - Cardinality({})
  BY <1>1, FS_Union
<1>5. Cardinality({}) = 0
  BY FS_EmptySet
<1>6. Cardinality(Recording(o)) \in Nat /\ Cardinality(AboutToPlace(o)') \in Nat
  BY <1>1, FS_CardinalityType
<1> QED  BY <1>3, <1>4, <1>5, <1>6

LEMMA PlaceLength ==
    ASSUME TypeOK, NEW o \in Orders, NEW outcome \in Outcomes, Place(o, outcome)
    PROVE  Len(placements'[o]) = Len(placements[o]) + 1
<1>1. placements[o] \in Seq(ExchangeStatuses) /\ outcome \in ExchangeStatuses
  BY OrderAssumption DEF TypeOK, ExchangeStatuses, OpenAtExchange
<1> QED  BY <1>1, PlaceTyped

\* Nobody begins or records a placement.
LEMMA QuietCounts ==
    ASSUME TypeOK, TypeOK', NEW o \in Orders, CountsOf(o), Len(placements'[o]) = Len(placements[o]),
           lost[o] <= lost'[o], linked[o] # 0 => linked'[o] # 0,
           Recording(o)' = Recording(o), AboutToPlace(o)' \subseteq AboutToPlace(o)
    PROVE  CountsOf(o)'
<1>1. Cardinality(AboutToPlace(o)') <= Cardinality(AboutToPlace(o)) /\ Cardinality(AboutToPlace(o)') \in Nat
  BY CountedBefore, FS_Subset, FS_CardinalityType
<1>2. Cardinality(Recording(o)') = Cardinality(Recording(o))
  OBVIOUS
<1>3. /\ Cardinality(AboutToPlace(o)) \in Nat /\ Cardinality(Recording(o)) \in Nat
      /\ Cardinality(Workers) \in Nat
      /\ Len(placements[o]) \in Nat /\ lost[o] \in Nat /\ lost'[o] \in Nat
  BY CountedBefore
<1>4. linked'[o] = 0 => Len(placements'[o]) <= lost'[o] + Cardinality(Recording(o)')
  BY <1>2, <1>3 DEF CountsOf
<1>5. Len(placements'[o]) + Cardinality(AboutToPlace(o)') <= lost'[o] + Cardinality(Workers)
  BY <1>1, <1>3 DEF CountsOf
<1> QED  BY <1>4, <1>5 DEF CountsOf

LEMMA SameWorkersSameCounts ==
    ASSUME TypeOK, Shape, StreamGrows, UNCHANGED workers, NEW o \in Orders
    PROVE  Recording(o)' = Recording(o) /\ AboutToPlace(o)' = AboutToPlace(o)
<1>1. ASSUME NEW w \in Workers
      PROVE  (w \in Recording(o)' <=> w \in Recording(o)) /\ (w \in AboutToPlace(o)' <=> w \in AboutToPlace(o))
  <2>1. CASE workers[w].at = "idle"
    BY <2>1 DEF Recording, AboutToPlace
  <2>2. CASE workers[w].at # "idle"
    <3>1. Submits(w, o)' <=> Submits(w, o)
      BY <2>2, SubmitsStays
    <3> QED  BY <3>1 DEF Recording, AboutToPlace
  <2> QED  BY <2>1, <2>2
<1>2. /\ Recording(o) \subseteq Workers /\ Recording(o)' \subseteq Workers
      /\ AboutToPlace(o) \subseteq Workers /\ AboutToPlace(o)' \subseteq Workers
  BY DEF Recording, AboutToPlace
<1> QED  BY <1>1, <1>2

\* A worker's step: the others count as before.
LEMMA OneWorkerCounts ==
    ASSUME TypeOK, TypeOK', Shape, NEW w \in Workers, Work(w), NEW o \in Orders
    PROVE  LET R == Recording(o)
               A == AboutToPlace(o)
           IN  /\ \A v : v # w => (v \in R' <=> v \in R) /\ (v \in A' <=> v \in A)
               /\ (w \in R <=> w \in R') => Cardinality(R') = Cardinality(R)
               /\ w \in R /\ w \notin R' => Cardinality(R') = Cardinality(R) - 1
               /\ w \notin R /\ w \in R' => Cardinality(R') = Cardinality(R) + 1
               /\ (w \in A <=> w \in A') => Cardinality(A') = Cardinality(A)
               /\ w \in A /\ w \notin A' => Cardinality(A') = Cardinality(A) - 1
               /\ w \notin A /\ w \in A' => Cardinality(A') = Cardinality(A) + 1
<1>1. UNCHANGED stream /\ \A v \in Workers \ {w} : workers'[v] = workers[v]
  BY WorkFrame
<1>2. \A v : v # w => /\ v \in Recording(o)' <=> v \in Recording(o)
                      /\ v \in AboutToPlace(o)' <=> v \in AboutToPlace(o)
  BY <1>1 DEF Recording, AboutToPlace, Submits
<1> HIDE DEF Recording, AboutToPlace
<1> QED  BY <1>2, CountedBefore, OneMember

LEMMA WorkCounts ==
    ASSUME TypeOK, TypeOK', Shape, Shape', Truth, Counts, NEW w \in Workers, Work(w), NEW o \in Orders
    PROVE  CountsOf(o)'
<1>0. /\ CountsOf(o) /\ UNCHANGED stream /\ (linked[o] # 0 => linked'[o] # 0)
      /\ \A v : v # w => /\ v \in Recording(o)' <=> v \in Recording(o)
                         /\ v \in AboutToPlace(o)' <=> v \in AboutToPlace(o)
  BY WorkFrame, LinksStay, OneWorkerCounts DEF Counts, Next
<1>n. /\ Cardinality(AboutToPlace(o)) \in Nat /\ Cardinality(Recording(o)) \in Nat
      /\ Cardinality(Workers) \in Nat /\ Len(placements[o]) \in Nat /\ lost[o] \in Nat
  BY CountedBefore
<1>c. CountsOf(o)
  BY <1>0
\* Steps that begin and record no placement of o.
<1>1. ASSUME Len(placements'[o]) = Len(placements[o]), lost'[o] = lost[o],
             w \notin Recording(o), w \notin Recording(o)', w \in AboutToPlace(o)' => w \in AboutToPlace(o)
      PROVE  CountsOf(o)'
  <2>1. Recording(o)' = Recording(o) /\ AboutToPlace(o)' \subseteq AboutToPlace(o)
    <3>1. \A v : v \in Recording(o)' <=> v \in Recording(o)
      BY <1>0, <1>1
    <3>2. \A v : v \in AboutToPlace(o)' => v \in AboutToPlace(o)
      BY <1>0, <1>1
    <3> QED  BY <3>1, <3>2
  <2>2. lost[o] <= lost'[o]
    BY <1>1, CountedBefore
  <2> QED  BY <1>0, <1>1, <2>1, <2>2, QuietCounts
<1>2. CASE TakeNew(w) \/ \E e \in unacked : TakePending(w, e)
  <2>1. PICK e : Begin(w, e)
    BY <1>2 DEF TakeNew, TakePending
  <2>2. UNCHANGED placements /\ UNCHANGED lost
    BY <2>1 DEF Begin, exchange, history
  <2>3. /\ w \notin Recording(o) /\ w \notin Recording(o)' /\ w \notin AboutToPlace(o)'
    BY <2>1, BeginEffect DEF Recording, AboutToPlace
  <2> QED  BY <1>1, <2>2, <2>3
<1>3. CASE Finish(w)
  <2>1. w \notin Recording(o) /\ w \notin Recording(o)' /\ w \notin AboutToPlace(o)'
    BY <1>3, EndEffect DEF Recording, AboutToPlace, Finish
  <2> QED  BY <1>1, <1>3, <2>1 DEF Finish, exchange, history
<1>4. CASE SubmitRead(w)
  <2>1. /\ workers[w].at = "submit" /\ workers'[w].entry = workers[w].entry
        /\ workers'[w].at \in {"done", "pending"}
        /\ UNCHANGED <<placements, lost, linked>>
    BY <1>4, ProceedEffect DEF SubmitRead, exchange, history, rows
  <2>2. w \notin Recording(o) /\ w \notin Recording(o)'
    BY <2>1 DEF Recording
  <2>3. CASE w \notin AboutToPlace(o)'
    BY <1>1, <2>1, <2>2, <2>3
  \* The row is not linked: no placement of o but those lost, or still to be recorded.
  <2>4. CASE w \in AboutToPlace(o)'
    <3>1. workers'[w].at = "pending" /\ Submits(w, o)
      BY <1>0, <2>1, <2>4 DEF AboutToPlace, Submits, SubmitSteps
    <3>2. o = OrderOf(w)
      BY <2>1, <3>1, SubmitHasOrder DEF SubmitSteps
    <3>3. linked[o] = 0
      BY <1>4, <2>1, <3>1, <3>2, ProceedEffect DEF SubmitRead, AlreadySubmitted
    <3>4. Recording(o) \cap AboutToPlace(o)' = {}
      <4>1. \A v : ~ (v \in Recording(o) /\ v \in AboutToPlace(o))
        BY DEF Recording, AboutToPlace
      <4> QED  BY <1>0, <2>2, <4>1
    <3>5. Cardinality(Recording(o)) + Cardinality(AboutToPlace(o)') <= Cardinality(Workers)
      BY <3>4, AllOfWorkers
    <3>6. Len(placements[o]) <= lost[o] + Cardinality(Recording(o))
      BY <1>0, <3>3 DEF CountsOf
    <3>7. Cardinality(Recording(o)') = Cardinality(Recording(o)) /\ Cardinality(AboutToPlace(o)') \in Nat
      BY <1>0, <2>2, OneWorkerCounts, CountedBefore, FS_CardinalityType
    <3> QED  BY <1>n, <2>1, <3>5, <3>6, <3>7 DEF CountsOf
  <2> QED  BY <2>3, <2>4
<1>5. CASE SubmitMarkPending(w) \/ SubmitRefused(w) \/ SubmitReject(w)
  <2>1. /\ workers[w].at \in {"pending", "place", "reject"} /\ workers'[w].entry = workers[w].entry
        /\ workers'[w].at \in {"place", "reject", "done"}
        /\ workers[w].at = "reject" => workers'[w].at = "done"
        /\ UNCHANGED <<placements, lost>>
    BY <1>5, ProceedEffect DEF SubmitMarkPending, SubmitRefused, SubmitReject, exchange, history
  <2>2. w \notin Recording(o) /\ w \notin Recording(o)' /\ (w \in AboutToPlace(o)' => w \in AboutToPlace(o))
    BY <1>0, <2>1 DEF Recording, AboutToPlace, Submits, SubmitSteps
  <2> QED  BY <1>1, <2>1, <2>2
<1>6. CASE SubmitPlaced(w)
  <2>1. /\ workers[w].at = "place" /\ workers'[w].at = "record" /\ workers'[w].entry = workers[w].entry
        /\ OrderOf(w) \in Orders /\ UNCHANGED <<linked, lost>>
        /\ \E outcome \in Outcomes : Place(OrderOf(w), outcome)
    BY <1>6, PlacedEffect DEF SubmitPlaced, rows, history
  <2>2. Submits(w, OrderOf(w)) /\ \A q : Submits(w, q) => q = OrderOf(w)
    BY <2>1, SubmitHasOrder DEF SubmitSteps
  <2>3. CASE o # OrderOf(w)
    <3>1. placements'[o] = placements[o]
      BY <2>1, <2>3, PlaceTyped
    <3>2. w \notin Recording(o) /\ w \notin Recording(o)' /\ w \notin AboutToPlace(o)'
      BY <1>0, <2>1, <2>2, <2>3 DEF Recording, AboutToPlace, Submits, SubmitSteps
    <3> QED  BY <1>1, <2>1, <3>1, <3>2
  <2>4. CASE o = OrderOf(w)
    <3>1. Len(placements'[o]) = Len(placements[o]) + 1
      BY <2>1, <2>4, PlaceLength
    <3>2. w \notin Recording(o) /\ w \in Recording(o)' /\ w \in AboutToPlace(o) /\ w \notin AboutToPlace(o)'
      BY <1>0, <2>1, <2>2, <2>4 DEF Recording, AboutToPlace, Submits, SubmitSteps
    <3>3. /\ Cardinality(Recording(o)') = Cardinality(Recording(o)) + 1
          /\ Cardinality(AboutToPlace(o)') = Cardinality(AboutToPlace(o)) - 1
      BY <3>2, OneWorkerCounts
    <3>4. linked'[o] = linked[o] /\ lost'[o] = lost[o]
      BY <2>1
    <3>5. linked'[o] = 0 => Len(placements'[o]) <= lost'[o] + Cardinality(Recording(o)')
      BY <1>c, <1>n, <3>1, <3>3, <3>4 DEF CountsOf
    <3>6. Len(placements'[o]) + Cardinality(AboutToPlace(o)') <= lost'[o] + Cardinality(Workers)
      BY <1>c, <1>n, <3>1, <3>3, <3>4 DEF CountsOf
    <3> QED  BY <3>5, <3>6 DEF CountsOf
  <2> QED  BY <2>3, <2>4
<1>7. CASE SubmitUnanswered(w)
  <2>1. /\ workers[w].at = "place" /\ workers'[w].at = "reject" /\ workers'[w].entry = workers[w].entry
        /\ OrderOf(w) \in Orders /\ UNCHANGED linked
        /\ lost' = [lost EXCEPT ![OrderOf(w)] = @ + 1]
        /\ \E outcome \in Outcomes : Place(OrderOf(w), outcome)
    BY <1>7, ProceedEffect, SubmitHasOrder DEF SubmitUnanswered, rows, SubmitSteps
  <2>2. Submits(w, OrderOf(w)) /\ \A q : Submits(w, q) => q = OrderOf(w)
    BY <2>1, SubmitHasOrder DEF SubmitSteps
  <2>3. w \notin Recording(o) /\ w \notin Recording(o)' /\ w \notin AboutToPlace(o)'
    BY <2>1 DEF Recording, AboutToPlace
  <2>4. CASE o # OrderOf(w)
    <3>1. placements'[o] = placements[o] /\ lost'[o] = lost[o]
      BY <2>1, <2>4, PlaceTyped DEF TypeOK
    <3> QED  BY <1>1, <2>3, <3>1
  <2>5. CASE o = OrderOf(w)
    <3>1. Len(placements'[o]) = Len(placements[o]) + 1 /\ lost'[o] = lost[o] + 1
      BY <2>1, <2>5, PlaceLength DEF TypeOK
    <3>2. w \in AboutToPlace(o)
      BY <2>1, <2>2, <2>5 DEF AboutToPlace
    <3>3. /\ Cardinality(Recording(o)') = Cardinality(Recording(o))
          /\ Cardinality(AboutToPlace(o)') = Cardinality(AboutToPlace(o)) - 1
      BY <2>3, <3>2, OneWorkerCounts
    <3>4. linked'[o] = linked[o]
      BY <2>1
    <3>5. linked'[o] = 0 => Len(placements'[o]) <= lost'[o] + Cardinality(Recording(o)')
      BY <1>c, <1>n, <3>1, <3>3, <3>4 DEF CountsOf
    <3>6. Len(placements'[o]) + Cardinality(AboutToPlace(o)') <= lost'[o] + Cardinality(Workers)
      BY <1>c, <1>n, <3>1, <3>3 DEF CountsOf
    <3> QED  BY <3>5, <3>6 DEF CountsOf
  <2> QED  BY <2>4, <2>5
<1>8. CASE SubmitRecord(w)
  <2>1. /\ workers[w].at = "record" /\ workers'[w].at = "done" /\ UNCHANGED <<placements, lost>>
        /\ SetStatusAndLink(OrderOf(w), RecordedStatus(workers[w].outcome), workers[w].ref[OrderOf(w)])
    BY <1>8, ProceedEffect DEF SubmitRecord, exchange, history
  <2>2. /\ OrderOf(w) \in Orders /\ Submits(w, OrderOf(w))
        /\ \A q : Submits(w, q) => q = OrderOf(w)
    BY <2>1, SubmitHasOrder DEF SubmitSteps
  <2>3. w \notin Recording(o)' /\ w \notin AboutToPlace(o)'
    BY <2>1 DEF Recording, AboutToPlace
  <2>4. CASE o # OrderOf(w)
    <3>1. w \notin Recording(o)
      BY <2>2, <2>4 DEF Recording
    <3> QED  BY <1>1, <2>1, <2>3, <3>1
  \* The row is linked from now on.
  <2>5. CASE o = OrderOf(w)
    <3>1. True(o, RecordedStatus(workers[w].outcome), workers[w].ref[o])
      BY <2>1, <2>2, <2>5 DEF Truth, WorkerTrue
    <3>2. linked'[o] # 0
      BY <2>1, <2>5, <3>1, TrueIsLinked DEF SetStatusAndLink, TypeOK
    <3>3. w \notin AboutToPlace(o)
      BY <2>1 DEF AboutToPlace
    <3>4. Cardinality(AboutToPlace(o)') = Cardinality(AboutToPlace(o))
      BY <2>3, <3>3, OneWorkerCounts
    <3>5. lost'[o] = lost[o] /\ Len(placements'[o]) = Len(placements[o])
      BY <2>1
    <3>6. Len(placements'[o]) + Cardinality(AboutToPlace(o)') <= lost'[o] + Cardinality(Workers)
      BY <1>c, <1>n, <3>4, <3>5 DEF CountsOf
    <3> QED  BY <3>2, <3>6 DEF CountsOf
  <2> QED  BY <2>4, <2>5
<1>9. CASE workers[w].at \in CancelSteps /\ workers'[w].at \in CancelSteps \union {"done"}
  <2>1. Len(placements'[o]) = Len(placements[o]) /\ lost'[o] = lost[o]
    <3>1. CASE Cancel(Cancelable(w)) /\ UNCHANGED lost
      BY <3>1, CancelEffect
    <3>2. CASE UNCHANGED <<placements, lost>>
      BY <3>2
    <3> QED  BY <1>9, <3>1, <3>2
             DEF Work, WorkerStep, CancelSteps, TakeNew, TakePending, Begin, SubmitRead, SubmitMarkPending,
                 SubmitPlaced, SubmitRefused, SubmitUnanswered, SubmitRecord, SubmitReject, CancelRead,
                 CancelMark, CancelAnswered, CancelRefused, CancelUnanswered, CancelPersist, CancelReject,
                 Finish, Abort, IdleWorker, exchange, history
  <2>2. w \notin Recording(o) /\ w \notin Recording(o)' /\ w \notin AboutToPlace(o)'
    BY <1>9 DEF Recording, AboutToPlace, CancelSteps
  <2> QED  BY <1>1, <2>1, <2>2
<1>10. CASE Abort(w)
  <2>1. w \notin Recording(o)' /\ w \notin AboutToPlace(o)' /\ UNCHANGED <<linked, placements>>
    BY <1>10, EndEffect DEF Recording, AboutToPlace, Abort, rows, exchange
  <2>2. CASE w \notin Recording(o)
    <3>1. lost'[o] = lost[o]
      <4>1. CASE workers[w].at = "record"
        <5>1. OrderOf(w) \in Orders /\ Submits(w, OrderOf(w))
          BY <4>1, SubmitHasOrder DEF SubmitSteps
        <5>2. o # OrderOf(w)
          BY <2>2, <4>1, <5>1 DEF Recording
        <5> QED  BY <1>10, <4>1, <5>2 DEF Abort, TypeOK
      <4> QED  BY <1>10, <4>1 DEF Abort
    <3> QED  BY <1>1, <2>1, <2>2, <3>1
  <2>3. CASE w \in Recording(o)
    <3>1. workers[w].at = "record" /\ o = OrderOf(w)
      BY <2>3, SubmitHasOrder DEF Recording, SubmitSteps
    <3>2. lost'[o] = lost[o] + 1
      BY <1>10, <3>1 DEF Abort, TypeOK
    <3>3. w \notin AboutToPlace(o)
      BY <3>1 DEF AboutToPlace
    <3>4. /\ Cardinality(Recording(o)') = Cardinality(Recording(o)) - 1
          /\ Cardinality(AboutToPlace(o)') = Cardinality(AboutToPlace(o))
      BY <2>1, <2>3, <3>3, OneWorkerCounts
    <3>5. linked'[o] = linked[o] /\ Len(placements'[o]) = Len(placements[o])
      BY <2>1
    <3>6. linked'[o] = 0 => Len(placements'[o]) <= lost'[o] + Cardinality(Recording(o)')
      BY <1>c, <1>n, <3>2, <3>4, <3>5 DEF CountsOf
    <3>7. Len(placements'[o]) + Cardinality(AboutToPlace(o)') <= lost'[o] + Cardinality(Workers)
      BY <1>c, <1>n, <3>2, <3>4, <3>5 DEF CountsOf
    <3> QED  BY <3>6, <3>7 DEF CountsOf
  <2> QED  BY <2>2, <2>3
<1>11. CASE CancelRead(w) \/ CancelMark(w) \/ CancelAnswered(w) \/ CancelRefused(w) \/ CancelUnanswered(w)
            \/ CancelPersist(w) \/ CancelReject(w)
  <2>1. workers[w].at \in CancelSteps /\ ~ Finish(w)
    BY <1>11 DEF CancelSteps, CancelRead, CancelMark, CancelAnswered, CancelRefused, CancelUnanswered,
                 CancelPersist, CancelReject, Finish
  <2>2. workers'[w].at \in CancelSteps \union {"done"}
    BY <1>11, <2>1, WithinCommand DEF WorkerStep, SubmitSteps, CancelSteps
  <2> QED  BY <1>9, <2>1, <2>2
<1> QED  BY <1>2, <1>3, <1>4, <1>5, <1>6, <1>7, <1>8, <1>10, <1>11 DEF Work, WorkerStep

LEMMA CountsKept ==
    ASSUME TypeOK, TypeOK', Shape, Shape', Truth, Counts, [Next]_vars
    PROVE  Counts'
<1>0. StreamGrows
  BY StreamKept
<1>1. ASSUME UNCHANGED <<workers, lost>>, NEW o \in Orders, Len(placements'[o]) = Len(placements[o])
      PROVE  CountsOf(o)'
  <2>1. Recording(o)' = Recording(o) /\ AboutToPlace(o)' \subseteq AboutToPlace(o)
    BY <1>0, <1>1, SameWorkersSameCounts
  <2>2. lost[o] <= lost'[o] /\ CountsOf(o)
    BY <1>1, CountedBefore DEF Counts
  <2> QED  BY <1>1, <2>1, <2>2, LinksStay, QuietCounts
<1>2. CASE UNCHANGED vars
  BY <1>1, <1>2 DEF vars, exchange, history, Counts
<1>3. ASSUME NEW r \in Requests, RequestActs(r) PROVE Counts'
  BY <1>1, <1>3, RequestFrame DEF Counts
<1>4. CASE ExchangeStep
  <2>1. \A o \in Orders : Len(placements'[o]) = Len(placements[o])
    BY <1>4, MoveEffect DEF ExchangeStep, HandleReport
  <2> QED  BY <1>1, <1>4, <2>1, ExchangeFrame DEF Counts
<1>5. CASE Reconcile
  BY <1>1, <1>5, ReconcileFrame DEF Counts
<1> QED  BY <1>2, <1>3, <1>4, <1>5, WorkCounts DEF Next, Counts

------------------------------------------------------------------------------
(* with one instance                                                       *)

\* Neither the rows nor Binance give a reason to complain of an order.
Calm(o) ==
    /\ status'[o] = status[o] \/ status'[o] # "REJECTED"
    /\ OpenPlacements(o)' \subseteq OpenPlacements(o)
    /\ placements[o] = <<>> => placements'[o] = <<>>
    /\ lost'[o] = lost[o]

RejectedIsNotOpenFor(o) == status[o] = "REJECTED" /\ OpenPlacements(o) # {} => lost[o] > 0

LEMMA CalmRow ==
    ASSUME NEW o \in Orders, Calm(o), RejectedIsNotOpenFor(o)
    PROVE  RejectedIsNotOpenFor(o)'
BY DEF Calm, RejectedIsNotOpenFor

LEMMA CalmWorker ==
    ASSUME TypeOK, Shape, StreamGrows, \A o \in Orders : Calm(o), NEW w \in Workers,
           AloneWith(w), workers'[w] = workers[w]
    PROVE  AloneWith(w)'
<1>1. SUFFICES ASSUME NEW o \in Orders, Submits(w, o)'
               PROVE  /\ workers'[w].at \in {"pending", "place", "reject"} /\ lost'[o] = 0 => placements'[o] = <<>>
                      /\ workers'[w].at \in {"place", "record"} => status'[o] # "REJECTED"
  BY DEF AloneWith
<1>2. Submits(w, o)
  <2>1. workers[w].at # "idle"
    BY <1>1 DEF Submits, SubmitSteps
  <2> QED  BY <1>1, <2>1, SubmitsStays
<1> QED  BY <1>2 DEF AloneWith, Calm

\* What happens to orders that a step of Binance does not touch, and to those it does.
LEMMA MoveIsCalm ==
    ASSUME TypeOK, NEW o \in Orders, NEW p, NEW s \in Outcomes, OrderMoves(o, p, s), NEW q \in Orders
    PROVE  Calm(q)
<1>1. /\ DOMAIN placements'[q] = DOMAIN placements[q] /\ Len(placements'[q]) = Len(placements[q])
      /\ p \in DOMAIN placements[o] /\ placements[o][p] \in OpenAtExchange
      /\ \A i \in DOMAIN placements[q] :
            placements'[q][i] = IF q = o /\ i = p THEN s ELSE placements[q][i]
  BY MoveEffect
<1>2. OpenPlacements(q)' \subseteq OpenPlacements(q)
  BY <1>1 DEF OpenPlacements
<1>3. placements[q] = <<>> => placements'[q] = <<>>
  <2>1. CASE q = o
    BY <1>1, <2>1
  <2>2. CASE q # o
    BY <2>2 DEF OrderMoves, TypeOK
  <2> QED  BY <2>1, <2>2
<1> QED  BY <1>2, <1>3 DEF Calm, OrderMoves, rows, history

LEMMA CancelIsCalm ==
    ASSUME TypeOK, NEW S, Cancel(S), UNCHANGED <<status, lost>>, NEW q \in Orders
    PROVE  Calm(q)
<1>1. /\ DOMAIN placements'[q] = DOMAIN placements[q]
      /\ \A p \in DOMAIN placements[q] : placements'[q][p] =
            IF q \in S /\ p \in OpenPlacements(q) THEN "CANCELED" ELSE placements[q][p]
  BY CancelEffect
<1>2. OpenPlacements(q)' \subseteq OpenPlacements(q)
  BY <1>1 DEF OpenPlacements, OpenAtExchange
<1>3. placements[q] = <<>> => placements'[q] = <<>>
  <2>1. placements'[q] \in Seq(ExchangeStatuses) /\ Len(placements'[q]) = Len(placements[q])
    BY CancelEffect
  <2> QED  BY <2>1, EmptySeq
<1> QED  BY <1>2, <1>3 DEF Calm

LEMMA StillIsCalm ==
    ASSUME UNCHANGED <<placements, lost>>, NEW o \in Orders,
           status'[o] = status[o] \/ status'[o] # "REJECTED"
    PROVE  Calm(o)
BY DEF Calm, OpenPlacements

LEMMA AloneWork ==
    ASSUME TypeOK, TypeOK', Shape, Truth, Counts, StreamGrows, NEW w, Workers = {w},
           \A o \in Orders : RejectedIsNotOpenFor(o), AloneWith(w), Work(w)
    PROVE  (\A o \in Orders : RejectedIsNotOpenFor(o)') /\ AloneWith(w)'
<1>0. UNCHANGED stream /\ w \in Workers
  BY WorkFrame
<1>1. workers'[w].at \notin {"pending", "place", "reject", "record"} => AloneWith(w)'
  BY DEF AloneWith
<1>2. CASE TakeNew(w) \/ \E e \in unacked : TakePending(w, e)
  <2>1. PICK e : Begin(w, e)
    BY <1>2 DEF TakeNew, TakePending
  <2>2. \A o \in Orders : Calm(o)
    BY <2>1, StillIsCalm DEF Begin, exchange, history, rows
  <2> QED  BY <1>0, <1>1, <2>1, <2>2, BeginEffect, CalmRow
<1>3. CASE Finish(w) \/ Abort(w)
  <2>1. UNCHANGED <<status, placements>> /\ \A o \in Orders : lost'[o] >= lost[o] /\ lost[o] \in Nat
    <3>1. UNCHANGED <<status, placements>>
      BY <1>3 DEF Finish, Abort, rows, exchange
    <3>2. lost \in [Orders -> Nat]
      BY DEF TypeOK
    <3>3. CASE UNCHANGED lost
      BY <3>1, <3>2, <3>3
    <3>4. CASE lost' = [lost EXCEPT ![OrderOf(w)] = @ + 1]
      <4>1. ASSUME NEW o \in Orders PROVE lost'[o] >= lost[o] /\ lost[o] \in Nat
        <5>1. CASE o = OrderOf(w)
          BY <3>2, <3>4, <5>1
        <5>2. CASE o # OrderOf(w)
          BY <3>2, <3>4, <5>2
        <5> QED  BY <5>1, <5>2
      <4> QED  BY <3>1, <4>1
    <3> QED  BY <1>3, <3>3, <3>4 DEF Finish, Abort, history
  <2>2. \A o \in Orders : RejectedIsNotOpenFor(o)'
    BY <2>1 DEF RejectedIsNotOpenFor, OpenPlacements, TypeOK
  <2> QED  BY <1>0, <1>1, <1>3, <2>2, EndEffect
<1>4. CASE SubmitRead(w)
  <2>1. /\ workers[w].at = "submit" /\ workers'[w].entry = workers[w].entry
        /\ workers'[w].at = IF AlreadySubmitted(OrderOf(w)) THEN "done" ELSE "pending"
        /\ UNCHANGED <<placements, lost, status, linked>>
    BY <1>0, <1>4, ProceedEffect DEF SubmitRead, exchange, history, rows
  <2>2. \A o \in Orders : RejectedIsNotOpenFor(o)'
    BY <2>1 DEF RejectedIsNotOpenFor, OpenPlacements
  <2>3. ASSUME NEW o \in Orders, Submits(w, o)', workers'[w].at = "pending", lost'[o] = 0
        PROVE  placements'[o] = <<>>
    <3>1. Submits(w, o)
      BY <1>0, <2>1, <2>3 DEF Submits, SubmitSteps
    <3>2. o = OrderOf(w)
      BY <1>0, <2>1, <3>1, SubmitHasOrder DEF SubmitSteps
    <3>3. linked[o] = 0
      BY <2>1, <2>3, <3>2 DEF AlreadySubmitted
    <3>4. Recording(o) = {}
      BY <2>1 DEF Recording
    <3>5. Len(placements[o]) <= lost[o] + Cardinality({})
      BY <3>3, <3>4 DEF Counts, CountsOf
    <3>6. Len(placements[o]) = 0 /\ placements[o] \in Seq(ExchangeStatuses)
      BY <2>1, <2>3, <3>5, FS_EmptySet, CountedBefore DEF TypeOK
    <3> QED  BY <2>1, <3>6, EmptySeq
  <2> QED  BY <2>1, <2>2, <2>3 DEF AloneWith
<1>5. CASE SubmitMarkPending(w)
  <2>1. /\ workers[w].at = "pending" /\ workers'[w].entry = workers[w].entry /\ workers'[w].at = "place"
        /\ UNCHANGED <<placements, lost>> /\ SetStatus(OrderOf(w), "PENDING")
    BY <1>0, <1>5, ProceedEffect DEF SubmitMarkPending, exchange, history
  <2>2. \A o \in Orders : Calm(o)
    BY <2>1, StillIsCalm DEF SetStatus, TypeOK
  <2>3. ASSUME NEW o \in Orders, Submits(w, o)'
        PROVE  (lost'[o] = 0 => placements'[o] = <<>>) /\ status'[o] # "REJECTED"
    <3>1. Submits(w, o)
      BY <1>0, <2>1, <2>3 DEF Submits, SubmitSteps
    <3>2. o = OrderOf(w)
      BY <1>0, <2>1, <3>1, SubmitHasOrder DEF SubmitSteps
    <3> QED  BY <2>1, <3>1, <3>2 DEF AloneWith, SetStatus, TypeOK
  <2> QED  BY <2>2, <2>3, CalmRow DEF AloneWith
<1>6. CASE SubmitPlaced(w)
  <2>1. /\ workers[w].at = "place" /\ workers'[w].at = "record" /\ workers'[w].entry = workers[w].entry
        /\ OrderOf(w) \in Orders /\ UNCHANGED <<status, lost>>
        /\ \E outcome \in Outcomes : Place(OrderOf(w), outcome)
    BY <1>0, <1>6, PlacedEffect DEF SubmitPlaced, rows, history
  <2>2. Submits(w, OrderOf(w)) /\ status[OrderOf(w)] # "REJECTED"
    BY <1>0, <2>1, SubmitHasOrder DEF AloneWith, SubmitSteps
  <2>3. \A o \in Orders \ {OrderOf(w)} : placements'[o] = placements[o]
    BY <2>1, PlaceTyped
  <2>4. \A o \in Orders : RejectedIsNotOpenFor(o)'
    BY <2>1, <2>2, <2>3 DEF RejectedIsNotOpenFor, OpenPlacements
  <2>5. \A o \in Orders : Submits(w, o)' => Submits(w, o)
    BY <1>0, <2>1 DEF Submits, SubmitSteps
  <2> QED  BY <2>1, <2>4, <2>5 DEF AloneWith
<1>7. CASE SubmitRefused(w)
  <2>1. /\ workers[w].at = "place" /\ workers'[w].entry = workers[w].entry /\ workers'[w].at = "reject"
        /\ UNCHANGED <<placements, lost, status>>
    BY <1>0, <1>7, ProceedEffect DEF SubmitRefused, exchange, history, rows
  <2>2. \A o \in Orders : Calm(o)
    BY <2>1, StillIsCalm
  <2>3. \A o \in Orders : Submits(w, o)' => Submits(w, o)
    BY <1>0, <2>1 DEF Submits, SubmitSteps
  <2> QED  BY <2>1, <2>2, <2>3, CalmRow DEF AloneWith
<1>8. CASE SubmitUnanswered(w)
  <2>1. /\ workers[w].at = "place" /\ workers'[w].at = "reject" /\ workers'[w].entry = workers[w].entry
        /\ OrderOf(w) \in Orders /\ UNCHANGED status
        /\ lost' = [lost EXCEPT ![OrderOf(w)] = @ + 1]
        /\ \E outcome \in Outcomes : Place(OrderOf(w), outcome)
    BY <1>0, <1>8, ProceedEffect, SubmitHasOrder DEF SubmitUnanswered, rows, SubmitSteps
  <2>2. /\ lost'[OrderOf(w)] > 0
        /\ \A o \in Orders \ {OrderOf(w)} : placements'[o] = placements[o] /\ lost'[o] = lost[o]
    <3>1. lost \in [Orders -> Nat] /\ lost[OrderOf(w)] + 1 > 0
      BY <2>1 DEF TypeOK
    <3>2. \A o \in Orders \ {OrderOf(w)} : placements'[o] = placements[o]
      BY <2>1, PlaceTyped
    <3> QED  BY <2>1, <3>1, <3>2
  <2>3. \A o \in Orders : RejectedIsNotOpenFor(o)'
    BY <2>1, <2>2 DEF RejectedIsNotOpenFor, OpenPlacements
  <2>4. \A o : Submits(w, o)' => o = OrderOf(w)
    BY <1>0, <2>1, SubmitHasOrder DEF Submits, SubmitSteps
  <2>5. lost'[OrderOf(w)] # 0
    BY <2>2
  <2> QED  BY <2>1, <2>3, <2>4, <2>5 DEF AloneWith
<1>9. CASE SubmitRecord(w)
  <2>1. /\ workers[w].at = "record" /\ workers'[w].at = "done" /\ UNCHANGED <<placements, lost>>
        /\ SetStatusAndLink(OrderOf(w), RecordedStatus(workers[w].outcome), workers[w].ref[OrderOf(w)])
    BY <1>0, <1>9, ProceedEffect DEF SubmitRecord, exchange, history
  <2>2. OrderOf(w) \in Orders /\ Submits(w, OrderOf(w))
    BY <1>0, <2>1, SubmitHasOrder DEF SubmitSteps
  <2>3. True(OrderOf(w), RecordedStatus(workers[w].outcome), workers[w].ref[OrderOf(w)])
    BY <1>0, <2>1, <2>2 DEF Truth, WorkerTrue
  <2>4. RecordedStatus(workers[w].outcome) # "REJECTED"
    BY <2>3 DEF True, LinkedStatuses, ClosedStatuses
  <2>5. \A o \in Orders : Calm(o)
    BY <2>1, <2>4, StillIsCalm DEF SetStatusAndLink, TypeOK
  <2> QED  BY <1>1, <2>1, <2>5, CalmRow
<1>10. CASE SubmitReject(w)
  <2>1. /\ workers[w].at = "reject" /\ workers'[w].at = "done" /\ UNCHANGED <<placements, lost>>
        /\ SetStatus(OrderOf(w), "REJECTED")
    BY <1>0, <1>10, ProceedEffect DEF SubmitReject, exchange, history
  <2>2. OrderOf(w) \in Orders /\ Submits(w, OrderOf(w))
    BY <1>0, <2>1, SubmitHasOrder DEF SubmitSteps
  <2>3. lost[OrderOf(w)] = 0 => OpenPlacements(OrderOf(w)) = {}
    BY <2>1, <2>2 DEF AloneWith, OpenPlacements
  <2>4. lost[OrderOf(w)] \in Nat
    BY <2>2 DEF TypeOK
  <2>5. \A o \in Orders : RejectedIsNotOpenFor(o)'
    BY <2>1, <2>3, <2>4 DEF RejectedIsNotOpenFor, OpenPlacements, SetStatus, TypeOK
  <2> QED  BY <1>1, <2>1, <2>5
<1>11. CASE \/ CancelRead(w) \/ CancelMark(w) \/ CancelAnswered(w) \/ CancelRefused(w) \/ CancelUnanswered(w)
            \/ CancelPersist(w) \/ CancelReject(w)
  <2>1. workers[w].at \in CancelSteps /\ ~ Finish(w)
    BY <1>11 DEF CancelSteps, CancelRead, CancelMark, CancelAnswered, CancelRefused, CancelUnanswered,
                 CancelPersist, CancelReject, Finish
  <2>2. workers'[w].at \in CancelSteps \union {"done"}
    BY <1>0, <1>11, <2>1, WithinCommand DEF WorkerStep, SubmitSteps, CancelSteps
  <2>3. \A o \in Orders : Calm(o)
    <3>1. CASE Cancel(Cancelable(w)) /\ UNCHANGED <<status, lost>>
      BY <3>1, CancelIsCalm
    <3>2. CASE UNCHANGED <<placements, lost>> /\ UNCHANGED status
      BY <3>2, StillIsCalm
    <3>3. CASE UNCHANGED <<placements, lost>> /\
               \E o, s : s # "REJECTED" /\ status' = [status EXCEPT ![o] = s]
      BY <3>3, StillIsCalm DEF TypeOK
    <3>4. CASE CancelMark(w) \/ CancelPersist(w) \/ CancelReject(w)
      BY <3>3, <3>4 DEF CancelMark, CancelPersist, CancelReject, SetStatus, SetStatusAndLink, exchange, history
    <3>5. CASE CancelRead(w) \/ CancelAnswered(w) \/ CancelRefused(w) \/ CancelUnanswered(w)
      BY <3>1, <3>2, <3>5 DEF CancelRead, CancelAnswered, CancelRefused, CancelUnanswered, rows, exchange, history
    <3> QED  BY <1>11, <3>4, <3>5
  <2> QED  BY <1>1, <2>2, <2>3, CalmRow DEF CancelSteps
<1> QED  BY <1>0, <1>2, <1>3, <1>4, <1>5, <1>6, <1>7, <1>8, <1>9, <1>10, <1>11 DEF Work, WorkerStep

LEMMA AloneKept ==
    ASSUME TypeOK, TypeOK', Shape, Truth, Counts, Alone, [Next]_vars
    PROVE  Alone'
<1> SUFFICES ASSUME Cardinality(Workers) = 1
             PROVE  (\A o \in Orders : RejectedIsNotOpenFor(o)') /\ \A w \in Workers : AloneWith(w)'
  BY DEF Alone, RejectedIsNotOpen, RejectedIsNotOpenFor
<1>1. PICK w : Workers = {w}
  BY FS_Singleton, OrderAssumption
<1>2. (\A o \in Orders : RejectedIsNotOpenFor(o)) /\ AloneWith(w)
  BY <1>1 DEF Alone, RejectedIsNotOpen, RejectedIsNotOpenFor
<1>3. StreamGrows
  BY StreamKept
<1>4. ASSUME UNCHANGED workers, \A o \in Orders : Calm(o)
      PROVE  (\A o \in Orders : RejectedIsNotOpenFor(o)') /\ AloneWith(w)'
  BY <1>1, <1>2, <1>3, <1>4, CalmRow, CalmWorker
<1>5. CASE UNCHANGED vars
  BY <1>1, <1>4, <1>5, StillIsCalm DEF vars, rows, exchange, history
<1>6. ASSUME NEW r \in Requests, RequestActs(r)
      PROVE  (\A o \in Orders : RejectedIsNotOpenFor(o)') /\ AloneWith(w)'
  <2>1. UNCHANGED <<placements, lost, workers>>
    BY <1>6, RequestFrame
  <2>2. \A o \in Orders : status'[o] = status[o] \/ status'[o] # "REJECTED"
    BY <1>6, RequestFrame
  <2> QED  BY <1>4, <2>1, <2>2, StillIsCalm
<1>7. CASE ExchangeStep
  <2>1. ASSUME NEW rep \in reports, HandleReport(rep) PROVE \A o \in Orders : Calm(o)
    <3>1. True(rep.order, ReportedStatus(rep.status), rep.placement)
      BY DEF Truth, ReportTrue
    <3>2. ReportedStatus(rep.status) # "REJECTED"
      BY <3>1 DEF True, LinkedStatuses, ClosedStatuses
    <3> QED  BY <2>1, <3>2, StillIsCalm DEF HandleReport, SetStatusAndLink, TypeOK, history
  <2>2. ASSUME NEW o \in Orders, NEW p, NEW s \in Outcomes, OrderMoves(o, p, s)
        PROVE  \A q \in Orders : Calm(q)
    BY <2>2, MoveIsCalm
  <2>3. \A o \in Orders : Calm(o)
    BY <1>7, <2>1, <2>2 DEF ExchangeStep
  <2>4. UNCHANGED workers
    BY <1>7, ExchangeFrame
  <2> QED  BY <1>1, <1>4, <2>3, <2>4
<1>8. CASE Reconcile
  <2>1. ASSUME NEW o \in Orders, ReconcileWrite(o)
        PROVE  \A q \in Orders : status'[q] = status[q] \/ status'[q] # "REJECTED"
    <3>1. True(o, ReconciledStatus(recon.fetched), recon.linked[o])
      BY <2>1 DEF ReconcileWrite, Truth, ReconTrue
    <3>2. ReconciledStatus(recon.fetched) # "REJECTED"
      BY <3>1 DEF True, LinkedStatuses, ClosedStatuses
    <3> QED  BY <2>1, <3>2 DEF ReconcileWrite, SetStatusAndLink, TypeOK
  <2>2. \A q \in Orders : status'[q] = status[q] \/ status'[q] # "REJECTED"
    BY <1>8, <2>1 DEF Reconcile, ReconcileStep, ReconcileSelect, ReconcileFetch, ReconcileUnknown,
                      ReconcileFails, rows
  <2>3. UNCHANGED <<placements, lost, workers>>
    BY <1>8, ReconcileFrame
  <2>4. \A o \in Orders : Calm(o)
    BY <2>2, <2>3, StillIsCalm
  <2> QED  BY <1>1, <1>4, <2>3, <2>4
<1> QED  BY <1>1, <1>2, <1>3, <1>5, <1>6, <1>7, <1>8, AloneWork DEF Next

------------------------------------------------------------------------------
(* who moves a row on                                                      *)

\* How a worker comes to a command: it is given it.
LEMMA GivenCommand ==
    ASSUME TypeOK, Shape, NEW w \in Workers, Work(w), NEW e \in Nat \ {0},
           workers'[w].entry = e, workers[w].entry # e
    PROVE  Begin(w, e)
<1>1. CASE TakeNew(w)
  BY <1>1, BeginEffect DEF TakeNew
<1>2. CASE \E d \in unacked : TakePending(w, d)
  BY <1>2, BeginEffect DEF TakePending
<1>3. CASE Finish(w) \/ Abort(w)
  BY <1>3, EndEffect
<1>4. CASE (WorkerStep(w) \/ SubmitUnanswered(w) \/ CancelUnanswered(w)) /\ ~ Finish(w)
  BY <1>4, WithinCommand
<1> QED  BY <1>1, <1>2, <1>3, <1>4 DEF Work, WorkerStep

\* What happens to the pending entries and to dropped orders in a worker's step.
LEMMA UnackedEffect ==
    ASSUME TypeOK, Shape, NEW w \in Workers, Work(w)
    PROVE  /\ unacked \ {workers[w].entry} \subseteq unacked'
           /\ dropped \subseteq dropped'
           /\ taken' = taken \/ (taken' = taken + 1 /\ unacked' = unacked \union {taken + 1} /\ Begin(w, taken + 1))
<1>1. CASE TakeNew(w)
  BY <1>1 DEF TakeNew, Begin, history
<1>2. CASE \E e \in unacked : TakePending(w, e)
  BY <1>2 DEF TakePending, Begin, history
<1>3. CASE Finish(w) \/ Abort(w)
  BY <1>3 DEF Finish, Abort, history
<1>4. CASE \/ SubmitRead(w) \/ SubmitMarkPending(w) \/ SubmitPlaced(w) \/ SubmitRefused(w)
           \/ SubmitUnanswered(w) \/ SubmitRecord(w) \/ SubmitReject(w)
  BY <1>4 DEF SubmitRead, SubmitMarkPending, SubmitPlaced, SubmitRefused, SubmitUnanswered, SubmitRecord,
              SubmitReject, queue, history
<1>5. CASE \/ CancelRead(w) \/ CancelMark(w) \/ CancelAnswered(w) \/ CancelRefused(w) \/ CancelUnanswered(w)
           \/ CancelPersist(w) \/ CancelReject(w)
  BY <1>5 DEF CancelRead, CancelMark, CancelAnswered, CancelRefused, CancelUnanswered, CancelPersist,
              CancelReject, queue, history
<1> QED  BY <1>1, <1>2, <1>3, <1>4, <1>5 DEF Work, WorkerStep

LEMMA WaitingStays ==
    ASSUME TypeOK, Shape, NEW w \in Workers, Work(w), NEW e, Waiting(e), workers'[w].entry # e
    PROVE  Waiting(e)'
BY UnackedEffect, WorkFrame DEF Waiting

\* A handler that ends in the middle leaves its command to others, or drops it.
LEMMA LetGo ==
    ASSUME TypeOK, Shape, NEW w \in Workers, Abort(w), NEW e, e = workers[w].entry
    PROVE  Waiting(e)' \/ Abandoned(w) \subseteq dropped'
<1>0. workers[w].at # "idle"
  BY DEF Abort
<1>1. e # 0 /\ workers'[w].entry = 0 /\ \A v \in Workers \ {w} : workers'[v] = workers[v]
  <2>1. e \in 1..taken
    BY <1>0 DEF Shape, WorkerOk
  <2>2. e # 0
    BY <2>1 DEF TypeOK
  <2> QED  BY <2>2, EndEffect
<1>2. CASE e \in unacked' /\ ~ HeldElsewhere(w)
  <2>1. \A v \in Workers : workers'[v].entry # e
    BY <1>1, <1>2 DEF HeldElsewhere
  <2> QED  BY <1>2, <2>1 DEF Waiting
<1>3. CASE ~ (e \in unacked' /\ ~ HeldElsewhere(w))
  BY <1>3 DEF Abort
<1> QED  BY <1>2, <1>3

LEMMA PlacedStays ==
    ASSUME TypeOK, TypeOK', PlacementsGrow, NEW o \in Orders, placements[o] # <<>>
    PROVE  placements'[o] # <<>>
<1>1. placements[o] \in Seq(ExchangeStatuses) /\ placements'[o] \in Seq(ExchangeStatuses)
  BY DEF TypeOK
<1>2. Len(placements[o]) # 0 /\ Len(placements[o]) <= Len(placements'[o]) /\ Len(placements[o]) \in Nat
  BY <1>1, EmptySeq DEF PlacementsGrow
<1> QED  BY <1>1, <1>2

LEMMA PendingStays ==
    ASSUME TypeOK, TypeOK', Shape, StreamGrows, PlacementsGrow, UNCHANGED <<workers, unacked>>,
           dropped \subseteq dropped', NEW o \in Orders, PendingMinded(o)
    PROVE  PendingMinded(o)'
<1>1. CASE o \in dropped
  BY <1>1 DEF PendingMinded
<1>2. CASE placements[o] # <<>>
  BY <1>2, PlacedStays DEF PendingMinded
<1>3. ASSUME NEW w \in Workers, WillSubmit(w, o) PROVE PendingMinded(o)'
  <2>1. Submits(w, o)'
    BY <1>3, SubmitsStays DEF WillSubmit, Submits, SubmitSteps
  <2> QED  BY <1>3, <2>1 DEF WillSubmit, PendingMinded
<1>4. ASSUME NEW e \in DOMAIN stream, Waiting(e), stream[e].type = "submit", stream[e].orders = {o}
      PROVE  PendingMinded(o)'
  <2>1. stream'[e] = stream[e] /\ e \in DOMAIN stream'
    BY DEF StreamGrows, TypeOK
  <2>2. Waiting(e)'
    BY <1>4 DEF Waiting
  <2> QED  BY <1>4, <2>1, <2>2 DEF PendingMinded
<1> QED  BY <1>1, <1>2, <1>3, <1>4 DEF PendingMinded

\* A worker's step leaves somebody to move a PENDING row on.
LEMMA WorkPending ==
    ASSUME TypeOK, TypeOK', Shape, Truth, PlacementsGrow, NEW w \in Workers, Work(w),
           NEW o \in Orders, status[o] = "PENDING" => PendingMinded(o), status'[o] = "PENDING"
    PROVE  PendingMinded(o)'
<1>0. /\ UNCHANGED stream /\ dropped \subseteq dropped' /\ DOMAIN stream = 1..Len(stream) /\ Len(stream) \in Nat
      /\ \A v \in Workers \ {w} : workers'[v] = workers[v]
  <2>1. stream \in Seq(Entry)
    BY DEF TypeOK
  <2> QED  BY <2>1, WorkFrame, UnackedEffect
<1>1. CASE WillSubmit(w, o)
  <2>1. /\ workers[w].at \in SubmitSteps /\ workers[w].at # "record"
        /\ stream[workers[w].entry].orders = {o} /\ stream[workers[w].entry].type = "submit"
        /\ workers[w].entry \in DOMAIN stream /\ OrderOf(w) = o
    <3>1. /\ workers[w].at \in SubmitSteps /\ workers[w].at # "record" /\ Submits(w, o)
          /\ stream[workers[w].entry].orders = {o} /\ workers[w].at # "idle"
      BY <1>1 DEF WillSubmit, Submits, SubmitSteps
    <3>2. stream[workers[w].entry].type = "submit" /\ workers[w].entry \in DOMAIN stream
      BY <1>0, <3>1 DEF Shape, WorkerOk, TypeOK
    <3> QED  BY <3>1, <3>2, SubmitHasOrder
  <2>2. workers'[w].entry = workers[w].entry /\ workers'[w].at \in SubmitSteps \ {"record"} => PendingMinded(o)'
    BY <1>0, <2>1 DEF PendingMinded, WillSubmit, Submits
  <2>3. CASE SubmitRead(w)
    <3>1. CASE AlreadySubmitted(o)
      <4>1. status'[o] = status[o] /\ UNCHANGED placements
        BY <2>3 DEF SubmitRead, rows, exchange
      <4>2. linked[o] # 0
        BY <3>1, <4>1 DEF AlreadySubmitted
      <4>3. linked[o] \in 0..Len(placements[o]) /\ Len(placements[o]) \in Nat
        BY SequencesOfPlacements DEF Truth, RowTrue
      <4>4. placements[o] # <<>>
        BY <4>2, <4>3
      <4> QED  BY <4>1, <4>4 DEF PendingMinded
    <3>2. CASE ~ AlreadySubmitted(o)
      BY <2>1, <2>2, <2>3, <3>2, ProceedEffect DEF SubmitRead, SubmitSteps
    <3> QED  BY <3>1, <3>2
  <2>4. CASE SubmitMarkPending(w) \/ SubmitRefused(w) \/ SubmitUnanswered(w)
    BY <2>2, <2>4, ProceedEffect DEF SubmitMarkPending, SubmitRefused, SubmitUnanswered, SubmitSteps
  <2>5. CASE SubmitPlaced(w)
    <3>1. \E outcome \in Outcomes : Place(o, outcome)
      BY <2>1, <2>5, PlacedEffect
    <3>2. Len(placements'[o]) # 0
      BY <3>1, PlaceLength, SequencesOfPlacements
    <3> QED  BY <3>2 DEF PendingMinded
  <2>6. CASE SubmitReject(w)
    BY <2>1, <2>6 DEF SubmitReject, SetStatus, TypeOK
  <2>7. CASE Abort(w)
    <3>1. o \in Abandoned(w)
      BY <2>1 DEF Abandoned, SubmitSteps
    <3>2. PICK e : e = workers[w].entry
      OBVIOUS
    <3>3. e \in DOMAIN stream' /\ stream'[e].type = "submit" /\ stream'[e].orders = {o}
      BY <1>0, <2>1, <3>2
    <3>4. Waiting(e)' \/ Abandoned(w) \subseteq dropped'
      BY <2>7, <3>2, LetGo
    <3> QED  BY <3>1, <3>3, <3>4 DEF PendingMinded
  <2> QED  BY <2>1, <2>3, <2>4, <2>5, <2>6, <2>7
           DEF Work, WorkerStep, SubmitSteps, TakeNew, TakePending, Begin, SubmitRecord, CancelRead, CancelMark,
               CancelAnswered, CancelRefused, CancelUnanswered, CancelPersist, CancelReject, Finish
<1>2. CASE o \in dropped
  BY <1>0, <1>2 DEF PendingMinded
<1>3. CASE placements[o] # <<>>
  BY <1>3, PlacedStays DEF PendingMinded
<1>4. ASSUME NEW v \in Workers, v # w, WillSubmit(v, o) PROVE PendingMinded(o)'
  BY <1>0, <1>4 DEF PendingMinded, WillSubmit, Submits
<1>5. ASSUME NEW e \in DOMAIN stream, Waiting(e), stream[e].type = "submit", stream[e].orders = {o}
      PROVE  PendingMinded(o)'
  <2>1. CASE workers'[w].entry = e
    <3>1. Begin(w, e)
      BY <1>0, <1>5, <2>1, GivenCommand DEF Waiting
    <3>2. WillSubmit(w, o)'
      BY <1>0, <1>5, <3>1, BeginEffect DEF WillSubmit, Submits, SubmitSteps
    <3> QED  BY <3>2 DEF PendingMinded
  <2>2. CASE workers'[w].entry # e
    BY <1>0, <1>5, <2>2, WaitingStays DEF PendingMinded
  <2> QED  BY <2>1, <2>2
<1>6. CASE status[o] # "PENDING"
  <2>1. ASSUME NEW q, NEW s, s # "PENDING", status' = [status EXCEPT ![q] = s] PROVE FALSE
    BY <1>6, <2>1 DEF TypeOK
  <2>2. CASE SubmitMarkPending(w)
    <3>1. Submits(w, OrderOf(w)) /\ workers'[w].at = "place" /\ workers'[w].entry = workers[w].entry
      BY <2>2, ProceedEffect, SubmitHasOrder DEF SubmitMarkPending, SubmitSteps
    <3>2. o = OrderOf(w)
      BY <1>6, <2>2 DEF SubmitMarkPending, SetStatus, TypeOK
    <3>3. WillSubmit(w, o)'
      BY <1>0, <3>1, <3>2 DEF WillSubmit, Submits, SubmitSteps
    <3> QED  BY <3>3 DEF PendingMinded
  <2>3. CASE SubmitRecord(w)
    <3>1. Submits(w, OrderOf(w)) /\ OrderOf(w) \in Orders
      BY <2>3, SubmitHasOrder DEF SubmitRecord, SubmitSteps
    <3>2. True(OrderOf(w), RecordedStatus(workers[w].outcome), workers[w].ref[OrderOf(w)])
      BY <2>3, <3>1 DEF SubmitRecord, Truth, WorkerTrue
    <3> QED  BY <2>1, <2>3, <3>2 DEF SubmitRecord, SetStatusAndLink, True, LinkedStatuses, ClosedStatuses
  <2>4. CASE SubmitReject(w) \/ CancelMark(w) \/ CancelPersist(w) \/ CancelReject(w)
    BY <2>1, <2>4 DEF SubmitReject, CancelMark, CancelPersist, CancelReject, SetStatus, SetStatusAndLink
  <2>5. CASE UNCHANGED rows
    BY <1>6, <2>5 DEF rows
  <2> QED  BY <2>2, <2>3, <2>4, <2>5 DEF Work, WorkerStep, TakeNew, TakePending, Begin, SubmitRead, SubmitPlaced,
              SubmitRefused, SubmitUnanswered, CancelRead, CancelAnswered, CancelRefused, CancelUnanswered,
              Finish, Abort
<1> QED  BY <1>1, <1>2, <1>3, <1>4, <1>5, <1>6 DEF PendingMinded

\* A command that cancels o still does, where it is.
LEMMA CancelsStays ==
    ASSUME TypeOK, StreamGrows, NEW e \in DOMAIN stream, NEW o, Cancels(e, o)
    PROVE  Cancels(e, o)' /\ e \in DOMAIN stream'
<1>1. stream'[e] = stream[e] /\ e \in DOMAIN stream'
  BY DEF StreamGrows, TypeOK
<1> QED  BY <1>1 DEF Cancels

\* A worker that will mark o handles a command of the stream.
LEMMA MarksACommand ==
    ASSUME TypeOK, Shape, NEW w \in Workers, NEW o, WillMark(w, o)
    PROVE  workers[w].entry \in DOMAIN stream /\ workers[w].at # "idle"
<1>1. workers[w].at # "idle"
  BY DEF WillMark
<1>2. workers[w].entry \in 1..taken
  BY <1>1 DEF Shape, WorkerOk
<1> QED  BY <1>1, <1>2 DEF TypeOK

\* A step of no request and of no worker.
LEMMA CancelStays ==
    ASSUME TypeOK, UNCHANGED <<stream, taken, unacked, requests, workers, dropped>>,
           NEW o \in Orders, CancelMinded(o)
    PROVE  CancelMinded(o)'
BY DEF CancelMinded, WillAppend, WillMark, Cancels, Waiting

\* A step of a request leaves somebody to move a CANCEL_REQUESTED row on.
LEMMA RequestCancelMinded ==
    ASSUME TypeOK, TypeOK', Shape, StreamGrows, NEW r \in Requests, RequestActs(r), NEW o \in Orders,
           status[o] = "CANCEL_REQUESTED" => CancelMinded(o), status'[o] = "CANCEL_REQUESTED"
    PROVE  CancelMinded(o)'
<1>0. /\ UNCHANGED <<workers, taken, unacked>> /\ dropped \subseteq dropped'
      /\ \A q \in Requests \ {r} : requests'[q] = requests[q]
  BY RequestFrame
<1>1. CASE o \in dropped
  BY <1>0, <1>1 DEF CancelMinded
<1>2. ASSUME NEW q \in Requests \ {r}, WillAppend(q, o) PROVE CancelMinded(o)'
  BY <1>0, <1>2 DEF CancelMinded, WillAppend
<1>3. ASSUME NEW w \in Workers, WillMark(w, o) PROVE CancelMinded(o)'
  <2>1. workers[w].entry \in DOMAIN stream
    BY <1>3, MarksACommand
  <2>2. stream'[workers[w].entry] = stream[workers[w].entry]
    BY <2>1 DEF StreamGrows
  <2>3. WillMark(w, o)'
    BY <1>0, <1>3, <2>2 DEF WillMark, Cancels
  <2> QED  BY <2>3 DEF CancelMinded
<1>4. ASSUME NEW e \in DOMAIN stream, e > taken \/ Waiting(e), Cancels(e, o) PROVE CancelMinded(o)'
  <2>1. (e > taken \/ Waiting(e))'
    BY <1>0, <1>4 DEF Waiting
  <2> QED  BY <1>4, <2>1, CancelsStays DEF CancelMinded
<1>5. CASE WillAppend(r, o)
  <2>1. /\ requests[r].type # "submit" /\ requests[r].at # "idle"
        /\ \/ requests[r].at \in {"mark", "append"} /\ o \in requests[r].targets
           \/ requests[r].at = "fail" /\ o \in requests[r].todo
    BY <1>5 DEF WillAppend
  <2>2. Names(requests[r].type, requests[r].targets) /\ requests[r].todo \subseteq requests[r].targets
    BY <2>1 DEF Shape, RequestOk
  <2>3. WillAppend(r, o)' => CancelMinded(o)'
    BY DEF CancelMinded
  <2>4. CASE MarkCancelRequested(r)
    <3>1. /\ requests[r].at = "mark" /\ requests'[r].at \in {"mark", "append"}
          /\ requests'[r].type = requests[r].type /\ requests'[r].targets = requests[r].targets
      BY <2>4, WriteRowEffect DEF MarkCancelRequested
    <3> QED  BY <2>1, <2>3, <3>1 DEF WillAppend
  <2>5. ASSUME AppendEntry(r), requests[r].at = "append" PROVE CancelMinded(o)'
    <3>1. PICK e : e = Len(stream) + 1
      OBVIOUS
    <3>2. e \in DOMAIN stream' /\ e > taken'
      <4>1. DOMAIN stream' = 1..Len(stream) + 1
        BY <2>5, AppendEffect
      <4>2. Len(stream) \in Nat /\ taken <= Len(stream) /\ taken \in Nat
        BY DEF TypeOK
      <4> QED  BY <1>0, <3>1, <4>1, <4>2
    <3>3. Cancels(e, o)'
      <4>1. stream'[e].type = requests[r].type
        BY <2>5, <3>1, AppendEffect
      <4>2. requests[r].type = "cancel" => stream'[e].orders = {o}
        BY <2>1, <2>2, <2>5, <3>1, AppendEffect DEF Names
      <4> QED  BY <2>1, <4>1, <4>2 DEF Cancels
    <3> QED  BY <3>2, <3>3 DEF CancelMinded
  <2>6. CASE AppendCommand(r)
    BY <2>5, <2>6 DEF AppendCommand
  <2>7. CASE AppendFails(r)
    <3>1. /\ requests'[r].at = "fail" /\ requests'[r].type = requests[r].type
          /\ requests'[r].todo = requests[r].targets
      <4>1. requests[r].targets # {}
        BY <2>1, <2>2
      <4>2. requests' = [requests EXCEPT ![r] =
                [requests[r] EXCEPT !.at = "fail", !.todo = requests[r].targets]]
        BY <2>7, <4>1 DEF AppendFails
      <4>3. requests \in [Requests -> Request]
        BY DEF TypeOK
      <4> QED  BY <4>2, <4>3 DEF Request
    <3> QED  BY <2>1, <2>2, <2>3, <3>1 DEF WillAppend
  <2>8. CASE MarkAppendFailed(r)
    <3>1. PICK q \in requests[r].todo : WriteRow(r, q, "CANCEL_APPEND_FAILED", "idle")
      BY <2>1, <2>8 DEF MarkAppendFailed
    <3>2. requests[r].at = "fail" /\ q # o
      BY <2>8, <3>1, WriteRowEffect DEF MarkAppendFailed, TypeOK
    <3>3. /\ requests'[r].at = "fail" /\ requests'[r].type = requests[r].type
          /\ o \in requests'[r].todo
      BY <2>1, <3>1, <3>2, WriteRowEffect
    <3> QED  BY <2>1, <2>3, <3>3 DEF WillAppend
  <2>9. CASE MarkAppendFailedRejects(r)
    <3>1. PICK q \in requests[r].todo : WriteRow(r, q, status[q], "idle") /\ dropped' = dropped \union {q}
      BY <2>9 DEF MarkAppendFailedRejects
    <3>2. CASE q = o
      BY <3>1, <3>2 DEF CancelMinded
    <3>3. CASE q # o
      <4>1. requests[r].at = "fail"
        BY <2>9 DEF MarkAppendFailedRejects
      <4>2. /\ requests'[r].at = "fail" /\ requests'[r].type = requests[r].type
            /\ o \in requests'[r].todo
        BY <2>1, <3>1, <3>3, <4>1, WriteRowEffect
      <4> QED  BY <2>1, <2>3, <4>2 DEF WillAppend
    <3> QED  BY <3>2, <3>3
  <2>10. CASE RequestDies(r)
    <3>1. o \in dropped'
      BY <2>1, <2>2, <2>10 DEF RequestDies
    <3> QED  BY <3>1 DEF CancelMinded
  <2> QED  BY <2>1, <2>4, <2>6, <2>7, <2>8, <2>9, <2>10
           DEF RequestActs, RequestStep, CreateOrder, RetrySubmit, RequestCancel, RequestCancelAll, Accept,
               RecoverReceived
<1>6. CASE status[o] # "CANCEL_REQUESTED"
  <2>1. CASE MarkCancelRequested(r)
    <3>1. PICK q \in requests[r].todo : WriteRow(r, q, "CANCEL_REQUESTED", "append")
      BY <2>1 DEF MarkCancelRequested
    <3>2. requests[r].at = "mark"
      BY <2>1 DEF MarkCancelRequested
    <3>3. q = o
      <4>1. status' = [status EXCEPT ![q] = "CANCEL_REQUESTED"]
        BY <3>1 DEF WriteRow, SetStatus
      <4>2. status \in [Orders -> Statuses]
        BY DEF TypeOK
      <4> QED  BY <1>6, <4>1, <4>2
    <3>4. o \in requests[r].targets /\ requests[r].type # "submit"
      BY <3>1, <3>2, <3>3 DEF Shape, RequestOk
    <3>5. /\ requests'[r].at \in {"mark", "append"} /\ requests'[r].type = requests[r].type
          /\ requests'[r].targets = requests[r].targets
      BY <3>1, <3>2, WriteRowEffect
    <3>6. WillAppend(r, o)'
      BY <3>4, <3>5 DEF WillAppend
    <3> QED  BY <3>6 DEF CancelMinded
  <2>2. ASSUME NEW q, NEW s, s # "CANCEL_REQUESTED", status' = [status EXCEPT ![q] = s] PROVE FALSE
    BY <1>6, <2>2 DEF TypeOK
  <2>3. CASE (\E q \in Orders : CreateOrder(r, q)) \/ RecoverReceived(r)
    BY <2>2, <2>3 DEF CreateOrder, RecoverReceived, SetStatus
  <2>4. CASE MarkAppendFailed(r)
    <3>1. PICK q \in requests[r].todo, s \in {"STREAM_APPEND_FAILED", "CANCEL_APPEND_FAILED"} :
              WriteRow(r, q, s, "idle")
      BY <2>4 DEF MarkAppendFailed
    <3> QED  BY <2>2, <3>1 DEF WriteRow, SetStatus
  <2>5. CASE MarkAppendFailedRejects(r)
    <3>1. PICK q \in requests[r].todo : WriteRow(r, q, status[q], "idle")
      BY <2>5 DEF MarkAppendFailedRejects
    <3> QED  BY <1>6, <3>1 DEF WriteRow, SetStatus, TypeOK
  <2>6. CASE UNCHANGED rows
    BY <1>6, <2>6 DEF rows
  <2> QED  BY <2>1, <2>3, <2>4, <2>5, <2>6 DEF RequestActs, RequestStep, RetrySubmit, RequestCancel,
              RequestCancelAll, AppendCommand, AppendFails, RequestDies
<1> QED  BY <1>1, <1>2, <1>3, <1>4, <1>5, <1>6 DEF CancelMinded

\* So does a step of a worker.
LEMMA WorkCancelMinded ==
    ASSUME TypeOK, TypeOK', Shape, Truth, StreamGrows, NEW w \in Workers, Work(w), NEW o \in Orders,
           status[o] = "CANCEL_REQUESTED" => CancelMinded(o), status'[o] = "CANCEL_REQUESTED"
    PROVE  CancelMinded(o)'
<1>0. /\ UNCHANGED <<stream, requests>> /\ dropped \subseteq dropped'
      /\ \A v \in Workers \ {w} : workers'[v] = workers[v]
  BY WorkFrame, UnackedEffect
<1>1. CASE o \in dropped
  BY <1>0, <1>1 DEF CancelMinded
<1>2. ASSUME NEW r \in Requests, WillAppend(r, o) PROVE CancelMinded(o)'
  BY <1>0, <1>2 DEF CancelMinded, WillAppend
<1>3. ASSUME NEW v \in Workers, v # w, WillMark(v, o) PROVE CancelMinded(o)'
  BY <1>0, <1>3 DEF CancelMinded, WillMark, Cancels
<1>4. ASSUME NEW e \in DOMAIN stream, e > taken \/ Waiting(e), Cancels(e, o) PROVE CancelMinded(o)'
  <2>0. e \in Nat \ {0} /\ workers[w].entry # e /\ taken \in Nat /\ Cancels(e, o)' /\ e \in DOMAIN stream'
    <3>1. e \in Nat \ {0} /\ taken \in Nat
      BY DEF TypeOK
    <3>2. workers[w].entry # e
      <4>1. CASE Waiting(e)
        BY <4>1 DEF Waiting
      <4>2. CASE e > taken
        <5>1. workers[w].entry = 0 \/ workers[w].entry \in 1..taken
          BY DEF Shape, WorkerOk
        <5> QED  BY <3>1, <4>2, <5>1
      <4> QED  BY <1>4, <4>1, <4>2
    <3> QED  BY <1>4, <3>1, <3>2, CancelsStays
  <2>1. CASE workers'[w].entry = e
    <3>1. Begin(w, e)
      BY <2>0, <2>1, GivenCommand
    <3>2. WillMark(w, o)'
      BY <1>0, <1>4, <3>1, BeginEffect DEF WillMark, Cancels
    <3> QED  BY <3>2 DEF CancelMinded
  <2>2. CASE workers'[w].entry # e
    <3>1. (e > taken \/ Waiting(e))'
      <4>1. CASE Waiting(e)
        BY <2>2, <4>1, WaitingStays
      <4>2. CASE e > taken
        <5>1. CASE taken' = taken
          BY <4>2, <5>1
        <5>2. CASE taken' = taken + 1 /\ Begin(w, taken + 1)
          <6>1. e # taken + 1
            BY <2>2, <5>2, BeginEffect
          <6> QED  BY <2>0, <4>2, <5>2, <6>1
        <5> QED  BY <5>1, <5>2, UnackedEffect
      <4> QED  BY <1>4, <4>1, <4>2
    <3> QED  BY <2>0, <3>1 DEF CancelMinded
  <2> QED  BY <2>1, <2>2
<1>5. CASE WillMark(w, o)
  <2>1. PICK e : e = workers[w].entry
    OBVIOUS
  <2>2. /\ e \in DOMAIN stream' /\ Cancels(e, o) /\ Cancels(e, o)' /\ workers[w].at # "idle"
        /\ workers[w].at \in {"cancel", "mark"}
    BY <1>5, <2>1, MarksACommand, CancelsStays DEF WillMark
  <2>3. WillMark(w, o)' => CancelMinded(o)'
    BY DEF CancelMinded
  \* The row is among those the worker finds.
  <2>4. status[o] = "CANCEL_REQUESTED" => o \in CancelTargets(w)
    <3>1. CASE TypeOf(w) = "cancel"
      <4>1. stream[workers[w].entry].orders = {o}
        BY <2>1, <2>2, <3>1 DEF Cancels, TypeOf
      <4>2. OrderOf(w) = o
        BY <2>2, <3>1, <4>1, OneOrder
      <4> QED  BY <3>1, <4>2 DEF CancelTargets, TerminalStatuses
    <3>2. CASE TypeOf(w) # "cancel"
      BY <3>2 DEF CancelTargets, OpenStatuses, CancelInFlightStatuses
    <3> QED  BY <3>1, <3>2
  <2>5. CASE CancelRead(w)
    <3>1. status[o] = "CANCEL_REQUESTED"
      BY <2>5 DEF CancelRead, rows
    <3>2. workers'[w].at = "mark" /\ o \in workers'[w].todo /\ workers'[w].entry = e
      BY <2>1, <2>4, <2>5, <3>1, ReadEffect
    <3>3. WillMark(w, o)'
      BY <1>0, <2>2, <3>2 DEF WillMark, Cancels
    <3> QED  BY <2>3, <3>3
  <2>6. CASE CancelMark(w)
    <3>1. PICK q \in workers[w].todo : SetStatus(q, "CANCEL_PENDING") /\ Written(w, q, "call")
      BY <2>6 DEF CancelMark
    <3>2. workers[w].at = "mark" /\ o \in workers[w].todo /\ q # o
      BY <1>5, <2>6, <3>1 DEF CancelMark, WillMark, SetStatus, TypeOK
    <3>3. workers'[w].at = "mark" /\ o \in workers'[w].todo /\ workers'[w].entry = e
      BY <2>1, <3>1, <3>2, WrittenEffect
    <3>4. WillMark(w, o)'
      BY <1>0, <2>2, <3>3 DEF WillMark, Cancels
    <3> QED  BY <2>3, <3>4
  <2>7. CASE Abort(w)
    <3>1. o \in Abandoned(w)
      <4>1. status[o] = "CANCEL_REQUESTED"
        BY <2>7 DEF Abort, rows
      <4>2. CASE workers[w].at = "cancel"
        BY <2>4, <4>1, <4>2 DEF Abandoned
      <4>3. CASE workers[w].at = "mark"
        BY <1>5, <4>3 DEF WillMark, Shape, WorkerOk, Abandoned
      <4> QED  BY <2>2, <4>2, <4>3
    <3>2. Waiting(e)' \/ Abandoned(w) \subseteq dropped'
      BY <2>1, <2>7, LetGo
    <3> QED  BY <2>2, <3>1, <3>2 DEF CancelMinded
  <2> QED  BY <2>2, <2>5, <2>6, <2>7
           DEF Work, WorkerStep, TakeNew, TakePending, Begin, SubmitRead, SubmitMarkPending, SubmitPlaced,
               SubmitRefused, SubmitUnanswered, SubmitRecord, SubmitReject, CancelAnswered, CancelRefused,
               CancelUnanswered, CancelPersist, CancelReject, Finish
<1>6. CASE status[o] # "CANCEL_REQUESTED"
  <2>1. ASSUME NEW q, NEW s, s # "CANCEL_REQUESTED", status' = [status EXCEPT ![q] = s] PROVE FALSE
    BY <1>6, <2>1 DEF TypeOK
  <2>2. CASE SubmitRecord(w)
    <3>1. Submits(w, OrderOf(w)) /\ OrderOf(w) \in Orders
      BY <2>2, SubmitHasOrder DEF SubmitRecord, SubmitSteps
    <3>2. True(OrderOf(w), RecordedStatus(workers[w].outcome), workers[w].ref[OrderOf(w)])
      BY <2>2, <3>1 DEF SubmitRecord, Truth, WorkerTrue
    <3> QED  BY <2>1, <2>2, <3>2 DEF SubmitRecord, SetStatusAndLink, True, LinkedStatuses, ClosedStatuses
  <2>3. CASE \/ SubmitMarkPending(w) \/ SubmitReject(w)
             \/ CancelMark(w) \/ CancelPersist(w) \/ CancelReject(w)
    BY <2>1, <2>3 DEF SubmitMarkPending, SubmitReject, CancelMark, CancelPersist, CancelReject, SetStatus,
                      SetStatusAndLink
  <2>4. CASE UNCHANGED rows
    BY <1>6, <2>4 DEF rows
  <2> QED  BY <2>2, <2>3, <2>4 DEF Work, WorkerStep, TakeNew, TakePending, Begin, SubmitRead, SubmitPlaced,
              SubmitRefused, SubmitUnanswered, CancelRead, CancelAnswered, CancelRefused, CancelUnanswered,
              Finish, Abort
<1> QED  BY <1>1, <1>2, <1>3, <1>4, <1>5, <1>6 DEF CancelMinded

\* Statuses that the news of Binance brings are not of a row that waits.
LEMMA MindedElsewhere ==
    ASSUME TypeOK, TypeOK', Shape, Truth, PlacementsGrow, StreamGrows, Minded,
           UNCHANGED <<stream, taken, unacked, requests, workers, dropped>>,
           \A o \in Orders : status'[o] = status[o] \/ status'[o] \in LinkedStatuses
    PROVE  Minded'
<1>1. ASSUME NEW o \in Orders, status'[o] = "PENDING" PROVE PendingMinded(o)'
  BY <1>1, PendingStays DEF Minded, LinkedStatuses, ClosedStatuses
<1>2. ASSUME NEW o \in Orders, status'[o] = "CANCEL_REQUESTED" PROVE CancelMinded(o)'
  BY <1>2, CancelStays DEF Minded, LinkedStatuses, ClosedStatuses
<1> QED  BY <1>1, <1>2 DEF Minded

LEMMA MindedKept ==
    ASSUME TypeOK, TypeOK', Shape, Truth, Minded, [Next]_vars
    PROVE  Minded'
<1>0. PlacementsGrow /\ StreamGrows
  BY PlacementsKept, StreamKept
<1>1. CASE UNCHANGED vars
  BY <1>0, <1>1, MindedElsewhere DEF vars, rows, queue, history
<1>2. ASSUME NEW r \in Requests, RequestActs(r) PROVE Minded'
  <2>1. ASSUME NEW o \in Orders, status'[o] = "PENDING" PROVE PendingMinded(o)'
    BY <1>0, <1>2, <2>1, RequestFrame, PendingStays DEF Minded
  <2>2. ASSUME NEW o \in Orders, status'[o] = "CANCEL_REQUESTED" PROVE CancelMinded(o)'
    BY <1>0, <1>2, <2>2, RequestCancelMinded DEF Minded
  <2> QED  BY <2>1, <2>2 DEF Minded
<1>3. ASSUME NEW w \in Workers, Work(w) PROVE Minded'
  <2>1. ASSUME NEW o \in Orders, status'[o] = "PENDING" PROVE PendingMinded(o)'
    BY <1>0, <1>3, <2>1, WorkPending DEF Minded
  <2>2. ASSUME NEW o \in Orders, status'[o] = "CANCEL_REQUESTED" PROVE CancelMinded(o)'
    BY <1>0, <1>3, <2>2, WorkCancelMinded DEF Minded
  <2> QED  BY <2>1, <2>2 DEF Minded
\* A row that is written with what is true of Binance.
<1>4. ASSUME NEW q, NEW s, NEW p, True(q, s, p), SetStatusAndLink(q, s, p), NEW o \in Orders
      PROVE  status'[o] = status[o] \/ status'[o] \in LinkedStatuses
  BY <1>4 DEF True, SetStatusAndLink, TypeOK
<1>5. CASE ExchangeStep
  <2>1. ASSUME NEW rep \in reports, HandleReport(rep), NEW o \in Orders
        PROVE  status'[o] = status[o] \/ status'[o] \in LinkedStatuses
    BY <1>4, <2>1 DEF HandleReport, Truth, ReportTrue
  <2>2. \A o \in Orders : status'[o] = status[o] \/ status'[o] \in LinkedStatuses
    BY <1>5, <2>1 DEF ExchangeStep, OrderMoves, rows
  <2>3. UNCHANGED <<stream, taken, unacked, requests, workers, dropped>>
    BY <1>5, ExchangeFrame
  <2> QED  BY <1>0, <2>2, <2>3, MindedElsewhere
<1>6. CASE Reconcile
  <2>1. ASSUME NEW q \in Orders, ReconcileWrite(q), NEW o \in Orders
        PROVE  status'[o] = status[o] \/ status'[o] \in LinkedStatuses
    BY <1>4, <2>1 DEF ReconcileWrite, Truth, ReconTrue
  <2>2. \A o \in Orders : status'[o] = status[o] \/ status'[o] \in LinkedStatuses
    BY <1>6, <2>1 DEF Reconcile, ReconcileStep, ReconcileSelect, ReconcileFetch, ReconcileUnknown,
                      ReconcileFails, rows
  <2>3. UNCHANGED <<stream, taken, unacked, requests, workers, dropped>>
    BY <1>6, ReconcileFrame
  <2> QED  BY <1>0, <2>2, <2>3, MindedElsewhere
<1> QED  BY <1>1, <1>2, <1>3, <1>5, <1>6 DEF Next

------------------------------------------------------------------------------
(* the invariant                                                           *)

LEMMA InitInv == Init => Inv
<1> SUFFICES ASSUME Init PROVE Inv
  OBVIOUS
<1>1. TypeOK
  <2>1. <<>> \in Seq(Entry) /\ <<>> \in Seq(ExchangeStatuses) /\ Len(<<>>) = 0
    OBVIOUS
  <2> QED  BY <2>1, IdleRequestTyped, IdleWorkerTyped, IdleReconcilerTyped, OrderAssumption
           DEF Init, TypeOK, Statuses
<1>2. Shape
  <2>1. DOMAIN stream = {} /\ Len(stream) = 0 /\ Appending = {}
    BY DEF Init, Appending, IdleRequest
  <2>2. Cardinality(Appending) = 0
    BY <2>1, FS_EmptySet
  <2>3. \A r \in Requests : RequestOk(r)
    BY DEF Init, RequestOk, IdleRequest
  <2>4. \A w \in Workers : WorkerOk(w)
    BY DEF Init, WorkerOk, IdleWorker, SubmitSteps, CancelSteps
  <2> QED  BY <2>1, <2>2, <2>3, <2>4, OrderAssumption DEF Shape
<1>3. Truth
  <2>1. \A o \in Orders : placements[o] = <<>> /\ Len(placements[o]) = 0
    BY DEF Init
  <2>2. \A o \in Orders : RowTrue(o)
    BY <2>1 DEF Init, RowTrue, LinkedStatuses, ClosedStatuses
  <2>3. \A w \in Workers : WorkerTrue(w)
    BY <2>1 DEF Init, WorkerTrue, IdleWorker, NoRef
  <2>4. ReconTrue
    BY <2>1 DEF Init, ReconTrue, IdleReconciler
  <2> QED  BY <2>1, <2>2, <2>3, <2>4, OrderAssumption DEF Truth, Init
<1>4. Counts
  <2>1. ASSUME NEW o \in Orders PROVE CountsOf(o)
    <3>1. Recording(o) = {} /\ AboutToPlace(o) = {}
      BY DEF Init, Recording, AboutToPlace, IdleWorker
    <3>2. Len(placements[o]) = 0 /\ lost[o] = 0
      BY DEF Init
    <3>3. Cardinality({}) = 0 /\ Cardinality(Workers) \in Nat
      BY OrderAssumption, FS_EmptySet, FS_CardinalityType
    <3> QED  BY <3>1, <3>2, <3>3 DEF CountsOf
  <2> QED  BY <2>1 DEF Counts
<1>5. Alone
  BY DEF Init, Alone, RejectedIsNotOpen, AloneWith, Submits, IdleWorker, SubmitSteps
<1>6. Minded
  BY DEF Init, Minded
<1> QED  BY <1>1, <1>2, <1>3, <1>4, <1>5, <1>6 DEF Inv

LEMMA NextInv == Inv /\ [Next]_vars => Inv'
<1> SUFFICES ASSUME Inv, [Next]_vars PROVE Inv'
  OBVIOUS
<1>1. TypeOK'
  BY TypeKept DEF Inv
<1>2. Shape'
  BY <1>1, ShapeKept DEF Inv
<1>3. Truth'
  BY <1>1, TruthKept DEF Inv
<1>4. Counts'
  BY <1>1, <1>2, CountsKept DEF Inv
<1>5. Alone'
  BY <1>1, AloneKept DEF Inv
<1>6. Minded'
  BY <1>1, MindedKept DEF Inv
<1> QED  BY <1>1, <1>2, <1>3, <1>4, <1>5, <1>6 DEF Inv

LEMMA Invariance == Spec => []Inv
BY InitInv, NextInv, PTL DEF Spec

------------------------------------------------------------------------------
(* theorems                                                                *)

\* The services' rows, commands and handlers keep their types, whatever
\* handlers overlap, fail or die.
THEOREM TypeCorrect == Spec => []TypeOK
<1>1. Inv => TypeOK
  BY DEF Inv
<1> QED  BY <1>1, Invariance, PTL

\* However often a submit is delivered, and to however many instances, an
\* order is placed no more often than there are instances to have checked its
\* row at once, and outcomes that were never recorded.
THEOREM PlacementsAreAccounted == Spec => []PlacementsAccounted
<1>1. Inv => PlacementsAccounted
  <2> SUFFICES ASSUME Inv, NEW o \in Orders
               PROVE  Len(placements[o]) <= Cardinality(Workers) + lost[o]
    BY DEF PlacementsAccounted
  <2>1. TypeOK /\ CountsOf(o)
    BY DEF Inv, Counts
  <2>2. AboutToPlace(o) \subseteq Workers
    BY DEF AboutToPlace
  <2>3. /\ Cardinality(AboutToPlace(o)) \in Nat /\ Cardinality(Workers) \in Nat
        /\ Len(placements[o]) \in Nat /\ lost[o] \in Nat
    BY <2>1, <2>2, OrderAssumption, FS_Subset, FS_CardinalityType, SequencesOfPlacements DEF TypeOK
  <2> QED  BY <2>1, <2>3 DEF CountsOf
<1> QED  BY <1>1, Invariance, PTL

\* A row that says FILLED, CANCELED or EXPIRED has that from Binance: an order
\* under its clientOrderId ended so, though reports, answers and the snapshots
\* of the reconciliation reach the row in any order.
THEOREM ClosedRowsAreTrueAlways == Spec => []ClosedRowsAreTrue
<1>1. Inv => ClosedRowsAreTrue
  BY DEF Inv, Truth, RowTrue, ClosedRowsAreTrue, ClosedStatuses
<1> QED  BY <1>1, Invariance, PTL

\* With one instance, whatever it redelivers to itself and whatever users,
\* reports and the reconciliation do, a row says REJECTED while Binance has its
\* order open only after the outcome of a placement was lost.
THEOREM RejectedIsNotOpenAlways == Spec => []RejectedIsNotOpen
<1>1. Inv => RejectedIsNotOpen
  BY DEF Inv, Alone, RejectedIsNotOpen
<1> QED  BY <1>1, Invariance, PTL

\* A row that says PENDING or CANCEL_REQUESTED has somebody who will move it
\* on, a request, a command or the reconciliation, or its command was dropped.
THEOREM NobodyIsForgotten == Spec => []NobodyForgotten
<1>1. Inv => NobodyForgotten
  <2> SUFFICES ASSUME Inv, NEW o \in Orders
               PROVE  /\ status[o] = "PENDING" =>
                           \/ o \in dropped \/ Backed(o, {"submit"})
                           \/ "PENDING" \in ReconciledStatuses /\ placements[o] # <<>>
                      /\ status[o] = "CANCEL_REQUESTED" =>
                           o \in dropped \/ Backed(o, {"cancel", "cancelAll"})
    BY DEF NobodyForgotten
  <2>0. TypeOK /\ Shape /\ Minded
    BY DEF Inv
  <2>1. ASSUME NEW w \in Workers, workers[w].at # "idle"
        PROVE  workers[w].entry \in DOMAIN stream
    <3>1. workers[w].entry \in 1..taken
      BY <2>0, <2>1 DEF Shape, WorkerOk
    <3> QED  BY <2>0, <3>1 DEF TypeOK
  \* Cancels, in the terms of the invariant.
  <2>2. ASSUME NEW e \in DOMAIN stream, Cancels(e, o),
               e > taken \/ e \in unacked \/ \E w \in Workers : workers[w].entry = e
        PROVE  Backed(o, {"cancel", "cancelAll"})
    <3>1. stream[e] \in Entry
      BY <2>0 DEF TypeOK
    <3>2. stream[e].type \in {"cancel", "cancelAll"}
      BY <2>2, <3>1 DEF Cancels, Entry
    <3>3. stream[e].type # "cancelAll" => o \in stream[e].orders
      BY <2>2, <3>2 DEF Cancels
    <3> QED  BY <2>2, <3>2, <3>3 DEF Backed
  <2>3. ASSUME NEW e \in DOMAIN stream, stream[e].type = "submit", stream[e].orders = {o},
               e \in unacked \/ \E w \in Workers : workers[w].entry = e
        PROVE  Backed(o, {"submit"})
    BY <2>3 DEF Backed
  <2>4. CASE status[o] = "PENDING"
    <3>1. PendingMinded(o)
      BY <2>0, <2>4 DEF Minded
    <3>2. ASSUME NEW w \in Workers, WillSubmit(w, o) PROVE Backed(o, {"submit"})
      <4>1. /\ workers[w].at # "idle" /\ workers[w].at \in SubmitSteps
            /\ stream[workers[w].entry].orders = {o}
        BY <3>2 DEF WillSubmit, Submits, SubmitSteps
      <4>2. stream[workers[w].entry].type = "submit"
        BY <2>0, <4>1 DEF Shape, WorkerOk
      <4> QED  BY <2>1, <2>3, <4>1, <4>2
    <3> QED  BY <2>3, <2>4, <3>1, <3>2 DEF PendingMinded, Waiting, ReconciledStatuses
  <2>5. CASE status[o] = "CANCEL_REQUESTED"
    <3>1. CancelMinded(o)
      BY <2>0, <2>5 DEF Minded
    <3>2. ASSUME NEW w \in Workers, WillMark(w, o) PROVE Backed(o, {"cancel", "cancelAll"})
      BY <2>0, <2>2, <3>2, MarksACommand DEF WillMark
    <3>3. ASSUME NEW r \in Requests, WillAppend(r, o) PROVE Backed(o, {"cancel", "cancelAll"})
      <4>1. requests[r].at # "idle" /\ o \in requests[r].targets
        BY <2>0, <3>3 DEF WillAppend, Shape, RequestOk
      <4> QED  BY <4>1 DEF Backed
    <3> QED  BY <2>2, <2>5, <3>1, <3>2, <3>3 DEF CancelMinded, Waiting
  <2> QED  BY <2>4, <2>5
<1> QED  BY <1>1, Invariance, PTL

==============================================================================
