------------------------------- MODULE TradePage -------------------------------
(***************************************************************************)
(* The orders, the order ticket and the websocket of the trading page      *)
(* (apps/frontend/app/trade/page.js).  The websocket effect runs again     *)
(* whenever pendingOrderId changes: its cleanup closes the old socket and  *)
(* a new run opens another one, so the page is deaf for a moment when it   *)
(* places an order and when it hears what became of it.  Each run keeps    *)
(* the pendingOrderId it was started with.                                 *)
(*                                                                         *)
(* A list is a snapshot fetched from the backend; what the sockets said    *)
(* (ordersById) is laid over it whenever it is drawn.                      *)
(***************************************************************************)
EXTENDS OrderFeed

NoOrder == "none"

Stages == {"none", "token", "connecting", "open", "broken", "closing", "retry", "dead"}

\* After a failed token the page is replaced by the login page.
PageUp == status # "AUTH_ERROR"

------------------------------------------------------------------------------
(* fetching a list                                                         *)

NoRows == [o \in Orders |-> Absent]

Idle == [stage |-> "idle", rows |-> NoRows, open |-> {}]

\* fetchOpenOrders and fetchOrdersPage, which are always called together; one
\* fetch stands for both.  Nothing orders two fetches of a list.
Fetch ==
    \E s \in Slots :
        /\ reads[s] = Idle
        /\ reads' = [reads EXCEPT ![s].stage = "asked"]

\* formatOrderCommandDto: a row is shown with the status of its newest event.
Label(o) == IF stamped[o] # Absent THEN stamped[o] ELSE row[o]

\* The backend reads the rows; which of them are open their own status says.
ReadRows(s) ==
    /\ reads[s].stage = "asked"
    /\ reads' = [reads EXCEPT ![s] =
          [stage |-> "answered", rows |-> [o \in Orders |-> Label(o)],
           open |-> {o \in Orders : row[o] # Absent /\ rowStatus[o] \in Open}]]
    /\ UNCHANGED <<feed, sockets, ticket, ordersById, list, openIds, history>>

\* The answer replaces the lists, also when a newer one came before it.
ShowRows(s) ==
    /\ PageUp /\ reads[s].stage = "answered"
    /\ list' = reads[s].rows
    /\ openIds' = reads[s].open
    /\ reads' = [reads EXCEPT ![s] = Idle]
    /\ slips' = IF \E o \in Orders : reads[s].rows[o] < list[o]
                THEN slips \union {"stale"} ELSE slips
    /\ UNCHANGED <<feed, sockets, ticket, ordersById, missed, unheard, incidents>>

\* A failed fetch empties the lists.
FetchFails(s) ==
    /\ PageUp /\ reads[s].stage # "idle"
    /\ Incident
    /\ list' = NoRows
    /\ openIds' = {}
    /\ reads' = [reads EXCEPT ![s] = Idle]
    /\ slips' = slips \union {"failed"}
    /\ UNCHANGED <<feed, sockets, ticket, ordersById, missed, unheard>>

\* replayRealtimeSnapshots
Replay == Fetch

\* A fetch the user asks for.
Ask ==
    /\ PageUp
    /\ Incident
    /\ Replay
    /\ UNCHANGED <<sockets, ticket, ordersById, list, openIds, missed, unheard, slips>>

\* The page becomes visible or gets the focus, or its list is refreshed.
Resume == Ask /\ UNCHANGED feed

------------------------------------------------------------------------------
(* what is drawn                                                           *)

\* mergeOrderWithRealtime: what was heard hides what was fetched.
Merged(o) == IF ordersById[o] # Absent THEN ordersById[o] ELSE list[o]

\* The orders drawn as open, with whatever status was heard of them since.
ShownOpen == {o \in openIds : list[o] # Absent}

------------------------------------------------------------------------------
(* the websocket effect                                                    *)

\* Mutant: the cleanup forgets the socket.
CleanedUpButSocket == [sock EXCEPT ![inst] = IF @ = "retry" THEN "dead" ELSE @]

\* The effect's cleanup.  A run that still waits for its token goes on.
CleanedUp ==
    [sock EXCEPT ![inst] =
        CASE @ \in {"connecting", "open", "broken"} -> "closing"
          [] @ = "retry" -> "dead"
          [] OTHER -> @]

\* The effect runs again because pendingOrderId became p.
RunEffect(p) ==
    /\ inst < MaxInsts
    /\ inst' = inst + 1
    /\ sock' = [CleanedUp EXCEPT ![inst + 1] = "token"]
    /\ closure' = [closure EXCEPT ![inst + 1] = p]
    /\ UNCHANGED status

\* ensureAccessToken resolves; whether the run was cancelled is not asked.
GetToken(i) ==
    /\ sock[i] = "token"
    /\ sock' = [sock EXCEPT ![i] = "connecting"]
    /\ slips' = IF i < inst THEN slips \union {"leaked"} ELSE slips
    /\ UNCHANGED <<feed, inst, closure, status, ticket, picture, missed, unheard, incidents>>

\* Mutant: a connection that never opened is not tried again.
AfterCloseIfOpened(i) ==
    IF i < inst \/ ~PageUp \/ status # "OPEN" THEN "dead" ELSE "retry"

\* scheduleReconnect: a cancelled run sets no timer.
AfterClose(i) == IF i < inst \/ ~PageUp THEN "dead" ELSE "retry"

\* A page that was left keeps the status it had.
LabelAfter(label) == IF PageUp THEN label ELSE status

\* The WebSocket cannot be made: a try of its own, with no close to follow.  A
\* timer, where one is set, overwrites the label.
Throws(i) ==
    /\ sock[i] = "token"
    /\ Incident
    /\ sock' = [sock EXCEPT ![i] = AfterClose(i)]
    /\ status' = LabelAfter(IF AfterClose(i) = "retry" THEN "RECONNECTING" ELSE "ERROR")
    /\ UNCHANGED <<feed, inst, closure, ticket, picture, missed, unheard, slips>>

\* It rejects: the session is cleared and the page left.
AuthFails(i) ==
    /\ PageUp /\ sock[i] = "token"
    /\ Incident
    /\ status' = "AUTH_ERROR"
    /\ sock' = [CleanedUp EXCEPT ![i] = "dead"]
    /\ UNCHANGED <<feed, inst, closure, ticket, picture, missed, unheard, slips>>

\* Mutant: the socket opens and nothing is fetched anew.
OpensWithoutReplay(i) ==
    /\ PageUp /\ sock[i] = "connecting" /\ i \in clients
    /\ sock' = [sock EXCEPT ![i] = "open"]
    /\ status' = "OPEN"
    /\ UNCHANGED <<feed, inst, closure, ticket, picture, history>>

\* onopen: the snapshots are replayed once the socket is there.
Opens(i) ==
    /\ PageUp /\ sock[i] = "connecting" /\ i \in clients
    /\ sock' = [sock EXCEPT ![i] = "open"]
    /\ status' = "OPEN"
    /\ Replay
    /\ UNCHANGED <<feed, inst, closure, ticket, ordersById, list, openIds, history>>

\* The connection is refused.
Refuse(i) ==
    /\ sock[i] = "connecting" /\ i \notin clients
    /\ Incident
    /\ sock' = [sock EXCEPT ![i] = "broken"]
    /\ UNCHANGED <<feed, inst, closure, status, ticket, picture, missed, unheard, slips>>

\* onclose, of a connection that broke or that the cleanup closed: the status
\* changes although another run's socket may be open.  onerror, which comes just
\* before it, sets a status that is not seen.
Closes(i) ==
    /\ sock[i] \in {"broken", "closing"}
    /\ sock' = [sock EXCEPT ![i] = AfterClose(i)]
    /\ status' = LabelAfter("RECONNECTING")
    /\ clients' = clients \ {i}
    /\ inbox' = [inbox EXCEPT ![i] = <<>>]
    /\ LET orders == {inbox[i][k].order : k \in DOMAIN inbox[i]}
       IN  /\ missed' = missed \union orders
           /\ unheard' = unheard \union orders
    /\ UNCHANGED <<rows, outbox, inst, closure, ticket, picture, slips, incidents>>

\* The timer of scheduleReconnect fires.
Reconnect(i) ==
    /\ sock[i] = "retry"
    /\ sock' = [sock EXCEPT ![i] = "token"]
    /\ UNCHANGED <<feed, inst, closure, status, ticket, picture, history>>

\* onmessage of an order status: it is laid over the list whatever was there,
\* and ends the ticket of the order its run was started for.
Hear(i) ==
    /\ PageUp /\ sock[i] = "open" /\ inbox[i] # <<>>
    /\ LET e == Head(inbox[i])
       IN  /\ ordersById' = [ordersById EXCEPT ![e.order] = e.rank]
           /\ IF closure[i] = e.order /\ Releases(e.status)
              THEN /\ placing' = FALSE
                   /\ pending' = NoOrder
                   /\ IF pending # NoOrder THEN RunEffect(NoOrder) ELSE UNCHANGED sockets
              ELSE UNCHANGED <<placing, pending, sockets>>
    /\ inbox' = [inbox EXCEPT ![i] = Tail(@)]
    /\ UNCHANGED <<rows, outbox, clients, post, list, openIds, reads, history>>

SocketStep(i) ==
    \/ GetToken(i) \/ Throws(i) \/ AuthFails(i) \/ Opens(i) \/ Refuse(i)
    \/ Closes(i) \/ Reconnect(i) \/ Hear(i)

------------------------------------------------------------------------------
(* the order ticket                                                        *)

\* placeOrder, up to the POST.
PlaceOrder(o) ==
    /\ PageUp /\ ~placing /\ post[o] = "none" /\ row[o] = Absent
    /\ placing' = TRUE
    /\ pending' = o
    /\ RunEffect(o)
    /\ post' = [post EXCEPT ![o] = "sent"]
    /\ UNCHANGED <<feed, picture, history>>

\* The backend stores the order and appends its command.
StoreOrder(o) ==
    /\ post[o] = "sent"
    /\ post' = [post EXCEPT ![o] = "stored"]
    /\ row' = [row EXCEPT ![o] = 1]
    /\ rowStatus' = [rowStatus EXCEPT ![o] = "RECEIVED"]
    /\ UNCHANGED <<stamped, due, told, reopened, outbox, clients, inbox, sockets, pending,
                   placing, picture, history>>

\* The order was accepted: the ticket stays until a socket hears of it.
OrderAccepted(o) ==
    /\ PageUp /\ post[o] = "stored"
    /\ post' = [post EXCEPT ![o] = "done"]
    /\ Fetch
    /\ UNCHANGED <<feed, sockets, pending, placing, ordersById, list, openIds, history>>

\* It was refused, or the answer lost; pendingOrderId stays as it is.
OrderFails(o) ==
    /\ PageUp /\ post[o] \in {"sent", "stored"}
    /\ Incident
    /\ post' = [post EXCEPT ![o] = "failed"]
    /\ placing' = FALSE
    /\ UNCHANGED <<feed, sockets, pending, picture, missed, unheard, slips>>

\* cancelOrder, or cancelAllOpenOrders, of orders that are shown: the backend
\* writes those it finds open, without a word to the channel, and the page fetches
\* once the DELETE was answered.  What comes between the two is WriteSilently and Resume; an order
\* whose cancel is in flight is answered without a write (no order is written).
Cancel ==
    /\ list # NoRows
    /\ \E orders \in SUBSET {o \in Orders : row[o] # Absent /\ rowStatus[o] \in Open} :
        /\ Write(orders, "CANCEL_REQUESTED")
        /\ stamped' = Stamp(orders)
    /\ Ask
    /\ UNCHANGED <<due, told, outbox, clients, inbox>>

OrderStep(o) ==
    \/ PlaceOrder(o) \/ StoreOrder(o) \/ OrderAccepted(o) \/ OrderFails(o)

ReadStep(s) == ReadRows(s) \/ ShowRows(s) \/ FetchFails(s)

PageStep ==
    \/ \E i \in Insts : SocketStep(i)
    \/ \E o \in Orders : OrderStep(o)
    \/ \E s \in Slots : ReadStep(s)
    \/ Cancel \/ Resume

================================================================================
