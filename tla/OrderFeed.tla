------------------------------- MODULE OrderFeed -------------------------------
(***************************************************************************)
(* How the status of an order travels from its row to the sockets of a     *)
(* page: the execution service publishes what it has written on            *)
(* events:orders:status, and the event service forwards what it hears to   *)
(* the sockets it has registered at that moment.  Nothing is kept for a    *)
(* socket that comes later.  TradePage adds the page, Terminal composes.   *)
(*                                                                         *)
(* Any writer may write any status over any row: a late SUBMITTED over a   *)
(* FILLED one, a CANCEL_PENDING over a closed one (OrderLifecycle says     *)
(* which of it happens when).  And not every write is published.  So news  *)
(* is newer than other news of its order when its row was written later,   *)
(* whatever the two say: row counts the writes of each order, and what the *)
(* page holds of an order is the number of a write.                        *)
(*                                                                         *)
(* Abstractions.  A writer's row and its OrderEvent are written in one     *)
(* step; where one of the two fails, or the events of two writers are      *)
(* stamped the other way round, is Backdate and ReportUnwritten.  That the *)
(* event of a write nobody is told of fails is left out.  Only the sockets *)
(* of one page are modelled: those of other users get nothing of it        *)
(* (canReceiveBroadcast).                                                  *)
(***************************************************************************)
EXTENDS Integers, Sequences, FiniteSets

CONSTANTS
    Orders,          \* order ids
    Slots,           \* fetches of the page's lists at one time
    Announced,       \* what is written and then published
    Unannounced,     \* what is written and not published
    MaxWrites,       \* bound on the writes of a row
    MaxOutbox,       \* bound on the publications under way
    MaxInsts,        \* bound on the runs of the page's websocket effect
    MaxIncidents     \* bound on broken connections, lost, failed and repeated calls,
                     \* late time stamps, cancels and fetches the user asks for

\* submit, cancel and reconciliation workers, user stream
ASSUME AnnouncedAssumption ==
    Announced \subseteq {"SUBMITTED", "PARTIALLY_FILLED", "FILLED", "CANCELED",
                         "REJECTED", "EXPIRED", "CANCEL_REJECTED"}

\* processOrderSubmitCommand and markCancelPending before they call Binance,
\* and the backend
ASSUME UnannouncedAssumption ==
    Unannounced \subseteq {"PENDING", "RECEIVED", "CANCEL_REQUESTED", "CANCEL_PENDING",
                           "CANCEL_APPEND_FAILED", "STREAM_APPEND_FAILED"}

ASSUME FeedAssumption ==
    /\ IsFiniteSet(Orders) /\ IsFiniteSet(Slots)
    /\ {MaxOutbox, MaxIncidents} \subseteq Nat
    /\ {MaxWrites, MaxInsts} \subseteq Nat \ {0}

VARIABLES
    row,             \* how often the OrderCommand of each order was written
    rowStatus,       \* its status now
    stamped,         \* which of the writes has the newest OrderEvent, if any has
    due,             \* history: the last write that was to be published
    told,            \* history: orders whose outcome was to be published
    reopened,        \* history: closed orders that were written open
    outbox,          \* status events on their way to the channel
    clients,         \* event service: the registered sockets
    inbox,           \* messages sent on each socket and not yet handled
    inst,            \* the current run of the page's websocket effect
    sock,            \* the socket of each run, or what it waits for
    closure,         \* the pendingOrderId each run has captured
    status,          \* the page's connection status
    pending, placing,\* pendingOrderId, isPlacingOrder
    post,            \* POST /orders of each order
    ordersById,      \* what the page heard of each order
    list,            \* the rows as last fetched
    openIds,         \* ... and which of them are in the list of open orders
    reads,           \* the fetches under way
    missed,          \* history: orders with news no socket was there for
    unheard,         \* history: ... or no socket that could end the ticket
    slips,           \* history: what else may have spoilt the picture
    incidents        \* history: how many of the bounded events there were

rows == <<row, rowStatus, stamped, due, told, reopened>>
feed == <<rows, outbox, clients, inbox>>
sockets == <<inst, sock, closure, status>>
ticket == <<pending, placing, post>>
picture == <<ordersById, list, openIds, reads>>
history == <<missed, unheard, slips, incidents>>
vars == <<feed, sockets, ticket, picture, history>>

------------------------------------------------------------------------------
(* statuses and writes                                                     *)

\* The number of a write; nothing was written, or is known, of an order.
Absent == 0
Writes == Absent..MaxWrites

\* OPEN_ORDER_STATUSES
Open == {"RECEIVED", "PENDING", "SUBMITTED", "PARTIALLY_FILLED", "CANCEL_REQUESTED",
         "CANCEL_PENDING", "CANCEL_REJECTED", "CANCEL_APPEND_FAILED"}

Statuses == {"RECEIVED", "SUBMITTED", "CANCEL_REQUESTED"} \union Announced \union Unannounced

\* Written with no OrderEvent.
Eventless == {"PENDING", "RECEIVED", "STREAM_APPEND_FAILED"}

\* Mutant: a final status is forgotten.
ReleasesButExpired(st) == st \in {"FILLED", "REJECTED", "CANCELED", "PARTIALLY_FILLED", "PENDING"}

\* The page takes these for an answer to the order it has placed.
Releases(st) ==
    st \in {"FILLED", "REJECTED", "CANCELED", "EXPIRED", "PARTIALLY_FILLED", "PENDING"}

\* What becomes of an order on the exchange, or that it never got there.
Outcomes == {"FILLED", "REJECTED", "CANCELED", "EXPIRED", "PARTIALLY_FILLED"}

Insts == 1..MaxInsts

News == [order : Orders, rank : Writes, status : Statuses]

Incident ==
    /\ incidents < MaxIncidents
    /\ incidents' = incidents + 1

------------------------------------------------------------------------------
(* the execution service and the backend                                   *)

\* OrderEvents carry their own time: Binance's, or the writer's.  The newest
\* of an order is that of its last write that has one, unless it came late.
Stamp(orders) == [o \in Orders |-> IF o \in orders THEN row[o] + 1 ELSE stamped[o]]

\* Rows that exist are written over.
Write(orders, st) ==
    /\ \A o \in orders : row[o] # Absent /\ row[o] < MaxWrites
    /\ row' = [o \in Orders |-> IF o \in orders THEN row[o] + 1 ELSE row[o]]
    /\ rowStatus' = [o \in Orders |-> IF o \in orders THEN st ELSE rowStatus[o]]
    /\ reopened' =
        IF st \in Open THEN reopened \union {o \in orders : rowStatus[o] \notin Open}
        ELSE reopened

Send(e) ==
    /\ Cardinality(outbox) < MaxOutbox
    /\ outbox' = outbox \union {e}
    /\ told' = IF e.status \in Outcomes THEN told \union {e.order} ELSE told

\* A worker, the user stream or reconciliation writes a row and publishes it
\* afterwards, so the publications of two may change places.
Announce(o) ==
    /\ \E st \in Announced :
        /\ Write({o}, st)
        /\ Send([order |-> o, rank |-> row[o] + 1, status |-> st])
    /\ due' = [due EXCEPT ![o] = row[o] + 1]
    /\ stamped' = Stamp({o})
    /\ UNCHANGED <<clients, inbox, sockets, ticket, picture, history>>

\* The same, and its event fails or is stamped before that of an older write.
Backdate(o) ==
    /\ \E st \in Announced :
        /\ Write({o}, st)
        /\ Send([order |-> o, rank |-> row[o] + 1, status |-> st])
    /\ Incident
    /\ due' = [due EXCEPT ![o] = row[o] + 1]
    /\ slips' = slips \union {"backdated"}
    /\ UNCHANGED <<stamped, clients, inbox, sockets, ticket, picture, missed, unheard>>

\* Rows that are written without a word: an order that is about to be placed or
\* cancelled, or a command that could not be appended, or is appended again.
WriteSilently(o) ==
    /\ \E st \in Unannounced :
        /\ Write({o}, st)
        /\ stamped' = IF st \in Eventless THEN stamped ELSE Stamp({o})
    /\ UNCHANGED <<due, told, outbox, clients, inbox, sockets, ticket, picture, history>>

\* The exchange may have the order: its row is not as the backend stored it.
Submitted(o) == row[o] # Absent /\ (row[o] = 1 => rowStatus[o] # "RECEIVED")

\* A submit that comes again publishes the row as it is (isAlreadySubmitted).
\* While the same news still waits, the two count as one.
Republish(o) ==
    /\ Submitted(o)
    /\ Incident
    /\ Send([order |-> o, rank |-> row[o], status |-> rowStatus[o]])
    /\ UNCHANGED <<row, rowStatus, stamped, due, reopened, clients, inbox, sockets, ticket,
                   picture, missed, unheard, slips>>

\* The user stream publishes a report whose row it failed to write, and which
\* may say what the row says already.
ReportUnwritten(o) ==
    /\ Submitted(o)
    /\ Incident
    /\ \E st \in Announced :
        /\ Send([order |-> o, rank |-> row[o], status |-> st])
        /\ slips' = IF st = rowStatus[o] THEN slips ELSE slips \union {"unwritten"}
    /\ UNCHANGED <<row, rowStatus, stamped, due, reopened, clients, inbox, sockets, ticket,
                   picture, missed, unheard>>

\* An older publication of the same order is still under way.
OutOfTurn(e) == \E f \in outbox : f.order = e.order /\ f.rank < e.rank

\* The writer dies first, or the event service's subscriber is away.
LosePublication(e) ==
    /\ e \in outbox
    /\ Incident
    /\ outbox' = outbox \ {e}
    /\ missed' = missed \union {e.order}
    /\ unheard' = unheard \union {e.order}
    /\ slips' = slips \union {"lost"}
    /\ UNCHANGED <<rows, clients, inbox, sockets, ticket, picture>>

------------------------------------------------------------------------------
(* the event service                                                       *)

\* broadcast: every registered socket, and no other, gets the message.
Broadcast(e) ==
    [i \in Insts |-> IF i \in clients THEN Append(inbox[i], e) ELSE inbox[i]]

Publish(e) ==
    /\ e \in outbox
    /\ outbox' = outbox \ {e}
    /\ inbox' = Broadcast(e)
    /\ missed' = IF clients = {} THEN missed \union {e.order} ELSE missed
    /\ unheard' =
        IF Releases(e.status) /\ \A i \in clients : closure[i] # e.order
        THEN unheard \union {e.order} ELSE unheard
    /\ slips' = IF OutOfTurn(e) THEN slips \union {"reordered"} ELSE slips
    /\ UNCHANGED <<rows, clients, sockets, ticket, picture, incidents>>

\* The upgrade is accepted and the connection registered.
Accept(i) ==
    /\ sock[i] = "connecting" /\ i \notin clients
    /\ clients' = clients \union {i}
    /\ UNCHANGED <<rows, outbox, inbox, sockets, ticket, picture, history>>

\* Connections break: what was under way on them is lost, and the page does
\* not know yet.
Break(gone) ==
    LET orders == UNION {{inbox[i][k].order : k \in DOMAIN inbox[i]} : i \in gone}
    IN  /\ clients' = clients \ gone
        /\ inbox' = [i \in Insts |-> IF i \in gone THEN <<>> ELSE inbox[i]]
        /\ sock' = [i \in Insts |->
              IF i \in gone /\ sock[i] # "closing" THEN "broken" ELSE sock[i]]
        /\ missed' = missed \union orders
        /\ unheard' = unheard \union orders
        /\ UNCHANGED <<rows, outbox, inst, closure, status, slips, ticket, picture>>

BreakConnection(i) ==
    /\ sock[i] \in {"connecting", "open"}
    /\ Incident
    /\ Break({i})

\* The event service stops: every socket is gone, and with them the list.
Restart ==
    /\ clients # {}
    /\ Incident
    /\ Break(clients)

RowStep(o) ==
    \/ Announce(o) \/ Backdate(o) \/ WriteSilently(o)
    \/ Republish(o) \/ ReportUnwritten(o)

FeedStep ==
    \/ \E o \in Orders : RowStep(o)
    \/ \E e \in outbox : Publish(e) \/ LosePublication(e)
    \/ \E i \in Insts : Accept(i) \/ BreakConnection(i)
    \/ Restart

================================================================================
