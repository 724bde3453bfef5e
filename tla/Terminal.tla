-------------------------------- MODULE Terminal --------------------------------
(***************************************************************************)
(* The trading page and the feed that keeps it up to date, composed: what  *)
(* the page shows of an order against what its row says.                   *)
(***************************************************************************)
EXTENDS TradePage

\* The page is loaded while there may be an order already; its first fetch
\* does not wait for the socket.
Init ==
    /\ row \in [Orders -> {Absent, 1}]
    /\ rowStatus = [o \in Orders |-> IF row[o] = Absent THEN "none" ELSE "SUBMITTED"]
    /\ stamped = row /\ due = row
    /\ told = {} /\ reopened = {}
    /\ outbox = {}
    /\ clients = {}
    /\ inbox = [i \in Insts |-> <<>>]
    /\ inst = 1
    /\ sock = [i \in Insts |-> IF i = 1 THEN "token" ELSE "none"]
    /\ closure = [i \in Insts |-> NoOrder]
    /\ status = "CONNECTING"
    /\ pending = NoOrder
    /\ placing = FALSE
    /\ post = [o \in Orders |-> "none"]
    /\ ordersById = NoRows
    /\ list = NoRows /\ openIds = {}
    /\ \E first \in Slots :
        reads = [s \in Slots |-> IF s = first THEN [Idle EXCEPT !.stage = "asked"] ELSE Idle]
    /\ missed = {}
    /\ unheard = {}
    /\ slips = {}
    /\ incidents = 0

Next == FeedStep \/ PageStep

Spec == Init /\ [][Next]_vars

------------------------------------------------------------------------------

TypeOK ==
    /\ {row, stamped, due} \subseteq [Orders -> Writes]
    /\ rowStatus \in [Orders -> Statuses \union {"none"}]
    /\ \A o \in Orders : row[o] # Absent => rowStatus[o] \in Statuses
    /\ told \subseteq Orders /\ reopened \subseteq Orders /\ openIds \subseteq Orders
    /\ outbox \subseteq News
    /\ clients \subseteq Insts
    /\ inbox \in [Insts -> Seq(News)]
    /\ inst \in Insts
    /\ sock \in [Insts -> Stages]
    /\ closure \in [Insts -> Orders \union {NoOrder}]
    /\ status \in {"CONNECTING", "OPEN", "RECONNECTING", "ERROR", "AUTH_ERROR"}
    /\ pending \in Orders \union {NoOrder}
    /\ placing \in BOOLEAN
    /\ post \in [Orders -> {"none", "sent", "stored", "done", "failed"}]
    /\ {ordersById, list} \subseteq [Orders -> Writes]
    /\ reads \in [Slots -> [stage : {"idle", "asked", "answered"},
                            rows : [Orders -> Writes], open : SUBSET Orders]]
    /\ missed \subseteq Orders /\ unheard \subseteq Orders
    /\ slips \subseteq {"lost", "reordered", "leaked", "stale", "failed", "backdated", "unwritten"}
    /\ incidents \in 0..MaxIncidents

\* Nothing is under way, and the page's socket is open.
Settled ==
    /\ PageUp
    /\ outbox = {} /\ \A i \in Insts : inbox[i] = <<>>
    /\ sock[inst] = "open"
    /\ \A s \in Slots : reads[s] = Idle
    /\ \A o \in Orders : post[o] \notin {"sent", "stored"}

\* A page that has settled shows every order, with a status at least as new as
\* the last one that was to be published, and shows an open order as open.  Not
\* what was written without a word since: that is seen with the next fetch.  The
\* exceptions: news was lost by the feed, overtook other news or a newer row, an
\* answer was late or failed, the page gave up the order it placed, the order
\* had been heard of and later news found no socket; and a closed order that was
\* written open again stays out of the list of open orders.
ShownIsCurrent ==
    Settled /\ slips = {} =>
        \A o \in Orders :
            row[o] # Absent =>
                \/ /\ list[o] # Absent /\ Merged(o) >= due[o]
                   /\ rowStatus[o] \in Open => o \in ShownOpen \/ o \in reopened
                \/ post[o] = "failed"
                \/ o \in missed /\ ordersById[o] # Absent

\* What was heard of an order is not replaced by the news of an earlier write,
\* unless news was reordered or reached the page on two sockets.
NewsDoesNotRegress ==
    [][\A o \in Orders :
        ordersById'[o] < ordersById[o] => slips \intersect {"reordered", "leaked"} # {}]_vars

\* A page has one socket, unless a run was cancelled while it waited for a
\* token.
OneSocket ==
    Cardinality({i \in Insts : sock[i] \in {"connecting", "open", "retry"}}) > 1
        => "leaked" \in slips

\* The ticket of an order whose outcome was to be published is free again, unless
\* the news that would have ended it found no socket that knew of the ticket.
TicketIsReleased ==
    \A o \in Orders :
        Settled /\ pending = o /\ o \in told /\ placing => o \in unheard

\* While the page is up, its current run has a socket or a step that leads to
\* one: it never gives up.  And it says that it is live only while a socket
\* is, or has just been, open.
KeptUp ==
    /\ PageUp => sock[inst] \in {"token", "connecting", "open", "broken", "retry"}
    /\ status = "OPEN" => \E i \in Insts : sock[i] \in {"open", "broken", "closing"}

================================================================================
