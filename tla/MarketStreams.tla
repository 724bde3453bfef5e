----------------------------- MODULE MarketStreams -----------------------------
(***************************************************************************)
(* Pages that watch a market: the chart and market-detail effects of       *)
(* apps/frontend/app/trade/page.js, the /charts/* and /market/* endpoints  *)
(* of the event service, and the StreamRegistry they feed.                 *)
(*                                                                         *)
(* A page posts "subscribe" when it begins to watch and "unsubscribe" when *)
(* it stops; each post is published on Redis, which keeps nothing for a    *)
(* service that is away.  Nobody confirms a subscription or renews it, so  *)
(* the reference count is right only as long as every post arrives once.   *)
(***************************************************************************)
EXTENDS StreamRegistry

------------------------------------------------------------------------------
(* the pages                                                               *)

PageStates == {"away", "opening", "watching", "reconnecting"}

\* Pages that have subscribed and have not left.
Watchers == {p \in Pages : page[p] \in {"watching", "reconnecting"}}

Post(type) ==
    /\ posts[type] < MaxClaims
    /\ type = "subscribe" => Claims < MaxClaims
    /\ posts' = [posts EXCEPT ![type] = @ + 1]

Move(p, state) == page' = [page EXCEPT ![p] = state]

\* The chart's effect: it subscribes once its own socket is open, ...
OpenChart(p) ==
    /\ kind = "chart" /\ page[p] = "away"
    /\ Move(p, "opening")
    /\ UNCHANGED <<kind, posts, service, slips>>

ChartSocketOpens(p) ==
    /\ page[p] = "opening"
    /\ Move(p, "watching")
    /\ Post("subscribe")
    /\ UNCHANGED <<kind, service, slips>>

ChartSocketCloses(p) ==
    /\ kind = "chart" /\ page[p] = "watching"
    /\ Move(p, "reconnecting")
    /\ UNCHANGED <<kind, posts, service, slips>>

\* ... and again, for the same page, when that socket was replaced, ...
ChartSocketReopens(p) ==
    /\ page[p] = "reconnecting"
    /\ Move(p, "watching")
    /\ Post("subscribe")
    /\ Slip({"over"})
    /\ UNCHANGED <<kind, service>>

\* ... and every eight seconds while no candle has come.
Resubscribe(p) ==
    /\ kind = "chart" /\ page[p] \in {"watching", "reconnecting"}
    /\ Post("subscribe")
    /\ Slip({"over"})
    /\ UNCHANGED <<kind, page, service>>

\* The market-detail effect subscribes at once.
OpenDetail(p) ==
    /\ kind = "detail" /\ page[p] = "away"
    /\ Move(p, "watching")
    /\ Post("subscribe")
    /\ UNCHANGED <<kind, service, slips>>

\* Mutant: a page that leaves while it reconnects does not unsubscribe.
LeaveQuietly(p) ==
    /\ page[p] # "away"
    /\ Move(p, "away")
    /\ IF page[p] = "reconnecting" THEN UNCHANGED posts ELSE Post("unsubscribe")
    /\ Slip(IF page[p] = "opening" THEN {"under"} ELSE {})
    /\ UNCHANGED <<kind, service>>

\* The cleanup of either effect unsubscribes once; a chart's does so even
\* when it has not subscribed, which takes a reference of somebody else.
Leave(p) ==
    /\ page[p] # "away"
    /\ Move(p, "away")
    /\ Post("unsubscribe")
    /\ Slip(IF page[p] = "opening" THEN {"under"} ELSE {})
    /\ UNCHANGED <<kind, service>>

\* The tab is closed or reloaded: no cleanup runs.
PageDies(p) ==
    /\ page[p] # "away"
    /\ Move(p, "away")
    /\ Slip(IF p \in Watchers THEN {"over"} ELSE {})
    /\ UNCHANGED <<kind, posts, service>>

PageStep(p) ==
    \/ OpenChart(p) \/ ChartSocketOpens(p) \/ ChartSocketCloses(p)
    \/ ChartSocketReopens(p) \/ Resubscribe(p) \/ OpenDetail(p)
    \/ Leave(p) \/ PageDies(p)

\* The endpoint is out of reach, answers 500 or 503, or publishes while the
\* execution service is not connected.
PostIsLost(type) ==
    /\ posts[type] > 0
    /\ posts' = [posts EXCEPT ![type] = @ - 1]
    /\ Slip(IF type = "subscribe" THEN {"under"} ELSE {"over"})
    /\ UNCHANGED <<kind, page, service>>

------------------------------------------------------------------------------

Init ==
    /\ kind \in {"chart", "detail"}
    /\ page = [p \in Pages |-> "away"]
    /\ posts = [type \in {"subscribe", "unsubscribe"} |-> 0]
    /\ fetching = 0
    /\ registry = NoEntry
    /\ entry = [e \in Entries |-> Dropped]
    /\ slips = {}

Next ==
    \/ \E p \in Pages : PageStep(p)
    \/ \E type \in {"subscribe", "unsubscribe"} : PostIsLost(type)
    \/ Subscribe \/ Unsubscribe \/ StartStream
    \/ \E e \in Entries : SocketCloses(e) \/ Reconnect(e)
    \/ Restart

\* A post arrives or fails, a snapshot is answered or times out, a timer fires,
\* and the ws library ends a closing handshake after 30 s by itself.
Fairness ==
    /\ WF_vars(Subscribe) /\ WF_vars(Unsubscribe) /\ WF_vars(StartStream)
    /\ \A e \in Entries :
         /\ WF_vars(Reconnect(e))
         /\ WF_vars(entry[e].ws = "closing" /\ SocketCloses(e))

Spec == Init /\ [][Next]_vars
FairSpec == Spec /\ Fairness

------------------------------------------------------------------------------
(* properties                                                              *)

\* Type correctness.
TypeOK ==
    /\ kind \in {"chart", "detail"}
    /\ page \in [Pages -> PageStates]
    /\ posts \in [{"subscribe", "unsubscribe"} -> 0..MaxClaims]
    /\ fetching \in 0..MaxClaims
    /\ registry \in Entries \union {NoEntry}
    /\ entry \in [Entries -> Entry]
    /\ slips \subseteq {"under", "over", "orphan"}

\* A registered entry is connected or about to reconnect, and its timer will
\* not give up: starting a stream that is registered only counts, so a
\* registered entry without a socket would keep the market silent for every
\* page until the service restarts.
RegisteredIsServed ==
    registry # NoEntry =>
        /\ entry[registry].ws = "up" \/ entry[registry].reconnectTimer
        /\ ~entry[registry].closedByRequest
        /\ entry[registry].ref > 0

\* However snapshots, posts of several pages and closing sockets overlap, the
\* registry holds, or will hold, a reference for every page that watches and
\* for every unsubscription on its way.  Only a lost subscription, a restart, a
\* chart socket that ends, a close event that meets a successor and the
\* cleanup of a chart that never subscribed can break this.
WatchersAreCounted ==
    "under" \notin slips =>
        Cardinality(Watchers) + posts["unsubscribe"] <= Claims

\* No reference outlives its page, so the last page that leaves closes the
\* stream.  Only a lost unsubscription, a page that dies, a subscription sent
\* twice and an unsubscription that overtakes its subscription can break this.
WatchersAreReleased ==
    "over" \notin slips =>
        Claims <= Cardinality(Watchers) + posts["unsubscribe"]

\* An open socket belongs to the registered entry, so a page gets each update
\* once and unsubscribing closes it; only the late close event of a predecessor,
\* which deletes the registration of its successor, leaves one behind.
OpenSocketsAreRegistered ==
    "orphan" \notin slips =>
        \A e \in Entries : entry[e].ws = "up" => registry = e

Served == \E e \in Entries : entry[e].ws = "up"

\* A page that watches gets data, at first and after every drop of a
\* market-detail socket, unless its reference was lost.
WatchersAreServed ==
    (Watchers # {} /\ "under" \notin slips)
        ~> (Served \/ Watchers = {} \/ "under" \in slips)

=============================================================================
