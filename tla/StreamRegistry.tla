---------------------------- MODULE StreamRegistry ----------------------------
(***************************************************************************)
(* The registries of market streams in the execution service,              *)
(* apps/execution-service/src/index.js: klineStreams for charts and        *)
(* marketDetailStreams for order books and trades.  An entry counts its    *)
(* subscriptions and owns a WebSocket to Binance; subscribing again only   *)
(* counts, so an entry left without a socket would serve nobody for ever.  *)
(*                                                                         *)
(* Keys do not interact: the module follows one key of one registry, which *)
(* the initial state chooses.  The two registries differ in what the close *)
(* event of a socket does.  A socket that connects and one that is open    *)
(* are not told apart: every message of either is published.               *)
(***************************************************************************)
EXTENDS Naturals, FiniteSets

CONSTANTS
    Pages,        \* trading pages
    Entries,      \* names of entries and their sockets that are in memory
    NoEntry,      \* stands for a key that is not registered
    MaxClaims     \* bound on the references held or asked for

ASSUME StreamsAssumption ==
    /\ IsFiniteSet(Pages) /\ NoEntry \notin Entries /\ MaxClaims \in Nat

VARIABLES
    kind,         \* the registry followed: "chart" or "detail"
    page,         \* what the effect of a page has done
    posts,        \* requests on their way to the registry, which may overtake
    fetching,     \* subscriptions whose snapshot is awaited
    registry,     \* the entry under the key
    entry,        \* the entries in memory
    slips         \* history: ways in which the count has gone wrong

service == <<fetching, registry, entry>>
vars == <<kind, page, posts, service, slips>>

Entry == [ref : 0..MaxClaims,
          ws : {"up", "closing", "gone"},
          closedByRequest : BOOLEAN,
          reconnectTimer : BOOLEAN]

Dropped == [ref |-> 0, ws |-> "gone", closedByRequest |-> FALSE,
            reconnectTimer |-> FALSE]

\* refCount of the registered entry, 0 while there is none.
References == IF registry = NoEntry THEN 0 ELSE entry[registry].ref

\* References held, or asked for by a subscription that has been sent.
Claims == References + fetching + posts["subscribe"]

\* An entry whose memory can be taken: nothing will run for it any more.
Unused(e) == registry # e /\ entry[e] = Dropped

\* An entry that is off the registry, has no socket and no timer is dropped.
Settled(e, rec, reg) ==
    IF reg # e /\ rec.ws = "gone" /\ ~rec.reconnectTimer THEN Dropped ELSE rec

Slip(kinds) == slips' = slips \union kinds

------------------------------------------------------------------------------
(* the request handlers                                                    *)

\* The handler of CHART_REQ and MARKET_REQ awaits the snapshot first.
Subscribe ==
    /\ posts["subscribe"] > 0
    /\ posts' = [posts EXCEPT !["subscribe"] = @ - 1]
    /\ fetching' = fetching + 1
    /\ UNCHANGED <<kind, page, registry, entry, slips>>

\* startKlineStream, startMarketDetailStream: run whether the snapshot was
\* published or has failed.
CountReference ==
    /\ registry # NoEntry
    /\ entry' = [entry EXCEPT ![registry].ref = @ + 1]
    /\ UNCHANGED registry

OpenStream ==
    /\ registry = NoEntry
    /\ \E e \in Entries :
         /\ Unused(e)
         /\ registry' = e
         /\ entry' = [entry EXCEPT ![e] =
                        [ref |-> 1, ws |-> "up", closedByRequest |-> FALSE,
                         reconnectTimer |-> FALSE]]

StartStream ==
    /\ fetching > 0
    /\ fetching' = fetching - 1
    /\ CountReference \/ OpenStream
    /\ UNCHANGED <<kind, page, posts, slips>>

\* Mutant: the stream leaves the registry, and its socket stays open.
CloseStreamForgets(e) ==
    /\ registry' = NoEntry
    /\ entry' = [entry EXCEPT ![e] = Settled(e,
          [@ EXCEPT !.ref = 0, !.closedByRequest = kind = "detail",
                    !.reconnectTimer = FALSE], NoEntry)]

\* stopKlineStream, stopMarketDetailStream.  Nothing is awaited before it: it
\* can run while the snapshot of its own subscription is still being fetched.
CloseStream(e) ==
    /\ registry' = NoEntry
    /\ entry' = [entry EXCEPT ![e] = Settled(e,
          [ref |-> 0,
           ws |-> IF @.ws = "up" THEN "closing" ELSE @.ws,
           closedByRequest |-> kind = "detail",
           reconnectTimer |-> FALSE], NoEntry)]

\* Mutant: a stream is closed by the first page that leaves it.
StopStreamAtOnce ==
    \/ /\ registry = NoEntry
       /\ Slip({"over"})
       /\ UNCHANGED <<registry, entry>>
    \/ /\ registry # NoEntry
       /\ CloseStream(registry)
       /\ UNCHANGED slips

StopStream ==
    \/ /\ registry = NoEntry
       /\ Slip({"over"})
       /\ UNCHANGED <<registry, entry>>
    \/ /\ References > 1
       /\ entry' = [entry EXCEPT ![registry].ref = @ - 1]
       /\ UNCHANGED <<registry, slips>>
    \/ /\ References = 1
       /\ CloseStream(registry)
       /\ UNCHANGED slips

Unsubscribe ==
    /\ posts["unsubscribe"] > 0
    /\ posts' = [posts EXCEPT !["unsubscribe"] = @ - 1]
    /\ StopStream
    /\ UNCHANGED <<kind, page, fetching>>

------------------------------------------------------------------------------
(* the events of sockets and timers                                        *)

\* The test of the close handler and of the reconnect timer.
Abandoned(e) ==
    entry[e].closedByRequest \/ entry[e].ref = 0 \/ registry # e

\* The close handlers delete by key, whoever is registered by then: when it is
\* a successor, its references are lost and its socket stays open.
SlipsOfClose(e) ==
    CASE registry = NoEntry -> {}
      [] registry = e       -> {"under"}
      [] OTHER              -> {"under", "orphan"}

Unregister(e) ==
    /\ registry' = NoEntry
    /\ entry' = [entry EXCEPT ![e] =
                   Settled(e, [@ EXCEPT !.ws = "gone"], NoEntry)]
    /\ Slip(SlipsOfClose(e))

\* A chart's socket is not opened again when Binance closes it.
ChartCloses(e) == kind = "chart" /\ Unregister(e)

DetailEnds(e) == kind = "detail" /\ Abandoned(e) /\ Unregister(e)

\* Mutant: the entry stays registered with neither a socket nor a timer.
DetailDropsForGood(e) ==
    /\ kind = "detail" /\ ~Abandoned(e)
    /\ entry' = [entry EXCEPT ![e].ws = "gone"]
    /\ UNCHANGED <<registry, slips>>

DetailDrops(e) ==
    /\ kind = "detail" /\ ~Abandoned(e)
    /\ entry' = [entry EXCEPT ![e].ws = "gone", ![e].reconnectTimer = TRUE]
    /\ UNCHANGED <<registry, slips>>

\* Binance, the network or the closing handshake ends the socket.
SocketCloses(e) ==
    /\ entry[e].ws # "gone"
    /\ ChartCloses(e) \/ DetailEnds(e) \/ DetailDrops(e)
    /\ UNCHANGED <<kind, page, posts, fetching>>

\* Mutant: the timer takes the last reference for an abandoned stream.
ReopenedIfShared(e) ==
    IF Abandoned(e) \/ entry[e].ref = 1
      THEN Settled(e, [entry[e] EXCEPT !.reconnectTimer = FALSE], registry)
      ELSE [entry[e] EXCEPT !.reconnectTimer = FALSE, !.ws = "up"]

\* The timer of 1500 ms fires.
Reopened(e) ==
    IF Abandoned(e)
      THEN Settled(e, [entry[e] EXCEPT !.reconnectTimer = FALSE], registry)
      ELSE [entry[e] EXCEPT !.reconnectTimer = FALSE, !.ws = "up"]

Reconnect(e) ==
    /\ entry[e].reconnectTimer
    /\ entry' = [entry EXCEPT ![e] = Reopened(e)]
    /\ UNCHANGED <<kind, page, posts, fetching, registry, slips>>

\* The process ends: the registry and the subscriptions in it are in memory
\* only, and no page is told.
Restart ==
    /\ fetching' = 0
    /\ registry' = NoEntry
    /\ entry' = [e \in Entries |-> Dropped]
    /\ Slip({"under"})
    /\ UNCHANGED <<kind, page, posts>>

=============================================================================
