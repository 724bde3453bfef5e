# TradeCO, specified in TLA+

TradeCO is a trading front end for the Binance Spot Test Network.  This directory holds TLA+
modules that model its order pipeline and the services around it, TLC configurations that check
the modules on small instances, and proofs that TLAPS checks for every value of the constants.
Everything is translated from the source under `apps/` and `packages/`; `PROJECT.json` names, for
each definition, the lines it stands for.

## 1. The system

```
 browser ──HTTP──▶ backend ──XADD──▶ Redis stream ──XREADGROUP──▶ execution-service ──REST──▶ Binance
    ▲                 │  OrderCommand rows (PostgreSQL)  ▲   │  ▲          │   ▲
    │                 └──────────────────────────────────┴───┘  │          │   │ user data stream,
    └──WebSocket── event-service ◀──────Redis pub/sub───────────┴──────────┘   │ klines, order book
```

| Component | State it keeps | Operations | What makes it correct |
|---|---|---|---|
| Order endpoints (`backend/src/index.js`, `orderStreamProducer.js`) | `OrderCommand`, `OrderEvent` rows | POST `/orders`, DELETE `/orders/:id`, DELETE `/orders/open`, GETs | a row is written before its command is appended, and neither may be left without the other unnoticed; closed rows stay closed |
| Order command stream (`redisOrderStreamConsumer.js`) | Redis stream, consumer group, dead-letter stream | create group, claim, read, handle, acknowledge, dead-letter | no command is dropped, none is retried for ever |
| Order command processor (`orderCommandProcessor.js`) | rows, Binance's orders | submit, cancel, cancel-all | an order is placed once; what Binance did is recorded |
| User data stream (`execution-service/src/index.js`) | rows, registry of sockets | execution reports, balances, reconnect | reports reach the row, whatever their order |
| Reconciliation (`reconciliationWorker.js`) | a snapshot per cycle | select, fetch, compare, write back | rows converge to what Binance says |
| Positions (`applyFillToPositions`, GET `/api/trading/positions`) | `Position` rows | apply a fill, list | a quantity is the sum of the fills |
| Refresh sessions (`authService.js`, `cookies.js`, `frontend/app/lib/auth.js`) | `Session` rows, the browser's cookie, tokens in memory | login, refresh, logout, family revocation | a token is rotated once; a family has one live session |
| Chart and market-detail streams (`execution-service/src/index.js`, `event-service/src/index.js`) | registries with reference counts, sockets, timers | subscribe, unsubscribe, close, reconnect | a stream is open while, and only while, somebody reads it |
| Account and symbol requests (both services) | `pending` map, caches | request, answer, time-out | a request is settled once, with its own answer |
| Broadcast (`event-service/src/index.js`, `auth.js`, `broadcastContracts.js`) | connected clients | validate, scope, fan out | a private event reaches its user only |
| Validators (`redis-stream-contracts`, `binanceFilterValidation.js`) | none | validate drafts, commands, filters | the two sides agree on what is valid |
| Trading page (`frontend/app/trade/page.js`) | lists of orders, socket, ticket, order form | merge snapshots and events, reconnect, look filters up, post an order | shows the newest state; posts what was typed |

What is hard here: several services write the same row with no lock and no version check; every
`await` is a point where others run; delivery is at least once, so each handler may run twice or be
cut off anywhere; exchange calls can take effect without an answer; user-stream reports, REST
answers and reconciliation results arrive in any order.  `PROJECT.json` lists these hazards line by
line, with the properties that watch them.

## 2. Modules

| Module | Models |
|---|---|
| `CommandDelivery` | abstract: what the command stream promises, at-least-once delivery |
| `CommandStream` (`MCCommandStream`) | the consumer-group protocol of `redisOrderStreamConsumer.js` |
| `CommandStreamProofs` | its proofs |
| `OrderState` | rows, stream and exchange shared by the participants in an order's life |
| `OrderRequests` | the three order endpoints of the backend |
| `OrderProcessor` | the three command handlers of the execution service |
| `OrderExchange` | Binance moving an order, and the execution reports |
| `OrderReconciliation` | the reconciliation worker |
| `OrderLifecycle` (`MCOrderLifecycle`) | all of these together, and the properties of orders |
| `OrderLifecycleProofs` | its proofs |
| `OrderFeed` | the rows of orders as the page hears of them: writes of any status, told or untold, publications, and the broadcast to sockets |
| `TradePage` | the page's websocket effect, its order lists and its ticket |
| `Terminal` (`MCTerminal`) | feed and page together, and what the page shows |
| `TerminalProofs` | its proofs |
| `OrderFilters` | contracts, filters and call parameters as operators on data |
| `OrderForm` | the order form, and the three caches its filters come from |
| `OrderEntry` (`MCOrderEntry`) | the form and every check between it and Binance |
| `OrderEntryProofs` | its proofs |
| `UserStream` | a user's data stream: registry, reconnects, balances, fills and positions |
| `AccountRequests` | requests for balances over Redis: pending map, timers, caches |
| `Account` (`MCAccount`) | both together, and the end of the execution service |
| `AccountProofs` | its proofs |
| `SessionChain` | abstract: a family of refresh tokens is a chain with one head |
| `RefreshSessions` | the session handlers of the backend |
| `BrowserSessions` (`MCBrowserSessions`) | tabs, cookie and `lib/auth.js` with `RefreshSessions`, and the properties of sessions |
| `BrowserSessionsProofs`, `SessionChainProofs` | their invariants, and the refinement of `SessionChain` |
| `StreamRegistry` | the registries of market streams in the execution service |
| `MarketStreams` | the pages and endpoints that feed a registry, and the properties of streams |
| `MarketStreamsProofs` | its proofs |

Seven families, each a closed system with an environment of its own: commands, orders, the
terminal, order entry, the account, sessions, market streams.  They are checked apart because what
one takes from another is small and stated: `OrderLifecycle` takes from the stream that a command is
delivered at least once, which `CommandStream` is shown to implement; `Terminal` takes nothing from
orders: in it any writer may write any status over any row, closed ones included, and publish it or
not; `OrderEntry` follows one order once through every check; `Account` leaves the order row to
`OrderLifecycle`.

### How state and actions correspond to the code

The rule throughout: code between two `await`s is one action; an awaited call takes effect in one
action and its continuation runs in the next, so everybody else may run in between.

**Command stream.**  `length`, `malformed`, `lastDelivered`, `pending`, `deliveries`, `idle` and `dlq`
are what Redis holds; `pc`, `phase`, `batch`, `current` and `attempts` are the locals of one instance's
loop (`startOrderStreamConsumer`).  `EnsureGroup`, `ClaimBatch` and `ReadBatch` are the calls of the
loop, `StartMessage`, `ProcessSucceeds`, `ProcessFails`, `Ack`, `CountDeliveries`, `WriteDeadLetter` and
`AckDeadLetter` those of handling one entry.  `CallFails` is a call that fails without effect,
`ReplyLost` one that took effect, `Crash` and `Restart` the process.  `tries` and `completions` are
history variables.  Trimming of streams and pending entries whose entry was deleted are left out.

**Orders.**  A row keeps `status` and `linked` (`binanceOrderId`), which is all that handlers branch on.
`requests[r].at`, `workers[w].at` and `recon.at` say which `await` a handler stands at, and the handler's
record keeps what it read before.  `CreateOrder` to `RequestDies` are the endpoints; `SubmitRead` to
`SubmitReject` and `CancelRead` to `CancelReject` the handlers of commands; `OrderMoves` is Binance;
`HandleReport`, inside `ExchangeStep`, the user data stream; the `Reconcile...` actions are one cycle of
the worker.  `lost` counts placements whose outcome was never recorded, `dropped` the orders with a
command that no handler will finish.

**Terminal.**  Writers take a row back (hazards of `OrderLifecycle`: a late SUBMITTED over FILLED,
CANCEL_REQUESTED over a closed row), so a status says nothing of its age.  `row` therefore counts the
writes of each order and `rowStatus` is the last; what the page holds of an order is the number of a
write, and newer means written later.  `Announce` is a writer that publishes (submit and cancel
handlers, reconciliation, user stream), `WriteSilently` one that does not (`processOrderSubmitCommand`'s
PENDING, `markCancelPending`, the backend's RECEIVED, CANCEL_REQUESTED and append failures), and
`Cancel` the DELETE the page itself sends.  Lists label an order by its newest `OrderEvent`, so `stamped`
says which write has it; writes in `Eventless` leave it behind.  `due` is the last write that was to be
published, `told` and `reopened` are history too.  `Republish` is a submit that comes again,
`ReportUnwritten` (the slip "unwritten") a report whose row was not written, and `Backdate` ("backdated") an
event that fails or carries the older time.  `outbox` are the publications that have not reached the
event service, in no order; `clients` are the sockets it broadcasts to, `inbox` what is in flight to
each.  Each run of the page's websocket effect is a number:
`inst` is the current one, `sock` says how far each is (a run may be cancelled while it waits for its
token, and does not notice), and `closure` keeps the `pendingOrderId` that it captured.  `reads` are
fetches of the two order lists, `list` the last answer, `ordersById` what sockets said, laid over the
list when it is drawn.  `missed`, `unheard` and `slips` are history: whose news found no socket, whose
news found none that knew of the ticket, and what else went wrong.

**Order entry.**  An amount is a number of the smallest unit, since the code computes on decimal strings,
except for `roundToStep` of the page, whose lost step is the slip "short".  (Two details of digits beyond
the step are left out: `validateQty` rounds them before it compares, and the epsilon of `roundToStep` can
round up by one.)  `format` says how amounts are written: the form sends numbers, which `Exponential` ones
print with an exponent, but the quote amount as the text that was typed, which may be "odd" (.5, 12.,
05, 1e2): a number to `Number`, and no decimal to `DECIMAL_STRING_PATTERN`.  Binance's filters have a
`version`; each of the three caches holds a version per market, and an entry may be too old at every
use.  `lookup` are the runs of the page's symbol-info effect, each with the quantity it captured.  The one
`order` goes from the form through `Draft`, `BackendFilters`, `BackendJudges`, `TakeEntry`,
`ExecutionFilters`, `ExecutionJudges` and `Place`, and keeps the versions and prices it was judged by and the rules it broke.  `ApiSubmit` is any other client.

**Account.**  `entry` is what `userStreams` has of the user, `sockets` the sockets to Binance, `timers` the
reconnects that are due.  `reports[t][i]` is the handler of one trade's report on one socket, which reads
the position, then writes it and publishes.  `calls` are the page's requests as the event service knows
them and `orphans` promises whose publication failed: one that is rejected before it is awaited ends
the process, and who was waiting is "lost".  `work` is the other end of the request, with its own cache.
A balance is the number of trades it reflects.  `alone` are the requests since whose start the page was
shown nothing else; `slips` says what may have cost a fill, the stream or a request.

**Sessions.**  A row is a number, and so is its token.  `calls` are the handlers of `/auth/*`, stopped at
one of PostgreSQL's calls; an update that meets a row locked by an open transaction waits and tests
its `where` again, as READ COMMITTED does (`Locked`).  `cookie`, `access` and `refreshing` are the
browser: `refreshPromise` joins the refreshes of one tab but not of two.

**Market streams.**  The model follows one key of one registry, chosen by the initial state: `kind` is
"chart" (`klineStreams`) or "detail" (`marketDetailStreams`).  `entry` holds the objects that are still
referenced from the registry, a socket or a timer; an object nobody refers to is `Dropped` and its name
may be used again, so runs are unbounded.  `posts` are requests between a page and the registry,
unordered because each is its own HTTP request; `fetching` counts subscriptions that await their
snapshot, which an unsubscription can overtake.  `slips` is a history variable: which ways of
miscounting have occurred ("under": fewer references than pages, "over": more, "orphan": an open socket
lost its registration).

History variables and slips record that something *happened*; no action reads them, and each is set
at the line of code that lets it happen.  A property with such an excuse says that nothing else can
cause the bad state.  It does not say that the code prevents the slip.  These hazards are named and
bounded by a slip, not ruled out: an exchange order under a REJECTED row after a lost reply ("lost"); an
unsubscription that overtakes a snapshot, a late close, a lost subscription, a chart that subscribes
again ("orphan", "under", "over"); overlapping fills ("fill"); a promise rejected before it is awaited
("publish"); a step lost in rounding and an answer that overwrites the field ("short", "overwritten").
Filters that differ between the caches are excused by `ExecutionAgrees` likewise.

## 3. Runs

| Run | Checks |
|---|---|
| `stream_two` | two instances, two entries, one fault: `SettledBeforeRetired`, `DeadLetterJustified`, `RedeliveryBounded`, `ExecutionsBounded` |
| `stream_live` | one instance, batches, two faults, fair: `ImplementsDelivery`, `EventuallyRetired` |
| `order_one` | one order, two requests at a time, cancels, reports, two faults: `PlacementsAccounted`, `ClosedRowsAreTrue`, `RejectedIsNotOpen`, `NobodyForgotten` |
| `order_cancel_all` | two orders that may end while a cancel-all is on its way, one fault: `NobodyForgotten` |
| `order_live` | two instances, late or missing reports, fair: `ClosingIsRecorded` |
| `terminal` | one order, one page whose socket comes and goes, one incident: `ShownIsCurrent`, `OneSocket`, `KeptUp`, `TicketIsReleased`, `NewsDoesNotRegress` |
| `order_entry` | two markets, filters that change, one order of the page or of another client: `PostedAsTyped`, `OwnFilters`, `BackendAgrees`, `ExecutionAgrees`, `EntriesComeThrough` |
| `account` | two requests, two trades, one fault, fair: `OneStream`, `PositionIsSumOfFills`, `OthersAreUnharmed`, `AnswersDoNotRegress`, `CallsEnd`, `StreamReturns` |
| `sessions` | two tabs, two overlapping calls, one fault: `RotatedOnce`, `OneLiveSession`, `ReuseNeedsDisturbance`, `CookieIsNewest`, `LogoutEndsFamily`, `ImplementsChain` |
| `market_streams` | two pages, both registries, fair: `RegisteredIsServed`, `WatchersAreCounted`, `WatchersAreReleased`, `OpenSocketsAreRegistered`, `WatchersAreServed` |
| `order_idempotent`, `order_reconciled` | violations, section 5 |

`PROJECT.json` pairs each property with a mutant, a plausible bug in one definition that breaks it;
the mutated forms stand before the definitions they replace.  Every safety property above is a theorem
too (section 4), and so is the type invariant of each family.

### Bounds, and why they are enough

* **Instances, workers, tabs, pages, sockets, requests: two.**  Every race in this code is between two
  actors on one row, entry, token, position or key; a third meets the same intermediate states.
* **Stream: two entries, batches of two, two attempts.**  The smallest values at which a batch claim
  delivers an entry nobody handles, and at which the first attempt is not the last.
* **Orders: one, or two for cancel-all.**  Only a cancel-all relates two rows.  `MaxPlacements` is one
  more than the faults can cause, so it never hides a placement.
* **Terminal: one order, two fetches, three effect runs, three writes.**  A run before the order, one
  while it is pending and one after it; two fetches can overtake each other.  Two publications under way
  are the fewest that change places.  A third write follows two that differ in what was told.  EXPIRED
  stands for every status that is published (it is closed, an outcome, and ends a ticket),
  CANCEL_REQUESTED for every one that is not (it is open); the proofs take any set of either.  One incident: a lost publication, a broken socket, a failed call or
  token, or a fetch the user asks for.
* **Order entry: two markets, two versions, two runs, prices {2, 4}, quantities {4, 6}.**  One market has
  a NOTIONAL that comes to bind market orders and gains a MARKET_LOT_SIZE, the other a MIN_NOTIONAL and a
  coarser step; each check is met and missed by some order.  Two amounts print with
  an exponent (`Exponential`), one quote amount is text the contract refuses, and one LOT_SIZE has no
  step.
* **Account: two sockets, two requests, two trades, three of both together** (`MaxLoad`), one fault: two
  overlapping fills, two overlapping requests, and each with one of the other.
* **Rows of sessions: three**, a family rotated twice or two families.  `Room` keeps a row for each call
  that may create one, so no handler is stopped half way by the bound.  The proofs cover all sizes.
* **`MaxClaims` = 3** references held or asked for: two pages and one subscription too many.
  **Three entries**: one registered, its predecessor still closing, and one more before that.
* **Faults: one or two.**  A fault is a crash, a failed call or a lost reply; two of them let one strike
  the recovery from the other.  Market streams have no bound on faults.

Deadlock is checked in the stream runs and the market run.  The other runs turn it off: their
requests, placements, trades or rows are bounded, so a behaviour ends when they are used up.

### Fairness

* **Instances, handlers.**  Weak fairness of `Step`, `RequestStep`, `WorkerStep` and taking a command:
  Node runs every continuation, each call answers, fails or times out, and `docker-compose.deploy.yml`
  restarts services unless stopped.  Not of faults, users, Binance or its reports.
* **`BecomeIdle`.**  A pending entry gets older than `claimIdleMs`.
* **`ReconcileStep`.**  `startReconciliationWorker` runs a cycle every `intervalMs`.
* **Account.**  Two conjuncts: a publication returns or fails, the timer of a request fires, and the page
  takes its answer; a subscription is acknowledged or refused and a reconnect timer fires.  Answers of
  the execution service are not assumed.
* **Market streams.**  Posts arrive or fail, snapshots settle either way before the stream is started,
  the 1500 ms timer fires, and the `ws` library ends a closing handshake after 30 s.  Sockets may drop
  at any time and need not; pages owe nothing.

Terminal and order entry state no liveness: a user need not act, and a page with no news stays as it is.

## 4. What is proved

`tlapm` proves every safety property of every run, and that each family keeps its types, for every
value of the constants.  The assumptions are those the specifications name:

* numbers are natural; `ReadCount`, `MaxAttempts`, `MaxInsts`, `MaxVersions` and `MaxRuns` are positive;
* the sets whose members are counted are finite (instances, workers, requests, pages, sockets, slots,
  orders of the terminal), and stand-ins such as `NoTab` or `NoEntry` are no members;
* the sets a run chooses from hold nothing the code has not: request types, outcomes at Binance,
  updates of a row;
* a form with a quote amount is a market order whose amount is posted as text, of any format, and all
  other forms post numbers (`QuoteAssumption`), as `placeOrder` does;
* what writers write is among the statuses the code writes, split into those it publishes and those it
  does not (`AnnouncedAssumption`, `UnannouncedAssumption`).

The arguments, module by module.  None of the properties is inductive as it stands, but where it says so.

* **`CommandStreamProofs`.**  `SettledBeforeRetired`, `DeadLetterJustified`, and `Implementation`, that the
  safety part of `CommandDelivery` is implemented: an instance about to acknowledge must know that its
  command succeeded or is a dead letter.  `Inv` adds what an instance knows at each `pc`
  (`KnowledgeOf`) and the order of the marks on the stream; what it knows is stable because others
  only make the counters grow (`Grows`).  `RedeliveryBounded` and `ExecutionsBounded` count the instances
  that hold an entry (`Bounded`): once it was delivered `MaxAttempts` times, an instance lets go of it
  only by retiring it or in a fault, so each delivery after that is of an instance that still holds
  it or was paid for with a fault.
* **`OrderLifecycleProofs`.**  `PlacementsAccounted`, `ClosedRowsAreTrue`, `RejectedIsNotOpen`,
  `NobodyForgotten`.  Handlers write rows without a lock, so `Inv` says what each of them knows between
  its steps: where its command comes from (`Shape`), and what Binance has done (`Truth`: a status it is
  about to write is, or was, that of a placement).  Binance only adds placements and never reopens
  one (`Grows`), so this knowledge is stable.  `Counts` has the placements of an order that is not
  linked paid for by handlers yet to record them and by `lost`; `Alone` says that with one instance
  nobody places an order while its submit is refused; `Minded` finds for each row that waits a
  request that will append, an entry, a handler or the worker that will move it on, or a drop.
* **`TerminalProofs`.**  `OneSocket` and `KeptUp`: a run before the current one is over, unless it leaked
  while it waited for its token, and a later one has not begun.  Every step of a row is `Quiet` (nothing is
  sent) or `Loud` (one message of its last write is), and either only adds writes (`Grown`), whatever
  their statuses.  `NewsDoesNotRegress`: nothing that is shown, travels or was read is newer than the row
  (`Behind`), and while nothing changes places and there is one socket, what is to come is at least as
  new as what came (`InOrder`).  The theorem is about writes, not about the life of an order: a page does
  go from FILLED back to SUBMITTED when the row did.  `TicketIsReleased`: the news that releases a
  ticket is under way until the ticket is free or the news was unheard (`TicketKnown`).
  `ShownIsCurrent`: for an order the page has heard of, the news that was due came or is under way
  (`Newest`); for one it shows, that or a fetch will tell (`Known`); one that exists is listed or will be
  (`Fetched`), and one that is open is listed as open, will be, or was reopened (`Opened`).
* **`OrderEntryProofs`.**  `ShapesAgree`: the list of filters and their digest break the same rules, for
  every order, symbol and price.  From it `ExecutionAgrees`; from what the backend's contract
  established and every later stage keeps, `EntriesComeThrough` (its part on parameters is the one with
  content: the contract's types and the client's must agree; that no entry is a dead letter follows from
  both ends using one parser); and `OwnFilters`, as `symbolInfo` is only
  set by the current run, whose market is the one chosen.  `PostedAsTyped` follows each quantity from
  the field through the answers of lookups to the order (`Accounted`), since rounding down twice is
  still rounding down.  `BackendAgrees` carries to the refusal what the form established (`FromForm`)
  and that the rules broken are the backend's verdict (`Refused`); then each rule is compared, and the
  contract's with the numbers and texts in `Unchecked`.
* **`AccountProofs`.**  `OneStream`, inductive together with the types, as `Start` looks at the registry
  and `Close` clears it in one step.  `PositionIsSumOfFills`: until the slip "fill" at most one handler
  is at work, the position lags by exactly its trade, and what it has read is current (`Summed`).
  `OthersAreUnharmed`, from `Blameless`: until a publication slipped, no promise is an orphan and none
  is rejected unawaited, which is the only way to end the process.  `AnswersDoNotRegress`, from
  `Fresh`: what is under way for a request that is still alone is at most as new as Binance and at
  least as new as what the page shows.
* **`BrowserSessionsProofs`.**  `RotatedOnce`, `OneLiveSession`: a row claimed by a transaction stays live
  until its commit, since every other writer waits for the lock; no two transactions have claimed one
  row, a family has at most one row that was not rotated, and no token is known before its row.
  `ReuseNeedsDisturbance`, `CookieIsNewest` and `LogoutEndsFamily` hold together (`Calm`): an undisturbed
  family has at most one call about it (`OneAbout`), which finds its row as it left it
  (`Undisturbed`), and a token on its way to the browser is known to nobody else (`AnswersSecret`).
* **`SessionChainProofs`.**  `SessionsImplementChain`: with the live session of a family as its head,
  each step starts a family, advances its head, ends it or stutters.
* **`MarketStreamsProofs`.**  The four safety properties of the run.  `Inv` is their conjunction with
  the types and the bound on `Claims`; `CountsFollow` says when the two comparisons of pages with
  references survive a step that no page takes, and a step of a page adds or removes one member of
  `Watchers`.

Only model-checked is liveness: `EventuallyRetired`, `ClosingIsRecorded`, `WatchersAreServed`, `CallsEnd`,
`StreamReturns`, and the fairness of `CommandDelivery`.  Their fairness needs ENABLED, which the prover
does not treat.

## 5. Where code and documents differ

Two runs show a behaviour that a document denies:

* `order_idempotent`: a submit redelivered after its handler died between the call to Binance and the
  update of the row places the order again.  `PlacementsAccounted` says how often that can happen.
* `order_reconciled`: `CANCEL_REJECTED` is open for the backend but not among the reconciled statuses,
  so such a row never learns that its order was filled.

Met while modelling, and in the models, without a run of their own:

* A dead letter's `attempts` counts deliveries (`redis-stream-contracts.md:174` says attempts), so an
  entry claimed in a batch and not yet handled counts as tried.
* DELETE `/orders/:id` writes `CANCEL_REQUESTED` by id over a row that was filled after it was read.
* The event service ends when a promise of `requestAccountInfo` or `requestSymbolInfo` is rejected
  before it is awaited; the execution service when the upsert of a position or a publication fails.
  Both are started again.  This is what the slips of `Account` stand for.
* Two overlapping fills of one symbol read the same position row and write it one after the other.
* A socket run that was cancelled while it waited for its token opens its socket all the same (the slip
  "leaked"); the page then hears its news twice.
* An answer of the symbol-info lookup overwrites a quantity typed while it was on its way, and a lookup
  that fails blocks the form until another market is chosen.
* The form does not look at the largest quantity, the price's bounds, MARKET_LOT_SIZE and, for some
  orders, the notional; it sends numbers below 1e-6 or from 1e21 on, which arrive with an exponent, and
  quote texts such as .5, 12., 05 or 1e2, and the contract refuses both.  `Unchecked` lists all of it, and `BackendAgrees` says that there is nothing else.
* Several writes of a row are never published, and a late one may take a closed row back: what a
  settled page shows of an order is then the last write that was published, until the next fetch
  (`ShownIsCurrent` promises no more), and a closed order that was written open again is missing from a
  page's list of open orders.
* A market order is checked against MARKET_LOT_SIZE alone where there is one.
* The market-stream properties hold with their excuses, which are behaviours of the code: a chart's
  socket is not reopened when Binance closes it; a chart that retries subscribes more often than it
  unsubscribes; an unsubscription that overtakes its snapshot leaves a stream nobody reads; and the
  close event of a slow predecessor unregisters its successor.

Met while reading, and abstracted by the models:

* A pushed balance update holds only the assets that changed, and the page replaces all balances by it.
* A SELL that closes a position deletes its row, and the profit realized with it.
* The execution report of a cancel made through the API carries the cancel's own client order id, so it
  is taken for an order of its own.
* The user stream maps NEW to PARTIALLY_FILLED where the other two mappings say SUBMITTED.
* The account cache ignores which assets were asked for, and the validator's limits on open orders and
  positions never get the context they need.
* `roundToStep` adds an epsilon that eight decimals can swallow: 0.29 becomes 0.28.
* `groupReady` is never reset, so after a loss of Redis' data the consumer fails until it is restarted.

## 6. Not modelled

* **Average price and profit of positions, fees, the contents of `OrderEvent`**: data no handler
  branches on.
* **Statuses of Binance the code does not name**, such as EXPIRED_IN_MATCH: the mappings' default makes
  them open (SUBMITTED, or PARTIALLY_FILLED from the user stream), so such a row would be looked up for
  ever.
* **The contracts of broadcast events** (`broadcastContracts.js`, `realtimeEventContracts.js`): what they
  refuse is not sent, which is a publication lost.
* **Market board**: one socket that is always reopened, with no other state.
* **Signing and transport of the Binance client, encryption, configuration, logging**: functions of one
  request.
* **Login, registration, logout and landing pages; layout, charts and themes**: presentation.
* **The pub/sub command channel**: disabled by default; it feeds the same handlers without
  acknowledgement.
* **Smoke scripts and deployment**, but for the restart policy that fairness relies on.
* **Loss of Redis or PostgreSQL data.**

## 7. Plan

Done, in this order because orders are what the system is for: the command stream and its abstract
specification; the life of an order; sessions with theirs; market streams; the account with positions,
user stream and requests; the terminal with the broadcast; order entry with the filters.

Left:

1. An abstract specification of the life of an order, which is `OrderLifecycle` without the handlers,
   and of a position, whose refinements would sum up what `Truth`, `Counts` and `Summed` establish.
2. Two instances of the execution service in `order_one`, which is at the limit of what TLC checks in
   the time a run may take; the proofs cover any number.
