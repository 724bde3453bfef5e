-------------------------------- MODULE OrderForm --------------------------------
(***************************************************************************)
(* The order form of the trading page and the filters it checks with: each *)
(* choice of a market runs an effect that looks its filters up through the *)
(* event service, whose cache, the execution service's cache and Binance   *)
(* answer in turn.  OrderEntry adds what happens to the order.             *)
(*                                                                         *)
(* Abstractions.  Binance's filters change together, so they are numbered. *)
(* An entry of a cache may turn out too old whenever it is used.  Balances *)
(* are taken to suffice; fields but for the quantity are typed before, and *)
(* the user waits for an order that is under way.                          *)
(***************************************************************************)
EXTENDS OrderFilters, FiniteSets

CONSTANTS
    Symbols,         \* markets
    MaxVersions,     \* bound on the changes of Binance's filters
    FilterTable,     \* the filters of each market in each version
    Prices,          \* prices of a market
    Forms,           \* the fields of the form but for the quantity
    Quantities,      \* quantities a user types
    ApiOrders,       \* orders other clients of the API send
    MaxRuns,         \* bound on the runs of the symbol-info effect
    Exponential,     \* numbers that are printed with an exponent: below 1e-6, from 1e21
    NoSymbol         \* symbolInfo is null

Versions == 1..MaxVersions

ASSUME FormAssumption ==
    /\ MaxVersions \in Nat \ {0} /\ MaxRuns \in Nat \ {0} /\ Exponential \subseteq Nat
    /\ FilterTable \in [Symbols -> [Versions -> Filters]]
    /\ Prices \subseteq Nat \ {0} /\ Quantities \subseteq Nat \ {0}
    /\ Forms \union ApiOrders \subseteq Asks
    /\ NoSymbol \notin Symbols

\* The form sizes only market orders by quote, and sends that amount as the
\* text that was typed; all others it sends as numbers.
ASSUME QuoteAssumption ==
    \A f \in Forms :
        IF f.quoteOrderQty > 0 THEN f.type = "MARKET" /\ f.format # "numbers"
        ELSE f.format = "numbers"

VARIABLES
    version,         \* of the filters at Binance
    gatewayCache,    \* event service: the version of each market's filters
    executionCache,  \* execution service: symbolInfoCache
    backendCache,    \* backend: the same
    form,            \* the fields of the form but for the quantity
    symbol,          \* selectedSymbol
    info,            \* symbolInfo: its market and its version
    infoStatus,      \* symbolInfoStatus
    qty,             \* the quantity in the form
    typed,           \* history: the quantity the user last asked for
    run,             \* the current run of the symbol-info effect
    lookup,          \* the fetch of each run, with the quantity it captured
    order,           \* the order under way, and where it is
    slips            \* history: what has changed the quantity unasked since

page == <<form, symbol, info, infoStatus, qty, typed, run, lookup, slips>>
caches == <<version, gatewayCache, executionCache, backendCache>>

Runs == 1..MaxRuns
NoInfo == [symbol |-> NoSymbol, version |-> 0]
NoLookup == [stage |-> "none", symbol |-> NoSymbol, qty |-> 0, version |-> 0]

FiltersAt(s, v) == FilterTable[s][v]

\* The form as it stands.
Filled == [form EXCEPT !.quantity = IF form.quoteOrderQty > 0 THEN 0 ELSE qty]

------------------------------------------------------------------------------
(* the filters of the market                                               *)

\* The version an answer carries: what is cached, or what is current, if the
\* entry is too old by now.
Cached(cache, s) == {cache[s], version}

\* GET /symbol-info is answered, from the first cache that knows; an answer
\* that is too late for the request still fills the caches.
AnswerLookup(n) ==
    /\ lookup[n].stage = "asked"
    /\ LET s == lookup[n].symbol
           Answer(v, stage) == /\ lookup' = [lookup EXCEPT ![n].stage = stage, ![n].version = v]
                               /\ gatewayCache' = [gatewayCache EXCEPT ![s] = v]
       IN  \/ Answer(gatewayCache[s], "answered") /\ UNCHANGED executionCache
           \/ \E v \in Cached(executionCache, s), stage \in {"answered", "failed"} :
                 Answer(v, stage) /\ executionCache' = [executionCache EXCEPT ![s] = v]
    /\ UNCHANGED <<version, backendCache, form, symbol, info, infoStatus, qty, typed, run, slips, order>>

\* It fails: Binance or the execution service does not answer in time.
LookupFails(n) ==
    /\ lookup[n].stage = "asked"
    /\ lookup' = [lookup EXCEPT ![n].stage = "failed"]
    /\ UNCHANGED <<caches, form, symbol, info, infoStatus, qty, typed, run, slips, order>>

\* Mutant: the effect does not notice that another run has taken over.
CurrentAlways(n) == TRUE

\* The run has not been cancelled by the next one.
Current(n) == n = run

\* Rounding lost more than it should.
Lost(from, step, to) == IF step > 0 /\ to # RoundedDown(from, step) THEN {"short"} ELSE {}

\* The answer reaches the page, which rounds the quantity that its effect has
\* captured and puts it in the form; without a step it leaves the form alone.
Arrive(n) ==
    /\ lookup[n].stage = "answered"
    /\ lookup' = [lookup EXCEPT ![n] = NoLookup]
    /\ LET step == FiltersAt(lookup[n].symbol, lookup[n].version).lot.step
           captured == lookup[n].qty
       IN  IF Current(n)
           THEN /\ info' = [symbol |-> lookup[n].symbol, version |-> lookup[n].version]
                /\ infoStatus' = "ready"
                /\ IF step = 0 THEN UNCHANGED <<qty, slips>>
                   ELSE /\ qty' \in Snapped(captured, step)
                        /\ slips' = slips \union Lost(captured, step, qty')
                               \union (IF captured # qty THEN {"overwritten"} ELSE {})
           ELSE UNCHANGED <<info, infoStatus, qty, slips>>
    /\ UNCHANGED <<caches, form, symbol, typed, run, order>>

ArriveFailed(n) ==
    /\ lookup[n].stage = "failed"
    /\ lookup' = [lookup EXCEPT ![n] = NoLookup]
    /\ IF Current(n)
       THEN info' = NoInfo /\ infoStatus' = "error"
       ELSE UNCHANGED <<info, infoStatus>>
    /\ UNCHANGED <<caches, form, symbol, qty, typed, run, slips, order>>

\* The user chooses a market: the effect of the old one is cancelled, and a
\* new run captures the quantity in the form.
SelectSymbol(s) ==
    /\ s # symbol /\ run < MaxRuns /\ order.stage = "none"
    /\ symbol' = s
    /\ run' = run + 1
    /\ infoStatus' = "loading"
    /\ lookup' = [lookup EXCEPT ![run + 1] =
          [stage |-> "asked", symbol |-> s, qty |-> qty, version |-> 0]]
    /\ UNCHANGED <<caches, form, info, qty, typed, slips, order>>

------------------------------------------------------------------------------
(* the quantity                                                            *)

Type(q) ==
    /\ order.stage = "none"
    /\ qty' = q /\ typed' = q /\ slips' = {}
    /\ UNCHANGED <<caches, form, symbol, info, infoStatus, run, lookup, order>>

\* A percentage of the balance, rounded with whatever filters are there.
PercentSize(q) ==
    /\ order.stage = "none"
    /\ qty' \in IF info = NoInfo THEN {q}
                ELSE Snapped(q, FiltersAt(info.symbol, info.version).lot.step)
    /\ qty' > 0
    /\ typed' = qty' /\ slips' = {}
    /\ UNCHANGED <<caches, form, symbol, info, infoStatus, run, lookup, order>>

\* Mutant: the form may be sent while the filters of a market are loading.
MaySubmitLoading == info # NoInfo

\* No blockingReasonForSubmit.
MaySubmit == infoStatus = "ready"

\* An order from the page (info # NoInfo), with what it was made from, and
\* what each service found.
NewOrder(asks, from, seen, lost) ==
    [stage |-> "sent", asks |-> asks, filled |-> Filled, typed |-> typed, symbol |-> symbol,
     info |-> from, seen |-> seen, slips |-> slips \union lost, backend |-> 0, execution |-> 0,
     references |-> [backend |-> 0, execution |-> 0], broken |-> {}]

NoOrder == [stage |-> "none", info |-> NoInfo, broken |-> {}]

\* placeOrder: the form is checked as typed, its amounts are rounded, and the
\* order is sent.  seen is the last price the page heard.
Submit(seen) ==
    /\ order.stage = "none"
    /\ MaySubmit
    /\ LET f == FiltersAt(info.symbol, info.version)
       IN  /\ FormOk(Filled, f, seen)
           /\ \E q \in Snapped(Filled.quantity, f.lot.step),
                 p \in Snapped(form.price, f.price.step),
                 sp \in Snapped(form.stopPrice, f.price.step) :
                 order' = NewOrder([Filled EXCEPT !.quantity = q, !.price = p, !.stopPrice = sp], info, seen,
                     Lost(Filled.quantity, f.lot.step, q) \union Lost(form.price, f.price.step, p)
                     \union Lost(form.stopPrice, f.price.step, sp))
    /\ UNCHANGED <<caches, page>>

PageStep ==
    \/ \E n \in Runs : AnswerLookup(n) \/ LookupFails(n) \/ Arrive(n) \/ ArriveFailed(n)
    \/ \E s \in Symbols : SelectSymbol(s)
    \/ \E q \in Quantities : Type(q) \/ PercentSize(q)
    \/ \E seen \in Prices \union {0} : Submit(seen)

================================================================================
