------------------------------- MODULE OrderEntry -------------------------------
(***************************************************************************)
(* What every check between the form and Binance says of one order: the    *)
(* backend's contract and filters, the contract of the stream entry, the   *)
(* filters once more in the execution service, and the parameters of the   *)
(* call.  Each service has its own copy of the filters and its own idea of *)
(* the market's price, which moves, and which one of them caches: it is    *)
(* open at every use.                                                      *)
(*                                                                         *)
(* Abstractions.  The order reaches each service once (the stream and the  *)
(* rows are CommandStream's and OrderLifecycle's).  What Binance says of   *)
(* it is open.                                                             *)
(***************************************************************************)
EXTENDS OrderForm

vars == <<page, caches, order>>

Goes(stage) == order' = [order EXCEPT !.stage = stage]
Ends(stage, broken) == order' = [order EXCEPT !.stage = stage, !.broken = broken]

------------------------------------------------------------------------------
(* Binance and the caches                                                  *)

FiltersChange ==
    /\ version < MaxVersions
    /\ version' = version + 1
    /\ UNCHANGED <<page, gatewayCache, executionCache, order, backendCache>>

------------------------------------------------------------------------------
(* the backend                                                             *)

\* Another client of the API posts an order.
ApiSubmit(asks) ==
    /\ order.stage = "none"
    /\ order' = NewOrder(asks, NoInfo, 0, {})
    /\ UNCHANGED <<page, caches>>

\* The draft and its stream entry are made, or the request is refused.
Draft ==
    /\ order.stage = "sent"
    /\ IF RequestFieldsOk(order.asks) /\ SubmitCommandOk(order.asks, Exponential)
       THEN Goes("drafted")
       ELSE Ends("refused", {<<"contract", "">>})
    /\ UNCHANGED <<page, caches>>

\* getSymbolInfo of the backend.
BackendFilters ==
    /\ order.stage = "drafted"
    /\ \E v \in Cached(backendCache, order.symbol) :
          /\ backendCache' = [backendCache EXCEPT ![order.symbol] = v]
          /\ order' = [order EXCEPT !.stage = "filters", !.backend = v]
    /\ UNCHANGED <<page, version, gatewayCache, executionCache>>

\* getAveragePrice: what it costs on average, if the order needs it.
Averages == IF NeedsAveragePrice(order.asks) THEN Prices ELSE {0}

\* The verdict; an order that passes is stored and appended.
BackendJudges ==
    /\ order.stage = "filters"
    /\ \E reference \in Averages :
          LET broken == Violations(order.asks, FromList(FiltersAt(order.symbol, order.backend)), reference)
          IN  order' = [order EXCEPT
                  !.stage = IF broken = {} THEN "accepted" ELSE "refused",
                  !.references.backend = reference, !.broken = broken]
    /\ UNCHANGED <<page, caches>>

\* Binance does not answer: 503.
BackendFails ==
    /\ order.stage = "drafted" \/ (order.stage = "filters" /\ NeedsAveragePrice(order.asks))
    /\ Ends("unavailable", {})
    /\ UNCHANGED <<page, caches>>

------------------------------------------------------------------------------
(* the execution service                                                   *)

\* parseOrderSubmitStreamEntry; what does not parse is a dead letter.
TakeEntry ==
    /\ order.stage = "accepted"
    /\ IF SubmitCommandOk(order.asks, Exponential) THEN Goes("taken") ELSE Goes("dead")
    /\ UNCHANGED <<page, caches>>

\* getSymbolInfo of the execution service, in validateOrderBeforeSubmit.
ExecutionFilters ==
    /\ order.stage = "taken"
    /\ \E v \in Cached(executionCache, order.symbol) :
          /\ executionCache' = [executionCache EXCEPT ![order.symbol] = v]
          /\ order' = [order EXCEPT !.stage = "checking", !.execution = v]
    /\ UNCHANGED <<page, version, gatewayCache, backendCache>>

\* The verdict, with a price of its own.
ExecutionJudges ==
    /\ order.stage = "checking"
    /\ \E reference \in Averages :
          LET broken == Violations(order.asks, FromDigest(FiltersAt(order.symbol, order.execution)), reference)
          IN  order' = [order EXCEPT
                  !.stage = IF broken = {} THEN "checked" ELSE "rejected",
                  !.references.execution = reference, !.broken = broken]
    /\ UNCHANGED <<page, caches>>

\* The filters or the price cannot be fetched.
ExecutionFails ==
    /\ order.stage = "taken" \/ (order.stage = "checking" /\ NeedsAveragePrice(order.asks))
    /\ Ends("rejected", {})
    /\ UNCHANGED <<page, caches>>

\* The call: its parameters are built, and Binance takes the order or not.
Place ==
    /\ order.stage = "checked"
    /\ IF RequestParamsOk(order.asks)
       THEN Goes("placed") \/ Ends("rejected", {<<"exchange", "">>})
       ELSE Ends("rejected", {<<"parameters", "">>})
    /\ UNCHANGED <<page, caches>>

ServiceStep ==
    \/ FiltersChange
    \/ \E asks \in ApiOrders : ApiSubmit(asks)
    \/ Draft \/ BackendFilters \/ BackendJudges \/ BackendFails
    \/ TakeEntry \/ ExecutionFilters \/ ExecutionJudges \/ ExecutionFails
    \/ Place

------------------------------------------------------------------------------

\* The page is loaded with a market chosen and a quantity in the form.
Init ==
    /\ version = 1
    /\ gatewayCache = [s \in Symbols |-> 1]
    /\ executionCache = [s \in Symbols |-> 1]
    /\ backendCache = [s \in Symbols |-> 1]
    /\ form \in Forms
    /\ symbol \in Symbols
    /\ info = NoInfo /\ infoStatus = "loading"
    /\ qty \in Quantities /\ typed = qty
    /\ run = 1
    /\ lookup = [n \in Runs |-> IF n = 1
          THEN [stage |-> "asked", symbol |-> symbol, qty |-> qty, version |-> 0] ELSE NoLookup]
    /\ order = NoOrder
    /\ slips = {}

Next == PageStep \/ ServiceStep

Spec == Init /\ [][Next]_vars

------------------------------------------------------------------------------
(* properties                                                              *)

Stages == {"sent", "drafted", "filters", "accepted", "refused", "unavailable", "taken",
           "dead", "checking", "checked", "rejected", "placed"}

Orders == [stage : Stages, asks : Asks, filled : Asks, typed : Nat, symbol : Symbols,
           info : [symbol : Symbols \union {NoSymbol}, version : Versions \union {0}], seen : Nat,
           slips : SUBSET {"short", "overwritten"}, backend : Versions \union {0},
           execution : Versions \union {0}, references : [backend : Nat, execution : Nat],
           broken : SUBSET ({"quantity", "price", "stopPrice", "notional", "contract",
                             "exchange", "parameters"} \X {"", "MIN", "MAX", "STEP"})]

TypeOK ==
    /\ version \in Versions
    /\ {gatewayCache, executionCache, backendCache} \subseteq [Symbols -> Versions]
    /\ form \in Forms /\ symbol \in Symbols /\ run \in Runs /\ {qty, typed} \subseteq Nat
    /\ info = NoInfo \/ info \in [symbol : Symbols, version : Versions]
    /\ infoStatus \in {"loading", "ready", "error"}
    /\ lookup \in [Runs -> {NoLookup} \union
          [stage : {"asked", "answered", "failed"}, symbol : Symbols, qty : Nat,
           version : Versions \union {0}]]
    /\ slips \subseteq {"short", "overwritten"}
    /\ order = NoOrder \/ order \in Orders

FromPage == order.stage # "none" /\ order.info # NoInfo

\* An order is never for more than the user asked for.  It is for less only
\* where a step of some market cut it, or the rounding lost a step; and the
\* one way to another quantity is an answer that overwrites what was typed
\* while it was on its way.
PostedAsTyped ==
    FromPage /\ order.asks.quoteOrderQty = 0 /\ "overwritten" \notin order.slips =>
        LET posted == order.asks.quantity
            cut == \E s \in Symbols, v \in Versions :
                      FiltersAt(s, v).lot.step > 0 /\ order.typed % FiltersAt(s, v).lot.step # 0
        IN  posted <= order.typed /\ (posted = order.typed \/ cut \/ "short" \in order.slips)

\* However quickly the user changes markets, an order is checked and rounded
\* with the filters of its own market.
OwnFilters == FromPage => order.info.symbol = order.symbol

\* What the form does not look at: the largest quantity, the price's bounds,
\* MARKET_LOT_SIZE, and for some orders a notional limit, or the price that
\* the backend computes it with; it also sends a text that is not of plain
\* digits, and numbers that are not printed so, which a contract refuses.
Unchecked ==
    LET o == order.asks
        f == FiltersAt(order.symbol, order.info.version)
        toMarket == o.type = "MARKET"
        paged == IF o.type \in LimitPriceTypes THEN o.price
                 ELSE IF o.type \in StopPriceTypes THEN o.stopPrice ELSE order.seen
        blind == f.minNotional.min > 0 /\ (toMarket \/ f.notional.min > 0 \/ f.notional.max > 0)
    IN  {<<"quantity", "MAX">>}
        \union {"price", "stopPrice"} \X {"MIN", "MAX"}
        \union (IF toMarket /\ QuantityFilter(o.type, f) # f.lot THEN {"quantity"} \X {"MIN", "STEP"} ELSE {})
        \union (IF blind \/ NotionalPrice(o, order.references.backend) # paged
                THEN {"notional"} \X {"MIN", "MAX"} ELSE {})
        \union (IF o.format = "odd" \/ {o.quantity, o.price, o.stopPrice} \intersect Exponential # {}
                THEN {<<"contract", "">>} ELSE {})

\* An order that the form passes, and posts as it was checked, is refused by a
\* backend with the same filters only for what the form does not look at.
BackendAgrees ==
    /\ FromPage /\ order.stage = "refused" /\ order.asks = order.filled
    /\ order.backend \in {0, order.info.version}
    => order.broken \subseteq Unchecked

\* The list the backend judges by and the digest the execution service judges
\* by say the same: an order the backend let through is stopped by the
\* filters only when these have changed in between, or the price has.
ExecutionAgrees ==
    order.stage = "rejected" /\ order.broken \intersect
          ({"quantity", "price", "stopPrice", "notional"} \X {"MIN", "MAX", "STEP"}) # {}
    => order.execution # order.backend \/ order.references.execution # order.references.backend

\* What the backend appends can be executed: no entry is a dead letter, and the
\* call has the parameters its type needs.
EntriesComeThrough ==
    order.stage # "dead" /\ <<"parameters", "">> \notin order.broken

================================================================================
