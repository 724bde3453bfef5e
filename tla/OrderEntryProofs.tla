---------------------------- MODULE OrderEntryProofs ----------------------------
(***************************************************************************)
(* Proofs about OrderEntry, for any markets, filters, prices and orders:   *)
(* types; that the list and the digest of a symbol's filters judge alike,  *)
(* and so do the two services; that an order is checked with the filters   *)
(* of its market; that what is appended can be executed; that a quantity   *)
(* is posted as typed, but for cuts that are accounted for; and that the   *)
(* backend refuses only what the form does not look at.                    *)
(*                                                                         *)
(* Each fact about an order is established at one check and carried along, *)
(* as the stages after it change nothing that it speaks of.                *)
(***************************************************************************)
EXTENDS OrderEntry, TLAPS

USE FormAssumption

------------------------------------------------------------------------------
(* the list and the digest                                                 *)

\* A notional is too small or too large for both or for neither.
LEMMA NotionalsAgree ==
    ASSUME NEW f \in Filters, NEW o, NEW reference, Notional(o, reference) \in Nat
    PROVE  NotionalOutside(o, FromDigest(f), reference) = NotionalOutside(o, FromList(f), reference)
<1> DEFINE d == FromDigest(f)
           market == o.type \in MarketNotionalTypes
           worth == Notional(o, reference)
<1>1. /\ f.minNotional.min \in Nat /\ f.notional.min \in Nat /\ f.notional.max \in Nat
      /\ f.minNotional \in [min : Nat, applyToMarket : BOOLEAN]
      /\ f.notional \in [min : Nat, max : Nat, minToMarket : BOOLEAN, maxToMarket : BOOLEAN]
  BY DEF Filters
<1>2. /\ d.minNotional = IF f.minNotional.min > 0 THEN f.minNotional
                         ELSE [min |-> NotionalDigest(f).min, applyToMarket |-> FALSE]
      /\ d.notional = IF f.notional.min > 0 \/ f.notional.max > 0 THEN f.notional
                      ELSE NotionalDigest(f)
  BY DEF FromDigest, Filters
<1>3. \/ worth < d.minNotional.min /\ (market => d.minNotional.applyToMarket)
      \/ worth < d.notional.min /\ (market => d.notional.minToMarket)
      <=>
      \/ worth < f.minNotional.min /\ (market => f.minNotional.applyToMarket)
      \/ worth < f.notional.min /\ (market => f.notional.minToMarket)
  BY <1>1, <1>2 DEF NotionalDigest
<1>4. /\ d.notional.max > 0 /\ worth > d.notional.max /\ (market => d.notional.maxToMarket)
      <=>
      /\ f.notional.max > 0 /\ worth > f.notional.max /\ (market => f.notional.maxToMarket)
  BY <1>1, <1>2 DEF NotionalDigest
<1> QED  BY <1>3, <1>4 DEF NotionalOutside, FromList

\* Everything an order is refused for with the one, it is refused for with the
\* other.
LEMMA ShapesAgree ==
    ASSUME NEW f \in Filters, NEW o, NEW reference, Notional(o, reference) \in Nat
    PROVE  Violations(o, FromDigest(f), reference) = Violations(o, FromList(f), reference)
<1>1. /\ FromDigest(f).lot = f.lot /\ FromDigest(f).marketLot = f.marketLot
      /\ FromDigest(f).price = f.price
  BY DEF FromDigest, Filters
<1>2. QuantityFilter(o.type, FromDigest(f)) = QuantityFilter(o.type, f)
  BY <1>1 DEF QuantityFilter
<1>3. FromList(f) = f
  BY DEF FromList
<1> QED  BY <1>1, <1>2, <1>3, NotionalsAgree DEF Violations

\* A violation is of an amount; no contract is among them.
LEMMA ViolationsAreOfAmounts ==
    ASSUME NEW o, NEW f, NEW reference
    PROVE  Violations(o, f, reference) \subseteq
             {"quantity", "price", "stopPrice", "notional"} \X {"MIN", "MAX", "STEP"}
BY DEF Violations, Outside, NotionalOutside

------------------------------------------------------------------------------
(* types                                                                   *)

Looked == [stage : {"asked", "answered", "failed"}, symbol : Symbols, qty : Nat,
           version : Versions \union {0}]

\* What an answered lookup says, and what a form that may be sent was checked
\* with, is about a market; only the current run is about the chosen one.
LookupsOk ==
    /\ \A n \in Runs : lookup[n].stage = "answered" => lookup[n].version \in Versions
    /\ \A n \in Runs : n > run => lookup[n] = NoLookup
    /\ lookup[run] # NoLookup => lookup[run].symbol = symbol
    /\ infoStatus = "ready" => info # NoInfo /\ info.symbol = symbol

\* Rounding a natural number leaves one.
LEMMA SnappedTyped ==
    ASSUME NEW amount \in Nat, NEW step \in Nat, NEW q \in Snapped(amount, step)
    PROVE  q \in Nat
<1>1. ASSUME NEW a \in Nat, step > 0 PROVE RoundedDown(a, step) \in Nat
  <2>1. a \div step \in Nat
    BY <1>1
  <2> QED  BY <2>1 DEF RoundedDown
<1>2. CASE step = 0 \/ amount = 0
  BY <1>2 DEF Snapped
<1>3. CASE step # 0 /\ amount # 0
  <2>1. amount - 1 \in Nat /\ step > 0
    BY <1>3
  <2> QED  BY <1>1, <1>3, <2>1 DEF Snapped
<1> QED  BY <1>2, <1>3

\* The filters of a market are filters.
LEMMA FiltersTyped ==
    ASSUME NEW s \in Symbols, NEW v \in Versions
    PROVE  /\ FiltersAt(s, v) \in Filters
           /\ FiltersAt(s, v).lot.step \in Nat
           /\ FiltersAt(s, v).price.step \in Nat
<1>1. FiltersAt(s, v) \in Filters
  BY DEF FiltersAt
<1> QED  BY <1>1 DEF Filters, LotFilters

LEMMA FormTyped ==
    ASSUME TypeOK
    PROVE  Filled \in Asks
<1>1. form \in Asks
  BY DEF TypeOK
<1> QED  BY <1>1 DEF TypeOK, Filled, Asks

\* A lookup that an action changes.
LEMMA LookupTyped ==
    ASSUME NEW l \in Looked, NEW stage \in {"asked", "answered", "failed"}
    PROVE  /\ [l EXCEPT !.stage = stage] \in Looked
           /\ \A v \in Versions : [l EXCEPT !.stage = stage, !.version = v] \in Looked
BY DEF Looked

LEMMA InfoTyped ==
    ASSUME TypeOK, info # NoInfo
    PROVE  info.symbol \in Symbols /\ info.version \in Versions
BY DEF TypeOK

\* The lookups of a market's filters.
LEMMA LookupKept ==
    ASSUME TypeOK, LookupsOk, NEW n \in Runs,
           AnswerLookup(n) \/ LookupFails(n) \/ Arrive(n) \/ ArriveFailed(n)
    PROVE  TypeOK' /\ LookupsOk'
<1>0. /\ lookup \in [Runs -> {NoLookup} \union Looked] /\ run \in Runs /\ Runs \subseteq Nat
      /\ lookup[n].stage # "none"
  BY DEF TypeOK, Looked, Runs, AnswerLookup, LookupFails, Arrive, ArriveFailed
<1>1. lookup[n] \in Looked /\ lookup[n] # NoLookup /\ n <= run
  BY <1>0 DEF NoLookup, LookupsOk
<1>2. CASE AnswerLookup(n)
  <2>1. PICK v \in Versions, stage \in {"answered", "failed"} :
          /\ lookup' = [lookup EXCEPT ![n].stage = stage, ![n].version = v]
          /\ gatewayCache' = [gatewayCache EXCEPT ![lookup[n].symbol] = v]
          /\ \/ executionCache' = [executionCache EXCEPT ![lookup[n].symbol] = v]
             \/ UNCHANGED executionCache
    BY <1>1, <1>2 DEF AnswerLookup, Cached, TypeOK, Looked
  <2>2. lookup' = [lookup EXCEPT ![n] = [lookup[n] EXCEPT !.stage = stage, !.version = v]]
    BY <1>0, <2>1
  <2>3. lookup' \in [Runs -> {NoLookup} \union Looked]
    BY <1>0, <1>1, <2>2, LookupTyped
  <2>4. {gatewayCache', executionCache'} \subseteq [Symbols -> Versions]
    BY <1>1, <2>1 DEF TypeOK, Looked
  <2>5. TypeOK'
    BY <1>2, <2>3, <2>4 DEF AnswerLookup, TypeOK, Looked
  <2>6. lookup'[n].symbol = lookup[n].symbol /\ lookup'[n].version = v
    BY <1>0, <1>1, <2>2 DEF Looked
  <2>7. LookupsOk'
    BY <1>0, <1>1, <1>2, <2>2, <2>6 DEF AnswerLookup, LookupsOk
  <2> QED  BY <2>5, <2>7
<1>3. CASE LookupFails(n)
  <2>1. lookup' = [lookup EXCEPT ![n] = [lookup[n] EXCEPT !.stage = "failed"]]
    BY <1>0, <1>3 DEF LookupFails
  <2>2. lookup' \in [Runs -> {NoLookup} \union Looked]
    BY <1>0, <1>1, <2>1, LookupTyped
  <2>3. lookup'[n].symbol = lookup[n].symbol /\ lookup'[n].stage = "failed"
    BY <1>0, <1>1, <2>1 DEF Looked
  <2>4. TypeOK'
    BY <1>3, <2>2 DEF LookupFails, TypeOK, Looked, caches
  <2> QED  BY <1>0, <1>1, <1>3, <2>1, <2>3, <2>4 DEF LookupFails, LookupsOk
<1>4. CASE Arrive(n)
  <2>1. lookup' \in [Runs -> {NoLookup} \union Looked] /\ lookup'[n] = NoLookup
        /\ \A k \in Runs : k # n => lookup'[k] = lookup[k]
    BY <1>0, <1>4 DEF Arrive
  <2>2. CASE ~ Current(n)
    <3>0. UNCHANGED <<caches, form, symbol, info, infoStatus, qty, typed, run, slips, order>>
      BY <1>4, <2>2 DEF Arrive
    <3>1. TypeOK'
      BY <2>1, <3>0 DEF TypeOK, Looked, caches
    <3> QED  BY <1>0, <1>4, <2>1, <2>2, <3>1 DEF Arrive, LookupsOk, NoLookup
  <2>3. CASE Current(n)
    <3>1. lookup[n].symbol \in Symbols /\ lookup[n].version \in Versions /\ lookup[n].qty \in Nat
      BY <1>1, <1>4 DEF Arrive, LookupsOk, Looked
    <3> DEFINE step == FiltersAt(lookup[n].symbol, lookup[n].version).lot.step
    <3>2. qty' \in Nat /\ slips' \subseteq {"short", "overwritten"}
      <4>1. CASE step = 0
        BY <1>4, <2>3, <4>1 DEF Arrive, TypeOK
      <4>2. CASE step # 0
        <5>1. qty' \in Snapped(lookup[n].qty, step)
              /\ slips' = slips \union Lost(lookup[n].qty, step, qty')
                              \union (IF lookup[n].qty # qty THEN {"overwritten"} ELSE {})
          BY <1>4, <2>3, <4>2 DEF Arrive
        <5> QED  BY <3>1, <5>1, FiltersTyped, SnappedTyped DEF TypeOK, Lost
      <4> QED  BY <4>1, <4>2
    <3> HIDE DEF step
    <3>3. info' = [symbol |-> lookup[n].symbol, version |-> lookup[n].version]
          /\ infoStatus' = "ready"
      BY <1>4, <2>3 DEF Arrive
    <3>4. info' \in [symbol : Symbols, version : Versions] /\ info' # NoInfo
      BY <3>1, <3>3 DEF NoInfo
    <3>5. TypeOK'
      BY <1>4, <2>1, <3>2, <3>3, <3>4 DEF Arrive, TypeOK, Looked, caches
    <3>6. lookup[n].symbol = symbol
      BY <1>1, <2>3 DEF LookupsOk, Current
    <3> QED  BY <1>0, <1>4, <2>1, <2>3, <3>3, <3>4, <3>5, <3>6
             DEF Arrive, LookupsOk, NoLookup, Current
  <2> QED  BY <2>2, <2>3
<1>5. CASE ArriveFailed(n)
  <2>1. lookup' \in [Runs -> {NoLookup} \union Looked] /\ lookup'[n] = NoLookup
        /\ \A k \in Runs : k # n => lookup'[k] = lookup[k]
    BY <1>0, <1>5 DEF ArriveFailed
  <2>2. \/ info' = NoInfo /\ infoStatus' = "error"
        \/ UNCHANGED <<info, infoStatus>>
    BY <1>5 DEF ArriveFailed
  <2>3. TypeOK'
    BY <1>5, <2>1, <2>2 DEF ArriveFailed, TypeOK, Looked, caches
  <2> QED  BY <1>0, <1>5, <2>1, <2>2, <2>3 DEF ArriveFailed, LookupsOk, NoLookup
<1> QED  BY <1>2, <1>3, <1>4, <1>5

\* The rest of the form.
LEMMA FormKept ==
    ASSUME TypeOK, LookupsOk,
           \/ \E s \in Symbols : SelectSymbol(s)
           \/ \E q \in Quantities : Type(q) \/ PercentSize(q)
    PROVE  TypeOK' /\ LookupsOk'
<1>0. /\ lookup \in [Runs -> {NoLookup} \union Looked] /\ run \in Runs /\ Runs \subseteq Nat
  BY DEF TypeOK, Looked, Runs
<1>1. ASSUME NEW s \in Symbols, SelectSymbol(s) PROVE TypeOK' /\ LookupsOk'
  <2> DEFINE asked == [stage |-> "asked", symbol |-> s, qty |-> qty, version |-> 0]
  <2>1. run + 1 \in Runs /\ run' = run + 1 /\ run' \in Runs
    BY <1>1 DEF SelectSymbol, TypeOK, Runs
  <2>2. asked \in Looked
    BY DEF TypeOK, Looked
  <2>3. lookup' = [lookup EXCEPT ![run + 1] = asked]
    BY <1>1 DEF SelectSymbol
  <2>4. lookup' \in [Runs -> {NoLookup} \union Looked]
    BY <1>0, <2>1, <2>2, <2>3
  <2>5. TypeOK'
    BY <1>1, <2>1, <2>4 DEF SelectSymbol, TypeOK, Looked, caches
  <2>6. \A k \in Runs : k # run + 1 => lookup'[k] = lookup[k]
    BY <1>0, <2>3
  <2>7. lookup'[run + 1] = asked
    BY <1>0, <2>1, <2>3
  <2> QED  BY <1>0, <1>1, <2>1, <2>5, <2>6, <2>7 DEF SelectSymbol, LookupsOk
<1>2. ASSUME NEW q \in Quantities, Type(q) PROVE TypeOK' /\ LookupsOk'
  BY <1>2 DEF Type, TypeOK, LookupsOk, caches
<1>3. ASSUME NEW q \in Quantities, PercentSize(q) PROVE TypeOK' /\ LookupsOk'
  <2>1. qty' \in Nat
    <3>1. q \in Nat
      OBVIOUS
    <3>2. CASE info = NoInfo
      BY <1>3, <3>1, <3>2 DEF PercentSize
    <3>3. CASE info # NoInfo
      BY <1>3, <3>1, <3>3, InfoTyped, FiltersTyped, SnappedTyped DEF PercentSize
    <3> QED  BY <3>2, <3>3
  <2>2. /\ typed' = qty' /\ slips' = {}
        /\ UNCHANGED <<caches, form, symbol, info, infoStatus, run, lookup, order>>
    BY <1>3 DEF PercentSize
  <2> QED  BY <2>1, <2>2 DEF TypeOK, LookupsOk, caches
<1> QED  BY <1>1, <1>2, <1>3

\* An order as it is made.
LEMMA NewOrderTyped ==
    ASSUME TypeOK, NEW asks \in Asks, NEW from, NEW seen \in Nat,
           NEW lost \in SUBSET {"short", "overwritten"},
           from = NoInfo \/ from \in [symbol : Symbols, version : Versions]
    PROVE  NewOrder(asks, from, seen, lost) \in Orders
<1>1. Filled \in Asks
  BY FormTyped
<1>2. from \in [symbol : Symbols \union {NoSymbol}, version : Versions \union {0}]
  BY DEF NoInfo
<1>3. slips \union lost \subseteq {"short", "overwritten"} /\ typed \in Nat /\ symbol \in Symbols
  BY DEF TypeOK
<1> QED  BY <1>1, <1>2, <1>3 DEF NewOrder, Orders, Stages

------------------------------------------------------------------------------
(* what is known of an order                                               *)

Appended == {"accepted", "taken", "dead", "checking", "checked", "rejected", "placed"}
Amounts == {"quantity", "price", "stopPrice", "notional"} \X {"MIN", "MAX", "STEP"}

BackendVerdict(o) ==
    Violations(o.asks, FromList(FiltersAt(o.symbol, o.backend)), o.references.backend)
ExecutionVerdict(o) ==
    Violations(o.asks, FromDigest(FiltersAt(o.symbol, o.execution)), o.references.execution)

\* What a draft was checked for stays true of it.
DraftsAreWellFormed(o) ==
    o.stage \in Appended \union {"drafted", "filters"} =>
        RequestFieldsOk(o.asks) /\ SubmitCommandOk(o.asks, Exponential)

\* The backend found nothing wrong with what it appended.
AppendedPassed(o) ==
    /\ o.stage \in Appended \union {"filters"} => o.backend \in Versions
    /\ o.stage \in Appended => BackendVerdict(o) = {}

\* A rejection by the filters is the verdict of the execution service.
RejectionIsVerdict(o) ==
    /\ o.stage \in {"checking", "checked"} => o.execution \in Versions
    /\ o.stage = "rejected" =>
          \/ o.broken \intersect Amounts = {}
          \/ o.execution \in Versions /\ o.broken = ExecutionVerdict(o)

ComesThrough(o) == o.stage # "dead" /\ <<"parameters", "">> \notin o.broken

OwnMarket(o) == o.info # NoInfo => o.info.symbol = o.symbol

OrderOk(o) ==
    /\ DraftsAreWellFormed(o) /\ AppendedPassed(o) /\ RejectionIsVerdict(o)
    /\ ComesThrough(o) /\ OwnMarket(o)

Inv ==
    /\ TypeOK /\ LookupsOk
    /\ order # NoOrder => OrderOk(order)

\* An order under way is a whole record.
LEMMA OrderTyped ==
    ASSUME Inv, order.stage # "none"
    PROVE  order \in Orders /\ order # NoOrder /\ OrderOk(order)
BY DEF Inv, TypeOK, NoOrder

\* What is well formed has the parameters that the call needs.
LEMMA ParametersFollow ==
    ASSUME NEW o, RequestFieldsOk(o)
    PROVE  RequestParamsOk(o)
BY DEF RequestFieldsOk, RequestParamsOk, LimitPriceTypes, StopPriceTypes

LEMMA NewOrderOk ==
    ASSUME NEW asks, NEW from, NEW seen, NEW lost, from # NoInfo => from.symbol = symbol
    PROVE  OrderOk(NewOrder(asks, from, seen, lost))
BY DEF NewOrder, OrderOk, DraftsAreWellFormed, AppendedPassed, RejectionIsVerdict, ComesThrough,
       OwnMarket, Appended, Amounts

\* What is not about an amount.
LEMMA NoAmount ==
    ASSUME NEW field \in {"contract", "exchange"}
    PROVE  /\ {<<field, "">>} \in SUBSET ({"quantity", "price", "stopPrice", "notional", "contract",
                                          "exchange", "parameters"} \X {"", "MIN", "MAX", "STEP"})
           /\ {<<field, "">>} \intersect Amounts = {}
           /\ <<"parameters", "">> \notin {<<field, "">>}
<1>1. <<field, "">> \in {"quantity", "price", "stopPrice", "notional", "contract",
                        "exchange", "parameters"} \X {"", "MIN", "MAX", "STEP"}
  OBVIOUS
<1>2. <<field, "">> \notin Amounts
  BY DEF Amounts
<1>3. <<"parameters", "">> # <<field, "">>
  OBVIOUS
<1> QED  BY <1>1, <1>2, <1>3

\* An order that was judged.
LEMMA Judged ==
    ASSUME NEW o \in Orders, NEW stage \in Stages,
           NEW references \in [backend : Nat, execution : Nat],
           NEW broken \in SUBSET ({"quantity", "price", "stopPrice", "notional", "contract",
                                   "exchange", "parameters"} \X {"", "MIN", "MAX", "STEP"})
    PROVE  [o EXCEPT !.stage = stage, !.references = references, !.broken = broken] \in Orders
BY DEF Orders

\* Only the order changes, and is well formed.
LEMMA OrderSteps ==
    ASSUME Inv, order' \in Orders, OrderOk(order'), UNCHANGED <<page, version, gatewayCache>>,
           {executionCache', backendCache'} \subseteq [Symbols -> Versions]
    PROVE  Inv'
<1>1. TypeOK'
  BY DEF Inv, TypeOK, page
<1>2. LookupsOk'
  BY DEF Inv, LookupsOk, page
<1> QED  BY <1>1, <1>2 DEF Inv

\* An order goes from one stage to the next, and nothing else is known of it.
LEMMA GoesOn ==
    ASSUME Inv, order \in Orders, NEW stage \in Stages, Goes(stage),
           UNCHANGED <<page, caches>>,
           stage \in Appended \union {"drafted", "filters"} =>
               RequestFieldsOk(order.asks) /\ SubmitCommandOk(order.asks, Exponential),
           stage \in Appended \ {order.stage} => order.stage \in Appended,
           stage \notin {"filters", "accepted", "checking", "rejected", "dead"},
           stage = "checked" => order.stage = "checking"
    PROVE  Inv'
<1>1. OrderOk(order)
  <2>1. order.stage # "none"
    BY DEF Orders, Stages
  <2> QED  BY <2>1, OrderTyped
<1>2. order' \in Orders
  BY DEF Goes, Orders
<1>3. /\ order'.stage = stage
      /\ order'.asks = order.asks /\ order'.symbol = order.symbol /\ order'.info = order.info
      /\ order'.backend = order.backend /\ order'.execution = order.execution
      /\ order'.references = order.references /\ order'.broken = order.broken
  BY DEF Goes, Orders
<1>4. OrderOk(order')
  BY <1>1, <1>3 DEF OrderOk, DraftsAreWellFormed, AppendedPassed, RejectionIsVerdict, ComesThrough,
                    OwnMarket, BackendVerdict, Appended
<1> QED  BY <1>2, <1>4, OrderSteps DEF caches, Inv, TypeOK

\* An order ends, and it is said why.
LEMMA EndsSo ==
    ASSUME Inv, order \in Orders, NEW stage \in {"refused", "unavailable", "rejected"},
           NEW broken \in SUBSET ({"quantity", "price", "stopPrice", "notional", "contract",
                                   "exchange", "parameters"} \X {"", "MIN", "MAX", "STEP"}),
           Ends(stage, broken), UNCHANGED <<page, caches>>,
           stage = "rejected" => order.stage \in Appended,
           broken \intersect Amounts = {}, <<"parameters", "">> \notin broken
    PROVE  Inv'
<1>1. OrderOk(order)
  <2>1. order.stage # "none"
    BY DEF Orders, Stages
  <2> QED  BY <2>1, OrderTyped
<1>2. order' \in Orders
  <2>1. order' = [order EXCEPT !.stage = stage, !.broken = broken] /\ stage \in Stages
    BY DEF Ends, Stages
  <2> QED  BY <2>1 DEF Orders
<1>3. /\ order'.stage = stage /\ order'.broken = broken
      /\ order'.asks = order.asks /\ order'.symbol = order.symbol /\ order'.info = order.info
      /\ order'.backend = order.backend /\ order'.references = order.references
  BY DEF Ends, Orders
<1>4. OrderOk(order')
  BY <1>1, <1>3 DEF OrderOk, DraftsAreWellFormed, AppendedPassed, RejectionIsVerdict, ComesThrough,
                    OwnMarket, BackendVerdict, Appended
<1> QED  BY <1>2, <1>4, OrderSteps DEF caches, Inv, TypeOK

------------------------------------------------------------------------------
(* every step                                                              *)

LEMMA PageKept ==
    ASSUME Inv, PageStep
    PROVE  Inv'
<1>1. ASSUME NEW n \in Runs, AnswerLookup(n) \/ LookupFails(n) \/ Arrive(n) \/ ArriveFailed(n)
      PROVE  Inv'
  <2>1. order' = order
    BY <1>1 DEF AnswerLookup, LookupFails, Arrive, ArriveFailed
  <2> QED  BY <1>1, <2>1, LookupKept DEF Inv
<1>2. CASE \/ \E s \in Symbols : SelectSymbol(s)
           \/ \E q \in Quantities : Type(q) \/ PercentSize(q)
  <2>1. order' = order
    BY <1>2 DEF SelectSymbol, Type, PercentSize
  <2> QED  BY <1>2, <2>1, FormKept DEF Inv
<1>3. ASSUME NEW seen \in Prices \union {0}, Submit(seen) PROVE Inv'
  <2>1. info # NoInfo /\ info.symbol = symbol /\ seen \in Nat
    BY <1>3 DEF Submit, MaySubmit, Inv, LookupsOk
  <2>2. info \in [symbol : Symbols, version : Versions]
    BY <2>1 DEF Inv, TypeOK
  <2> DEFINE f == FiltersAt(info.symbol, info.version)
  <2>3. f.lot.step \in Nat /\ f.price.step \in Nat
    BY <2>2, FiltersTyped
  <2>4. PICK q \in Snapped(Filled.quantity, f.lot.step), p \in Snapped(form.price, f.price.step),
             sp \in Snapped(form.stopPrice, f.price.step) :
          order' = NewOrder([Filled EXCEPT !.quantity = q, !.price = p, !.stopPrice = sp], info, seen,
                     Lost(Filled.quantity, f.lot.step, q) \union Lost(form.price, f.price.step, p)
                     \union Lost(form.stopPrice, f.price.step, sp))
    BY <1>3 DEF Submit
  <2> DEFINE asks == [Filled EXCEPT !.quantity = q, !.price = p, !.stopPrice = sp]
             lost == Lost(Filled.quantity, f.lot.step, q) \union Lost(form.price, f.price.step, p)
                     \union Lost(form.stopPrice, f.price.step, sp)
  <2>5. Filled \in Asks /\ form \in Asks
    BY FormTyped DEF Inv, TypeOK
  <2>6. q \in Nat /\ p \in Nat /\ sp \in Nat
    <3>1. Filled.quantity \in Nat /\ form.price \in Nat /\ form.stopPrice \in Nat
      BY <2>5 DEF Asks
    <3> HIDE DEF f
    <3> QED  BY <2>3, <3>1, SnappedTyped
  <2>7. asks \in Asks
    BY <2>5, <2>6 DEF Asks
  <2>8. lost \in SUBSET {"short", "overwritten"}
    BY DEF Lost
  <2> HIDE DEF asks, lost, f
  <2>9. order' = NewOrder(asks, info, seen, lost)
    BY <2>4 DEF asks, lost, f
  <2>10. order' \in Orders
    BY <2>1, <2>2, <2>7, <2>8, <2>9, NewOrderTyped DEF Inv
  <2>11. OrderOk(order')
    BY <2>1, <2>9, NewOrderOk
  <2> QED  BY <1>3, <2>10, <2>11, OrderSteps DEF Submit, page, caches, Inv, TypeOK
<1> QED  BY <1>1, <1>2, <1>3 DEF PageStep

LEMMA BackendKept ==
    ASSUME Inv, \/ FiltersChange \/ \E asks \in ApiOrders : ApiSubmit(asks)
                \/ Draft \/ BackendFilters \/ BackendJudges \/ BackendFails
    PROVE  Inv'
<1>1. CASE FiltersChange
  <2>1. version' \in Versions
    BY <1>1 DEF FiltersChange, Inv, TypeOK, Versions
  <2>2. UNCHANGED <<page, gatewayCache, executionCache, order, backendCache>>
    BY <1>1 DEF FiltersChange
  <2>3. TypeOK'
    BY <2>1, <2>2 DEF Inv, TypeOK, page
  <2> QED  BY <2>2, <2>3 DEF Inv, LookupsOk, page
<1>2. ASSUME NEW asks \in ApiOrders, ApiSubmit(asks) PROVE Inv'
  <2>1. order' = NewOrder(asks, NoInfo, 0, {}) /\ asks \in Asks
    BY <1>2 DEF ApiSubmit
  <2>2. order' \in Orders
    BY <2>1, NewOrderTyped DEF Inv
  <2>3. OrderOk(order')
    BY <2>1, NewOrderOk
  <2> QED  BY <1>2, <2>2, <2>3, OrderSteps DEF ApiSubmit, page, caches, Inv, TypeOK
<1>3. CASE Draft
  <2>1. order.stage = "sent" /\ UNCHANGED <<page, caches>> /\ order \in Orders
    BY <1>3, OrderTyped DEF Draft
  <2>2. CASE RequestFieldsOk(order.asks) /\ SubmitCommandOk(order.asks, Exponential) /\ Goes("drafted")
    BY <2>1, <2>2, GoesOn DEF Stages, Appended
  <2>3. CASE Ends("refused", {<<"contract", "">>})
    BY NoAmount, <2>1, <2>3, EndsSo
  <2> QED  BY <1>3, <2>2, <2>3 DEF Draft
<1>4. CASE BackendFilters
  <2>1. /\ order.stage = "drafted" /\ order \in Orders /\ OrderOk(order)
        /\ UNCHANGED <<page, version, gatewayCache, executionCache>>
    BY <1>4, OrderTyped DEF BackendFilters
  <2>2. order.symbol \in Symbols
    BY <2>1 DEF Orders
  <2>3. PICK v \in Versions : /\ backendCache' = [backendCache EXCEPT ![order.symbol] = v]
                              /\ order' = [order EXCEPT !.stage = "filters", !.backend = v]
    BY <1>4, <2>2 DEF BackendFilters, Cached, Inv, TypeOK
  <2>4. order' \in Orders
    BY <2>1, <2>3 DEF Orders, Stages
  <2>5. /\ order'.stage = "filters" /\ order'.backend = v
        /\ order'.asks = order.asks /\ order'.symbol = order.symbol /\ order'.info = order.info
        /\ order'.broken = order.broken
    BY <2>1, <2>3 DEF Orders
  <2>6. OrderOk(order')
    BY <2>1, <2>5 DEF OrderOk, DraftsAreWellFormed, AppendedPassed, RejectionIsVerdict, ComesThrough,
                      OwnMarket, Appended
  <2>7. {executionCache', backendCache'} \subseteq [Symbols -> Versions]
    <3>1. executionCache \in [Symbols -> Versions] /\ backendCache \in [Symbols -> Versions]
      BY DEF Inv, TypeOK
    <3>2. executionCache' \in [Symbols -> Versions]
      BY <2>1, <2>3, <3>1
    <3>3. backendCache' \in [Symbols -> Versions]
      BY <2>1, <2>3, <3>1
    <3> QED  BY <3>2, <3>3
  <2> QED  BY <2>1, <2>4, <2>6, <2>7, OrderSteps
<1>5. CASE BackendJudges
  <2>1. order.stage = "filters" /\ order \in Orders /\ OrderOk(order) /\ UNCHANGED <<page, caches>>
    BY <1>5, OrderTyped DEF BackendJudges
  <2> DEFINE Broken(reference) == Violations(order.asks, FromList(FiltersAt(order.symbol, order.backend)), reference)
  <2>2. PICK reference \in Averages :
          order' = [order EXCEPT
              !.stage = IF Broken(reference) = {} THEN "accepted" ELSE "refused",
              !.references.backend = reference, !.broken = Broken(reference)]
    BY <1>5 DEF BackendJudges
  <2>3. reference \in Nat /\ Broken(reference) \subseteq Amounts
    BY ViolationsAreOfAmounts DEF Averages, Amounts
  <2> HIDE DEF Broken
  <2>4. order.references \in [backend : Nat, execution : Nat]
    BY <2>1 DEF Orders
  <2>5. order' = [order EXCEPT
              !.stage = IF Broken(reference) = {} THEN "accepted" ELSE "refused",
              !.references = [order.references EXCEPT !.backend = reference], !.broken = Broken(reference)]
    BY <2>2
  <2>6. order' \in Orders
    <3>1. (IF Broken(reference) = {} THEN "accepted" ELSE "refused") \in Stages
      BY DEF Stages
    <3>2. [order.references EXCEPT !.backend = reference] \in [backend : Nat, execution : Nat]
      BY <2>3, <2>4
    <3>3. Broken(reference) \in SUBSET ({"quantity", "price", "stopPrice", "notional", "contract",
                                        "exchange", "parameters"} \X {"", "MIN", "MAX", "STEP"})
      BY <2>3 DEF Amounts
    <3> QED  BY <2>1, <2>5, <3>1, <3>2, <3>3, Judged
  <2>7. /\ order'.stage = IF Broken(reference) = {} THEN "accepted" ELSE "refused"
        /\ order'.references.backend = reference /\ order'.broken = Broken(reference)
        /\ order'.asks = order.asks /\ order'.symbol = order.symbol /\ order'.info = order.info
        /\ order'.backend = order.backend
    BY <2>1, <2>4, <2>5 DEF Orders
  <2>8. BackendVerdict(order') = Broken(reference)
    BY <2>7 DEF BackendVerdict, Broken
  <2>9. <<"parameters", "">> \notin Broken(reference)
    BY <2>3 DEF Amounts
  <2>10. OrderOk(order')
    BY <2>1, <2>7, <2>8, <2>9 DEF OrderOk, DraftsAreWellFormed, AppendedPassed, RejectionIsVerdict,
                              ComesThrough, OwnMarket, Appended
  <2> QED  BY <2>1, <2>6, <2>10, OrderSteps DEF caches, Inv, TypeOK
<1>6. CASE BackendFails
  <2>1. /\ order.stage \in {"drafted", "filters"} /\ order \in Orders /\ UNCHANGED <<page, caches>>
        /\ Ends("unavailable", {})
    BY <1>6, OrderTyped DEF BackendFails
  <2> QED  BY <2>1, EndsSo
<1> QED  BY <1>1, <1>2, <1>3, <1>4, <1>5, <1>6

LEMMA ExecutionKept ==
    ASSUME Inv, \/ TakeEntry \/ ExecutionFilters \/ ExecutionJudges \/ ExecutionFails
                \/ Place
    PROVE  Inv'
<1>0. /\ order.stage \in {"accepted", "taken", "checking", "checked", "placed", "rejected"}
      /\ UNCHANGED page
  BY DEF TakeEntry, ExecutionFilters, ExecutionJudges, ExecutionFails, Place
<1>1. /\ order \in Orders /\ OrderOk(order)
      /\ RequestFieldsOk(order.asks) /\ SubmitCommandOk(order.asks, Exponential)
      /\ order.stage \in Appended
  BY <1>0, OrderTyped DEF OrderOk, DraftsAreWellFormed, Appended
<1>2. CASE TakeEntry
  <2>1. Goes("taken") /\ UNCHANGED <<page, caches>>
    BY <1>1, <1>2 DEF TakeEntry
  <2> QED  BY <1>1, <2>1, GoesOn DEF Stages
<1>3. CASE ExecutionFilters
  <2>1. /\ order.stage = "taken"
        /\ UNCHANGED <<page, version, gatewayCache, backendCache>>
    BY <1>3 DEF ExecutionFilters
  <2>2. order.symbol \in Symbols
    BY <1>1 DEF Orders
  <2>3. PICK v \in Versions : /\ executionCache' = [executionCache EXCEPT ![order.symbol] = v]
                              /\ order' = [order EXCEPT !.stage = "checking", !.execution = v]
    BY <1>3, <2>2 DEF ExecutionFilters, Cached, Inv, TypeOK
  <2>4. order' \in Orders
    BY <1>1, <2>3 DEF Orders, Stages
  <2>5. /\ order'.stage = "checking" /\ order'.execution = v /\ order'.backend = order.backend
        /\ order'.asks = order.asks /\ order'.symbol = order.symbol /\ order'.info = order.info
        /\ order'.broken = order.broken /\ order'.references = order.references
    BY <1>1, <2>3 DEF Orders
  <2>6. OrderOk(order')
    BY <1>1, <2>5 DEF OrderOk, DraftsAreWellFormed, AppendedPassed, RejectionIsVerdict, ComesThrough,
                      OwnMarket, BackendVerdict
  <2>7. {executionCache', backendCache'} \subseteq [Symbols -> Versions]
    <3>1. executionCache \in [Symbols -> Versions] /\ backendCache \in [Symbols -> Versions]
      BY DEF Inv, TypeOK
    <3>2. executionCache' \in [Symbols -> Versions]
      BY <2>1, <2>3, <3>1
    <3>3. backendCache' \in [Symbols -> Versions]
      BY <2>1, <2>3, <3>1
    <3> QED  BY <3>2, <3>3
  <2> QED  BY <2>1, <2>4, <2>6, <2>7, OrderSteps
<1>4. CASE ExecutionJudges
  <2>1. order.stage = "checking" /\ UNCHANGED <<page, caches>>
    BY <1>4 DEF ExecutionJudges
  <2> DEFINE Broken(reference) ==
               Violations(order.asks, FromDigest(FiltersAt(order.symbol, order.execution)), reference)
  <2>2. PICK reference \in Averages :
          order' = [order EXCEPT
              !.stage = IF Broken(reference) = {} THEN "checked" ELSE "rejected",
              !.references.execution = reference, !.broken = Broken(reference)]
    BY <1>4 DEF ExecutionJudges
  <2>3. reference \in Nat /\ Broken(reference) \subseteq Amounts
    BY ViolationsAreOfAmounts DEF Averages, Amounts
  <2> HIDE DEF Broken
  <2>4. order.references \in [backend : Nat, execution : Nat] /\ order.execution \in Versions
    BY <1>1, <2>1 DEF Orders, OrderOk, RejectionIsVerdict
  <2>5. order' = [order EXCEPT
              !.stage = IF Broken(reference) = {} THEN "checked" ELSE "rejected",
              !.references = [order.references EXCEPT !.execution = reference], !.broken = Broken(reference)]
    BY <2>2
  <2>6. order' \in Orders
    <3>1. (IF Broken(reference) = {} THEN "checked" ELSE "rejected") \in Stages
      BY DEF Stages
    <3>2. [order.references EXCEPT !.execution = reference] \in [backend : Nat, execution : Nat]
      BY <2>3, <2>4
    <3>3. Broken(reference) \in SUBSET ({"quantity", "price", "stopPrice", "notional", "contract",
                                        "exchange", "parameters"} \X {"", "MIN", "MAX", "STEP"})
      BY <2>3 DEF Amounts
    <3> QED  BY <1>1, <2>5, <3>1, <3>2, <3>3, Judged
  <2>7. /\ order'.stage = IF Broken(reference) = {} THEN "checked" ELSE "rejected"
        /\ order'.references.execution = reference /\ order'.broken = Broken(reference)
        /\ order'.references.backend = order.references.backend
        /\ order'.asks = order.asks /\ order'.symbol = order.symbol /\ order'.info = order.info
        /\ order'.backend = order.backend /\ order'.execution = order.execution
    BY <1>1, <2>4, <2>5 DEF Orders
  <2>8. ExecutionVerdict(order') = Broken(reference) /\ BackendVerdict(order') = BackendVerdict(order)
    BY <2>7 DEF ExecutionVerdict, BackendVerdict, Broken
  <2>9. <<"parameters", "">> \notin Broken(reference)
    BY <2>3 DEF Amounts
  <2>10. OrderOk(order')
    BY <1>1, <2>4, <2>7, <2>8, <2>9 DEF OrderOk, DraftsAreWellFormed, AppendedPassed,
                                        RejectionIsVerdict, ComesThrough, OwnMarket, Appended
  <2> QED  BY <2>1, <2>6, <2>10, OrderSteps DEF caches, Inv, TypeOK
<1>5. CASE ExecutionFails
  <2>1. Ends("rejected", {}) /\ UNCHANGED <<page, caches>>
    BY <1>5 DEF ExecutionFails
  <2> QED  BY <1>1, <2>1, EndsSo
<1>6. CASE Place
  <2>1. order.stage = "checked" /\ UNCHANGED <<page, caches>>
    BY <1>6 DEF Place
  <2>2. Goes("placed") \/ Ends("rejected", {<<"exchange", "">>})
    BY <1>1, <1>6, ParametersFollow DEF Place
  <2>3. CASE Goes("placed")
    BY <1>1, <2>1, <2>3, GoesOn DEF Stages
  <2>4. CASE Ends("rejected", {<<"exchange", "">>})
    BY NoAmount, <1>1, <2>1, <2>4, EndsSo
  <2> QED  BY <2>2, <2>3, <2>4
<1> QED  BY <1>2, <1>3, <1>4, <1>5, <1>6

LEMMA InvHolds == Spec => []Inv
<1>1. Init => Inv
  <2> SUFFICES ASSUME Init PROVE Inv
    OBVIOUS
  <2>1. 1 \in Runs /\ 1 \in Versions
    BY DEF Runs, Versions
  <2> DEFINE first == [stage |-> "asked", symbol |-> symbol, qty |-> qty, version |-> 0]
  <2>2. first \in Looked /\ lookup = [n \in Runs |-> IF n = 1 THEN first ELSE NoLookup] /\ run = 1
    BY DEF Init, Looked
  <2>3. lookup \in [Runs -> {NoLookup} \union Looked]
    BY <2>2
  <2>4. TypeOK
    BY <2>1, <2>3 DEF Init, TypeOK, Looked
  <2>5. LookupsOk
    BY <2>1, <2>2 DEF Init, LookupsOk, Runs, NoLookup
  <2> QED  BY <2>4, <2>5 DEF Init, Inv
<1>2. ASSUME Inv, UNCHANGED vars PROVE Inv'
  <2>1. TypeOK' /\ LookupsOk'
    BY <1>2 DEF Inv, TypeOK, LookupsOk, vars, page, caches
  <2> QED  BY <1>2, <2>1 DEF Inv, vars
<1>3. Inv /\ [Next]_vars => Inv'
  BY <1>2, PageKept, BackendKept, ExecutionKept DEF Next, ServiceStep
<1> QED  BY <1>1, <1>3, PTL DEF Spec

------------------------------------------------------------------------------
(* the quantity: rounding only takes away, and what it takes is accounted  *)
(* for, so the quantity in the form, and then that of the order, is what   *)
(* was typed, or less for a reason.                                        *)

\* A step of some market cuts the quantity.
Cut(wanted) ==
    \E s \in Symbols, v \in Versions :
        FiltersAt(s, v).lot.step > 0 /\ wanted % FiltersAt(s, v).lot.step # 0

Faithful(amount, wanted, marks) ==
    "overwritten" \notin marks =>
        amount <= wanted /\ (amount = wanted \/ Cut(wanted) \/ "short" \in marks)

OrderFaithful(o) ==
    o.info # NoInfo /\ o.asks.quoteOrderQty = 0 =>
        Faithful(o.asks.quantity, o.typed, o.slips)

Accounted ==
    /\ Faithful(qty, typed, slips)
    /\ order # NoOrder => OrderFaithful(order)

\* Rounding takes away, unless there is nothing to take.
LEMMA RoundedDownBelow ==
    ASSUME NEW amount \in Nat, NEW step \in Nat, step > 0
    PROVE  /\ RoundedDown(amount, step) \in Nat
           /\ RoundedDown(amount, step) <= amount
           /\ RoundedDown(amount, step) = amount \/ amount % step # 0
<1>1. /\ amount = step * (amount \div step) + (amount % step)
      /\ amount % step >= 0 /\ amount \div step \in Nat
  OBVIOUS
<1> QED  BY <1>1 DEF RoundedDown

LEMMA SnappedBelow ==
    ASSUME NEW amount \in Nat, NEW step \in Nat, NEW q \in Snapped(amount, step)
    PROVE  /\ q \in Nat /\ q <= amount
           /\ \/ q = amount
              \/ step > 0 /\ amount % step # 0
              \/ Lost(amount, step, q) = {"short"}
<1>1. CASE step = 0 \/ amount = 0
  BY <1>1 DEF Snapped
<1>2. CASE step > 0 /\ amount > 0
  <2>1. q = RoundedDown(amount, step) \/ q = RoundedDown(amount - 1, step)
    BY <1>2 DEF Snapped
  <2>2. amount - 1 \in Nat
    BY <1>2
  <2>3. q \in Nat /\ q <= amount
    BY <1>2, <2>1, <2>2, RoundedDownBelow
  <2>4. CASE q = RoundedDown(amount, step)
    BY <1>2, <2>3, <2>4, RoundedDownBelow
  <2>5. CASE q # RoundedDown(amount, step)
    BY <1>2, <2>3, <2>5 DEF Lost
  <2> QED  BY <2>3, <2>4, <2>5
<1> QED  BY <1>1, <1>2

\* A faithful quantity that is rounded once more, with the loss on record.
LEMMA FaithfulSnapped ==
    ASSUME NEW amount \in Nat, NEW wanted \in Nat, NEW marks, NEW more,
           Faithful(amount, wanted, marks), marks \subseteq more,
           NEW s \in Symbols, NEW v \in Versions,
           NEW q \in Snapped(amount, FiltersAt(s, v).lot.step),
           Lost(amount, FiltersAt(s, v).lot.step, q) \subseteq more
    PROVE  Faithful(q, wanted, more)
<1> DEFINE step == FiltersAt(s, v).lot.step
<1>1. step \in Nat
  BY FiltersTyped
<1> HIDE DEF step
<1>2. /\ q \in Nat /\ q <= amount
      /\ q = amount \/ (step > 0 /\ amount % step # 0) \/ Lost(amount, step, q) = {"short"}
  BY <1>1, SnappedBelow DEF step
<1>3. step > 0 /\ wanted % step # 0 => Cut(wanted)
  BY DEF Cut, step
<1>4. Lost(amount, step, q) \subseteq more
  BY DEF step
<1> QED  BY <1>2, <1>3, <1>4 DEF Faithful

\* n is the order o at a stage, with what its form made it.
Restaged(n, o, stage) ==
    /\ n.stage = stage
    /\ n.asks = o.asks /\ n.filled = o.filled /\ n.typed = o.typed /\ n.slips = o.slips
    /\ n.symbol = o.symbol /\ n.info = o.info /\ n.seen = o.seen

LEMMA OrderRestaged ==
    ASSUME NEW o \in Orders, NEW stage, NEW broken, NEW found
    PROVE  /\ Restaged([o EXCEPT !.stage = stage], o, stage)
           /\ Restaged([o EXCEPT !.stage = stage, !.broken = broken], o, stage)
           /\ Restaged([o EXCEPT !.stage = stage, !.backend = found], o, stage)
           /\ Restaged([o EXCEPT !.stage = stage, !.execution = found], o, stage)
           /\ Restaged([o EXCEPT !.stage = stage, !.references = found, !.broken = broken], o, stage)
<1> DEFINE Names == {"stage", "asks", "filled", "typed", "symbol", "info", "seen", "slips",
                     "backend", "execution", "references", "broken"}
<1>1. DOMAIN o = Names /\ o = [x \in Names |-> o[x]]
  BY DEF Orders
<1>2. Restaged([o EXCEPT !.stage = stage], o, stage)
  BY <1>1 DEF Restaged
<1>3. Restaged([o EXCEPT !.stage = stage, !.broken = broken], o, stage)
  BY <1>1 DEF Restaged
<1>4. Restaged([o EXCEPT !.stage = stage, !.backend = found], o, stage)
  BY <1>1 DEF Restaged
<1>5. Restaged([o EXCEPT !.stage = stage, !.execution = found], o, stage)
  BY <1>1 DEF Restaged
<1>6. Restaged([o EXCEPT !.stage = stage, !.references = found, !.broken = broken], o, stage)
  BY <1>1 DEF Restaged
<1> QED  BY <1>2, <1>3, <1>4, <1>5, <1>6

\* What no service changes of an order, and which stage each takes it to.
LEMMA OrderKeeps ==
    ASSUME Inv, ServiceStep, \A asks \in ApiOrders : ~ ApiSubmit(asks), ~ FiltersChange
    PROVE  /\ order \in Orders /\ order # NoOrder /\ Restaged(order', order, order'.stage)
           /\ order'.stage = "refused" =>
                 \/ BackendJudges
                 \/ Draft /\ Ends("refused", {<<"contract", "">>})
           /\ UNCHANGED page
<1>1. /\ order.stage # "none"
      /\ UNCHANGED page
  BY DEF ServiceStep, Draft, BackendFilters, BackendJudges, BackendFails, TakeEntry,
         ExecutionFilters, ExecutionJudges, ExecutionFails, Place
<1>2. order \in Orders /\ order # NoOrder
  BY <1>1, OrderTyped
<1> DEFINE To(stage) == Restaged(order', order, stage)
<1>3. ASSUME NEW stage, NEW broken, NEW found,
             \/ order' = [order EXCEPT !.stage = stage]
             \/ order' = [order EXCEPT !.stage = stage, !.broken = broken]
             \/ order' = [order EXCEPT !.stage = stage, !.backend = found]
             \/ order' = [order EXCEPT !.stage = stage, !.execution = found]
             \/ order' = [order EXCEPT !.stage = stage, !.references = found, !.broken = broken]
      PROVE  To(stage)
  <2>1. /\ Restaged([order EXCEPT !.stage = stage], order, stage)
        /\ Restaged([order EXCEPT !.stage = stage, !.broken = broken], order, stage)
        /\ Restaged([order EXCEPT !.stage = stage, !.backend = found], order, stage)
        /\ Restaged([order EXCEPT !.stage = stage, !.execution = found], order, stage)
        /\ Restaged([order EXCEPT !.stage = stage, !.references = found, !.broken = broken],
                    order, stage)
    BY <1>2, OrderRestaged
  <2> QED  BY <1>3, <2>1
<1> HIDE DEF To
<1>4. Draft => To("drafted") \/ (To("refused") /\ Ends("refused", {<<"contract", "">>}))
  BY <1>3 DEF Draft, Goes, Ends
<1>5. BackendFails => To("unavailable")
  BY <1>3 DEF BackendFails, Ends
<1>6. TakeEntry => To("taken") \/ To("dead")
  BY <1>3 DEF TakeEntry, Goes
<1>7. ExecutionFails => To("rejected")
  BY <1>3 DEF ExecutionFails, Ends
<1>8. Place => To("placed") \/ To("rejected")
  BY <1>3 DEF Place, Goes, Ends
<1>9. BackendFilters => To("filters")
  BY <1>3 DEF BackendFilters
<1>10. ExecutionFilters => To("checking")
  BY <1>3 DEF ExecutionFilters
<1>11. BackendJudges => \E stage : To(stage)
  <2> SUFFICES ASSUME BackendJudges PROVE \E stage : To(stage)
    OBVIOUS
  <2>1. PICK stage, reference, broken :
          order' = [order EXCEPT !.stage = stage, !.references.backend = reference, !.broken = broken]
    BY DEF BackendJudges
  <2>2. order' = [order EXCEPT !.stage = stage,
          !.references = [order.references EXCEPT !.backend = reference], !.broken = broken]
    BY <2>1
  <2> QED  BY <1>3, <2>2
<1>12. ExecutionJudges => To("checked") \/ To("rejected")
  <2> SUFFICES ASSUME ExecutionJudges PROVE To("checked") \/ To("rejected")
    OBVIOUS
  <2>1. PICK reference, broken :
          order' = [order EXCEPT !.stage = IF broken = {} THEN "checked" ELSE "rejected",
                                 !.references.execution = reference, !.broken = broken]
    BY DEF ExecutionJudges
  <2> DEFINE stage == IF broken = {} THEN "checked" ELSE "rejected"
  <2>2. order' = [order EXCEPT !.stage = stage,
          !.references = [order.references EXCEPT !.execution = reference], !.broken = broken]
    BY <2>1
  <2>3. stage = "checked" \/ stage = "rejected"
    OBVIOUS
  <2> HIDE DEF stage
  <2> QED  BY <1>3, <2>2, <2>3
<1>13. \A stage : To(stage) => order'.stage = stage
  BY DEF To, Restaged
<1>14. /\ \E stage : To(stage)
       /\ order'.stage = "refused" =>
             BackendJudges \/ (Draft /\ Ends("refused", {<<"contract", "">>}))
  BY <1>4, <1>5, <1>6, <1>7, <1>8, <1>9, <1>10, <1>11, <1>12, <1>13 DEF ServiceStep
<1>15. Restaged(order', order, order'.stage)
  BY <1>13, <1>14 DEF To
<1> QED  BY <1>1, <1>2, <1>14, <1>15

LEMMA AccountedKept ==
    ASSUME Inv, Inv', Accounted, [Next]_vars
    PROVE  Accounted'
<1>0. qty \in Nat /\ typed \in Nat /\ qty' \in Nat
  BY DEF Inv, TypeOK
<1>1. ASSUME NEW n \in Runs, AnswerLookup(n) \/ LookupFails(n) \/ ArriveFailed(n)
      PROVE  Accounted'
  BY <1>1 DEF AnswerLookup, LookupFails, ArriveFailed, Accounted
<1>2. ASSUME NEW n \in Runs, Arrive(n) PROVE Accounted'
  <2>1. order' = order /\ typed' = typed
    BY <1>2 DEF Arrive
  <2>2. CASE ~ Current(n)
    BY <1>2, <2>1, <2>2 DEF Arrive, Accounted
  <2>3. CASE Current(n)
    <3>1. lookup[n] # NoLookup /\ lookup[n].stage = "answered"
      BY <1>2 DEF Arrive, NoLookup
    <3>2. lookup[n].symbol \in Symbols /\ lookup[n].version \in Versions
      BY <3>1 DEF Inv, TypeOK, LookupsOk
    <3> DEFINE step == FiltersAt(lookup[n].symbol, lookup[n].version).lot.step
    <3>3. CASE step = 0
      <4>1. UNCHANGED <<qty, slips>>
        BY <1>2, <2>3, <3>3 DEF Arrive
      <4> QED  BY <2>1, <4>1 DEF Accounted
    <3>4. CASE step # 0
      <4>1. /\ qty' \in Snapped(lookup[n].qty, step)
            /\ slips' = slips \union Lost(lookup[n].qty, step, qty')
                              \union (IF lookup[n].qty # qty THEN {"overwritten"} ELSE {})
        BY <1>2, <2>3, <3>4 DEF Arrive
      <4>2. CASE lookup[n].qty # qty
        BY <2>1, <4>1, <4>2 DEF Accounted, Faithful
      <4>3. CASE lookup[n].qty = qty
        <5>1. Faithful(qty, typed, slips) /\ slips \subseteq slips' /\ Lost(qty, step, qty') \subseteq slips'
          BY <4>1, <4>3 DEF Accounted
        <5>2. qty' \in Snapped(qty, step)
          BY <4>1, <4>3
        <5>3. Faithful(qty', typed, slips')
          BY <1>0, <3>2, <5>1, <5>2, FaithfulSnapped
        <5> QED  BY <2>1, <5>3 DEF Accounted
      <4> QED  BY <4>2, <4>3
    <3> QED  BY <3>3, <3>4
  <2> QED  BY <2>2, <2>3
<1>3. ASSUME NEW s \in Symbols, SelectSymbol(s) PROVE Accounted'
  BY <1>3 DEF SelectSymbol, Accounted
<1>4. ASSUME NEW q \in Quantities, Type(q) \/ PercentSize(q) PROVE Accounted'
  <2>1. order' = order /\ typed' = qty'
    BY <1>4 DEF Type, PercentSize
  <2> QED  BY <1>0, <2>1 DEF Accounted, Faithful
<1>5. ASSUME NEW seen \in Prices \union {0}, Submit(seen) PROVE Accounted'
  <2>1. info # NoInfo /\ UNCHANGED page
    BY <1>5 DEF Submit, MaySubmit, Inv, LookupsOk
  <2>2. info.symbol \in Symbols /\ info.version \in Versions
    BY <2>1, InfoTyped DEF Inv
  <2> DEFINE f == FiltersAt(info.symbol, info.version)
  <2>3. PICK q \in Snapped(Filled.quantity, f.lot.step), p \in Snapped(form.price, f.price.step),
             sp \in Snapped(form.stopPrice, f.price.step) :
          order' = NewOrder([Filled EXCEPT !.quantity = q, !.price = p, !.stopPrice = sp], info, seen,
                     Lost(Filled.quantity, f.lot.step, q) \union Lost(form.price, f.price.step, p)
                     \union Lost(form.stopPrice, f.price.step, sp))
    BY <1>5 DEF Submit
  <2>4. Filled \in Asks /\ form \in Asks
    BY FormTyped DEF Inv, TypeOK
  <2> DEFINE asks == [Filled EXCEPT !.quantity = q, !.price = p, !.stopPrice = sp]
  <2>5. asks.quantity = q /\ asks.quoteOrderQty = form.quoteOrderQty
    BY <2>4 DEF Asks, Filled
  <2>6. form.quoteOrderQty = 0 => Filled.quantity = qty
    BY <2>4 DEF Asks, Filled
  <2>7. /\ order'.asks = asks /\ order'.typed = typed
        /\ slips \union Lost(Filled.quantity, f.lot.step, q) \subseteq order'.slips
    BY <2>3 DEF NewOrder
  <2> HIDE DEF asks
  <2>8. OrderFaithful(order')
    <3>1. CASE form.quoteOrderQty # 0
      BY <2>5, <2>7, <3>1 DEF OrderFaithful
    <3>2. CASE form.quoteOrderQty = 0
      <4>1. q \in Snapped(qty, f.lot.step) /\ Lost(qty, f.lot.step, q) \subseteq order'.slips
            /\ slips \subseteq order'.slips
        BY <2>3, <2>6, <2>7, <3>2
      <4>2. Faithful(q, typed, order'.slips)
        BY <1>0, <2>2, <4>1, FaithfulSnapped DEF Accounted
      <4> QED  BY <2>5, <2>7, <4>2 DEF OrderFaithful
    <3> QED  BY <3>1, <3>2
  <2>9. Faithful(qty, typed, slips)' = Faithful(qty, typed, slips)
    BY <2>1 DEF page, Faithful, Cut
  <2> QED  BY <2>8, <2>9 DEF Accounted
<1>6. CASE FiltersChange \/ UNCHANGED vars
  BY <1>6 DEF FiltersChange, vars, page, Accounted
<1>7. ASSUME NEW asks \in ApiOrders, ApiSubmit(asks) PROVE Accounted'
  <2>1. order'.info = NoInfo /\ UNCHANGED page
    BY <1>7 DEF ApiSubmit, NewOrder
  <2> QED  BY <2>1 DEF page, Accounted, OrderFaithful
<1>8. CASE ServiceStep /\ (\A asks \in ApiOrders : ~ ApiSubmit(asks)) /\ ~ FiltersChange
  <2>1. /\ order # NoOrder /\ UNCHANGED page
        /\ order'.asks = order.asks /\ order'.typed = order.typed /\ order'.slips = order.slips
        /\ order'.info = order.info
    BY <1>8, OrderKeeps DEF Restaged
  <2> QED  BY <2>1 DEF page, Accounted, OrderFaithful
<1> QED  BY <1>1, <1>2, <1>3, <1>4, <1>5, <1>6, <1>7, <1>8 DEF Next, PageStep, ServiceStep

LEMMA AccountedHolds == Spec => []Accounted
<1>1. Init => Accounted
  <2>1. Init => qty \in Nat
    BY DEF Init
  <2> QED  BY <2>1 DEF Init, Accounted, Faithful
<1> QED  BY <1>1, AccountedKept, InvHolds, PTL DEF Spec

------------------------------------------------------------------------------
(* what the backend refuses: the form's own check and the rounding settle  *)
(* everything but what Unchecked lists.                                    *)

\* An order of the page as its form left it.
FromForm(o) ==
    LET f == FiltersAt(o.info.symbol, o.info.version)
    IN  /\ o.filled \in Asks /\ FormOk(o.filled, f, o.seen)
        /\ o.filled.quoteOrderQty > 0 =>
              o.filled.quantity = 0 /\ o.filled.type = "MARKET" /\ o.filled.format # "numbers"
        /\ o.asks.price \in Snapped(o.filled.price, f.price.step)
        /\ o.asks.stopPrice \in Snapped(o.filled.stopPrice, f.price.step)

\* Why an order is refused.
RefusalIsVerdict(o) ==
    o.stage = "refused" =>
        \/ /\ o.broken = {<<"contract", "">>}
           /\ ~ (RequestFieldsOk(o.asks) /\ SubmitCommandOk(o.asks, Exponential))
        \/ o.backend \in Versions /\ o.broken = BackendVerdict(o)

Refused ==
    order # NoOrder =>
        /\ order.info # NoInfo => FromForm(order)
        /\ RefusalIsVerdict(order)

\* What the form passed, a contract refuses only for how it is written.
LEMMA ContractsFollow ==
    ASSUME NEW o \in Asks, NEW f, NEW seen, FormOk(o, f, seen),
           o.quoteOrderQty > 0 => o.quantity = 0 /\ o.type = "MARKET" /\ o.format # "numbers",
           o.format # "odd", {o.quantity, o.price, o.stopPrice} \intersect Exponential = {}
    PROVE  RequestFieldsOk(o) /\ SubmitCommandOk(o, Exponential)
<1>1. /\ o.quantity \in Nat /\ o.quoteOrderQty \in Nat /\ o.price \in Nat /\ o.stopPrice \in Nat
      /\ o.type \in OrderTypes
  BY DEF Asks
<1>2. /\ o.quoteOrderQty > 0 \/ o.quantity > 0
      /\ o.type \in LimitPriceTypes => o.price > 0
      /\ o.type \in StopPriceTypes => o.stopPrice > 0
  BY DEF FormOk, QuantityOk
<1>3. \A a \in {o.quantity, o.price, o.stopPrice} : a > 0 => PlainDecimal(a, o.format, Exponential)
  BY <1>1 DEF PlainDecimal
<1>4. o.quoteOrderQty > 0 => PlainDecimal(o.quoteOrderQty, o.format, Exponential)
  BY <1>1 DEF PlainDecimal
<1>5. RequestFieldsOk(o)
  BY <1>1, <1>2 DEF RequestFieldsOk
<1>6. SubmitCommandOk(o, Exponential)
  BY <1>1, <1>2, <1>3, <1>4 DEF SubmitCommandOk
<1> QED  BY <1>5, <1>6

\* A rounded amount that is still what it was is a multiple of the step.
LEMMA SnappedAligned ==
    ASSUME NEW amount \in Nat, NEW step \in Nat, amount \in Snapped(amount, step),
           amount > 0, step > 0
    PROVE  Aligned(amount, step)
<1>1. amount = RoundedDown(amount, step) \/ amount = RoundedDown(amount - 1, step)
  BY DEF Snapped
<1>2. RoundedDown(amount - 1, step) <= amount - 1 /\ RoundedDown(amount - 1, step) \in Nat
  <2>1. amount - 1 \in Nat
    OBVIOUS
  <2> QED  BY <2>1, RoundedDownBelow
<1>3. amount = (amount \div step) * step /\ amount \div step \in Nat
  BY <1>1, <1>2 DEF RoundedDown
<1>4. \A x \in Nat : (x * step) % step = 0
  OBVIOUS
<1> QED  BY <1>3, <1>4 DEF Aligned

\* Where the form computes with the price of the backend and sees both of its
\* notional filters, the two agree.
LEMMA NotionalsFollow ==
    ASSUME NEW o \in Asks, NEW f \in Filters, NEW seen \in Nat, NEW reference \in Nat,
           FormOk(o, f, seen), o.quoteOrderQty > 0 => o.quantity = 0,
           ~ (f.minNotional.min > 0
                /\ (o.type = "MARKET" \/ f.notional.min > 0 \/ f.notional.max > 0)),
           NotionalPrice(o, reference) =
              IF o.type \in LimitPriceTypes THEN o.price
              ELSE IF o.type \in StopPriceTypes THEN o.stopPrice ELSE seen
    PROVE  NotionalOutside(o, FromList(f), reference) = {}
<1> DEFINE price == IF o.type \in LimitPriceTypes THEN o.price
                    ELSE IF o.type \in StopPriceTypes THEN o.stopPrice ELSE seen
           worth == IF o.quantity = 0 THEN o.quoteOrderQty ELSE price * o.quantity
           digest == NotionalDigest(f)
           Applies(toMarket) == worth > 0 /\ (o.type = "MARKET" => toMarket)
           market == o.type \in MarketNotionalTypes
<1>1. /\ o.quantity \in Nat /\ o.quoteOrderQty \in Nat /\ o.price \in Nat /\ o.stopPrice \in Nat
      /\ price \in Nat
  BY DEF Asks
<1>2. /\ f.minNotional.min \in Nat /\ f.minNotional.applyToMarket \in BOOLEAN
      /\ f.notional.min \in Nat /\ f.notional.max \in Nat
      /\ f.notional.minToMarket \in BOOLEAN /\ f.notional.maxToMarket \in BOOLEAN
  BY DEF Filters
<1>3. /\ Applies(digest.minToMarket) => worth >= digest.min
      /\ Applies(digest.maxToMarket) /\ digest.max > 0 => worth <= digest.max
  BY DEF FormOk
<1>4. worth = Notional(o, reference) /\ worth \in Nat
  <2>1. NotionalPrice(o, reference) = price
    OBVIOUS
  <2>2. o.quoteOrderQty = 0 => o.quantity > 0
    BY <1>1 DEF FormOk, QuantityOk
  <2> HIDE DEF price
  <2> QED  BY <1>1, <2>1, <2>2 DEF Notional
<1>5. o.type = "MARKET" => market
  BY DEF MarketNotionalTypes
<1> HIDE DEF worth, price
<1>6. CASE f.minNotional.min = 0
  <2>1. digest = f.notional
    BY <1>6 DEF NotionalDigest
  <2>2. ~ (worth > 0 /\ worth < f.notional.min /\ (market => f.notional.minToMarket))
    BY <1>2, <1>3, <1>4, <1>5, <2>1
  <2>3. ~ (worth > 0 /\ f.notional.max > 0 /\ worth > f.notional.max
             /\ (market => f.notional.maxToMarket))
    BY <1>2, <1>3, <1>4, <1>5, <2>1
  <2>4. ~ (worth < f.minNotional.min)
    BY <1>2, <1>4, <1>6
  <2> QED  BY <1>4, <2>2, <2>3, <2>4 DEF NotionalOutside, FromList
<1>7. CASE f.minNotional.min > 0
  <2>1. o.type # "MARKET" /\ f.notional.min = 0 /\ f.notional.max = 0
    BY <1>2, <1>7
  <2>2. digest.min = f.minNotional.min /\ worth > 0 => worth >= f.minNotional.min
    BY <1>3, <2>1
  <2>3. digest.min = f.minNotional.min
    BY <1>7 DEF NotionalDigest
  <2>4. ~ (worth > 0 /\ worth < f.minNotional.min)
    BY <1>2, <1>4, <2>2, <2>3
  <2> QED  BY <1>2, <1>4, <2>1, <2>4 DEF NotionalOutside, FromList
<1> QED  BY <1>2, <1>6, <1>7

LEMMA RefusedKept ==
    ASSUME Inv, Inv', Refused, [Next]_vars
    PROVE  Refused'
<1>1. CASE order' = order
  <2>1. Refused' = Refused
    BY <1>1 DEF Refused, FromForm, RefusalIsVerdict, BackendVerdict
  <2> QED  BY <2>1
<1>2. ASSUME NEW seen \in Prices \union {0}, Submit(seen) PROVE Refused'
  <2>1. info # NoInfo
    BY <1>2 DEF Submit, MaySubmit, Inv, LookupsOk
  <2> DEFINE f == FiltersAt(info.symbol, info.version)
  <2>2. FormOk(Filled, f, seen)
    BY <1>2 DEF Submit
  <2>3. PICK q \in Snapped(Filled.quantity, f.lot.step), p \in Snapped(form.price, f.price.step),
             sp \in Snapped(form.stopPrice, f.price.step) :
          \E lost : order' = NewOrder([Filled EXCEPT !.quantity = q, !.price = p, !.stopPrice = sp],
                                      info, seen, lost)
    BY <1>2 DEF Submit
  <2> DEFINE asks == [Filled EXCEPT !.quantity = q, !.price = p, !.stopPrice = sp]
  <2>4. Filled \in Asks /\ form \in Asks /\ form \in Forms
    BY FormTyped DEF Inv, TypeOK
  <2>5. /\ Filled.price = form.price /\ Filled.stopPrice = form.stopPrice
        /\ Filled.type = form.type /\ Filled.format = form.format
        /\ Filled.quoteOrderQty = form.quoteOrderQty
        /\ form.quoteOrderQty > 0 => Filled.quantity = 0
    BY <2>4 DEF Filled, Asks
  <2>6. asks.price = p /\ asks.stopPrice = sp
    BY <2>4 DEF Asks
  <2> HIDE DEF asks, f
  <2>7. /\ order'.asks = asks /\ order'.filled = Filled /\ order'.info = info /\ order'.seen = seen
        /\ order'.stage = "sent"
    BY <2>3 DEF NewOrder, asks
  <2>8. Filled.quoteOrderQty > 0 => Filled.quantity = 0 /\ Filled.type = "MARKET" /\ Filled.format # "numbers"
    BY <2>4, <2>5, QuoteAssumption
  <2>9. FromForm(order')
    BY <2>2, <2>3, <2>4, <2>5, <2>6, <2>7, <2>8 DEF FromForm, f
  <2>10. RefusalIsVerdict(order')
    BY <2>7 DEF RefusalIsVerdict
  <2> QED  BY <2>9, <2>10 DEF Refused
<1>3. ASSUME NEW asks \in ApiOrders, ApiSubmit(asks) PROVE Refused'
  <2>1. order'.info = NoInfo /\ order'.stage = "sent"
    BY <1>3 DEF ApiSubmit, NewOrder
  <2> QED  BY <2>1 DEF Refused, RefusalIsVerdict
<1>4. CASE ServiceStep /\ (\A asks \in ApiOrders : ~ ApiSubmit(asks)) /\ ~ FiltersChange
  <2>1. /\ order \in Orders /\ order # NoOrder
        /\ order'.asks = order.asks /\ order'.filled = order.filled
        /\ order'.symbol = order.symbol /\ order'.info = order.info /\ order'.seen = order.seen
        /\ order'.stage = "refused" =>
              BackendJudges \/ (Draft /\ Ends("refused", {<<"contract", "">>}))
    BY <1>4, OrderKeeps DEF Restaged
  <2>2. order'.info # NoInfo => FromForm(order')
    BY <2>1 DEF Refused, FromForm
  <2>3. CASE Draft /\ Ends("refused", {<<"contract", "">>})
    <3>1. order'.broken = {<<"contract", "">>} /\ order'.stage = "refused"
      BY <2>1, <2>3 DEF Ends, Orders
    <3>2. ~ (RequestFieldsOk(order.asks) /\ SubmitCommandOk(order.asks, Exponential))
      <4>1. Goes("drafted") => order'.stage = "drafted"
        BY <2>1 DEF Goes, Orders
      <4> QED  BY <2>3, <3>1, <4>1 DEF Draft
    <3> QED  BY <2>1, <2>2, <3>1, <3>2 DEF Refused, RefusalIsVerdict
  <2>4. CASE BackendJudges
    <3>1. order.stage = "filters" /\ OrderOk(order)
      BY <2>1, <2>4 DEF BackendJudges, Inv
    <3>2. order.backend \in Versions
      BY <3>1 DEF OrderOk, AppendedPassed
    <3> DEFINE Broken(reference) ==
                 Violations(order.asks, FromList(FiltersAt(order.symbol, order.backend)), reference)
    <3>3. PICK reference, stage : order' = [order EXCEPT !.stage = stage,
                 !.references.backend = reference, !.broken = Broken(reference)]
      BY <2>4 DEF BackendJudges
    <3> HIDE DEF Broken
    <3>4. order.references \in [backend : Nat, execution : Nat]
      BY <2>1 DEF Orders
    <3>5. order' = [order EXCEPT !.stage = stage,
                 !.references = [order.references EXCEPT !.backend = reference],
                 !.broken = Broken(reference)]
      BY <3>3
    <3>6. /\ order'.references.backend = reference /\ order'.broken = Broken(reference)
          /\ order'.backend = order.backend
      BY <2>1, <3>4, <3>5 DEF Orders
    <3>7. BackendVerdict(order') = order'.broken
      BY <2>1, <3>6 DEF BackendVerdict, Broken
    <3> QED  BY <2>2, <3>2, <3>6, <3>7 DEF Refused, RefusalIsVerdict
  <2>5. CASE order'.stage # "refused"
    BY <2>2, <2>5 DEF Refused, RefusalIsVerdict
  <2> QED  BY <2>1, <2>3, <2>4, <2>5
<1>5. CASE UNCHANGED vars
  BY <1>1, <1>5 DEF vars
<1>6. CASE PageStep
  <2>1. order' = order \/ \E seen \in Prices \union {0} : Submit(seen)
    BY <1>6 DEF PageStep, AnswerLookup, LookupFails, Arrive, ArriveFailed, SelectSymbol, Type, PercentSize
  <2> QED  BY <1>1, <1>2, <2>1
<1>7. CASE FiltersChange
  BY <1>1, <1>7 DEF FiltersChange
<1> QED  BY <1>3, <1>4, <1>5, <1>6, <1>7 DEF Next

LEMMA RefusedHolds == Spec => []Refused
<1>1. Init => Refused
  BY DEF Init, Refused
<1> QED  BY <1>1, RefusedKept, InvHolds, PTL DEF Spec

\* What the form passed breaks, of a filter of its own, only what it does not
\* look at.
LEMMA VerdictFollows ==
    ASSUME NEW o \in Asks, NEW f \in Filters, NEW seen \in Nat, NEW reference \in Nat,
           FormOk(o, f, seen), o.quoteOrderQty > 0 => o.quantity = 0,
           o.price \in Snapped(o.price, f.price.step),
           o.stopPrice \in Snapped(o.stopPrice, f.price.step),
           NEW field, NEW e,
           <<field, e>> \in Violations(o, FromList(f), reference)
    PROVE  \/ field = "quantity" /\ e = "MAX"
           \/ field \in {"price", "stopPrice"} /\ e \in {"MIN", "MAX"}
           \/ field = "quantity" /\ e \in {"MIN", "STEP"} /\ o.type = "MARKET"
                /\ QuantityFilter(o.type, f) # f.lot
           \/ field = "notional" /\ e \in {"MIN", "MAX"}
                /\ e \in NotionalOutside(o, FromList(f), reference)
<1>1. f.price.step \in Nat /\ o.price \in Nat /\ o.stopPrice \in Nat /\ o.quantity \in Nat
      /\ o.quoteOrderQty \in Nat
  BY DEF Filters, LotFilters, Asks
<1>2. \/ field = "quantity" /\ o.quantity > 0 /\ e \in Outside(o.quantity, QuantityFilter(o.type, f))
      \/ field = "price" /\ o.price > 0 /\ e \in Outside(o.price, f.price)
      \/ field = "stopPrice" /\ o.stopPrice > 0 /\ e \in Outside(o.stopPrice, f.price)
      \/ field = "notional" /\ e \in NotionalOutside(o, FromList(f), reference)
  <2> DEFINE Tagged(name, errors) == {<<name, x>> : x \in errors}
             In(amount, limits) == IF amount > 0 THEN Outside(amount, limits) ELSE {}
  <2>1. \/ <<field, e>> \in Tagged("quantity", In(o.quantity, QuantityFilter(o.type, f)))
        \/ <<field, e>> \in Tagged("price", In(o.price, f.price))
        \/ <<field, e>> \in Tagged("stopPrice", In(o.stopPrice, f.price))
        \/ <<field, e>> \in Tagged("notional", NotionalOutside(o, FromList(f), reference))
    BY DEF Violations, FromList
  <2>2. \A name, errors : <<field, e>> \in Tagged(name, errors) => field = name /\ e \in errors
    OBVIOUS
  <2>3. \A amount, limits : e \in In(amount, limits) => amount > 0 /\ e \in Outside(amount, limits)
    OBVIOUS
  <2> HIDE DEF Tagged, In
  <2> QED  BY <2>1, <2>2, <2>3
<1>3. \A amount, limits : Outside(amount, limits) \subseteq {"MIN", "MAX", "STEP"}
  BY DEF Outside
<1>4. CASE field = "quantity"
  <2>1. o.quantity > 0 /\ e \in Outside(o.quantity, QuantityFilter(o.type, f))
    BY <1>2, <1>4
  <2>2. Outside(o.quantity, f.lot) \subseteq {"MAX"}
    BY <1>1, <2>1 DEF FormOk, QuantityOk
  <2>3. QuantityFilter(o.type, f) # f.lot => o.type = "MARKET"
    BY DEF QuantityFilter
  <2> QED  BY <1>3, <1>4, <2>1, <2>2, <2>3
<1>5. CASE field = "price"
  <2>1. e = "STEP" => f.price.step > 0 /\ ~ Aligned(o.price, f.price.step) /\ o.price > 0
    BY <1>2, <1>5 DEF Outside
  <2>2. e # "STEP"
    BY <1>1, <2>1, SnappedAligned
  <2> QED  BY <1>2, <1>3, <1>5, <2>2
<1>6. CASE field = "stopPrice"
  <2>1. e = "STEP" => f.price.step > 0 /\ ~ Aligned(o.stopPrice, f.price.step) /\ o.stopPrice > 0
    BY <1>2, <1>6 DEF Outside
  <2>2. e # "STEP"
    BY <1>1, <2>1, SnappedAligned
  <2> QED  BY <1>2, <1>3, <1>6, <2>2
<1>7. CASE field = "notional"
  BY <1>2, <1>7 DEF NotionalOutside
<1> QED  BY <1>2, <1>4, <1>5, <1>6, <1>7

------------------------------------------------------------------------------
(* theorems                                                                *)

\* Types, for any markets, filters, prices, quantities and orders.
THEOREM TypeCorrect == Spec => []TypeOK
<1>1. Inv => TypeOK
  BY DEF Inv
<1> QED  BY <1>1, InvHolds, PTL

\* However the user changes markets and the answers come, an order of the page
\* was checked and rounded with the filters of its market.
THEOREM OwnFiltersHolds == Spec => []OwnFilters
<1>1. Inv => OwnFilters
  BY DEF Inv, OwnFilters, FromPage, NoOrder, OrderOk, OwnMarket
<1> QED  BY <1>1, InvHolds, PTL

\* For any markets, filters and quantities: an order of the page is for what
\* was typed last, or less because a step or the rounding took some, unless
\* an answer of a lookup overwrote it.
THEOREM PostedAsTypedHolds == Spec => []PostedAsTyped
<1>1. ASSUME Inv, Accounted PROVE PostedAsTyped
  <2>1. CASE order = NoOrder
    BY <2>1 DEF PostedAsTyped, FromPage, NoOrder
  <2>2. CASE order # NoOrder
    BY <1>1, <2>2 DEF PostedAsTyped, FromPage, Accounted, OrderFaithful, Faithful, Cut
  <2> QED  BY <2>1, <2>2
<1> QED  BY <1>1, InvHolds, AccountedHolds, PTL

\* For any filters, prices, quantities and forms: an order that the form
\* passes, and posts as it was checked, is refused by a backend that has the
\* same filters only for what Unchecked lists.
THEOREM BackendAgreesHolds == Spec => []BackendAgrees
<1>1. ASSUME Inv, Refused, FromPage, order.stage = "refused", order.asks = order.filled,
             order.backend \in {0, order.info.version}
      PROVE  order.broken \subseteq Unchecked
  <2> DEFINE o == order.asks
             reference == order.references.backend
             f == FiltersAt(order.symbol, order.info.version)
  <2>1. order \in Orders /\ order # NoOrder /\ order.info # NoInfo /\ OrderOk(order)
    BY <1>1, OrderTyped DEF FromPage
  <2>2. order.info.symbol = order.symbol /\ order.symbol \in Symbols
    BY <2>1 DEF OrderOk, OwnMarket, Orders
  <2>3. FromForm(order) /\ RefusalIsVerdict(order)
    BY <1>1, <2>1 DEF Refused
  <2>4. /\ o \in Asks /\ FormOk(o, f, order.seen)
        /\ o.quoteOrderQty > 0 => o.quantity = 0 /\ o.type = "MARKET" /\ o.format # "numbers"
        /\ o.price \in Snapped(o.price, f.price.step)
        /\ o.stopPrice \in Snapped(o.stopPrice, f.price.step)
    BY <1>1, <2>2, <2>3 DEF FromForm
  <2>5. CASE order.broken = {<<"contract", "">>}
             /\ ~ (RequestFieldsOk(order.asks) /\ SubmitCommandOk(order.asks, Exponential))
    <3> HIDE DEF o, f
    <3>1. o.format = "odd" \/ {o.quantity, o.price, o.stopPrice} \intersect Exponential # {}
      BY <2>4, <2>5, ContractsFollow DEF o
    <3>2. <<"contract", "">> \in Unchecked
      BY <3>1 DEF Unchecked, o
    <3> QED  BY <2>5, <3>2
  <2>6. CASE order.backend \in Versions /\ order.broken = BackendVerdict(order)
    <3>1. order.backend = order.info.version /\ order.info.version \in Versions
      BY <1>1, <2>6 DEF Versions
    <3>2. f \in Filters /\ order.seen \in Nat /\ reference \in Nat
      BY <2>1, <2>2, <3>1, FiltersTyped DEF Orders
    <3>3. order.broken = Violations(o, FromList(f), reference)
      BY <2>6, <3>1 DEF BackendVerdict
    <3> DEFINE blind == f.minNotional.min > 0
                          /\ (o.type = "MARKET" \/ f.notional.min > 0 \/ f.notional.max > 0)
               paged == IF o.type \in LimitPriceTypes THEN o.price
                        ELSE IF o.type \in StopPriceTypes THEN o.stopPrice ELSE order.seen
    <3> HIDE DEF o, f, reference
    <3>4. NotionalOutside(o, FromList(f), reference) # {} =>
              blind \/ NotionalPrice(o, reference) # paged
      BY <2>4, <3>2, NotionalsFollow
    <3>5. ASSUME NEW field, NEW e, <<field, e>> \in order.broken
          PROVE  <<field, e>> \in Unchecked
      <4>1. \/ field = "quantity" /\ e = "MAX"
            \/ field \in {"price", "stopPrice"} /\ e \in {"MIN", "MAX"}
            \/ field = "quantity" /\ e \in {"MIN", "STEP"} /\ o.type = "MARKET"
                 /\ QuantityFilter(o.type, f) # f.lot
            \/ field = "notional" /\ e \in {"MIN", "MAX"}
                 /\ e \in NotionalOutside(o, FromList(f), reference)
        BY <2>4, <3>2, <3>3, <3>5, VerdictFollows
      <4>2. CASE field = "quantity" /\ e = "MAX"
        BY <4>2 DEF Unchecked
      <4>3. CASE field \in {"price", "stopPrice"} /\ e \in {"MIN", "MAX"}
        BY <4>3 DEF Unchecked
      <4>4. CASE field = "quantity" /\ e \in {"MIN", "STEP"} /\ o.type = "MARKET"
                 /\ QuantityFilter(o.type, f) # f.lot
        BY <4>4 DEF Unchecked, o, f
      <4>5. CASE field = "notional" /\ e \in {"MIN", "MAX"}
                 /\ e \in NotionalOutside(o, FromList(f), reference)
        <5>1. blind \/ NotionalPrice(o, reference) # paged
          BY <3>4, <4>5
        <5> QED  BY <4>5, <5>1 DEF Unchecked, o, f, reference
      <4> QED  BY <4>1, <4>2, <4>3, <4>4, <4>5
    <3>6. order.broken \subseteq Amounts
      BY <3>3, ViolationsAreOfAmounts DEF Amounts
    <3>7. \A b \in order.broken : \E field, e : b = <<field, e>>
      BY <3>6 DEF Amounts
    <3> QED  BY <3>5, <3>7
  <2> QED  BY <1>1, <2>3, <2>5, <2>6 DEF RefusalIsVerdict
<1>2. Inv /\ Refused => BackendAgrees
  BY <1>1 DEF BackendAgrees
<1> QED  BY <1>2, InvHolds, RefusedHolds, PTL

\* Whatever filters a symbol has: what the backend let through, the execution
\* service stops only with other filters or another price.
THEOREM ExecutionAgreesHolds == Spec => []ExecutionAgrees
<1>1. ASSUME Inv, order.stage = "rejected", order.broken \intersect Amounts # {},
             order.execution = order.backend,
             order.references.execution = order.references.backend
      PROVE  FALSE
  <2>1. order \in Orders /\ OrderOk(order)
    BY <1>1, OrderTyped
  <2>2. BackendVerdict(order) = {} /\ order.backend \in Versions /\ order.broken = ExecutionVerdict(order)
    BY <1>1, <2>1 DEF OrderOk, AppendedPassed, RejectionIsVerdict, Appended
  <2> DEFINE f == FiltersAt(order.symbol, order.backend)
             reference == order.references.backend
  <2>3. f \in Filters /\ reference \in Nat
    BY <2>1, <2>2, FiltersTyped DEF Orders
  <2>4. Notional(order.asks, reference) \in Nat
    <3>1. /\ order.asks.quantity \in Nat /\ order.asks.quoteOrderQty \in Nat
          /\ order.asks.price \in Nat /\ order.asks.stopPrice \in Nat
      BY <2>1 DEF Orders, Asks
    <3> HIDE DEF reference
    <3>2. NotionalPrice(order.asks, reference) \in Nat
      BY <2>3, <3>1 DEF NotionalPrice
    <3> QED  BY <3>1, <3>2 DEF Notional
  <2>5. ExecutionVerdict(order) = BackendVerdict(order)
    BY <1>1, <2>3, <2>4, ShapesAgree DEF ExecutionVerdict, BackendVerdict
  <2> QED  BY <1>1, <2>2, <2>5
<1>2. Inv => ExecutionAgrees
  BY <1>1 DEF ExecutionAgrees, Amounts
<1> QED  BY <1>2, InvHolds, PTL

\* For every order: what is appended is no dead letter, and its call has the
\* parameters its type needs.
THEOREM EntriesComeThroughHolds == Spec => []EntriesComeThrough
<1>1. ASSUME Inv PROVE EntriesComeThrough
  <2>1. CASE order = NoOrder
    BY <2>1 DEF EntriesComeThrough, NoOrder
  <2>2. CASE order # NoOrder
    BY <1>1, <2>2 DEF Inv, EntriesComeThrough, OrderOk, ComesThrough
  <2> QED  BY <2>1, <2>2
<1> QED  BY <1>1, InvHolds, PTL

================================================================================
