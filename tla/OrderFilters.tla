------------------------------ MODULE OrderFilters ------------------------------
(***************************************************************************)
(* The checks an order passes between the page and Binance, as operators   *)
(* on data: the request and command contracts, the exchange filters, and   *)
(* the parameters of the call.  The code computes on decimal strings; here *)
(* an amount is a number of the smallest unit, so its arithmetic is exact, *)
(* as it is there, and 0 stands for an amount that is absent or disabled.  *)
(*                                                                         *)
(* A symbol's filters are one record.  Binance sends them as a list; the   *)
(* client of the execution service adds a digest of them beside the list,  *)
(* and the validator falls back on the digest for a filter the list lacks. *)
(* The limits on open orders and positions are left out: no caller passes  *)
(* the context they need.  Two things of the page's floating point are     *)
(* left out as well, both of more digits than a step has: validateQty      *)
(* takes an amount for aligned that its product with the scale rounds to,  *)
(* and roundToStep one that is short of a step by less than 1e-9 of it.    *)
(***************************************************************************)
EXTENDS Integers

OrderTypes == {"MARKET", "LIMIT", "STOP_LOSS", "STOP_LOSS_LIMIT",
               "TAKE_PROFIT", "TAKE_PROFIT_LIMIT", "LIMIT_MAKER"}
LimitPriceTypes == {"LIMIT", "STOP_LOSS_LIMIT", "TAKE_PROFIT_LIMIT", "LIMIT_MAKER"}

\* Mutant: only the plain stops need a stop price.
StopPriceTypesPlain == {"STOP_LOSS", "TAKE_PROFIT"}

StopPriceTypes == {"STOP_LOSS", "STOP_LOSS_LIMIT", "TAKE_PROFIT", "TAKE_PROFIT_LIMIT"}
MarketNotionalTypes == {"MARKET", "STOP_LOSS", "TAKE_PROFIT"}

\* How amounts are written in the body of a request: as JavaScript numbers, as
\* text with plain digits, or as any other text that reads as a number, such as
\* ".5", "12.", "05" and "1e2".
Formats == {"numbers", "plain", "odd"}

\* What an order asks for.
Asks == [type : OrderTypes, quantity : Nat, quoteOrderQty : Nat, price : Nat,
         stopPrice : Nat, format : Formats]

LotFilters == [min : Nat, max : Nat, step : Nat]

\* lot, marketLot: LOT_SIZE, MARKET_LOT_SIZE; price: PRICE_FILTER with its
\* tick; minNotional, notional: MIN_NOTIONAL, NOTIONAL.
Filters ==
    [lot : LotFilters, marketLot : LotFilters, price : LotFilters,
     minNotional : [min : Nat, applyToMarket : BOOLEAN],
     notional : [min : Nat, max : Nat, minToMarket : BOOLEAN, maxToMarket : BOOLEAN]]

------------------------------------------------------------------------------
(* contracts of a submit                                                   *)

\* The contract wants plain digits (DECIMAL_STRING_PATTERN).  Text is tested as
\* it was sent; a number is printed first, and those in Exponential come out
\* with an exponent.
PlainDecimal(amount, format, Exponential) ==
    amount > 0 /\ format # "odd" /\ (format = "numbers" => amount \notin Exponential)

\* validateOrderRequestFields of the backend, which reads any text that
\* Decimal reads.
RequestFieldsOk(o) ==
    /\ IF o.type = "MARKET"
       THEN (o.quantity > 0) # (o.quoteOrderQty > 0)
       ELSE o.quantity > 0 /\ o.quoteOrderQty = 0
    /\ o.type \in LimitPriceTypes => o.price > 0
    /\ o.type \in StopPriceTypes => o.stopPrice > 0

\* validateOrderSubmitCommand, when the entry is built and when it is parsed.
SubmitCommandOk(o, Exponential) ==
    LET Plain(amount) == PlainDecimal(amount, o.format, Exponential)
        Given(amount) == amount > 0 => Plain(amount)
    IN  /\ o.type \in OrderTypes
        /\ IF o.type = "MARKET"
           THEN /\ (o.quantity > 0) # (o.quoteOrderQty > 0)
                /\ Given(o.quantity) /\ Given(o.quoteOrderQty)
           ELSE Plain(o.quantity) /\ o.quoteOrderQty = 0
        /\ o.type \in LimitPriceTypes => Plain(o.price)
        /\ o.type \in StopPriceTypes => Plain(o.stopPrice)
        /\ Given(o.price) /\ Given(o.stopPrice)

\* buildOrderRequestParams of the client: what the call needs.
RequestParamsOk(o) ==
    /\ IF o.type = "MARKET"
       THEN (o.quantity > 0) # (o.quoteOrderQty > 0)
       ELSE o.quantity > 0 /\ o.quoteOrderQty = 0
    /\ o.type \in {"LIMIT", "LIMIT_MAKER", "STOP_LOSS_LIMIT", "TAKE_PROFIT_LIMIT"} => o.price > 0
    /\ o.type \in {"STOP_LOSS", "TAKE_PROFIT", "STOP_LOSS_LIMIT", "TAKE_PROFIT_LIMIT"} =>
           o.stopPrice > 0

------------------------------------------------------------------------------
(* filters                                                                 *)

\* The filters of a symbol as the backend has them: Binance's list.
FromList(f) == f

\* The digest of the client: MIN_NOTIONAL if there is one, else NOTIONAL.
NotionalDigest(f) ==
    IF f.minNotional.min > 0
    THEN [min |-> f.minNotional.min, max |-> 0, minToMarket |-> FALSE, maxToMarket |-> FALSE]
    ELSE f.notional

\* Mutant: the digest of NOTIONAL is applied to market orders too.
FromDigestToMarket(f) ==
    [f EXCEPT !.minNotional = IF @.min > 0 THEN @
         ELSE [min |-> NotionalDigest(f).min, applyToMarket |-> TRUE]]

\* normalizeBinanceSymbolFilters on what the client returns: a notional
\* filter the list lacks is made from the digest, which does not say
\* applyToMarket.
FromDigest(f) ==
    [f EXCEPT
        !.minNotional = IF @.min > 0 THEN @
            ELSE [min |-> NotionalDigest(f).min, applyToMarket |-> FALSE],
        !.notional = IF @.min > 0 \/ @.max > 0 THEN @ ELSE NotionalDigest(f)]

\* MARKET_LOT_SIZE replaces LOT_SIZE for market orders, if it says anything.
QuantityFilter(type, f) ==
    IF type = "MARKET" /\ f.marketLot # [min |-> 0, max |-> 0, step |-> 0]
    THEN f.marketLot ELSE f.lot

\* isDecimalMultiple, on scaled integers.
Aligned(amount, step) == amount % step = 0

\* validateQuantityFilter, validatePriceFilter: which of the limits are broken.
Outside(amount, limits) ==
    {e \in {"MIN", "MAX", "STEP"} :
        \/ e = "MIN" /\ amount < limits.min
        \/ e = "MAX" /\ limits.max > 0 /\ amount > limits.max
        \/ e = "STEP" /\ limits.step > 0 /\ ~ Aligned(amount, limits.step)}

\* The price a notional is computed with; 0 when there is none.
NotionalPrice(o, reference) ==
    IF o.price > 0 THEN o.price ELSE IF reference > 0 THEN reference ELSE o.stopPrice

Notional(o, reference) ==
    IF o.quoteOrderQty > 0 THEN o.quoteOrderQty
    ELSE o.quantity * NotionalPrice(o, reference)

\* validateNotionalFilters.
NotionalOutside(o, f, reference) ==
    LET worth == Notional(o, reference)
        market == o.type \in MarketNotionalTypes
    IN  {e \in {"MIN", "MAX"} :
          /\ worth > 0
          /\ \/ /\ e = "MIN"
                /\ \/ worth < f.minNotional.min /\ (market => f.minNotional.applyToMarket)
                   \/ worth < f.notional.min /\ (market => f.notional.minToMarket)
             \/ /\ e = "MAX" /\ f.notional.max > 0
                /\ worth > f.notional.max /\ (market => f.notional.maxToMarket)}

\* validateOrderAgainstExchangeFilters: the fields found wanting, and how.
Violations(o, f, reference) ==
    LET Tagged(field, errors) == {<<field, e>> : e \in errors}
        In(amount, limits) == IF amount > 0 THEN Outside(amount, limits) ELSE {}
    IN  UNION {
          Tagged("quantity", In(o.quantity, QuantityFilter(o.type, f))),
          Tagged("price", In(o.price, f.price)),
          Tagged("stopPrice", In(o.stopPrice, f.price)),
          Tagged("notional", NotionalOutside(o, f, reference))}

\* shouldFetchAveragePrice: a notional that needs the market's price.
NeedsAveragePrice(o) ==
    /\ ~ (o.quoteOrderQty > 0 /\ o.quantity = 0)
    /\ o.price = 0 \/ o.type \in MarketNotionalTypes

------------------------------------------------------------------------------
(* the form                                                                *)

RoundedDown(amount, step) == (amount \div step) * step

\* Mutant: the amount is rounded up.
SnappedUp(amount, step) == IF step = 0 THEN {amount} ELSE {RoundedDown(amount + step - 1, step)}

\* roundToStep of the page.  It multiplies doubles, and the product may fall
\* short of the integer it stands for by more than the epsilon that is added:
\* an aligned amount then loses a step.
Snapped(amount, step) ==
    IF step = 0 \/ amount = 0 THEN {amount}
    ELSE {RoundedDown(amount, step), RoundedDown(amount - 1, step)}

\* Mutant: small quantities pass.
QuantityOkSmall(amount, lot) == amount > 0 /\ Outside(amount, lot) \subseteq {"MIN", "MAX"}

\* validateQty of the page: it does not look at the largest quantity.
QuantityOk(amount, lot) == amount > 0 /\ Outside(amount, lot) \subseteq {"MAX"}

\* validateNotional and buildOrderSchema of the page: f are the
\* filters it has, seen the last price it heard.
FormOk(o, f, seen) ==
    LET price == IF o.type \in LimitPriceTypes THEN o.price
                 ELSE IF o.type \in StopPriceTypes THEN o.stopPrice ELSE seen
        worth == IF o.quantity = 0 THEN o.quoteOrderQty ELSE price * o.quantity
        digest == NotionalDigest(f)
        applies(toMarket) == worth > 0 /\ (o.type = "MARKET" => toMarket)
    IN  /\ o.quoteOrderQty > 0 \/ QuantityOk(o.quantity, f.lot)
        /\ o.type \in LimitPriceTypes => o.price > 0
        /\ o.type \in StopPriceTypes => o.stopPrice > 0
        /\ applies(digest.minToMarket) => worth >= digest.min
        /\ applies(digest.maxToMarket) /\ digest.max > 0 => worth <= digest.max

================================================================================
