------------------------------ MODULE MCOrderEntry ------------------------------
(***************************************************************************)
(* OrderEntry for TLC: one market whose NOTIONAL comes to bind market      *)
(* orders and whose step becomes a matter of its MARKET_LOT_SIZE; one with *)
(* MIN_NOTIONAL and a coarser step.                                        *)
(***************************************************************************)
EXTENDS OrderEntry, TLC

CONSTANTS A, B

None == [min |-> 0, max |-> 0, step |-> 0]
Tick == [min |-> 2, max |-> 8, step |-> 2]
NoNotional == [min |-> 0, max |-> 0, minToMarket |-> FALSE, maxToMarket |-> FALSE]

First == [lot |-> [min |-> 2, max |-> 0, step |-> 1], marketLot |-> None, price |-> Tick,
          minNotional |-> [min |-> 0, applyToMarket |-> FALSE],
          notional |-> [min |-> 9, max |-> 30, minToMarket |-> FALSE, maxToMarket |-> TRUE]]
Second == [First EXCEPT !.lot.min = 5, !.lot.step = 0, !.notional.minToMarket = TRUE,
                        !.marketLot = [min |-> 0, max |-> 6, step |-> 3]]
Other == [lot |-> [min |-> 0, max |-> 6, step |-> 3], marketLot |-> None, price |-> Tick,
          minNotional |-> [min |-> 12, applyToMarket |-> TRUE], notional |-> NoNotional]

MCFilterTable == (A :> <<First, Second>>) @@ (B :> <<Other, Other>>)

Ask(type, quantity, quote, limit, stop) ==
    [type |-> type, quantity |-> quantity, quoteOrderQty |-> quote, price |-> limit,
     stopPrice |-> stop, format |-> IF quote = 0 THEN "numbers" ELSE "plain"]

MCForms == {Ask("MARKET", 0, 0, 0, 0), Ask("MARKET", 0, 12, 0, 0),
            [Ask("MARKET", 0, 12, 0, 0) EXCEPT !.format = "odd"],
            Ask("LIMIT", 0, 0, 5, 0), Ask("LIMIT", 0, 0, 2, 0),
            Ask("STOP_LOSS_LIMIT", 0, 0, 4, 4)}
MCApiOrders == {Ask("STOP_LOSS_LIMIT", 4, 0, 4, 0), Ask("STOP_LOSS", 3, 0, 0, 4)}

================================================================================
