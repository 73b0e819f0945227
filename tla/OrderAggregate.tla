--------------------------- MODULE OrderAggregate ---------------------------
(***************************************************************************)
(* The order aggregate (order_aggregate.go).  A command is the set of      *)
(* events it may emit, empty when it returns an error; it is called at     *)
(* time `now`.                                                             *)
(***************************************************************************)
EXTENDS AggregateBase

OrderStatuses == {"NEW", "PLACED", "MODIFIED", "FILLED", "CANCELLED"}

OrderNew ==
    [status |-> "NEW", terms |-> Missing, order_type |-> "", qty |-> 0,
     price |-> 0, filled_qty |-> 0, filled_price |-> 0, modify_count |-> 0,
     placed_at |-> Never, modified_at |-> Never, cancelled_at |-> Never,
     filled_at |-> Never]

-----------------------------------------------------------------------------
\* Commands.

OrderPlace(o, now) ==
    {e \in [type : {"OrderPlaced"}, at : {now}, terms : Terms \cup {Missing},
            order_type : OrderTypes, qty : Quantities, price : Prices] :
        o.status = "NEW" /\ ValidQuantity(e.qty) /\ e.terms # Missing}

OrderCanModify(o) == o.status \notin {"NEW", "CANCELLED", "FILLED"}

\* A faulty OrderCanCancel: an order that was never placed can be cancelled.
OrderCanCancelNew(o) == o.status \notin {"CANCELLED", "FILLED"}

OrderCanCancel(o) == o.status \notin {"NEW", "CANCELLED", "FILLED"}

\* A faulty OrderCanFill: a cancelled order can be filled.
OrderCanFillCancelled(o) == o.status \notin {"NEW", "FILLED"}

OrderCanFill(o) == o.status \notin {"NEW", "CANCELLED", "FILLED"}

\* The event of Modify called with an order type, "" for the current one.
ModifiedEvent(o, qty, price, order_type, now) ==
    [type |-> "OrderModified", at |-> now, qty |-> qty, price |-> price,
     order_type |-> IF order_type = "" THEN o.order_type ELSE order_type]

\* A faulty OrderModify: no check that a field changes.
OrderModifyAny(o, now) ==
    {ModifiedEvent(o, c[1], c[2], c[3], now) :
        c \in {d \in Quantities \X Prices \X (OrderTypes \cup {""}) :
                OrderCanModify(o) /\ ValidQuantity(d[1])}}

OrderModify(o, now) ==
    {ModifiedEvent(o, c[1], c[2], c[3], now) :
        c \in {d \in Quantities \X Prices \X (OrderTypes \cup {""}) :
                /\ OrderCanModify(o)
                /\ ValidQuantity(d[1])
                /\ ~(d[1] = o.qty /\ d[2] = o.price
                     /\ d[3] \in {"", o.order_type})}}

OrderCancel(o, now) ==
    {e \in [type : {"OrderCancelled"}, at : {now}] : OrderCanCancel(o)}

OrderFill(o, now) ==
    {e \in [type : {"OrderFilled"}, at : {now}, qty : Quantities,
            price : Prices] :
        OrderCanFill(o) /\ ValidQuantity(e.qty) /\ e.price > 0}

-----------------------------------------------------------------------------
\* The public events of the order of `owner`: a modification says neither
\* what changed nor to what.
OrderBusEvents(owner, now) ==
    [type : {"order.placed", "order.filled"}, at : {now}, terms : {owner},
     qty : {q \in Quantities : ValidQuantity(q)}, price : Prices]
    \cup [type : {"order.modified", "order.cancelled"}, at : {now},
          terms : {owner}]

\* Apply: what an event does to the state, whatever the status is.

OrderApply(o, e) ==
    CASE e.type = "OrderPlaced" ->
            [o EXCEPT !.status = "PLACED", !.terms = e.terms,
                      !.order_type = e.order_type, !.qty = e.qty,
                      !.price = e.price, !.placed_at = e.at]
      [] e.type = "OrderModified" ->
            [o EXCEPT !.status = "MODIFIED", !.qty = e.qty,
                      !.price = e.price, !.order_type = e.order_type,
                      !.modify_count = @ + 1, !.modified_at = e.at]
      [] e.type = "order.placed" ->
            [o EXCEPT !.status = "PLACED", !.terms = e.terms, !.qty = e.qty,
                      !.price = e.price, !.placed_at = e.at]
      [] e.type = "order.modified" ->
            [o EXCEPT !.status = "MODIFIED", !.modify_count = @ + 1,
                      !.modified_at = e.at]
      [] e.type \in {"OrderCancelled", "order.cancelled"} ->
            [o EXCEPT !.status = "CANCELLED", !.cancelled_at = e.at]
      [] e.type \in {"OrderFilled", "order.filled"} ->
            [o EXCEPT !.status = "FILLED", !.filled_price = e.price,
                      !.filled_qty = e.qty, !.filled_at = e.at]

-----------------------------------------------------------------------------
\* The stored form of an event and the way back; the stored form of a public
\* event is its JSON.

OrderPayload(e) ==
    CASE e.type = "OrderPlaced" ->
            [terms |-> e.terms, order_type |-> e.order_type,
             quantity |-> e.qty, price |-> e.price]
      [] e.type = "OrderModified" ->
            [new_quantity |-> e.qty, new_price |-> e.price,
             new_order_type |-> e.order_type]
      [] e.type = "OrderCancelled" -> NoPayload
      [] e.type = "OrderFilled" ->
            [filled_price |-> e.price, filled_quantity |-> e.qty]

OrderEvent(row) ==
    LET p == row.payload
    IN  CASE row.type = "OrderPlaced" ->
                [type |-> row.type, at |-> row.at, terms |-> p.terms,
                 order_type |-> p.order_type,
                 qty |-> QuantityOrZero(p.quantity), price |-> p.price]
          [] row.type = "OrderModified" ->
                [type |-> row.type, at |-> row.at,
                 qty |-> QuantityOrZero(p.new_quantity),
                 price |-> p.new_price, order_type |-> p.new_order_type]
          [] row.type = "OrderCancelled" -> [type |-> row.type, at |-> row.at]
          [] row.type = "OrderFilled" ->
                [type |-> row.type, at |-> row.at,
                 qty |-> QuantityOrZero(p.filled_quantity),
                 price |-> p.filled_price]
          [] OTHER -> FromJSON(p)

=============================================================================
