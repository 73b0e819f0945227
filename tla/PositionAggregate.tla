-------------------------- MODULE PositionAggregate --------------------------
(***************************************************************************)
(* The position aggregate (position_aggregate.go), written like            *)
(* OrderAggregate.  The order that closed a position is stored but never   *)
(* read, so it is left out.  In public events the terms are the natural    *)
(* key of the position, the product included.                              *)
(***************************************************************************)
EXTENDS AggregateBase

PositionStatuses == {"OPEN", "CLOSED"}

\* A new position is OPEN before it is opened.
PositionNew ==
    [status |-> "OPEN", terms |-> Missing, qty |-> 0, avg_price |-> 0,
     opened_at |-> Never, closed_at |-> Never]

\* Open looks at the version, not at the status, and not at the price.
PositionOpen(version, now) ==
    {e \in [type : {"PositionOpened"}, at : {now}, terms : Terms \cup {Missing},
            qty : Quantities, price : Prices] :
        version = 0 /\ e.terms # Missing /\ ValidQuantity(e.qty)}

PositionCanClose(p) == p.status = "OPEN"

PositionClose(p, now) ==
    {e \in [type : {"PositionClosed"}, at : {now}] : PositionCanClose(p)}

\* The public events of the position of `owner`; closed has the quantity of
\* the closing order, which nobody reads.
PositionBusEvents(owner, now) ==
    [type : {"position.opened"}, at : {now}, terms : {owner},
     qty : {q \in Quantities : ValidQuantity(q)}, price : Prices]
    \cup [type : {"position.closed"}, at : {now}, terms : {owner}]

\* What both opened events do.
Opened(p, e) ==
    [p EXCEPT !.status = "OPEN", !.terms = e.terms, !.qty = e.qty,
              !.avg_price = e.price, !.opened_at = e.at]

\* A faulty OpenedAgain: ClosedAt of the position's earlier life stays.
OpenedAgainStale(p, e) == Opened(p, e)

\* The public event may open a position again.
OpenedAgain(p, e) == [Opened(p, e) EXCEPT !.closed_at = Never]

PositionApply(p, e) ==
    CASE e.type = "PositionOpened" -> Opened(p, e)
      [] e.type = "position.opened" -> OpenedAgain(p, e)
      [] e.type = "PositionClosed" ->
            [p EXCEPT !.status = "CLOSED", !.qty = 0, !.closed_at = e.at]
      [] e.type = "position.closed" ->
            [p EXCEPT !.status = "CLOSED", !.qty = 0, !.closed_at = e.at,
                      !.terms = IF @ = Missing THEN e.terms ELSE @]

PositionPayload(e) ==
    IF e.type = "PositionOpened"
    THEN [terms |-> e.terms, quantity |-> e.qty, avg_price |-> e.price]
    ELSE NoPayload

PositionEvent(row) ==
    CASE row.type = "PositionOpened" ->
            [type |-> row.type, at |-> row.at, terms |-> row.payload.terms,
             qty |-> QuantityOrZero(row.payload.quantity),
             price |-> row.payload.avg_price]
      [] row.type = "PositionClosed" -> [type |-> row.type, at |-> row.at]
      [] OTHER -> FromJSON(row.payload)

=============================================================================
