---------------------------- MODULE AggregateBase ----------------------------
(***************************************************************************)
(* What the aggregates share: BaseAggregate (aggregate.go), the values     *)
(* their commands are called with, and the stored form of public events.   *)
(*                                                                         *)
(* An aggregate is its state, a record of the kind's own, next to the      *)
(* version and the pending events of BaseAggregate.  Inputs that a command *)
(* checks only for being there and then copies (e-mail, instrument,        *)
(* direction) are one value, a member of Terms, or Missing when a required *)
(* one of them is empty.  The product, copied likewise, is left out.       *)
(*                                                                         *)
(* Commands emit internal events ("OrderPlaced"); production use cases     *)
(* dispatch public ones ("order.placed", domain.OrderPlacedEvent).  Apply  *)
(* and the loaders handle both.                                            *)
(***************************************************************************)
EXTENDS Integers, Sequences

CONSTANTS
    Terms,       \* complete sets of copied inputs
    Missing,     \* a required input is empty
    Quantities,  \* integers commands are called with, valid or not
    Prices,      \* amounts commands are called with, valid or not
    OrderTypes,  \* "MARKET", "LIMIT", ...
    KeepsQuantity \* a domain.Quantity survives encoding/json (which is not
                  \* decided in this repository)

ASSUME TermsAssumption == Missing \notin Terms
ASSUME NumberAssumption == Quantities \subseteq Int /\ Prices \subseteq Int
ASSUME EncodingAssumption == KeepsQuantity \in BOOLEAN

\* domain.NewQuantity accepts positive quantities.
ValidQuantity(n) == n > 0

\* What the loaders do with NewQuantity: its error is ignored.
QuantityOrZero(n) == IF ValidQuantity(n) THEN n ELSE 0

\* The zero time.Time.
Never == 0

\* A payload without fields.
NoPayload == << >>

\* A faulty FromJSON: prices are lost.
FromJSONNoPrice(e) ==
    IF "price" \in DOMAIN e THEN [e EXCEPT !.price = 0] ELSE e

\* A public event read back from the JSON of the whole event.
FromJSON(e) ==
    IF "qty" \in DOMAIN e /\ ~KeepsQuantity THEN [e EXCEPT !.qty = 0] ELSE e

\* An aggregate that has seen no event.
Fresh(state) == [state |-> state, version |-> 0, pending |-> << >>]

\* The end of Apply: the new state is in and the version counts the event.
IncrementVersion(agg, state) ==
    [agg EXCEPT !.state = state, !.version = @ + 1]

Raise(agg, event) == [agg EXCEPT !.pending = Append(@, event)]

ClearPendingEvents(agg) == [agg EXCEPT !.pending = << >>]

=============================================================================
