--------------------------- MODULE AlertAggregate ---------------------------
(***************************************************************************)
(* The alert aggregate (alert_aggregate.go), written like OrderAggregate.  *)
(* The price that triggered an alert is stored but never read, so it is    *)
(* left out.                                                               *)
(***************************************************************************)
EXTENDS AggregateBase

AlertStatuses == {"ACTIVE", "TRIGGERED", "DELETED"}

\* A new alert is ACTIVE before it is created.
AlertNew ==
    [status |-> "ACTIVE", terms |-> Missing, target_price |-> 0,
     created_at |-> Never, triggered_at |-> Never, deleted_at |-> Never]

\* Create looks at the version, not at the status.
AlertCreate(version, now) ==
    {e \in [type : {"AlertCreated"}, at : {now}, terms : Terms \cup {Missing},
            price : Prices] :
        version = 0 /\ e.terms # Missing /\ e.price > 0}

AlertCanTrigger(a) == a.status = "ACTIVE"
AlertCanDelete(a) == a.status # "DELETED"

AlertTrigger(a, now) ==
    {e \in [type : {"AlertTriggered"}, at : {now}] : AlertCanTrigger(a)}

AlertDelete(a, now) ==
    {e \in [type : {"AlertDeleted"}, at : {now}] : AlertCanDelete(a)}

\* The public events of the alert of `owner`.
AlertBusEvents(owner, now) ==
    [type : {"alert.created", "alert.triggered"}, at : {now}, terms : {owner},
     price : {p \in Prices : p > 0}]
    \cup [type : {"alert.deleted"}, at : {now}, terms : {owner}]

\* A faulty Backfill: what created would have set stays empty.
BackfillNone(a, e) == a

\* The public triggered event gives an alert what it does not have yet.
Backfill(a, e) ==
    [a EXCEPT !.terms = IF @ = Missing THEN e.terms ELSE @,
              !.target_price = IF @ = 0 THEN e.price ELSE @]

AlertApply(a, e) ==
    CASE e.type \in {"AlertCreated", "alert.created"} ->
            [a EXCEPT !.status = "ACTIVE", !.terms = e.terms,
                      !.target_price = e.price, !.created_at = e.at]
      [] e.type = "AlertTriggered" ->
            [a EXCEPT !.status = "TRIGGERED", !.triggered_at = e.at]
      [] e.type = "alert.triggered" ->
            [Backfill(a, e) EXCEPT !.status = "TRIGGERED", !.triggered_at = e.at]
      [] e.type \in {"AlertDeleted", "alert.deleted"} ->
            [a EXCEPT !.status = "DELETED", !.deleted_at = e.at]

AlertPayload(e) ==
    IF e.type = "AlertCreated"
    THEN [terms |-> e.terms, target_price |-> e.price]
    ELSE NoPayload

\* A faulty AlertEvent: the target price is not read.
AlertEventNoPrice(row) ==
    IF row.type = "AlertCreated"
    THEN [type |-> row.type, at |-> row.at, terms |-> row.payload.terms,
          price |-> 0]
    ELSE [type |-> row.type, at |-> row.at]

AlertEvent(row) ==
    CASE row.type = "AlertCreated" ->
            [type |-> row.type, at |-> row.at, terms |-> row.payload.terms,
             price |-> row.payload.target_price]
      [] row.type \in {"AlertTriggered", "AlertDeleted"} ->
            [type |-> row.type, at |-> row.at]
      [] OTHER -> FromJSON(row.payload)

=============================================================================
