--------------------------- MODULE SessionAggregate ---------------------------
(***************************************************************************)
(* The session aggregate (session_aggregate.go): no commands, only public  *)
(* events, whose rows two paths write, makeEventPersister with the whole   *)
(* event and the use cases with a narrower payload.  The reasons of        *)
(* cleared and invalidated are copied like terms and left out.             *)
(***************************************************************************)
EXTENDS AggregateBase

SessionStatuses == {"", "ACTIVE", "CLEARED", "INVALIDATED"}

SessionNew ==
    [status |-> "", terms |-> Missing, created_at |-> Never,
     cleared_at |-> Never, invalidated_at |-> Never]

\* The public events of the session of `owner`.
SessionBusEvents(owner, now) ==
    [type : {"session.created"}, at : {now}, terms : {owner}]
    \cup [type : {"session.cleared", "session.invalidated"}, at : {now}]

\* A faulty Created: a session created again starts from nothing.
CreatedAnew(s, e) ==
    [SessionNew EXCEPT !.status = "ACTIVE", !.terms = e.terms,
                       !.created_at = e.at]

Created(s, e) ==
    [s EXCEPT !.status = "ACTIVE", !.terms = e.terms, !.created_at = e.at]

\* Apply, whatever the status is: INVALIDATED too.
SessionApply(s, e) ==
    CASE e.type = "session.created" -> Created(s, e)
      [] e.type = "session.cleared" ->
            [s EXCEPT !.status = "CLEARED", !.cleared_at = e.at]
      [] e.type = "session.invalidated" ->
            [s EXCEPT !.status = "INVALIDATED", !.invalidated_at = e.at]

\* The payloads a row of event e may have: the whole event, or the narrow one.
SessionPayloads(e) ==
    {e} \cup IF e.type = "session.created" THEN {[terms |-> e.terms]}
             ELSE {NoPayload}

\* A faulty SessionEvent: the narrow form's time is not taken from the row.
SessionEventNoTime(row) ==
    IF row.type = "session.created"
    THEN [type |-> row.type, terms |-> row.payload.terms,
          at |-> IF "at" \in DOMAIN row.payload THEN row.payload.at ELSE Never]
    ELSE [type |-> row.type, at |-> row.at]

\* A created event is the whole event if its SessionID can be read, else it
\* is put together from the narrow payload and OccurredAt, which the other
\* two events always use.
SessionEvent(row) ==
    IF row.type = "session.created"
    THEN [type |-> row.type, terms |-> row.payload.terms,
          at |-> IF "at" \in DOMAIN row.payload THEN row.payload.at ELSE row.at]
    ELSE [type |-> row.type, at |-> row.at]

=============================================================================
