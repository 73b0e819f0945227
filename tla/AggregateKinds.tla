---------------------------- MODULE AggregateKinds ----------------------------
(***************************************************************************)
(* The four kinds of aggregate under one roof: what the loaders and Apply  *)
(* do, by kind.                                                            *)
(***************************************************************************)
EXTENDS OrderAggregate, AlertAggregate, PositionAggregate, SessionAggregate,
        SequencesExt

NewState(kind) ==
    CASE kind = "Order" -> OrderNew
      [] kind = "Alert" -> AlertNew
      [] kind = "Position" -> PositionNew
      [] kind = "Session" -> SessionNew

\* deserialize...Event
EventOf(kind, row) ==
    CASE kind = "Order" -> OrderEvent(row)
      [] kind = "Alert" -> AlertEvent(row)
      [] kind = "Position" -> PositionEvent(row)
      [] kind = "Session" -> SessionEvent(row)

ApplyState(kind, state, e) ==
    CASE kind = "Order" -> OrderApply(state, e)
      [] kind = "Alert" -> AlertApply(state, e)
      [] kind = "Position" -> PositionApply(state, e)
      [] kind = "Session" -> SessionApply(state, e)

\* A faulty Apply: the version is not counted.
ApplyUncounted(kind, agg, e) ==
    [agg EXCEPT !.state = ApplyState(kind, agg.state, e)]

Apply(kind, agg, e) == IncrementVersion(agg, ApplyState(kind, agg.state, e))

\* The aggregate to which the events of a sequence lead.
Replay(kind, events) ==
    LET after[n \in 0 .. Len(events)] ==
            IF n = 0 THEN Fresh(NewState(kind))
            ELSE Apply(kind, after[n - 1], events[n])
    IN  after[Len(events)]

\* Load...FromEvents, and New... for no rows.
LoadFromEvents(kind, rows) ==
    ClearPendingEvents(
        Replay(kind, [n \in DOMAIN rows |-> EventOf(kind, rows[n])]))

=============================================================================
