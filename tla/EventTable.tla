----------------------------- MODULE EventTable -----------------------------
(***************************************************************************)
(* The domain_events table of store.go: its two uniqueness constraints and *)
(* the two queries that depend on how sequence numbers are laid out.  A    *)
(* table is a set of rows; the columns kept are the ones a constraint or   *)
(* an ORDER BY reads (payload, type, time and e-mail hash do not matter    *)
(* here).  There is no state: EventStore and Outbox each keep a table in a *)
(* variable of their own.                                                  *)
(***************************************************************************)
EXTENDS FiniteSetsExt

\* One row of domain_events.
Row(id, agg, seq) == [id |-> id, agg |-> agg, seq |-> seq]

RowsOf(agg, table) == {r \in table : r.agg = agg}

SeqsOf(agg, table) == {r.seq : r \in RowsOf(agg, table)}

\* A faulty Insertable: a schema that lost UNIQUE(aggregate_id, sequence).
InsertableNoUniqueIndex(row, table) == \A r \in table : r.id # row.id

(***************************************************************************)
(* id is the PRIMARY KEY and (aggregate_id, sequence) has a UNIQUE index.  *)
(* The aggregate's TYPE is not part of that index.                         *)
(***************************************************************************)
Insertable(row, table) ==
    \A r \in table : r.id # row.id /\ <<r.agg, r.seq>> # <<row.agg, row.seq>>

\* COALESCE(MAX(sequence), 0)
MaxSequence(agg, table) ==
    IF RowsOf(agg, table) = {} THEN 0 ELSE Max(SeqsOf(agg, table))

\* A faulty NextSequence: a new aggregate starts at 2.
NextSequenceFromTwo(agg, table) ==
    IF RowsOf(agg, table) = {} THEN 2 ELSE MaxSequence(agg, table) + 1

\* A faulty NextSequence: the wrong sign.
NextSequenceDown(agg, table) == MaxSequence(agg, table) - 1

NextSequence(agg, table) == MaxSequence(agg, table) + 1

\* A faulty LoadEvents: ORDER BY sequence DESC.
LoadEventsDescending(agg, table) ==
    LET rows == RowsOf(agg, table)
    IN  [n \in 1 .. Cardinality(rows) |->
            CHOOSE r \in rows :
                Cardinality({q \in rows : q.seq > r.seq}) = n - 1]

\* SELECT ... WHERE aggregate_id = ? ORDER BY sequence ASC
LoadEvents(agg, table) ==
    LET rows == RowsOf(agg, table)
    IN  [n \in 1 .. Cardinality(rows) |->
            CHOOSE r \in rows :
                Cardinality({q \in rows : q.seq < r.seq}) = n - 1]

=============================================================================
