----------------------------- MODULE TimeQueries -----------------------------
(***************************************************************************)
(* The two time-range queries of store.go, LoadEventsSince (projections)   *)
(* and LoadEventsByEmailHash (the data-portability export), over rows      *)
(* whose occurred_at is the text of a time in the zone of that very time:  *)
(* Append formats e.OccurredAt, and the queries format `since`, as it is,  *)
(* and nothing brings them to one zone.  The aggregates of this repository *)
(* stamp their events in UTC; other events and `since` come from callers.  *)
(***************************************************************************)
EXTENDS Rfc3339Text, SequencesExt

CONSTANTS
    Readings,   \* the clock readings events and queries use
    Zones,      \* zones of their times, in seconds ahead of UTC
    EmailHashes,\* hashes of the e-mail addresses of users
    NoHash,     \* the empty email_hash of a system event
    MaxEvents   \* bound: rows in the table

ASSUME ReadingAssumption == Readings \subseteq Nat /\ Zones \subseteq Int
ASSUME HashAssumption == NoHash \notin EmailHashes
ASSUME EventBound == MaxEvents \in Nat

VARIABLES
    table,  \* rows of domain_events, in the order in which they were appended
    asked,  \* the last query: what was asked for
    answer  \* the last query: the rows it returned, in order

vars == <<table, asked, answer>>

NoQuery == [kind |-> "none"]

Init ==
    /\ table = << >>
    /\ asked = NoQuery
    /\ answer = << >>

\* Append of an event that occurred at t, in zone z; the table is not in time
\* order.
Record(t, z, hash) ==
    /\ Len(table) < MaxEvents
    /\ table' = Append(table, [id |-> Len(table) + 1, occurred |-> t,
                               zone |-> z, email_hash |-> hash])
    /\ asked' = NoQuery
    /\ answer' = << >>

RowText(r) == Text(r.occurred, r.zone)

\* The ways to list a set of rows.
Listings(rows) ==
    {list \in [1 .. Cardinality(rows) -> rows] : Range(list) = rows}

\* A faulty OrderedByText: no ORDER BY, rows come in any order.
Unordered(rows) == Listings(rows)

\* ORDER BY occurred_at ASC; rows with the same text come in any order.
OrderedByText(rows) ==
    {list \in Listings(rows) :
        \A i, j \in DOMAIN list :
            i < j => ~Before(RowText(list[j]), RowText(list[i]))}

\* A faulty LoadEventsSince: >= in place of >.
LoadEventsSinceInclusive(since, z) ==
    /\ asked' = [kind |-> "since", since |-> since, zone |-> z]
    /\ answer' \in OrderedByText(
            {r \in Range(table) : ~Before(RowText(r), Text(since, z))})
    /\ UNCHANGED table

\* WHERE occurred_at > ?
LoadEventsSince(since, z) ==
    /\ asked' = [kind |-> "since", since |-> since, zone |-> z]
    /\ answer' \in OrderedByText(
            {r \in Range(table) : Before(Text(since, z), RowText(r))})
    /\ UNCHANGED table

\* A faulty LoadEventsByEmailHash: no early return for the empty hash.
LoadEventsOfAnyHash(hash, since, z) ==
    /\ asked' = [kind |-> "hash", since |-> since, zone |-> z, hash |-> hash]
    /\ answer' \in OrderedByText(
            {r \in Range(table) :
                r.email_hash = hash /\ ~Before(RowText(r), Text(since, z))})
    /\ UNCHANGED table

\* WHERE email_hash = ? AND occurred_at >= ?; the empty hash returns nothing.
LoadEventsByEmailHash(hash, since, z) ==
    /\ asked' = [kind |-> "hash", since |-> since, zone |-> z, hash |-> hash]
    /\ answer' \in IF hash = NoHash THEN {<< >>} ELSE OrderedByText(
            {r \in Range(table) :
                r.email_hash = hash /\ ~Before(RowText(r), Text(since, z))})
    /\ UNCHANGED table

Next ==
    \E t \in Readings, z \in Zones :
        \/ \E hash \in EmailHashes \cup {NoHash} :
            Record(t, z, hash) \/ LoadEventsByEmailHash(hash, t, z)
        \/ LoadEventsSince(t, z)

Spec == Init /\ [][Next]_vars

-----------------------------------------------------------------------------
\* What the queries are asked for, by the clock instead of by text.
Wanted(r) ==
    \/ asked.kind = "since" /\ r.occurred > asked.since
    \/ /\ asked.kind = "hash"
       /\ r.email_hash = asked.hash /\ asked.hash # NoHash
       /\ r.occurred >= asked.since

(***************************************************************************)
(* Which times the texts tell apart: two whose seconds are further apart   *)
(* than their zones, in UTC two of different seconds, and every two of one *)
(* zone other than UTC.  With an offset in place of "Z" the sign sorts     *)
(* before the dot and the digits; "Z" sorts after them, so in UTC a        *)
(* shorter fraction sorts behind a longer one that it begins with.         *)
(***************************************************************************)
Gap(m, n) == IF m < n THEN n - m ELSE m - n

Tellable(s, zs, t, zt) ==
    \/ zs = zt /\ zs # 0
    \/ Gap(SecondOf(s), SecondOf(t)) > Gap(zs, zt)

\* A query returns exactly the events of the time range it was asked for, as
\* far as the texts tell: what it adds or leaves out lies, next to `since`,
\* within the difference of the two offsets, or within one second when both
\* times are in UTC.
RangeExact ==
    \A r \in Range(table) :
        /\ asked.kind # "none"
        /\ Tellable(r.occurred, r.zone, asked.since, asked.zone)
        => (r \in Range(answer) <=> Wanted(r))

\* A query returns its events in the order in which they occurred (comment of
\* LoadEventsSince: "ordered by occurred_at"), as far as the texts tell.
Chronological ==
    \A i, j \in 1 .. Len(answer) :
        LET q == answer[i]
            r == answer[j]
        IN  i < j /\ Tellable(q.occurred, q.zone, r.occurred, r.zone)
                => q.occurred <= r.occurred

=============================================================================
