------------------------------ MODULE Projector ------------------------------
(***************************************************************************)
(* The read side (projection.go) next to the log.  Use cases dispatch      *)
(* public events from several goroutines; the dispatcher calls its         *)
(* subscribers one after the other in the goroutine of the use case: the   *)
(* persister, which numbers the event with NextSequence and appends it,    *)
(* and the projector's handler, which applies it to its aggregate under    *)
(* the projector's lock.  Nothing keeps the calls of two dispatches apart. *)
(*                                                                         *)
(* The dispatcher and the persister are wired outside this package, also   *)
(* which of the two subscribers comes first.  All aggregates of a behaviour *)
(* are of one kind; their logs are sequences (NoGaps of EventStoreProofs). *)
(***************************************************************************)
EXTENDS AggregateKinds, FiniteSets

CONSTANTS
    Kinds,        \* kinds of aggregate considered
    Ids,          \* aggregate ids, in the projection and in the log
    NoId,         \* the empty id
    Owner,        \* [Ids \cup {NoId} -> Terms]
    Dispatchers,  \* goroutines of the use cases
    Idle,         \* "no dispatch under way"
    Readers,      \* goroutines that call GetOrder, GetAlert, GetPosition
    Nothing,      \* "the reader holds no aggregate"
    MaxEvents,    \* bound: events dispatched
    MaxRestarts   \* bound: process crashes

ASSUME KindAssumption == Kinds \subseteq {"Order", "Alert", "Position", "Session"}
ASSUME OwnerAssumption == Owner \in [Ids \cup {NoId} -> Terms] /\ NoId \notin Ids
ASSUME BoundAssumption == MaxEvents \in Nat /\ MaxRestarts \in Nat

\* What a dispatch is about: an aggregate, the event, the sequence number the
\* persister was given (0: none yet) and the subscribers still to be called.
PublicEvents ==
    UNION {OrderBusEvents(c[1], c[2]) \cup AlertBusEvents(c[1], c[2])
           \cup PositionBusEvents(c[1], c[2]) \cup SessionBusEvents(c[1], c[2]) :
           c \in Terms \X (1 .. MaxEvents)}

Jobs == [id : Ids \cup {NoId}, event : PublicEvents, seq : Nat,
         todo : SUBSET {"log", "project"}]

ASSUME IdleAssumption == Idle \notin Jobs

VARIABLES
    kind,        \* the kind of the aggregates, chosen once
    created,     \* ids whose placed or created event has been dispatched
    log,         \* [Ids -> rows of domain_events] (on disk); a row carries
                 \* the event it was made from (observation)
    projection,  \* the projector's map: id -> aggregate
    job,         \* [Dispatchers -> the dispatch under way, or Idle]
    held,        \* [Readers -> id of the aggregate got and the state it was
                 \* in then (observation), or Nothing]
    clock,       \* time: one unit per event
    restarts,    \* crashes so far
    reordered,   \* ids of which two dispatches overlapped (observation)
    restarted,   \* ids whose log the last crash separated from its
                 \* projection (observation)
    refused      \* [Ids -> appends refused since] (observation)

observed == <<reordered, restarted, refused>>
vars == <<kind, created, log, projection, job, held, clock, restarts, observed>>

Init ==
    /\ kind \in Kinds
    /\ created = {}
    /\ log = [i \in Ids |-> << >>]
    /\ projection = [i \in {} |-> Fresh(NewState(kind))]
    /\ job = [d \in Dispatchers |-> Idle]
    /\ held = [r \in Readers |-> Nothing]
    /\ clock = 0
    /\ restarts = 0
    /\ reordered = {}
    /\ restarted = {}
    /\ refused = [i \in Ids |-> 0]

-----------------------------------------------------------------------------
\* Dispatching an event.

\* The events of aggregate i a use case may dispatch now.  An order or alert
\* is placed or created once and before anything else happens to it.
BusEvents(i, now) ==
    CASE kind = "Order" -> OrderBusEvents(Owner[i], now)
      [] kind = "Alert" -> AlertBusEvents(Owner[i], now)
      [] kind = "Position" -> PositionBusEvents(Owner[i], now)
      [] kind = "Session" -> SessionBusEvents(Owner[i], now)

Creates == {"order.placed", "alert.created", "session.created"}

InOrder(i, e) ==
    CASE kind \in {"Order", "Alert"} -> e.type \in Creates <=> i \notin created
      [] kind = "Session" -> e.type \in Creates \/ i \in created
      [] kind = "Position" -> TRUE

UnderWay(i) == {d \in Dispatchers : job[d] # Idle /\ job[d].id = i}

\* Dispatch begins: neither subscriber has been called yet.  The rows of
\* events without an id are not followed.
Dispatch(d, i, e) ==
    /\ job[d] = Idle
    /\ clock < MaxEvents
    /\ clock' = clock + 1
    /\ InOrder(i, e)
    /\ job' = [job EXCEPT ![d] =
                [id |-> i, event |-> e, seq |-> 0,
                 todo |-> {"project"} \cup IF i = NoId THEN {} ELSE {"log"}]]
    /\ created' = IF e.type \in Creates THEN created \cup {i} ELSE created
    /\ reordered' = IF UnderWay(i) = {} THEN reordered ELSE reordered \cup {i}
    /\ UNCHANGED <<kind, log, projection, held, restarts, restarted, refused>>

\* A subscriber has returned.
Called(d, subscriber) ==
    LET todo == job[d].todo \ {subscriber}
    IN  job' = [job EXCEPT ![d] = IF todo = {} THEN Idle ELSE [@ EXCEPT !.todo = todo]]

ToCall(d, subscriber) == job[d] # Idle /\ subscriber \in job[d].todo

\* The persister asks for a sequence number.
Number(d) ==
    /\ ToCall(d, "log")
    /\ job[d].seq = 0
    /\ job' = [job EXCEPT ![d].seq = Len(log[job[d].id]) + 1]
    /\ UNCHANGED <<kind, created, log, projection, held, clock, restarts,
                   observed>>

Payloads(e) == IF kind = "Session" THEN SessionPayloads(e) ELSE {e}

\* The persister appends the event with that number.
Record(d) ==
    LET i == job[d].id
        e == job[d].event
    IN  /\ ToCall(d, "log")
        /\ job[d].seq = Len(log[i]) + 1
        /\ \E p \in Payloads(e) :
            log' = [log EXCEPT ![i] = Append(@,
                        [type |-> e.type, at |-> e.at, payload |-> p, event |-> e])]
        /\ Called(d, "log")
        /\ UNCHANGED <<kind, created, projection, held, clock, restarts, observed>>

\* The number has been used meanwhile: Append is refused, the event is not
\* recorded and the dispatch goes on.
RecordRefused(d) ==
    /\ ToCall(d, "log")
    /\ job[d].seq \in 1 .. Len(log[job[d].id])
    /\ Called(d, "log")
    /\ refused' = [refused EXCEPT ![job[d].id] = @ + 1]
    /\ UNCHANGED <<kind, created, log, projection, held, clock, restarts,
                   reordered, restarted>>

-----------------------------------------------------------------------------
\* The projector.

\* A faulty Lookup: every event gets an aggregate of its own.
LookupNone(i) == Fresh(NewState(kind))

\* The aggregate of an id, made when the id is first seen.
Lookup(i) == IF i \in DOMAIN projection THEN projection[i] ELSE Fresh(NewState(kind))

\* A handler: an event without an id is ignored, any other is applied to its
\* aggregate under the lock.
Handle(d, k) ==
    LET i == job[d].id
    IN  /\ kind = k
        /\ ToCall(d, "project")
        /\ projection' =
            IF i = NoId THEN projection
            ELSE [j \in DOMAIN projection \cup {i} |->
                    IF j = i THEN Apply(kind, Lookup(i), job[d].event)
                    ELSE projection[j]]
        /\ Called(d, "project")
        /\ UNCHANGED <<kind, created, log, held, clock, restarts, observed>>

HandleOrderEvent(d) == Handle(d, "Order")
HandleAlertEvent(d) == Handle(d, "Alert")
HandlePositionEvent(d) == Handle(d, "Position")

\* Subscribe registers nothing for session events.
NotSubscribed(d) ==
    /\ kind = "Session"
    /\ ToCall(d, "project")
    /\ Called(d, "project")
    /\ UNCHANGED <<kind, created, log, projection, held, clock, restarts, observed>>

\* GetOrder, GetAlert or GetPosition returns the projection's own aggregate.
Get(r, i) ==
    /\ held[r] = Nothing
    /\ i \in DOMAIN projection
    /\ held' = [held EXCEPT ![r] = [id |-> i, state |-> projection[i].state]]
    /\ UNCHANGED <<kind, created, log, projection, job, clock, restarts, observed>>

\* ... or nothing, when the projector has seen no event of the id.
GetNothing(r, i) ==
    /\ held[r] = Nothing
    /\ i \notin DOMAIN projection
    /\ UNCHANGED vars

LetGo(r) ==
    /\ held[r] # Nothing
    /\ held' = [held EXCEPT ![r] = Nothing]
    /\ UNCHANGED <<kind, created, log, projection, job, clock, restarts, observed>>

\* The process dies: the projection starts empty, the log stays.
Restart ==
    /\ restarts < MaxRestarts
    /\ restarts' = restarts + 1
    /\ projection' = [i \in {} |-> Fresh(NewState(kind))]
    /\ job' = [d \in Dispatchers |-> Idle]
    /\ held' = [r \in Readers |-> Nothing]
    /\ restarted' = {i \in Ids : log[i] # << >>}
    /\ refused' = [i \in Ids |-> 0]
    /\ reordered' = {}
    /\ UNCHANGED <<kind, created, log, clock>>

Next ==
    \/ \E d \in Dispatchers :
        \/ \E i \in Ids \cup {NoId} :
            \E e \in BusEvents(i, clock + 1) : Dispatch(d, i, e)
        \/ Number(d) \/ Record(d) \/ RecordRefused(d)
        \/ HandleOrderEvent(d) \/ HandleAlertEvent(d) \/ HandlePositionEvent(d)
        \/ NotSubscribed(d)
    \/ \E r \in Readers : (\E i \in Ids : Get(r, i) \/ GetNothing(r, i)) \/ LetGo(r)
    \/ Restart

Spec == Init /\ [][Next]_vars

-----------------------------------------------------------------------------
\* What readers are given, from an aggregate map; aggregates of one time come
\* in any order.

Sorted(ids, when) == SetToSortSeq(ids, LAMBDA i, j : when[i] < when[j])

PlacedAt(aggs) == [i \in DOMAIN aggs |-> aggs[i].state.placed_at]

ListActiveOrders(aggs) ==
    Sorted({i \in DOMAIN aggs : aggs[i].state.status \in {"PLACED", "MODIFIED"}},
           PlacedAt(aggs))

\* An order's email is in its terms.
ListOrdersForEmail(aggs, owner) ==
    Sorted({i \in DOMAIN aggs : aggs[i].state.terms = owner}, PlacedAt(aggs))

ListActiveAlerts(aggs) ==
    Sorted({i \in DOMAIN aggs : aggs[i].state.status = "ACTIVE"},
           [i \in DOMAIN aggs |-> aggs[i].state.created_at])

\* OrderCount, AlertCount, PositionCount
Count(aggs) == Cardinality(DOMAIN aggs)

\* The aggregates of some ids.
Among(aggs, ids) == [i \in DOMAIN aggs \cap ids |-> aggs[i]]

-----------------------------------------------------------------------------
\* Properties.

\* Every variable has its type.
TypeOK ==
    /\ kind \in Kinds
    /\ created \subseteq Ids \cup {NoId}
    /\ \A i \in Ids : Len(log[i]) <= clock
    /\ DOMAIN projection \subseteq Ids
    /\ \A i \in DOMAIN projection : projection[i].version \in 1 .. clock
    /\ \A d \in Dispatchers : job[d] # Idle =>
        job[d].todo \in (SUBSET {"log", "project"}) \ {{}} /\ job[d].seq <= clock
    /\ clock \in 0 .. MaxEvents /\ restarts \in 0 .. MaxRestarts
    /\ reordered \subseteq Ids \cup {NoId} /\ restarted \subseteq Ids
    /\ refused \in [Ids -> 0 .. clock]

\* Ids of which the log and the projection have not been given the same.
apart == restarted \cup {i \in Ids : refused[i] # 0}

\* What Load...FromEvents makes of every log.
Replayed ==
    [i \in {j \in Ids : log[j] # << >>} |-> LoadFromEvents(kind, log[i])]

\* Equal in all but the quantities, which encoding/json may lose.
SameButQuantities(s, t) ==
    \A f \in DOMAIN s \ {"qty", "filled_qty"} : s[f] = t[f]

\* The lists of active orders and alerts are those of the log.
ActiveAsLogged ==
    /\ kind = "Order" => ListActiveOrders(projection) = ListActiveOrders(Replayed)
    /\ kind = "Alert" => ListActiveAlerts(projection) = ListActiveAlerts(Replayed)

(***************************************************************************)
(* The projection of an aggregate is what its log replays to, when its     *)
(* dispatches did not overlap, none is under way and the process has not   *)
(* been restarted since its first event (projection.go and the loaders     *)
(* decode, look up and apply in different places).                         *)
(***************************************************************************)
ProjectionFollowsLog ==
    kind # "Session" =>
        LET settled == {i \in Ids \ (reordered \cup apart) : UnderWay(i) = {}}
        IN  /\ \A i \in settled :
                /\ i \in DOMAIN projection <=> i \in DOMAIN Replayed
                /\ i \in DOMAIN projection =>
                    SameButQuantities(projection[i].state, Replayed[i].state)
            /\ settled = Ids => ActiveAsLogged

(***************************************************************************)
(* The projection is given every event dispatched, and the log all but     *)
(* those it refused, however the subscribers of overlapping dispatches are *)
(* called: once the dispatches of an aggregate are over, and unless a      *)
(* crash cleared its projection, the projection has applied as many events *)
(* more than a replay of the log as appends were refused.  Where none was, *)
(* the orders of an owner are listed as the log would list them.           *)
(***************************************************************************)
OnlyRefusedMissing ==
    kind # "Session" =>
        LET over == {i \in Ids \ restarted : UnderWay(i) = {}}
            given == over \ apart
        IN  /\ \A i \in over :
                /\ i \in DOMAIN projection <=> i \in DOMAIN Replayed
                /\ i \in DOMAIN projection =>
                    projection[i].version = Replayed[i].version + refused[i]
            /\ over = Ids => Count(projection) = Count(Replayed)
            /\ kind = "Order" => \A i \in Ids :
                ListOrdersForEmail(Among(projection, given), Owner[i])
                    = ListOrdersForEmail(Among(Replayed, given), Owner[i])

(***************************************************************************)
(* Where no append was refused the two may still differ, in status and     *)
(* times, but by the order of events only: the projection of an aggregate  *)
(* is a replay of its log with the rows in some order (handlers apply      *)
(* events whole, one at a time, under the lock).                           *)
(***************************************************************************)
SameInSomeOrder ==
    kind # "Session" =>
        \A i \in DOMAIN projection \ apart :
            UnderWay(i) = {} =>
                \E order \in Bijection(DOMAIN log[i], DOMAIN log[i]) :
                    SameButQuantities(
                        projection[i].state,
                        LoadFromEvents(kind, [n \in DOMAIN log[i] |-> log[i][order[n]]]).state)

\* A projected position is OPEN exactly when it holds something and has no
\* time of closing, over any number of lives, in whatever order its events
\* are applied and also after a restart.
PositionConsistent ==
    kind = "Position" =>
        \A i \in DOMAIN projection :
            LET p == projection[i].state
            IN  p.status = "OPEN" <=> p.qty > 0 /\ p.closed_at = Never

\* A triggered alert and every position say whose they are, the alert also
\* its price, even when the projector missed how they began (a restart) or
\* has not been told yet (Apply: the public events fill in what is missing).
OwnersKnown ==
    \A i \in DOMAIN projection :
        LET s == projection[i].state
        IN  /\ kind = "Position" \/ s.status = "TRIGGERED" => s.terms = Owner[i]
            /\ s.status = "TRIGGERED" => s.target_price > 0

\* Whichever format each row is stored in, a log replays to the state its
\* events lead to ("persisted via makeEventPersister" or by the use case).
LoadedAsDispatched ==
    \A i \in Ids :
        SameButQuantities(
            Replay(kind, [n \in DOMAIN log[i] |-> log[i][n].event]).state,
            LoadFromEvents(kind, log[i]).state)

\* A session that was invalidated shows it for ever in its replay, also when
\* later events, which Apply does not refuse, bring it back.
InvalidationShows ==
    kind = "Session" =>
        \A i \in Ids :
            LoadFromEvents(kind, log[i]).state.invalidated_at # Never
                <=> \E n \in 1 .. Len(log[i]) : log[i][n].type = "session.invalidated"

\* ListOrdersForEmail "returns all projected orders belonging to the given
\* email" (projection.go:186), at least while nothing is being dispatched.
ListedForOwner ==
    kind = "Order" /\ (\A d \in Dispatchers : job[d] = Idle) =>
        \A i \in DOMAIN projection :
            i \in ToSet(ListOrdersForEmail(projection, Owner[i]))

\* GetOrder "returns a snapshot of the projected order aggregate"
\* (projection.go:143): it stays what it was when it was returned.
SnapshotsStay ==
    \A r \in Readers : held[r] # Nothing =>
        projection[held[r].id].state = held[r].state

=============================================================================
