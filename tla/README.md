# Verification of kite-mcp-eventsourcing

TLA+ modules, TLC configurations and TLAPS proofs for the Go package
`eventsourcing`: an append-only audit log in SQLite (`store.go`), a
transactional outbox with its pump (`outbox.go`), event-sourced aggregates and
a read-side projector.

## 1. Inventory

| Part | State it keeps | Operations | Hard behaviour |
|---|---|---|---|
| `EventStore` (`store.go`) | table `domain_events` with PRIMARY KEY `id` and UNIQUE `(aggregate_id, sequence)`; one `sync.RWMutex` | `NextSequence` (no lock), `Append` (write lock, one autocommit INSERT per event), `LoadEvents`, `LoadEventsSince`, `LoadEventsByEmailHash` (read lock) | writers racing for sequence numbers, errors and crashes in the middle of a batch, time ranges compared as text |
| Outbox (`outbox.go`) | table `event_outbox` with a `processed` flag, no uniqueness on the sequence; the same mutex | `AppendToOutbox`, `Drain` (query with LIMIT 100, then INSERT and UPDATE per row) | crash or error between INSERT and UPDATE, errors that are swallowed, batches cut by LIMIT, order by a text stamp, direct appends overtaking staged rows |
| `OutboxPump` (`outbox.go`) | goroutine, `stop` and `done` channels, `sync.Once` | `NewOutboxPump` (startup drain), tick, `Stop` (last drain) | Stop against tick, several Stops, work left for the next process |
| Aggregates (`aggregate.go`, `*_aggregate.go`) | fields, version, pending events | commands (`Place`, `Modify`, `Cancel`, `Fill`, `Create`, `Trigger`, `Delete`, `Open`, `Close`), `Apply`, `Load...FromEvents`, `To...StoredEvents` | `Apply` does not check the status, two formats of each event, commands before the creating event |
| Session aggregate (`session_aggregate.go`) | fields, version | `Apply`, `LoadSessionFromEvents`; no commands | two stored formats of one event, events after the terminal one |
| `Projector` (`projection.go`) | maps of aggregates, `sync.RWMutex` | `Subscribe`, three handlers, read methods | events of overlapping dispatches in either order, aggregates seen only from the middle on, pointers to live aggregates handed out |
| external | SQLite through `alerts.DB`; `domain.EventDispatcher` (synchronous); the persister (`makeEventPersister`); use cases | | every statement commits on its own |

How they interact. A use case dispatches a domain event; it reaches
`domain_events` either directly (`NextSequence` or the aggregate's version,
then `Append`) or through `event_outbox`, from which the pump moves it with
`Drain`. `Append`, `AppendToOutbox` and `Drain` share the mutex, readers take
it shared, `NextSequence` not at all. The projector is called by the dispatcher
and feeds events to the aggregates' `Apply`; replay feeds them from the log.

What makes each part correct:

* event store: sequence numbers without gaps, stale batches refused whole,
  rows added only at the end, readers that see whole batches, every call
  returning;
* outbox: a staged event dropped only for an earlier one with its number,
  delivery in the order of staging, every staged row processed in the end, the
  startup drain recovering the previous process's rows, Stop flushing and then
  silence;
* time queries: exactly the events of the range, in the order of time, as far
  as the texts of times in their own zones tell;
* aggregates: replay reaches the state that the commands reached, no command
  is accepted in a state that forbids it, terminal states stay terminal;
* sessions: every stored format replays to what was dispatched; an
  invalidation is never forgotten;
* projector: the projection equals the replay of the log where dispatches do not
  overlap; where they do, the log lacks what it refused and nothing else, and
  without refusals the two differ by the order of events only; restarts lose no
  owner and no consistency.

`PROJECT.json` lists the hazards at their lines, with the properties that
cover each.

## 2. Modules

| Module | Role |
|---|---|
| `EventTable` | `domain_events` as a set of rows: the two uniqueness constraints (`Insertable`), `MaxSequence`, `NextSequence`, `LoadEvents` |
| `EventStore` | the direct path: `Sequence`, `LockAppend`, one INSERT per step, refusals, faults, `Retry`, readers, `Restart` |
| `Outbox` | staging, `Drain` statement by statement, the pump, Stop, direct appends into the same table, `Restart` |
| `AuditLog` | the abstract promise: number, accept, record or dismiss the oldest, publish |
| `Rfc3339Text` | how RFC3339Nano texts sort byte by byte |
| `TimeQueries` | the two time-range queries over such texts |
| `AggregateBase` | version, pending events, input values, the JSON of public events |
| `OrderAggregate`, `AlertAggregate`, `PositionAggregate` | commands as the set of events they may emit, the public events, `Apply`, the stored form of each event and the way back |
| `SessionAggregate` | public events only, two stored formats |
| `AggregateKinds` | `Apply` and `Load...FromEvents` by kind; a replay is a recursive function over the rows (`Replay`) |
| `AggregateHistory` | users that load, command and save one aggregate through the event store |
| `Projector` | dispatches of public events to the persister and to the projector, readers of the projection, `Restart` |
| `MC...` | instances for TLC: constants only |
| `EventTableProofs`, `EventStoreProofs`, `OutboxProofs`, `TimeQueriesProofs`, `AggregateKindsProofs`, `AggregateHistoryProofs`, `ProjectorProofs` | lemmas and theorems, each about the module it extends |
| `NumberProofs` | induction, least and largest numbers, for all of them |

`EventStore` and `Outbox` extend `EventTable`; `Outbox` instantiates `AuditLog`
with `count <- now`, `place <- at`, `slot` the pair of aggregate and number,
`recorded <- Recorded` and `dismissed` the rows marked without being recorded;
`TimeQueries` extends `Rfc3339Text`, and `MCOutbox` takes from it the order of the `inserted_at` texts.
`AggregateHistory` and `Projector` extend `AggregateKinds`, which extends the
four aggregates.

### EventStore

`domain` is the table, `mu` the write lock, and a writer's `pc`, `start`, `pos`,
`calls` are the locals of its calls. Each INSERT is a step because each commits
on its own. An Append of one batch for one aggregate is `LockAppend`, then
`InsertRow` per event, then `AppendDone`; `InsertRefused` is the UNIQUE error
and `InsertFault` any other, both leave through the deferred Unlock. `Sequence`
reads the table whoever holds the lock. `Retry` is a caller passing the batch
again: `Append` gives ids to its own copies, so the ids are fresh while the
numbers are not. `Restart` keeps only the table. A row's UUID is abstracted to
(writer, call, index). Left out: batches that mix aggregates, errors of the two
SELECTs (they change nothing).

### Outbox

An event stands for its row id. `at` and `processed` are `event_outbox`; `at`
counts stamps, and `Rank` says how the text of a stamp sorts, so the query
(`Selected`) and the loop (`Front`) order by `Rank[at]`, ties in any order.
`AppendToOutbox` and an `Append` of one event hold the mutex for one statement
and are one step; `Drain` holds it from `DrainBegin` to a `DrainReturn`, with a
step per statement: `DrainRecord` or `DrainRecordFails` (both lead to the mark,
as in the code), `DrainMark` or `DrainMarkFails`. `DrainCancelled` is the check
of the context, which only a direct caller's can fail. `pump` is the control
point of `run`. `owed` is
an observation: the rows pending at the last restart or first Stop. There is
one pump per store, as the code's comment asks, and the wall clock of
`inserted_at` does not step back while rows are staged.

`Sequence` numbers an event in either of the two ways the code offers
(`SeqSources`). `ByStore` is `NextSequence`. `ByVersion` takes the next version
of a copy of the aggregate in memory: `Copies` are such copies, `CopyOf` says of
which aggregate, and `version` is what each counts. `Load` sets it to the number
of rows of `domain_events`, at any time and for any copy, and does not see rows
that wait in `event_outbox`; `Restart` loads every copy anew. So versions are
not distinct: stale copies, and copies loaded while a row is staged, give a
number out again, which `event_outbox` accepts and `domain_events` does not.
What holds of the events that clash is `NoSilentLoss` and `DeliveredInOrder`: one
is dropped only for another with its number that was staged before it or
appended directly. That an event is dropped at all contradicts the README of
the code (`AtLeastOnce`).

### TimeQueries

`occurred_at` and `since` are each written in the zone of the time given, and
nothing brings them to one: every row has its `zone`, and a query takes `since`
with one. Zones are seconds ahead of UTC, so that a small instance can mix them.
`Tellable` says which pairs of times the texts tell apart: those whose seconds
are further apart than their offsets, and all of one zone other than UTC.
`RangeExact` and `Chronological` are about such pairs, and that is how far they go:
in zones that differ, an event within the difference of the offsets of `since`
may be left out or returned although the code's comment ("all events that
occurred after the given time") says otherwise. A text is a sequence of codes
that compare like its bytes: one
code for date and time of day (fixed width), then dot and digits without
trailing zeros, then `Z` or sign and offset. `ORDER BY` leaves rows of the same
text in any order, so an answer is any of the `Listings` that respect the texts.

### Aggregates

An aggregate is its state next to `version` and `pending`. A command is an
operator that gives the events it may emit, the empty set where the code returns
an error, so its guards are conjuncts; `Command` is the end common to all:
`Apply`, then `raise`. `OrderPayload` and `OrderEvent` (and their siblings) are
the two halves of persistence, `To...StoredEvents` and `deserialize...Event`;
`NewQuantity`'s error is ignored on the way back as in the code. Inputs that are
only checked for presence and copied are one value of `Terms`.

`AggregateHistory` puts an aggregate between several users, each with a copy it
loaded. Its `history` is the sequence of rows that `EventStore` keeps: that row
n has number n is the theorem `NoGaps`. A save numbers its rows from the loaded
version, so `Saves` is the UNIQUE index; `SaveFails` leaves any proper prefix
(`InsertFault` of `EventStore`) and the copy, which may be saved again.
A new alert is ACTIVE and a new position OPEN, so `Trigger`, `Delete` and
`Close` are accepted before `Create` and `Open`, which are then refused: the
properties state what is guaranteed, not that such a history makes sense.

Events come in two families. Commands emit internal ones (`OrderPlaced`), which
are stored field by field; production use cases dispatch public ones
(`order.placed`, a `domain` type), which are stored as the JSON of the whole
event. `Apply` and the loaders take both. Whether a `domain.Quantity` survives
JSON is decided in its own package; `KeepsQuantity` leaves it open, the runs set
it FALSE, and the properties compare everything but quantities. A session's
`created` row has the whole event or a narrower payload, told apart by whether
the session id can be read (`SessionPayloads`, `SessionEvent`).

### Projector

A use case dispatches an event in its goroutine; `job` is the dispatch under
way with the subscribers still to call. The dispatcher, the persister and the
order of the two subscribers are wired outside the package, so they are
external, modelled from the comments and types in `src/`: `Number` and `Record`
(or `RecordRefused`, when another dispatch took the number), and one of the
three handlers, in either order, with the steps of other dispatches between.
`Handle` is the code's handler: an empty id is ignored, a missing aggregate is
made, `Apply` runs under the lock, so it is one step. `Restart` clears the
projection and keeps the log. `held` is an aggregate a reader got, with the
state it had then. `reordered`, `refused` and `restarted` are observations: ids
whose dispatches overlapped, appends refused by id, and ids whose log a crash
separated from its projection; a row carries its event for the same reason.
When two dispatches of an aggregate overlap, the projection may take their
events in another order than the log, and then differ from it in status and
times: no line of the code denies it, and `SameInSomeOrder` bounds it. When they
were given one number, the log refuses one of the events, which the projection
applies all the same: `OnlyRefusedMissing`. A behaviour is about one kind of
aggregate (the three maps and the session rows do not meet). A log is a
sequence, which is `NoGaps`. The read methods are operators on the map, so the
properties compare what readers are given with what a replay would give.

## 3. Runs

| Run | Shows | Bounds |
|---|---|---|
| `es_safety` | gap-free numbers, whole refusals, readers, growth at the end, `Append` always returns | 2 writers racing with batches of 3 and 2; 2 calls each (so a retry or a second batch), 2 faults, 2 crashes |
| `es_atomic` (violation) | `Append` is not atomic | 1 fault |
| `ob_safety` | a staged event dropped only for an earlier one with its number, nothing reordered, startup recovery; `Outbox` implements `AuditLog` with its fairness | 3 events on 2 aggregates, 2 copies of the first, both ways to number, LIMIT 2, 2 faults of 4 kinds, 1 crash, 1 direct Drain |
| `ob_live` | with `NextSequence`: only duplicates are dropped, retirement in order; last flush and silence after Stop; every staged row processed; every Stop returns | LIMIT 2, 1 fault of 2 kinds, 1 crash, 2 stoppers |
| `ob_storeloss` (violation) | `NextSequence` ignores the outbox: an event is dropped | no fault, no crash |
| `ob_insertloss` (violation) | a transient INSERT error drops the event | 1 fault |
| `ob_textorder` (violation) | `.10` is drained after `.11` | stamps .10, .11, .20 s |
| `tq_ranges` | ranges exact and in order where the texts tell times apart | UTC and a zone on each side, for each row and `since` alone; 6 readings around two second boundaries and one beyond the zones, 2 rows |
| `aggregates` | histories legal, recorded once, replayed exactly, whatever copies were stale | 2 users, 4 commands, 1 save that fails half way; quantities and prices 0 and 1 (0 invalid), 2 order types; orders, alerts and positions |
| `readside` | projection against log with and without overlaps, lists, owners, positions over several lives, both session formats | 2 aggregates of 2 owners, 3 events, 2 dispatchers (symmetric), 1 reader, 1 crash; all four kinds |
| `proj_snapshot` (violation) | what `GetOrder` returned changes under the reader | 3 events, no crash |
| `proj_owner` (violation) | the list of an owner misses an order | 3 events, 1 crash |

Why the bounds are enough. Two racing writers with two calls each cover every
pair of a stale and a fresh number, and a batch of two or three has
a first, a middle and a last INSERT for a fault or crash to fall between. Three
events with LIMIT 2 give a batch that is cut, a second batch, and a row staged
in between; the outbox runs have two aggregates, so numbers of one could disturb
the other; two copies of one aggregate are enough for a stale number, and one
that is loaded again for a reused one. Two users with four commands allow every race of two stale copies
with a history of two or three events. Two dispatchers with three events give
every overlap of two events of one aggregate after a first one, a closed
position opened again, a session invalidated and created again, and a crash
before each of them; two owners and two aggregates give lists something to sort
and to leave out. The theorems of section 5 remove the bounds for every
safety property but `SameInSomeOrder`, those of the outbox partly under hypotheses that are named there.

Deadlock is checked except in the run with stoppers (a stopped pump and
finished use cases really stop).

### Findings

1. `store.go:88` "atomically": a failing INSERT leaves the earlier rows
   (`es_atomic`). Retrying with the same numbers is then refused for ever.
2. `NextSequence` (`store.go:193`) does not see `event_outbox`; two events of an
   aggregate get one number and `Drain` drops the second, marking it processed
   (`ob_storeloss`).
3. `Drain` marks a row processed after any INSERT error (`outbox.go:223`), so a
   transient error loses the event (`ob_insertloss`).
4. `ORDER BY inserted_at` sorts texts without trailing zeros (`ob_textorder`).

5. `GetOrder` "returns a snapshot" (`projection.go:143`): it returns the pointer
   in the map, which the next handler changes (`proj_snapshot`).
6. `ListOrdersForEmail` "returns all projected orders belonging to the given
   email" (`projection.go:186`): an order placed before a restart and changed
   after it is projected without an email, since the public order events,
   unlike those of alerts and positions, fill nothing in (`proj_owner`).


Limits of the code that the models have and the properties state, as hypotheses
or in what they exempt:

* Versions do not see `event_outbox` either (`aggregate.go:44`, `store.go:119`):
  an aggregate that is loaded while an event of it is staged, by a second use
  case or after a crash, gives the number out again, and `Drain` drops one of the
  two events. The `Sequence` that `store.go:89` suggests is thus no safer than
  `NextSequence`. With `SeqSources = {"version"}` and one copy, `AtLeastOnce` fails
  by a `Load` after an event was staged and before the next gets its number.
* `LoadEventsSince` and `LoadEventsByEmailHash` compare texts in the zones their
  times come in, so they err by up to the difference of two offsets; in UTC alone
  they misjudge events of the second they are asked about (`Tellable`).
* "Invalidated is terminal" (`session_aggregate.go:14`) is a rule that `Apply` does
  not enforce: it takes `session.created` and `session.cleared` in every status, so
  a session can be replayed to ACTIVE after its invalidation. What holds is that
  the replay still shows the invalidation (`InvalidationShows`).
* The startup and the last drain handle at most LIMIT rows, and an error of theirs
  leaves the rest to a later tick or the next process (`StartupRecovers` and
  `StopFlushes` speak of a backlog within LIMIT and no fault).
* The direct path refuses a retry of a half-inserted batch for ever.

## 4. Fairness

* A goroutine inside `Append` or `Drain` runs on (weak fairness of its steps):
  no lock is taken inside, SQLite calls return.
* A goroutine waiting for the mutex gets it in the end (strong fairness of
  `LockAppend` and of the pump's entry into `Drain`): `sync.RWMutex` queues its
  waiters.
* The ticker ticks (weak), and `select`, which chooses at random among the ready
  cases, does not pass over a closed `stop` for ever (strong fairness of
  `PumpStops`).
* Nothing obliges use cases to produce events, anybody to call `Stop` or `Drain`,
  readers to read or the process to crash.

## 5. Proofs

`NumberProofs` derives from the well-foundedness of the naturals that a set of
numbers has a least one, that a bounded set has a largest one, and induction in
the form "a set that contains 0 and n + 1 with n contains every number", which
speaks of a set and not of an operator, so the provers can use it. The recursive
functions of the models (`Replay`, `Cut`) get their defining equations from it:
a function that satisfies them exists for every length, so the one the
definition chooses does.

`EventTableProofs` has what the proofs of `EventStore` and `Outbox` share: what
`NextSequence` returns, which rows an INSERT admits and what it changes.

`EventStoreProofs` proves, for all values of the constants, `TypeOK`, `GapFree`,
`RefusedLeavesNothing` and the action property `AppendsAtEnd`. None of them is
inductive. `IInv` adds: the numbers of an aggregate are `1..m` (`Contiguous`);
the writer inside Append is the holder of the mutex (`MutexHeld`); the number
before a batch's first is taken (`Anchored`, which makes up for the unlocked
read: the number can be stale but never too high); once its first row is in, the
writer is at the end (`AtEnd`); ids are fresh (`FreshIds`). The heart is
`RowAtEnd`: the UNIQUE index admits a first row only if its number is the next
one, and every later row of the batch is admitted.

Its second part proves `ReadersSeeWholeBatches` and `ReplayExtends` on top of
`IInv`. `LoadEvents` sorts by counting smaller numbers, so it begins by counting
rows through the bijection between a gap-free history and `1..m`
(`LoadEventsInOrder`: row n is returned at place n). `ReplayInv` then says that
what was read is the rows `1..k` (`LoadedSoFar`), that a finished call has as
many rows as its batch (`Counted`), and that of a call either nothing or all of
it was read (`SeenWhole`: the read lock keeps readers out of the loop).

`OutboxProofs` proves `TypeOK` and `StopQuiesces` without hypotheses,
`RetiredInOrder` if `RankMonotone`, `SlotFilled` if INSERTs into `domain_events`
fail only on duplicates (`"insert" \notin Faults`), and `NoSilentLoss`,
`DeliveredInOrder` and the refinement `PromiseSafety` under both. Nothing is
assumed about the numbers of events. The hypotheses are what the runs
`ob_textorder` and `ob_insertloss` break. `BInv` (frame of a Drain, stamps, rows)
is common; `Prefix` (the batch is a prefix of the pending rows in the order of
staging) carries the order. For the absence of loss, `LossInv` says that rows
are recorded in staging order but for those superseded (`RecordedInOrder`) and
that the row at hand is recorded or superseded when its INSERT has been answered
(`CurAnswered`): a UNIQUE error means that a recorded event has the number, and
if that was staged at all it was staged earlier, because no later one is
recorded before its turn.

The second part of `OutboxProofs` proves `StartupRecovers` and `StopFlushes` if
`RankMonotone`. Use cases stage more rows while the drain in question works, so
the argument counts: the backlog is the rows staged first (`OwedOldest`), and a
batch that left one of them out would hold LIMIT others of them, too many for a
backlog within LIMIT. `OwedInHand` carries this from the query to the end of the
drain.

`TimeQueriesProofs` proves `RangeExact` and `Chronological`, for every number of
decimal places, set of readings, zone and table. Every row and `since` has a zone of its own. `CutStep` unfolds `Cut`;
`FirstDifference` finds the first decimal place at which two readings of one
second differ, where the earlier one has the smaller digit; `TextShape` says
what stands at each index of a text. `EarlierSortsFirst` puts them together: if
the seconds are further apart than the offsets, the first code decides; in one
second and one zone with an offset, either
both texts print the place of the first difference, or the earlier text has
ended before it, with a sign that sorts before the dot and the digits. `TextsTell`
turns this into an equivalence, equal times included. With that,
`QueryInv` (an answer lists exactly the rows that the texts select, in their
order) gives both properties.

`AggregateKindsProofs` and `AggregateHistoryProofs` prove every invariant of
`AggregateHistory`: `TypeOK`, `LegalHistory`, `PlacedFirst`, `ReplayIsLive`,
`RecordedOnce` and `ModifiesChange`. The first has what the kinds of aggregates
promise whatever the history: what one more event does to a replay
(`ReplayDefined` and the lemmas on it), and that an event comes back from its
stored form as an event of the same effect. `HistoryInv` then says that a user's
copy is the replay of its trace, a prefix of the history followed by the user's
own pending events, and that each row of a trace and of the history is of an
event that a command emits from what the rows before it lead to. A command
checks only its copy; what carries its guard over to the history is the UNIQUE
index: events are saved only behind the version that was loaded, so at that
moment prefix and history are the same, and a save that failed half way leaves a
copy that can never be saved whole.

`ProjectorProofs` proves every invariant of `Projector` that a run checks, but for
`SameInSomeOrder`.

* `PositionConsistent` and `OwnersKnown`: events reach the projector in any order
  and from the middle of an aggregate's life, so no history can be relied on;
  `ReadInv` gives the states a projected aggregate can be in (`Shape`), and every
  event alone, also as the first one, leads into them.
* `LoadedAsDispatched` and `InvalidationShows`: `LogInv` says that the rows of a
  log are of events of its aggregate and that the loaders give each row the
  effect of its event, in either stored format; induction over the length of the
  log does the rest.
* `TypeOK`: that numbers stay within the events dispatched needs `CountInv`, which
  counts them through the `Cardinality` of the calls still to be made; `JobInv`
  has the shape of a dispatch under way.
* `ProjectionFollowsLog`: `FollowInv` says, for an aggregate whose dispatches did
  not overlap, that at most one is under way, and that log and projection
  differ by exactly what it has still to do.
* `OnlyRefusedMissing`: `CountInv` counts an event for the log when it is
  recorded, refused or still to be appended, and for the projection when it is
  applied or still to be, and the two counts are the same unless a crash
  cleared the projection. `PlacedInv` says that an order is placed at most once, by
  the first event of its life, so the list of an owner depends on which
  events were applied and not on their order.

The only assumption on constants that these proofs add to bounds and types is
`IdleAssumption`: a dispatcher that does nothing is not a dispatch under way.

Each inductive invariant was checked by TLC on the instance of its run before it
was proved. The attempts changed the models in three places. `TypeOK` of
`Projector` did not parse as meant: `SUBSET {..} \ {{}}` is a set of subsets of
the difference, and TLC did not mind. `Replay` and `Cut` are recursive functions
now, whose one-step unfolding can be proved. And the model of `ORDER BY` put
rows with the same text in the order of their ids, which SQLite does not
promise.

### Only model-checked

* `SameInSomeOrder`, whose witness is an order of the rows.
* Liveness: `AppendReturns`, `Settled`, `StopReturns` and the fairness part of
  `PromiseSpec` (`ImplementsAuditLog` is its safety part). The prover has neither
  ENABLED nor a rule for strong fairness.
* `RankMonotone`, that the texts of the outbox's stamps sort like the stamps, is a
  hypothesis of the theorems that need it; `ob_textorder` shows that in UTC it
  can fail within one second. (With an offset it would hold: `EarlierSortsFirst`.)

## 6. Not modelled

* SQLite, the `domain` package, the dispatcher and `makeEventPersister`: outside
  this repository; modelled as far as the code here uses them.
* `MarshalPayload`, the scanning of rows, `AggregateRoot` as an interface, and the
  JSON encoding: pure conversions. Errors of unmarshalling a row are left out:
  nothing in the repository writes such a row.
* `Append` batches that mix aggregates: the aggregates'
  `To...StoredEvents` make batches of one aggregate.
* An id shared by aggregates of two types (`store.go:77`): the ids in use (broker
  order ids, UUIDs, position keys) are of different shapes.
* Reasons, directions, products and the new values of a public `order.modified`
  (which are in no event): copied or absent, no property speaks of them.

